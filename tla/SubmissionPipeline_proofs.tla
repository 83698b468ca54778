------------------------ MODULE SubmissionPipeline_proofs ------------------------
(***************************************************************************)
(* Submission engine and build pipeline together: the handler inserts rows *)
(* the way the pipeline assumes, and the pipeline disturbs no request that *)
(* is being served, so that each keeps the invariant proved of it alone.   *)
(***************************************************************************)
EXTENDS SubmissionPipeline, TLAPS

GateProofs == INSTANCE UploadGate_proofs
BuildProofs == INSTANCE BuildPipeline_proofs

\* What is proved of each part holds for the parts as they are here.
BothSafe == GateProofs!SafetyInv /\ BuildProofs!SafetyInv

-----------------------------------------------------------------------------
(* The two parts are the ones the proofs are about *)

\* The validator is the same.
LEMMA SameArtifacts ==
    ASSUME NEW a
    PROVE  /\ Gate!Truncated(a) = GateProofs!Truncated(a)
           /\ Gate!IsArtifact(a) <=> GateProofs!IsArtifact(a)
           /\ Gate!Accepted(a) <=> GateProofs!Accepted(a)
           /\ Gate!ErrorStatus = GateProofs!ErrorStatus
           /\ Gate!ValidateArtifact(a) = GateProofs!ValidateArtifact(a)
BY DEF Gate!Accepted, GateProofs!Accepted, Gate!Truncated, GateProofs!Truncated,
       Gate!ErrorStatus, GateProofs!ErrorStatus, Gate!IsArtifact, GateProofs!IsArtifact,
       Gate!Magics, GateProofs!Magics, Gate!ValidateArtifact, GateProofs!ValidateArtifact,
       Gate!DetectFormat, GateProofs!DetectFormat,
       Gate!archiveHasRootManifest, GateProofs!archiveHasRootManifest,
       Gate!isRootManifest, GateProofs!isRootManifest, Gate!rootManifests, GateProofs!rootManifests

\* The rate limit is the same.
LEMMA SameLimit ==
    ASSUME NEW u
    PROVE  /\ \A c : Gate!Receive(u, c) <=> GateProofs!Receive(u, c)
           /\ Gate!Allow(u) <=> GateProofs!Allow(u)
           /\ Gate!Limit(u) <=> GateProofs!Limit(u)
           /\ Gate!LimiterFails(u) <=> GateProofs!LimiterFails(u)
<1> USE DEF Gate!Goto, GateProofs!Goto, Gate!Answer, GateProofs!Answer
<1>1. /\ Gate!Kept(u) = GateProofs!Kept(u)
      /\ Gate!Cardinality(Gate!Kept(u)) = GateProofs!Cardinality(GateProofs!Kept(u))
  BY DEF Gate!Kept, GateProofs!Kept, Gate!Cardinality, GateProofs!Cardinality
<1>2. Gate!Record(u) <=> GateProofs!Record(u)
  BY <1>1 DEF Gate!Record, GateProofs!Record
<1>3. \A c : Gate!Receive(u, c) <=> GateProofs!Receive(u, c)
  BY DEF Gate!Receive, GateProofs!Receive
<1>4. Gate!Allow(u) <=> GateProofs!Allow(u)
  BY <1>2 DEF Gate!Allow, GateProofs!Allow
<1>5. Gate!Limit(u) <=> GateProofs!Limit(u)
  BY <1>1 DEF Gate!Limit, GateProofs!Limit
<1>6. Gate!LimiterFails(u) <=> GateProofs!LimiterFails(u)
  BY <1>2 DEF Gate!LimiterFails, GateProofs!LimiterFails
<1>7. QED
  BY <1>3, <1>4, <1>5, <1>6

\* The rest of the handler is the same.
LEMMA SameHandler ==
    ASSUME NEW u
    PROVE  /\ Gate!BadRequest(u) <=> GateProofs!BadRequest(u)
           /\ Gate!Validate(u) <=> GateProofs!Validate(u)
           /\ Gate!Refuse(u) <=> GateProofs!Refuse(u)
           /\ Gate!Push(u) <=> GateProofs!Push(u)
           /\ Gate!PushFails(u) <=> GateProofs!PushFails(u)
           /\ Gate!InsertSubmission(u) <=> GateProofs!InsertSubmission(u)
           /\ Gate!InsertFails(u) <=> GateProofs!InsertFails(u)
           /\ Gate!Die(u) <=> GateProofs!Die(u)
BY SameArtifacts
   DEF Gate!Goto, GateProofs!Goto, Gate!Answer, GateProofs!Answer,
       Gate!BadRequest, GateProofs!BadRequest, Gate!Validate, GateProofs!Validate,
       Gate!Refuse, GateProofs!Refuse, Gate!Store, GateProofs!Store,
       Gate!StorePart, GateProofs!StorePart, Gate!Push, GateProofs!Push,
       Gate!PushFails, GateProofs!PushFails, Gate!InsertRow, GateProofs!InsertRow,
       Gate!InsertSubmission, GateProofs!InsertSubmission,
       Gate!InsertFails, GateProofs!InsertFails, Gate!Die, GateProofs!Die

\* So the handler is.
LEMMA SameGate ==
    /\ Gate!Init <=> GateProofs!Init
    /\ Gate!Next <=> GateProofs!Next
    /\ UNCHANGED Gate!vars <=> UNCHANGED GateProofs!vars
    /\ Gate!TypeOK <=> GateProofs!TypeOK
<1>1. Gate!Init <=> GateProofs!Init
  BY DEF Gate!Init, GateProofs!Init
<1>2. \A u : Gate!Handle(u) <=> GateProofs!Handle(u)
  BY SameLimit, SameHandler DEF Gate!Handle, GateProofs!Handle
<1>3. Gate!Tick <=> GateProofs!Tick
  BY DEF Gate!Tick, GateProofs!Tick
<1>4. UNCHANGED Gate!vars <=> UNCHANGED GateProofs!vars
  BY DEF Gate!vars, GateProofs!vars
<1>5. Gate!TypeOK <=> GateProofs!TypeOK
  BY SameArtifacts DEF Gate!TypeOK, GateProofs!TypeOK
<1>6. QED
  BY <1>1, <1>2, <1>3, <1>4, <1>5 DEF Gate!Next, GateProofs!Next

\* The watcher is the same.
LEMMA SameWatch == (Build!Watch <=> BuildProofs!Watch) /\ (Build!Crash <=> BuildProofs!Crash)
<1> USE DEF Build!NextInBatch, BuildProofs!NextInBatch, Build!Attempt, BuildProofs!Attempt
<1>1. \A wanted : Build!Rows(wanted) = BuildProofs!Rows(wanted)
  BY DEF Build!Rows, BuildProofs!Rows
<1>2. Build!Poll <=> BuildProofs!Poll
  BY <1>1 DEF Build!Poll, BuildProofs!Poll, Build!Uploaded, BuildProofs!Uploaded,
              Build!fetchUploaded, BuildProofs!fetchUploaded
<1>3. Build!markBuilding <=> BuildProofs!markBuilding
  BY DEF Build!markBuilding, BuildProofs!markBuilding
<1>4. Build!MarkFails <=> BuildProofs!MarkFails
  BY DEF Build!MarkFails, BuildProofs!MarkFails
<1>5. Build!SpawnBuildJob <=> BuildProofs!SpawnBuildJob
  BY DEF Build!SpawnBuildJob, BuildProofs!SpawnBuildJob
<1>6. Build!SpawnFails <=> BuildProofs!SpawnFails
  BY DEF Build!SpawnFails, BuildProofs!SpawnFails
<1>7. Build!ReportSpawnError <=> BuildProofs!ReportSpawnError
  BY DEF Build!ReportSpawnError, BuildProofs!ReportSpawnError
<1>8. Build!Crash <=> BuildProofs!Crash
  BY DEF Build!Crash, BuildProofs!Crash
<1>9. QED
  BY <1>2, <1>3, <1>4, <1>5, <1>6, <1>7, <1>8 DEF Build!Watch, BuildProofs!Watch

\* The Job is the same.
LEMMA SameJob ==
    ASSUME NEW s
    PROVE  /\ Build!StartPod(s) <=> BuildProofs!StartPod(s)
           /\ Build!Execute(s) <=> BuildProofs!Execute(s)
           /\ Build!KillJob(s) <=> BuildProofs!KillJob(s)
<1> USE DEF Build!Advance, BuildProofs!Advance
<1>1. \A a : Build!DetectManifest(a) = BuildProofs!DetectManifest(a)
  BY DEF Build!DetectManifest, BuildProofs!DetectManifest, Build!listRootFiles,
         BuildProofs!listRootFiles, Build!rootManifests, BuildProofs!rootManifests
<1>2. Build!NoManifest(s) <=> BuildProofs!NoManifest(s)
  BY <1>1 DEF Build!NoManifest, BuildProofs!NoManifest
<1>3. Build!RunBuild(s) <=> BuildProofs!RunBuild(s)
  BY <1>1 DEF Build!RunBuild, BuildProofs!RunBuild
<1>4. /\ Build!Publish(s) <=> BuildProofs!Publish(s)
      /\ Build!PublishFails(s) <=> BuildProofs!PublishFails(s)
      /\ Build!StoreImageDigest(s) <=> BuildProofs!StoreImageDigest(s)
  BY DEF Build!Publish, BuildProofs!Publish, Build!PublishFails, BuildProofs!PublishFails,
         Build!StoreImageDigest, BuildProofs!StoreImageDigest
<1>5. Build!WriteVerdict(s) <=> BuildProofs!WriteVerdict(s)
  BY DEF Build!WriteVerdict, BuildProofs!WriteVerdict, Build!Verdicts, BuildProofs!Verdicts
<1>6. /\ Build!StartPod(s) <=> BuildProofs!StartPod(s)
      /\ Build!KillJob(s) <=> BuildProofs!KillJob(s)
  BY DEF Build!StartPod, BuildProofs!StartPod, Build!KillJob, BuildProofs!KillJob
<1>7. QED
  BY <1>2, <1>3, <1>4, <1>5, <1>6 DEF Build!Execute, BuildProofs!Execute

\* So the pipeline is.
LEMMA SameBuild ==
    /\ Build!Init <=> BuildProofs!Init
    /\ Build!Work <=> BuildProofs!Work
    /\ Build!Next <=> BuildProofs!Next
    /\ UNCHANGED Build!vars <=> UNCHANGED BuildProofs!vars
<1>1. Build!Init <=> BuildProofs!Init
  BY DEF Build!Init, BuildProofs!Init
<1>2. Build!Work <=> BuildProofs!Work
  BY SameWatch, SameJob DEF Build!Work, BuildProofs!Work
<1>3. \A a : /\ Build!Truncated(a) = BuildProofs!Truncated(a)
             /\ Build!Accepted(a) <=> BuildProofs!Accepted(a)
  BY DEF Build!Accepted, BuildProofs!Accepted, Build!Truncated, BuildProofs!Truncated,
         Build!ValidateArtifact, BuildProofs!ValidateArtifact,
         Build!DetectFormat, BuildProofs!DetectFormat,
         Build!archiveHasRootManifest, BuildProofs!archiveHasRootManifest,
         Build!isRootManifest, BuildProofs!isRootManifest,
         Build!rootManifests, BuildProofs!rootManifests
<1>4. \A s : /\ Build!StoreArtifact(s) <=> BuildProofs!StoreArtifact(s)
             /\ Build!Arrive(s) <=> BuildProofs!Arrive(s)
  BY <1>3 DEF Build!StoreArtifact, BuildProofs!StoreArtifact, Build!Arrive, BuildProofs!Arrive,
              Build!buildVars, BuildProofs!buildVars
<1>5. UNCHANGED Build!vars <=> UNCHANGED BuildProofs!vars
  BY DEF Build!vars, BuildProofs!vars
<1>6. QED
  BY <1>1, <1>2, <1>4, <1>5 DEF Build!Next, BuildProofs!Next

\* And so are its properties.
LEMMA SameProperties ==
    /\ Build!TypeOK <=> BuildProofs!TypeOK
    /\ Build!SpawnedOnce <=> BuildProofs!SpawnedOnce
    /\ Build!BuiltHasImage <=> BuildProofs!BuiltHasImage
    /\ Build!BuiltFromManifest <=> BuildProofs!BuiltFromManifest
    /\ \A status : Build!Rank(status) = BuildProofs!Rank(status)
<1>1. Build!TypeOK <=> BuildProofs!TypeOK
  BY DEF Build!TypeOK, BuildProofs!TypeOK, Build!Statuses, BuildProofs!Statuses,
         Build!Verdicts, BuildProofs!Verdicts
<1>2. /\ Build!SpawnedOnce <=> BuildProofs!SpawnedOnce
      /\ Build!BuiltHasImage <=> BuildProofs!BuiltHasImage
      /\ Build!BuiltFromManifest <=> BuildProofs!BuiltFromManifest
  BY DEF Build!SpawnedOnce, BuildProofs!SpawnedOnce, Build!BuiltHasImage,
         BuildProofs!BuiltHasImage, Build!BuiltFromManifest, BuildProofs!BuiltFromManifest,
         Build!rootManifests, BuildProofs!rootManifests
<1>3. \A status : Build!Rank(status) = BuildProofs!Rank(status)
  BY DEF Build!Rank, BuildProofs!Rank
<1>4. QED
  BY <1>1, <1>2, <1>3

\* What is assumed of the constants is what each part's proofs assume.
LEMMA Constants == GateProofs!GateConstants /\ BuildProofs!BuildConstants
BY PipelineAssumption
   DEF Gate!GateConstants, GateProofs!GateConstants, Gate!IsArtifact, GateProofs!IsArtifact,
       Gate!Magics, GateProofs!Magics, Gate!Stored, GateProofs!Stored,
       Gate!Truncated, GateProofs!Truncated,
       Build!BuildConstants, BuildProofs!BuildConstants, Build!IsArtifact, BuildProofs!IsArtifact,
       Build!Magics, BuildProofs!Magics, Build!Stored, BuildProofs!Stored,
       Build!Truncated, BuildProofs!Truncated, Build!Statuses, BuildProofs!Statuses,
       Build!Verdicts, BuildProofs!Verdicts

-----------------------------------------------------------------------------
(* Refinement *)

\* Every step is one of the pipeline on its own, where rows arrive by themselves, or
\* changes nothing that the pipeline knows of: the handler stores artifacts only for
\* requests without a row, and inserts a row only for an artifact that is accepted and
\* stored whole.
LEMMA StepImplementsBuild ==
    ASSUME GateProofs!SafetyInv, [Next]_vars
    PROVE  [Build!Next]_Build!vars
<1>1. CASE Gate!Next /\ UNCHANGED <<batch, watcher, job, attempts, images, digests>>
  <2>1. \/ UNCHANGED <<row, arrived, blobs>>
        \/ \E u \in Uploads : GateProofs!Stores(u) \/ GateProofs!Inserts(u)
    BY <1>1, SameGate, Constants, GateProofs!SeenOutside
  <2>2. CASE UNCHANGED <<row, arrived, blobs>>
    BY <1>1, <2>2 DEF Build!vars
  <2>3. ASSUME NEW u \in Uploads, GateProofs!Stores(u)
        PROVE  Build!StoreArtifact(u)
    BY <1>1, <2>3 DEF GateProofs!Stores, Build!StoreArtifact, GateProofs!Truncated, Build!Truncated
  <2>4. ASSUME NEW u \in Uploads, GateProofs!Inserts(u)
        PROVE  Build!Arrive(u)
    <3>1. GateProofs!Accepted(blobs[u]) <=> Build!Accepted(blobs[u])
      BY DEF GateProofs!Accepted, Build!Accepted, GateProofs!ValidateArtifact,
             Build!ValidateArtifact, GateProofs!DetectFormat, Build!DetectFormat,
             GateProofs!archiveHasRootManifest, Build!archiveHasRootManifest,
             GateProofs!isRootManifest, Build!isRootManifest,
             GateProofs!rootManifests, Build!rootManifests
    <3>2. QED
      BY <1>1, <2>4, <3>1 DEF GateProofs!Inserts, GateProofs!InsertRow, Build!Arrive, Build!buildVars
  <2>5. QED
    BY <2>1, <2>2, <2>3, <2>4 DEF Build!Next
<1>2. CASE Build!Work
  BY <1>2 DEF Build!Next
<1>3. CASE UNCHANGED vars
  BY <1>3 DEF vars, Build!vars
<1>4. QED
  BY <1>1, <1>2, <1>3 DEF Next

\* Both invariants hold together: the pipeline needs the handler's to know how rows
\* arrive, the handler the pipeline's to know that no row comes or goes.
LEMMA InitBothSafe == Init => BothSafe
<1>1. Init => GateProofs!SafetyInv
  BY SameGate, Constants, GateProofs!InitSafe DEF Init
<1>2. Init => BuildProofs!SafetyInv
  BY SameBuild, Constants, BuildProofs!InitSafe DEF Init
<1>3. QED
  BY <1>1, <1>2 DEF BothSafe

\* A step of either part keeps both.
LEMMA NextBothSafe == BothSafe /\ [Next]_vars => BothSafe'
<1> SUFFICES ASSUME BothSafe, [Next]_vars
             PROVE  BothSafe'
  OBVIOUS
<1>1. GateProofs!SafetyInv /\ BuildProofs!SafetyInv
  BY DEF BothSafe
<1>2. BuildProofs!SafetyInv'
  <2>1. [BuildProofs!Next]_BuildProofs!vars
    BY <1>1, StepImplementsBuild, SameBuild
  <2>2. QED
    BY <1>1, <2>1, Constants, BuildProofs!NextSafe
<1>3. GateProofs!SafetyInv'
  <2>1. CASE Gate!Next
    BY <1>1, <2>1, SameGate, Constants, GateProofs!NextSafe
  <2>2. CASE /\ Build!Work
             /\ UNCHANGED <<clock, pc, owner, stamp, answer, slots, expires, granted, artifact>>
    <3>1. /\ UNCHANGED <<arrived, blobs>> /\ DOMAIN row' = Uploads
          /\ \A u \in Uploads : row'[u] = Absent <=> row[u] = Absent
      BY <1>1, <2>2, SameBuild, Constants, BuildProofs!WorkKeepsRows
    <3>2. UNCHANGED <<GateProofs!gateVars, arrived>>
      BY <2>2, <3>1 DEF GateProofs!gateVars
    <3>3. QED
      BY <1>1, <3>1, <3>2, Constants, GateProofs!RowsMayMove
  <2>3. CASE UNCHANGED vars
    <3>1. UNCHANGED GateProofs!vars
      BY <2>3 DEF vars, GateProofs!vars
    <3>2. QED
      BY <1>1, <3>1, Constants, GateProofs!NextSafe
  <2>4. QED
    BY <2>1, <2>2, <2>3 DEF Next
<1>4. QED
  BY <1>2, <1>3 DEF BothSafe

-----------------------------------------------------------------------------
(* The theorems *)

\* The invariant of submission engine and build pipeline together.
THEOREM AlwaysSafe == Spec => []BothSafe
BY InitBothSafe, NextBothSafe, PTL DEF Spec

\* The upload handler (storage/repository.go, and the steps before it) inserts rows the
\* way the build pipeline (watcher.go, executor.go) assumes: whatever is true of the
\* pipeline with rows that arrive by themselves is true of the two together.
THEOREM HandlerFeedsPipeline == Spec => ImplementsBuildPipeline
<1>1. Init => Build!Init
  BY DEF Init
<1>2. BothSafe /\ [Next]_vars => [Build!Next]_Build!vars
  BY StepImplementsBuild DEF BothSafe
<1>3. QED
  BY <1>1, <1>2, AlwaysSafe, PTL DEF Spec, ImplementsBuildPipeline, Build!Spec

\* What BothSafe says of the properties.
LEMMA SafeIsCorrect == BothSafe => BuildsConsistent /\ BuiltHasImage /\ BuiltFromManifest
<1> SUFFICES ASSUME BothSafe
             PROVE  BuildsConsistent /\ BuiltHasImage /\ BuiltFromManifest
  OBVIOUS
<1>1. Gate!TypeOK
  BY SameGate DEF BothSafe, GateProofs!SafetyInv, GateProofs!Types
<1>2. Build!TypeOK /\ Build!SpawnedOnce /\ Build!BuiltHasImage /\ Build!BuiltFromManifest
  BY SameProperties, Constants, BuildProofs!SafeIsCorrect DEF BothSafe
<1>3. QED
  BY <1>1, <1>2 DEF BuildsConsistent, TypeOK, SpawnedOnce, BuiltHasImage, BuiltFromManifest

\* The table holds nothing unexpected for either part, and no submission is asked to be
\* built twice, through failed updates, lost replies and restarts of the watcher.
THEOREM BuildsAlwaysConsistent == Spec => []BuildsConsistent
BY AlwaysSafe, SafeIsCorrect, PTL

\* A submission shown as BUILT has its image in the registry (publisher.go).
THEOREM BuiltAlwaysHasImage == Spec => []BuiltHasImage
BY AlwaysSafe, SafeIsCorrect, PTL

\* And was compiled from what its contestant vouched for, by a manifest at its root,
\* although validator and executor look for manifests by rules of their own.
THEOREM BuiltAlwaysFromManifest == Spec => []BuiltFromManifest
BY AlwaysSafe, SafeIsCorrect, PTL

\* And each verdict is by the one that may give it.
LEMMA VerdictsAlwaysOwned == Spec => []BuildProofs!VerdictsOwned
<1>1. Init => BuildProofs!VerdictsOwned
  BY SameBuild, Constants, BuildProofs!InitOwned DEF Init
<1>2. ASSUME BothSafe, BuildProofs!VerdictsOwned, [Next]_vars
      PROVE  BuildProofs!VerdictsOwned'
  <2>1. [BuildProofs!Next]_BuildProofs!vars
    BY <1>2, StepImplementsBuild, SameBuild DEF BothSafe
  <2>2. QED
    BY <1>2, <2>1, Constants, BuildProofs!NextOwned DEF BothSafe
<1>3. QED
  BY <1>1, <1>2, AlwaysSafe, PTL DEF Spec

\* The status of a submission never goes back, whenever its row was fetched
\* (watcher.go:69-77), and a verdict is replaced at most once: by the watcher's, that
\* Jobs.Create failed (job_spawner.go:115), or by the Job's, that ran all the same.
THEOREM StatusAlwaysSettles == Spec => StatusSettles
<1>1. ASSUME BothSafe, BuildProofs!VerdictsOwned, [Next]_vars
      PROVE  \A s \in Uploads : row'[s] # row[s] =>
                 /\ ~Build!Settled(s)
                 /\ \/ Build!Rank(row'[s]) > Build!Rank(row[s])
                    \/ /\ {row[s], row'[s]} \subseteq Build!Verdicts
                       /\ "BUILD_INFRASTRUCTURE_ERROR" \in {row[s], row'[s]}
                       /\ Build!Settled(s)'
  <2>1. [BuildProofs!Next]_BuildProofs!vars
    BY <1>1, StepImplementsBuild, SameBuild DEF BothSafe
  <2>2. \A s \in Uploads : BuildProofs!Settles(s)
    BY <1>1, <2>1, Constants, BuildProofs!StepSettles DEF BothSafe
  <2>3. ASSUME NEW s \in Uploads
        PROVE  /\ Build!Verdicts = BuildProofs!Verdicts
               /\ Build!Settled(s) <=> BuildProofs!Settled(s)
               /\ Build!Settled(s)' <=> BuildProofs!Settled(s)'
    BY DEF Build!Verdicts, BuildProofs!Verdicts, Build!Settled, BuildProofs!Settled
  <2>4. ASSUME NEW s \in Uploads, row'[s] # row[s]
        PROVE  /\ ~Build!Settled(s)
               /\ \/ Build!Rank(row'[s]) > Build!Rank(row[s])
                  \/ /\ {row[s], row'[s]} \subseteq Build!Verdicts
                     /\ "BUILD_INFRASTRUCTURE_ERROR" \in {row[s], row'[s]}
                     /\ Build!Settled(s)'
    <3>1. /\ Build!Rank(row[s]) = BuildProofs!Rank(row[s])
          /\ Build!Rank(row'[s]) = BuildProofs!Rank(row'[s])
      BY SameProperties
    <3>2. BuildProofs!Settles(s)
      BY <2>2
    <3>3. QED
      BY <2>3, <2>4, <3>1, <3>2 DEF BuildProofs!Settles
  <2>5. QED
    BY <2>4
<1>2. QED
  BY <1>1, AlwaysSafe, VerdictsAlwaysOwned, PTL DEF Spec, StatusSettles, Build!StatusSettles
=============================================================================
