---------------------------- MODULE BuildPipeline ----------------------------
(***************************************************************************)
(* The build pipeline: the watcher that polls the submissions table and    *)
(* spawns one Kubernetes Job per uploaded submission, and the executor     *)
(* that runs in the Job, compiles, publishes the image and writes the      *)
(* verdict.  Every statement on the database, every call to Kubernetes and *)
(* every call to the registry is a step, may fail, and may have taken      *)
(* effect although its caller is told that it failed.                      *)
(***************************************************************************)
EXTENDS Naturals, Sequences, FiniteSets, Artifacts

CONSTANTS Uploads,      \* submissions
          BatchSize,    \* batchSize (10 in the code)
          Uploadable,   \* the artifacts of submissions (module Artifacts)
          Absent        \* "no such row"

VARIABLES row,        \* submissions.status
          arrived,    \* the rows by created_at
          blobs,      \* the registry: the artifact stored for each submission
          batch,      \* the rows the current poll has still to process
          watcher,    \* what the watcher does next: "sleep", "mark", "spawn", "report"
          job,        \* the stage of the Job of each submission
          attempts,   \* history: how often a Job was asked for
          images,     \* the submissions whose image is in the registry
          digests     \* the submissions whose image digest is stored

buildVars == <<batch, watcher, job, attempts, images, digests>>
vars == <<row, arrived, blobs, batch, watcher, job, attempts, images, digests>>

Verdicts == {"BUILT", "BUILD_FAILED", "BUILD_TIMEOUT", "BUILD_PUBLISH_FAILED",
             "BUILD_INFRASTRUCTURE_ERROR"}
Statuses == {"UPLOADED", "BUILDING"} \cup Verdicts

\* What is assumed of the constants: a poll fetches rows, and "no row" is neither a
\* status nor an artifact.
BuildConstants ==
    /\ BatchSize \in Nat \ {0}
    /\ \A a \in Uploadable : IsArtifact(a)
    /\ Absent \notin Statuses /\ Absent \notin Stored(Uploadable)

-----------------------------------------------------------------------------
(* The submission engine stores an artifact, or a part of it, and inserts a row *)
(* for one that it has stored whole and found valid.                            *)

StoreArtifact(s) ==
    /\ row[s] = Absent
    /\ \E a \in Uploadable :
          blobs' = [blobs EXCEPT ![s] = a] \/ blobs' = [blobs EXCEPT ![s] = Truncated(a)]
    /\ UNCHANGED <<row, arrived, batch, watcher, job, attempts, images, digests>>

Arrive(s) ==
    /\ row[s] = Absent
    /\ blobs[s] # Absent /\ Accepted(blobs[s])
    /\ row' = [row EXCEPT ![s] = "UPLOADED"]
    /\ arrived' = Append(arrived, s)
    /\ UNCHANGED <<blobs, buildVars>>

-----------------------------------------------------------------------------
(* The watcher *)

\* SELECT ... WHERE status IN wanted ORDER BY created_at
Rows(wanted) ==
    LET First[n \in 0..Len(arrived)] ==
            IF n = 0 THEN <<>>
            ELSE IF row[arrived[n]] \in wanted THEN Append(First[n - 1], arrived[n])
            ELSE First[n - 1]
    IN First[Len(arrived)]

Uploaded == Rows({"UPLOADED"})

\* The oldest BatchSize rows.
fetchUploaded ==
    IF Len(Uploaded) <= BatchSize THEN Uploaded ELSE SubSeq(Uploaded, 1, BatchSize)

\* The submission being processed is done with.
NextInBatch ==
    /\ batch' = Tail(batch)
    /\ watcher' = IF Len(batch) = 1 THEN "sleep" ELSE "mark"

Poll ==
    /\ watcher = "sleep"
    /\ Uploaded # <<>>
    /\ batch' = fetchUploaded
    /\ watcher' = "mark"
    /\ UNCHANGED <<row, arrived, blobs, job, attempts, images, digests>>

markBuilding ==
    /\ watcher = "mark"
    /\ row' = [row EXCEPT ![Head(batch)] = "BUILDING"]
    /\ watcher' = "spawn"
    /\ UNCHANGED <<arrived, blobs, batch, job, attempts, images, digests>>

\* Mutant of MarkFails: the submission is not skipped.
MarkFailsGoesOn ==
    /\ watcher = "mark"
    /\ watcher' = "spawn"
    /\ UNCHANGED <<row, arrived, blobs, batch, job, attempts, images, digests>>

\* Mutant of MarkFails: the watcher's loop ends on an error.
MarkFailsReturns ==
    /\ watcher = "mark"
    /\ watcher' = "stopped"
    /\ UNCHANGED <<row, arrived, blobs, batch, job, attempts, images, digests>>

\* The UPDATE fails, or its reply is lost: the submission is skipped.
MarkFails ==
    /\ watcher = "mark"
    /\ row' \in {row, [row EXCEPT ![Head(batch)] = "BUILDING"]}
    /\ NextInBatch
    /\ UNCHANGED <<arrived, blobs, job, attempts, images, digests>>

Attempt(s) == attempts' = [attempts EXCEPT ![s] = @ + 1]

\* Jobs.Create succeeds: no Job has the submission's name yet.
SpawnBuildJob ==
    /\ watcher = "spawn"
    /\ job[Head(batch)] = "none"
    /\ job' = [job EXCEPT ![Head(batch)] = "pending"]
    /\ Attempt(Head(batch))
    /\ NextInBatch
    /\ UNCHANGED <<row, arrived, blobs, images, digests>>

\* Jobs.Create returns an error.  The Job may exist all the same.
SpawnFails ==
    LET s == Head(batch) IN
    /\ watcher = "spawn"
    /\ job' \in {job, [job EXCEPT ![s] = IF @ = "none" THEN "pending" ELSE @]}
    /\ Attempt(s)
    /\ watcher' = "report"
    /\ UNCHANGED <<row, arrived, blobs, batch, images, digests>>

ReportSpawnError ==
    /\ watcher = "report"
    /\ row' \in {row, [row EXCEPT ![Head(batch)] = "BUILD_INFRASTRUCTURE_ERROR"]}
    /\ NextInBatch
    /\ UNCHANGED <<arrived, blobs, job, attempts, images, digests>>

\* The process dies and is restarted; the batch was only in its memory.
Crash ==
    /\ watcher # "sleep"
    /\ batch' = <<>>
    /\ watcher' = "sleep"
    /\ UNCHANGED <<row, arrived, blobs, job, attempts, images, digests>>

-----------------------------------------------------------------------------
(* The Job *)

Advance(s, from, to) ==
    /\ job[s] = from
    /\ job' = [job EXCEPT ![s] = to]

\* Kubernetes schedules the Job's pod and the executor starts.
StartPod(s) ==
    /\ Advance(s, "pending", "compile")
    /\ UNCHANGED <<row, arrived, blobs, batch, watcher, attempts, images, digests>>

\* Nothing to build by.
NoManifest(s) ==
    /\ Advance(s, "compile", "BUILD_FAILED")
    /\ DetectManifest(blobs[s]) = "unknown"
    /\ UNCHANGED <<row, arrived, blobs, batch, watcher, attempts, images, digests>>

\* A binary, a failure, or the executor's own timeout.
RunBuild(s) ==
    /\ \E to \in {"publish", "BUILD_FAILED", "BUILD_TIMEOUT"} : Advance(s, "compile", to)
    /\ DetectManifest(blobs[s]) # "unknown"
    /\ UNCHANGED <<row, arrived, blobs, batch, watcher, attempts, images, digests>>

\* Every buildah step and the push succeed.
Publish(s) ==
    /\ Advance(s, "publish", "store")
    /\ images' = images \cup {s}
    /\ UNCHANGED <<row, arrived, blobs, batch, watcher, attempts, digests>>

\* Mutant of PublishFails: the error is logged only.
PublishFailsIgnored(s) ==
    /\ Advance(s, "publish", "store")
    /\ UNCHANGED <<row, arrived, blobs, batch, watcher, attempts, images, digests>>

\* One of them fails (a push that failed may have stored the image).
PublishFails(s) ==
    /\ Advance(s, "publish", "BUILD_PUBLISH_FAILED")
    /\ images' \in {images, images \cup {s}}
    /\ UNCHANGED <<row, arrived, blobs, batch, watcher, attempts, digests>>

\* A failure to store the digest is logged only.
StoreImageDigest(s) ==
    /\ Advance(s, "store", "BUILT")
    /\ digests' \in {digests, digests \cup {s}}
    /\ UNCHANGED <<row, arrived, blobs, batch, watcher, attempts, images>>

\* Mutant of WriteVerdict: an UPDATE that is reported as failed is tried again.
WriteVerdictAgain(s) ==
    /\ job[s] \in Verdicts
    /\ row' \in {row, [row EXCEPT ![s] = job[s]]}
    /\ job' \in {job, [job EXCEPT ![s] = "ended"]}
    /\ UNCHANGED <<arrived, blobs, batch, watcher, attempts, images, digests>>

\* The verdict is written, once; if the UPDATE fails it is not tried again.
WriteVerdict(s) ==
    /\ job[s] \in Verdicts
    /\ row' \in {row, [row EXCEPT ![s] = job[s]]}
    /\ job' = [job EXCEPT ![s] = "ended"]
    /\ UNCHANGED <<arrived, blobs, batch, watcher, attempts, images, digests>>

\* Kubernetes kills the pod: activeDeadlineSeconds, eviction, a lost node.
KillJob(s) ==
    /\ job[s] \notin {"none", "ended"}
    /\ job' = [job EXCEPT ![s] = "ended"]
    /\ UNCHANGED <<row, arrived, blobs, batch, watcher, attempts, images, digests>>

-----------------------------------------------------------------------------
Init ==
    /\ row = [s \in Uploads |-> Absent]
    /\ arrived = <<>>
    /\ blobs = [s \in Uploads |-> Absent]
    /\ batch = <<>>
    /\ watcher = "sleep"
    /\ job = [s \in Uploads |-> "none"]
    /\ attempts = [s \in Uploads |-> 0]
    /\ images = {}
    /\ digests = {}

Watch ==
    \/ Poll \/ markBuilding \/ MarkFails
    \/ SpawnBuildJob \/ SpawnFails \/ ReportSpawnError

Execute(s) ==
    NoManifest(s) \/ RunBuild(s) \/ Publish(s) \/ PublishFails(s) \/ StoreImageDigest(s) \/ WriteVerdict(s)

\* The steps of the pipeline itself.
Work ==
    \/ Watch \/ Crash
    \/ \E s \in Uploads : StartPod(s) \/ Execute(s) \/ KillJob(s)

Next == Work \/ \E s \in Uploads : StoreArtifact(s) \/ Arrive(s)

Spec == Init /\ [][Next]_vars

\* The ticker keeps firing, the database does not fail for ever, a watcher that
\* is up goes on, and a pod that runs goes on.  Nothing obliges Kubernetes to
\* start a pod.
Fairness ==
    /\ WF_vars(Poll)
    /\ SF_vars(markBuilding)
    /\ WF_vars(Watch)
    /\ \A s \in Uploads : WF_vars(Execute(s)) /\ WF_vars(KillJob(s))

FairSpec == Spec /\ Fairness

-----------------------------------------------------------------------------
(* Properties *)

\* Types of the table, the watcher and the jobs.
TypeOK ==
    /\ row \in [Uploads -> Statuses \cup {Absent}]
    /\ arrived \in Seq(Uploads)
    /\ batch \in Seq(Uploads)
    /\ watcher \in {"sleep", "mark", "spawn", "report"}
    /\ watcher # "sleep" => batch # <<>>
    /\ job \in [Uploads -> {"none", "pending", "compile", "publish", "store", "ended"} \cup Verdicts]
    /\ attempts \in [Uploads -> Nat]
    /\ images \subseteq Uploads
    /\ digests \subseteq images
    /\ \A s \in Uploads : row[s] # Absent => blobs[s] # Absent

Rank(status) ==
    CASE status = Absent -> 0
      [] status = "UPLOADED" -> 1
      [] status = "BUILDING" -> 2
      [] OTHER -> 3

\* Nobody is left that would write the status of s: its Job has ended, and the
\* current poll is done with it.
Settled(s) == job[s] = "ended" /\ \A i \in DOMAIN batch : batch[i] # s

\* The status of a submission goes from UPLOADED over BUILDING to a verdict, never
\* back, whenever its row was fetched (watcher.go:69-77).  A verdict is replaced by
\* another only when Jobs.Create took effect although it returned an error: the
\* watcher's BUILD_INFRASTRUCTURE_ERROR (job_spawner.go:115) and the verdict of the
\* Job replace one another, in the order of their UPDATEs, and then it is settled.
StatusSettles ==
    [][\A s \in Uploads : row'[s] # row[s] =>
          /\ ~Settled(s)
          /\ \/ Rank(row'[s]) > Rank(row[s])
             \/ /\ {row[s], row'[s]} \subseteq Verdicts
                /\ "BUILD_INFRASTRUCTURE_ERROR" \in {row[s], row'[s]}
                /\ Settled(s)']_vars

\* No submission is asked to be built twice, through failed updates, lost
\* replies and restarts of the watcher ("preventing duplicate Jobs").
SpawnedOnce == \A s \in Uploads : attempts[s] <= 1

\* A submission shown as BUILT has its image in the registry.
BuiltHasImage == \A s \in Uploads : row[s] = "BUILT" => s \in images

\* What is shown as BUILT was compiled from the artifact its contestant vouched for
\* with a checksum, whole, by a manifest that lies at its root: validator and
\* executor, which look for manifests by rules of their own (artifact.go:70,
\* manifest.go:30), let nothing else through.
BuiltFromManifest ==
    \A s \in Uploads : row[s] = "BUILT" =>
        /\ blobs[s].checksumOk /\ ~blobs[s].tooLarge
        /\ \E e \in blobs[s].entries : e.path[1] \in rootManifests
        /\ \E e \in blobs[s].entries : e.path[Len(e.path)] \in rootManifests /\ ~e.dir

\* Every uploaded submission is picked up.
PickedUp == \A s \in Uploads : row[s] = "UPLOADED" ~> row[s] # "UPLOADED"
=============================================================================
