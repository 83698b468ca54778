-------------------------- MODULE SubmissionPipeline --------------------------
(***************************************************************************)
(* Submission engine and build pipeline together: they share nothing but   *)
(* the submissions table (and the registry).                               *)
(***************************************************************************)
EXTENDS Naturals, Sequences

CONSTANTS Uploads, Contestants, MaxUploads, Window, MaxDelay, MaxTime, BatchSize,
          Uploadable, Absent

VARIABLES clock, pc, owner, stamp, answer, slots, expires, granted, artifact, blobs,
          row, arrived,
          batch, watcher, job, attempts, images, digests

Gate == INSTANCE UploadGate
Build == INSTANCE BuildPipeline

ASSUME PipelineAssumption == Gate!GateConstants /\ Build!BuildConstants

vars == <<clock, pc, owner, stamp, answer, slots, expires, granted, artifact, blobs,
          row, arrived, batch, watcher, job, attempts, images, digests>>

Init == Gate!Init /\ Build!Init

Next ==
    \/ Gate!Next /\ UNCHANGED <<batch, watcher, job, attempts, images, digests>>
    \/ /\ Build!Work
       /\ UNCHANGED <<clock, pc, owner, stamp, answer, slots, expires, granted, artifact>>

\* The fairness of the pipeline only: requests may be left half done.
Spec ==
    /\ Init
    /\ [][Next]_vars
    /\ Build!Fairness

-----------------------------------------------------------------------------
(* Properties of the two together *)

\* The types of both parts: neither puts anything unexpected into the table they share.
TypeOK == Gate!TypeOK /\ Build!TypeOK

\* What BuildPipeline promises for rows that arrive by themselves (watcher.go,
\* executor.go) holds when the upload handler inserts them, and while it does.
StatusSettles == Build!StatusSettles
SpawnedOnce == Build!SpawnedOnce
BuiltFromManifest == Build!BuiltFromManifest
BuildsConsistent == TypeOK /\ SpawnedOnce
BuiltHasImage == Build!BuiltHasImage
PickedUp == Build!PickedUp

\* The handler inserts rows the way the pipeline assumes.
ImplementsBuildPipeline == Build!Spec
=============================================================================
