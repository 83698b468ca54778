------------------------------ MODULE UploadGate ------------------------------
(***************************************************************************)
(* The upload handler of the submission engine: the rolling-window rate    *)
(* limit in Redis, validation, the push to the artifact registry and the   *)
(* insertion of the submission, one external call per step.  Requests are  *)
(* served concurrently.                                                    *)
(***************************************************************************)
EXTENDS Integers, Sequences, FiniteSets, Artifacts

CONSTANTS Uploads,       \* upload requests, and the submissions they create
          Contestants,
          MaxUploads,    \* MaxUploads (5 in the code)
          Window,        \* WindowSecs (3600 in the code)
          MaxDelay,      \* bound on the time from reading the clock to the script
          MaxTime,       \* bound on the clock
          Uploadable,    \* the artifacts uploads may carry (module Artifacts)
          Absent         \* "no such row", "no answer yet"

\* What is assumed of them: limits are numbers, and "nothing" is no artifact, no
\* status of a row and no answer.
GateConstants ==
    /\ MaxUploads \in Nat \ {0}
    /\ Window \in Nat /\ MaxTime \in Nat /\ MaxDelay \in 0..Window
    /\ \A a \in Uploadable : IsArtifact(a)
    /\ Absent \notin Stored(Uploadable) /\ Absent # "UPLOADED" /\ Absent # 201

ASSUME GateAssumption == GateConstants

VARIABLES clock,      \* wall-clock time
          pc,         \* the next step of each request
          owner,      \* the authenticated contestant of each request
          stamp,      \* the `now` the request read before it ran the script
          answer,     \* the HTTP status it was answered with
          slots,      \* rate_limit:{contestant}: entries [time, member]
          expires,    \* when that key expires (EXPIRE)
          granted,    \* history: the requests Allow let through
          artifact,   \* the artifact of each request that was found valid
          blobs,      \* the registry: what is stored under each request id
          row,        \* submissions.status
          arrived     \* the rows of submissions by created_at

gateVars == <<clock, pc, owner, stamp, answer, slots, expires, granted, artifact, blobs>>
vars == <<clock, pc, owner, stamp, answer, slots, expires, granted, artifact, blobs, row, arrived>>

Answer(u, code) ==
    /\ pc' = [pc EXCEPT ![u] = "done"]
    /\ answer' = [answer EXCEPT ![u] = code]

Goto(u, next) ==
    /\ pc' = [pc EXCEPT ![u] = next]
    /\ UNCHANGED answer

-----------------------------------------------------------------------------
(* Allow *)

\* A request reaches the handler, and Allow reads the clock.
Receive(u, c) ==
    /\ pc[u] = "new"
    /\ Goto(u, "limit")
    /\ owner' = [owner EXCEPT ![u] = c]
    /\ stamp' = [stamp EXCEPT ![u] = clock]
    /\ UNCHANGED <<clock, slots, expires, granted, artifact, blobs, row, arrived>>

\* The entries the script counts for u, which it prunes by the time u read.
Kept(u) ==
    LET c == owner[u] IN
    {e \in slots[c] : clock <= expires[c] /\ e.time >= stamp[u] - Window}

\* Mutant of Record: the member is not unique.
RecordSameMember(u) ==
    /\ Cardinality(Kept(u)) < MaxUploads
    /\ slots' = [slots EXCEPT ![owner[u]] =
                    Kept(u) \cup {[time |-> stamp[u], member |-> owner[u]]}]
    /\ expires' = [expires EXCEPT ![owner[u]] = clock + Window]

\* The script has room for u: it records u and renews the key's life.
Record(u) ==
    /\ Cardinality(Kept(u)) < MaxUploads
    /\ slots' = [slots EXCEPT ![owner[u]] =
                    Kept(u) \cup {[time |-> stamp[u], member |-> u]}]
    /\ expires' = [expires EXCEPT ![owner[u]] = clock + Window]

Allow(u) ==
    /\ pc[u] = "limit"
    /\ Record(u)
    /\ granted' = granted \cup {u}
    /\ Goto(u, "validate")
    /\ UNCHANGED <<clock, owner, stamp, artifact, blobs, row, arrived>>

\* 429: the script has no room.  What it pruned stays pruned.
Limit(u) ==
    /\ pc[u] = "limit"
    /\ Cardinality(Kept(u)) >= MaxUploads
    /\ slots' = [slots EXCEPT ![owner[u]] = Kept(u)]
    /\ Answer(u, 429)
    /\ UNCHANGED <<clock, owner, stamp, expires, granted, artifact, blobs, row, arrived>>

\* 500: Redis fails, before the script ran or after it.
LimiterFails(u) ==
    /\ pc[u] = "limit"
    /\ Record(u) \/ UNCHANGED <<slots, expires>>
    /\ Answer(u, 500)
    /\ UNCHANGED <<clock, owner, stamp, granted, artifact, blobs, row, arrived>>

-----------------------------------------------------------------------------
(* The rest of the handler.  The slot of the rate limit is used up whatever *)
(* happens here.                                                            *)

\* 400, 500: the form or its file cannot be read.
BadRequest(u) ==
    /\ pc[u] = "validate"
    /\ \E code \in {400, 500} : Answer(u, code)
    /\ UNCHANGED <<clock, owner, stamp, slots, expires, granted, artifact, blobs, row, arrived>>

Validate(u) ==
    /\ pc[u] = "validate"
    /\ \E a \in Uploadable :
          /\ Accepted(a)
          /\ artifact' = [artifact EXCEPT ![u] = a]
    /\ Goto(u, "push")
    /\ UNCHANGED <<clock, owner, stamp, slots, expires, granted, blobs, row, arrived>>

\* The status each error of ValidateArtifact is answered with.
ErrorStatus == [ErrTooLarge |-> 413, ErrBadFormat |-> 415, ErrBadChecksum |-> 422]

Refuse(u) ==
    /\ pc[u] = "validate"
    /\ \E a \in Uploadable : ~Accepted(a) /\ Answer(u, ErrorStatus[ValidateArtifact(a)])
    /\ UNCHANGED <<clock, owner, stamp, slots, expires, granted, artifact, blobs, row, arrived>>

Store(u, a) == blobs' = [blobs EXCEPT ![u] = a]

\* The artifact is stored although the call fails, or a part of it.
StorePart(u) == Store(u, artifact[u]) \/ Store(u, Truncated(artifact[u]))

\* The artifact is stored under the request id.
Push(u) ==
    /\ pc[u] = "push"
    /\ Store(u, artifact[u])
    /\ Goto(u, "insert")
    /\ UNCHANGED <<clock, owner, stamp, slots, expires, granted, artifact, row, arrived>>

\* Mutant of PushFails: the handler answers 503 and goes on.
PushFailsGoesOn(u) ==
    /\ pc[u] = "push"
    /\ pc' = [pc EXCEPT ![u] = "insert"]
    /\ answer' = [answer EXCEPT ![u] = 503]
    /\ UNCHANGED <<clock, owner, stamp, slots, expires, granted, artifact, blobs, row, arrived>>

\* 503 when the registry is unreachable or times out, or the file cannot be
\* written; 500 on any other answer.
PushFails(u) ==
    /\ pc[u] = "push"
    /\ \/ /\ Answer(u, 503)
          /\ UNCHANGED blobs \/ StorePart(u)
       \/ Answer(u, 500) /\ UNCHANGED blobs
    /\ UNCHANGED <<clock, owner, stamp, slots, expires, granted, artifact, row, arrived>>

\* Mutant of InsertRow: the row has a status the watcher does not look for.
InsertRowPending(u) ==
    /\ row' = [row EXCEPT ![u] = "PENDING"]
    /\ arrived' = Append(arrived, u)

InsertRow(u) ==
    /\ row' = [row EXCEPT ![u] = "UPLOADED"]
    /\ arrived' = Append(arrived, u)

InsertSubmission(u) ==
    /\ pc[u] = "insert"
    /\ InsertRow(u)
    /\ Answer(u, 201)
    /\ UNCHANGED <<clock, owner, stamp, slots, expires, granted, artifact, blobs>>

\* 500: the INSERT fails, or its reply is lost.  The blob stays in the registry.
InsertFails(u) ==
    /\ pc[u] = "insert"
    /\ InsertRow(u) \/ UNCHANGED <<row, arrived>>
    /\ Answer(u, 500)
    /\ UNCHANGED <<clock, owner, stamp, slots, expires, granted, artifact, blobs>>

\* The engine dies, between two steps or while the artifact is being stored or the
\* row inserted: the request is never answered.
Die(u) ==
    /\ pc[u] \notin {"new", "done"}
    /\ pc' = [pc EXCEPT ![u] = "done"]
    /\ \/ UNCHANGED <<blobs, row, arrived>>
       \/ pc[u] = "push" /\ StorePart(u) /\ UNCHANGED <<row, arrived>>
       \/ pc[u] = "insert" /\ InsertRow(u) /\ UNCHANGED blobs
    /\ UNCHANGED <<clock, owner, stamp, answer, slots, expires, granted, artifact>>

-----------------------------------------------------------------------------
\* Time passes, but not beyond MaxDelay between a request's reading the clock
\* and its script.
Tick ==
    /\ clock < MaxTime
    /\ \A u \in Uploads : pc[u] = "limit" => clock - stamp[u] < MaxDelay
    /\ clock' = clock + 1
    /\ UNCHANGED <<pc, owner, stamp, answer, slots, expires, granted, artifact, blobs, row, arrived>>

Init ==
    /\ clock = 0
    /\ pc = [u \in Uploads |-> "new"]
    /\ owner = [u \in Uploads |-> Absent]
    /\ stamp = [u \in Uploads |-> 0]
    /\ answer = [u \in Uploads |-> Absent]
    /\ slots = [c \in Contestants |-> {}]
    /\ expires = [c \in Contestants |-> 0]
    /\ granted = {}
    /\ artifact = [u \in Uploads |-> Absent]
    /\ blobs = [u \in Uploads |-> Absent]
    /\ row = [u \in Uploads |-> Absent]
    /\ arrived = <<>>

Handle(u) ==
    \/ \E c \in Contestants : Receive(u, c)
    \/ Allow(u) \/ Limit(u) \/ LimiterFails(u)
    \/ BadRequest(u) \/ Validate(u) \/ Refuse(u)
    \/ Push(u) \/ PushFails(u)
    \/ InsertSubmission(u) \/ InsertFails(u)
    \/ Die(u)

Next == Tick \/ \E u \in Uploads : Handle(u)

Spec == Init /\ [][Next]_vars

-----------------------------------------------------------------------------
(* Properties *)

\* Types.  The entries of a key are those of its contestant's requests, with
\* the time each read, and only requests that were let through push artifacts.
\* (A row's status is the build pipeline's to change.)
TypeOK ==
    /\ clock \in 0..MaxTime
    /\ pc \in [Uploads -> {"new", "limit", "validate", "push", "insert", "done"}]
    /\ owner \in [Uploads -> Contestants \cup {Absent}]
    /\ \A u \in Uploads : pc[u] # "new" => owner[u] \in Contestants /\ stamp[u] \in 0..clock
    /\ answer \in [Uploads -> {Absent, 201, 400, 413, 415, 422, 429, 500, 503}]
    /\ \A c \in Contestants : \A e \in slots[c] :
          /\ e.member \in Uploads
          /\ owner[e.member] = c /\ stamp[e.member] = e.time
    /\ \A c \in Contestants : expires[c] \in 0..(clock + Window)
    /\ granted \subseteq Uploads
    /\ \A u \in Uploads : artifact[u] # Absent => u \in granted /\ Accepted(artifact[u])
    /\ \A u \in Uploads : blobs[u] \in {Absent, artifact[u]} \/ blobs[u] = Truncated(artifact[u])
    /\ DOMAIN row = Uploads
    /\ arrived \in Seq(Uploads)

\* However many requests of a contestant race, and however late their scripts
\* run after they read the clock, no window lets more than MaxUploads through.
\* (A window is shortened by the delay: a late script prunes by its own time,
\* but others have pruned by later ones.)
RollingWindow ==
    \A c \in Contestants : \A u \in granted :
        Cardinality({v \in granted : /\ owner[v] = c
                                     /\ stamp[v] \in stamp[u]..(stamp[u] + Window - MaxDelay)})
            <= MaxUploads

\* What the contestant was told agrees with what was kept: 201 only for a row
\* whose whole artifact is in the registry, and no row for a request that was
\* refused (Requirement 1.10: no submission id without a stored artifact).
AnswersAreTrue ==
    \A u \in Uploads :
        /\ answer[u] = 201 => row[u] # Absent
        /\ row[u] # Absent => /\ blobs[u] # Absent /\ blobs[u] = artifact[u]
                              /\ u \in granted
                              /\ answer[u] \in {201, 500, Absent}
=============================================================================
