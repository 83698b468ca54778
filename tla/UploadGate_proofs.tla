---------------------------- MODULE UploadGate_proofs ----------------------------
(***************************************************************************)
(* Proofs about UploadGate for every set of requests, contestants and      *)
(* artifacts, every limit, window and delay.                               *)
(***************************************************************************)
EXTENDS UploadGate, FiniteSetTheorems, TLAPS

-----------------------------------------------------------------------------
(* The inductive invariant *)

Entries == [time : Nat, member : Uploads]

Types ==
    /\ TypeOK
    /\ stamp \in [Uploads -> Nat]
    /\ slots \in [Contestants -> SUBSET Entries]
    /\ expires \in [Contestants -> Nat]
    /\ artifact \in [Uploads -> Uploadable \cup {Absent}]
    /\ blobs \in [Uploads -> Stored(Uploadable) \cup {Absent}]

\* What has happened to a request by the time it takes its next step, and what is
\* kept of it when it is over.
Progress(u) ==
    /\ pc[u] \in {"new", "limit"} => u \notin granted
    /\ pc[u] \in {"validate", "push", "insert"} => u \in granted
    /\ pc[u] \in {"push", "insert"} => artifact[u] # Absent
    /\ pc[u] \in {"new", "limit", "validate", "push"} => blobs[u] = Absent
    /\ pc[u] = "insert" => blobs[u] = artifact[u]
    /\ pc[u] # "done" => row[u] = Absent /\ answer[u] = Absent
    /\ answer[u] = 201 => row[u] # Absent
    /\ row[u] # Absent => /\ artifact[u] # Absent /\ blobs[u] = artifact[u]
                          /\ u \in granted
                          /\ answer[u] \in {201, 500, Absent}

EntryOf(u) == [time |-> stamp[u], member |-> u]

\* The key holds every request that was let through and is not older than the
\* window, and lives as long as they are; a request that is about to ask read the
\* clock not long ago.
RecentAreKept ==
    /\ \A c \in Contestants : \A e \in slots[c] :
          /\ pc[e.member] \notin {"new", "limit"}
          /\ e.time + Window <= expires[c]
    /\ \A u \in granted :
          /\ owner[u] \in Contestants
          /\ clock <= stamp[u] + Window => EntryOf(u) \in slots[owner[u]]
    /\ \A u \in Uploads : pc[u] = "limit" => clock <= stamp[u] + MaxDelay

InWindow(c, s) == {v \in granted : owner[v] = c /\ stamp[v] \in s..(s + Window - MaxDelay)}

\* No window lets too many through, wherever it starts.
WindowsBounded ==
    /\ IsFiniteSet(granted)
    /\ \A c \in Contestants : IsFiniteSet(slots[c])
    /\ \A c \in Contestants, s \in 0..MaxTime : Cardinality(InWindow(c, s)) <= MaxUploads

SafetyInv ==
    /\ Types
    /\ \A u \in Uploads : Progress(u)
    /\ RecentAreKept
    /\ WindowsBounded

-----------------------------------------------------------------------------
(* The handler, once the rate limit has spoken *)

Codes == {201, 400, 413, 415, 422, 429, 500, 503}

\* "Nothing" is no artifact, not even a part of one.
LEMMA AbsentFacts ==
    /\ Absent # 201 /\ Absent # "UPLOADED"
    /\ \A a \in Uploadable : a # Absent /\ Truncated(a) # Absent
BY GateAssumption DEF GateConstants, Stored

\* What a step of u's request may do after it was received and without asking Redis:
\* go on or answer, keep the artifact it found valid, store it whole or in part, and
\* insert its row.
Moves(u, next) ==
    /\ pc[u] # "new"
    /\ pc' = [pc EXCEPT ![u] = next]
    /\ answer' = answer \/ \E code \in Codes : answer' = [answer EXCEPT ![u] = code]
    /\ \/ UNCHANGED <<artifact, blobs>>
       \/ \E a \in Uploadable :
             /\ Accepted(a) /\ u \in granted /\ blobs[u] = Absent
             /\ artifact' = [artifact EXCEPT ![u] = a]
             /\ UNCHANGED blobs
       \/ \E b \in {artifact[u], Truncated(artifact[u])} :
             /\ artifact[u] # Absent
             /\ blobs' = [blobs EXCEPT ![u] = b]
             /\ UNCHANGED artifact
    /\ UNCHANGED <<row, arrived>> \/ InsertRow(u)
    /\ UNCHANGED <<clock, owner, stamp, slots, expires, granted>>

\* The table has the row of u, and everything it had.
LEMMA InsertRowFacts ==
    ASSUME DOMAIN row = Uploads, arrived \in Seq(Uploads), NEW u \in Uploads, InsertRow(u)
    PROVE  /\ DOMAIN row' = Uploads /\ arrived' \in Seq(Uploads)
           /\ row'[u] = "UPLOADED"
           /\ \A w \in Uploads \ {u} : row'[w] = row[w]
<1>1. row' = [row EXCEPT ![u] = "UPLOADED"]
  BY DEF InsertRow
<1>2. DOMAIN [row EXCEPT ![u] = "UPLOADED"] = DOMAIN row
  OBVIOUS
<1>3. arrived' \in Seq(Uploads)
  BY DEF InsertRow
<1>4. QED
  BY <1>1, <1>2, <1>3

\* The types of the artifacts, in a request and in the registry.
StoreTyped ==
    /\ artifact \in [Uploads -> Uploadable \cup {Absent}]
    /\ blobs \in [Uploads -> Stored(Uploadable) \cup {Absent}]
    /\ \A w \in Uploads : artifact[w] # Absent => w \in granted /\ Accepted(artifact[w])
    /\ \A w \in Uploads : blobs[w] \in {Absent, artifact[w]} \/ blobs[w] = Truncated(artifact[w])

\* Requests are independent once the rate limit has let them through.
LEMMA MovesTypes ==
    ASSUME Types, NEW u \in Uploads, NEW next \in {"validate", "push", "insert", "done"},
           Moves(u, next)
    PROVE  Types'
<1>1. UNCHANGED <<clock, owner, stamp, slots, expires, granted>>
  BY DEF Moves
<1>2. pc' \in [Uploads -> {"new", "limit", "validate", "push", "insert", "done"}]
  BY DEF Moves, Types, TypeOK
<1>3. \A w \in Uploads : pc'[w] # "new" => pc[w] # "new"
  BY DEF Moves, Types, TypeOK
<1>4. answer' \in [Uploads -> {Absent, 201, 400, 413, 415, 422, 429, 500, 503}]
  <2>1. CASE answer' = answer
    BY <2>1 DEF Types, TypeOK
  <2>2. ASSUME NEW code \in Codes, answer' = [answer EXCEPT ![u] = code]
        PROVE  answer' \in [Uploads -> {Absent, 201, 400, 413, 415, 422, 429, 500, 503}]
    BY <2>2 DEF Types, TypeOK, Codes
  <2>3. QED
    BY <2>1, <2>2 DEF Moves
<1>5. StoreTyped'
  <2> USE DEF StoreTyped
  <2>0. StoreTyped
    BY DEF Types, TypeOK
  <2>1. CASE UNCHANGED <<artifact, blobs>>
    BY <1>1, <2>0, <2>1
  <2>2. ASSUME NEW a \in Uploadable, Accepted(a), u \in granted, blobs[u] = Absent,
               artifact' = [artifact EXCEPT ![u] = a], UNCHANGED blobs
        PROVE  StoreTyped'
    <3>1. artifact'[u] = a /\ \A w \in Uploads \ {u} : artifact'[w] = artifact[w]
      BY <2>0, <2>2
    <3>2. artifact' \in [Uploads -> Uploadable \cup {Absent}]
      BY <2>0, <2>2
    <3>3. QED
      BY <1>1, <2>0, <2>2, <3>1, <3>2
  <2>3. ASSUME NEW b \in {artifact[u], Truncated(artifact[u])}, artifact[u] # Absent,
               blobs' = [blobs EXCEPT ![u] = b], UNCHANGED artifact
        PROVE  StoreTyped'
    <3>1. b \in Stored(Uploadable)
      BY <2>0, <2>3 DEF Stored
    <3>2. blobs'[u] = b /\ \A w \in Uploads \ {u} : blobs'[w] = blobs[w]
      BY <2>0, <2>3
    <3>3. blobs' \in [Uploads -> Stored(Uploadable) \cup {Absent}]
      BY <2>0, <2>3, <3>1
    <3>4. QED
      BY <1>1, <2>0, <2>3, <3>2, <3>3
  <2>4. QED
    BY <2>1, <2>2, <2>3 DEF Moves
<1>6. DOMAIN row' = Uploads /\ arrived' \in Seq(Uploads)
  BY InsertRowFacts DEF Moves, Types, TypeOK
<1>7. TypeOK'
  BY <1>1, <1>2, <1>3, <1>4, <1>5, <1>6 DEF Types, TypeOK, StoreTyped
<1>8. QED
  BY <1>1, <1>5, <1>7 DEF Types, StoreTyped

\* The rate limit knows nothing of such steps.
LEMMA MovesWindows ==
    ASSUME Types, RecentAreKept, WindowsBounded, NEW u \in Uploads,
           NEW next \in {"validate", "push", "insert", "done"}, Moves(u, next)
    PROVE  RecentAreKept' /\ WindowsBounded'
<1>1. UNCHANGED <<clock, owner, stamp, slots, expires, granted>>
  BY DEF Moves
<1>2. \A w \in Uploads : pc'[w] \in {"new", "limit"} => pc'[w] = pc[w]
  BY DEF Moves, Types, TypeOK
<1>3. \A c \in Contestants : \A e \in slots[c] : e.member \in Uploads
  BY DEF Types, TypeOK
<1>4. RecentAreKept'
  BY <1>1, <1>2, <1>3 DEF RecentAreKept, EntryOf
<1>5. WindowsBounded'
  BY <1>1 DEF WindowsBounded, InWindow
<1>6. QED
  BY <1>4, <1>5

\* Nor do the other requests.
Apart(w) ==
    /\ pc'[w] = pc[w] /\ answer'[w] = answer[w]
    /\ artifact'[w] = artifact[w] /\ blobs'[w] = blobs[w] /\ row'[w] = row[w]
    /\ w \in granted' <=> w \in granted

\* What a request has got to depends on nothing else.
LEMMA ApartProgress ==
    ASSUME NEW w \in Uploads, Progress(w), Apart(w)
    PROVE  Progress(w)'
BY DEF Progress, Apart

\* Every other request is where it was.
LEMMA MovesApart ==
    ASSUME Types, NEW u \in Uploads, NEW next, Moves(u, next)
    PROVE  \A w \in Uploads \ {u} : Apart(w)
<1>1. \A w \in Uploads \ {u} : pc'[w] = pc[w] /\ answer'[w] = answer[w]
  BY DEF Moves, Types, TypeOK
<1>2. \A w \in Uploads \ {u} : artifact'[w] = artifact[w] /\ blobs'[w] = blobs[w]
  BY DEF Moves, Types
<1>3. \A w \in Uploads \ {u} : row'[w] = row[w]
  BY InsertRowFacts DEF Moves, Types, TypeOK
<1>4. QED
  BY <1>1, <1>2, <1>3 DEF Apart, Moves

\* So what is left to show is what becomes of the request itself.
LEMMA MovesStep ==
    ASSUME SafetyInv, NEW u \in Uploads,
           NEW next \in {"validate", "push", "insert", "done"}, Moves(u, next), Progress(u)'
    PROVE  SafetyInv'
<1>1. \A w \in Uploads \ {u} : Progress(w)'
  BY MovesApart, ApartProgress DEF SafetyInv
<1>2. QED
  BY <1>1, MovesTypes, MovesWindows DEF SafetyInv

\* 400, 500: the form cannot be read.  413, 415, 422: the artifact is refused.
LEMMA RefuseStep ==
    ASSUME SafetyInv, NEW u \in Uploads, BadRequest(u) \/ Refuse(u)
    PROVE  SafetyInv'
<1>1. PICK code \in {400, 413, 415, 422, 500} : Answer(u, code)
  <2>1. CASE BadRequest(u)
    BY <2>1 DEF BadRequest
  <2>2. CASE Refuse(u)
    <3>1. PICK a \in Uploadable : ~Accepted(a) /\ Answer(u, ErrorStatus[ValidateArtifact(a)])
      BY <2>2 DEF Refuse
    <3>2. ValidateArtifact(a) \in {"ErrTooLarge", "ErrBadFormat", "ErrBadChecksum"}
      BY <3>1 DEF Accepted, ValidateArtifact, DetectFormat
    <3>3. ErrorStatus[ValidateArtifact(a)] \in {413, 415, 422}
      BY <3>2 DEF ErrorStatus
    <3>4. QED
      BY <3>1, <3>3
  <2>3. QED
    BY <2>1, <2>2
<1>2. /\ pc[u] = "validate"
      /\ pc' = [pc EXCEPT ![u] = "done"] /\ answer' = [answer EXCEPT ![u] = code]
      /\ UNCHANGED <<clock, owner, stamp, slots, expires, granted, artifact, blobs, row, arrived>>
  BY <1>1 DEF BadRequest, Refuse, Answer
<1>3. pc'[u] = "done" /\ answer'[u] = code
  BY <1>2 DEF SafetyInv, Types, TypeOK
<1>4. Moves(u, "done")
  <2>1. code \in Codes
    BY DEF Codes
  <2>2. QED
    BY <1>2, <2>1 DEF Moves
<1>5. Progress(u) /\ Progress(u)'
  BY <1>2, <1>3 DEF SafetyInv, Progress
<1>6. QED
  BY <1>4, <1>5, MovesStep

\* The artifact was found valid.
LEMMA ValidateStep ==
    ASSUME SafetyInv, NEW u \in Uploads, Validate(u)
    PROVE  SafetyInv'
<1>1. PICK a \in Uploadable : Accepted(a) /\ artifact' = [artifact EXCEPT ![u] = a]
  BY DEF Validate
<1>2. /\ pc[u] = "validate" /\ pc' = [pc EXCEPT ![u] = "push"]
      /\ UNCHANGED <<clock, owner, stamp, answer, slots, expires, granted, blobs, row, arrived>>
  BY DEF Validate, Goto
<1>3. pc'[u] = "push" /\ artifact'[u] = a /\ a # Absent
  BY <1>1, <1>2, AbsentFacts DEF SafetyInv, Types, TypeOK
<1>4. Progress(u)
  BY DEF SafetyInv
<1>5. Moves(u, "push")
  BY <1>1, <1>2, <1>4 DEF Moves, Progress
<1>6. Progress(u)'
  BY <1>2, <1>3, <1>4 DEF Progress
<1>7. QED
  BY <1>5, <1>6, MovesStep

\* The artifact is stored, whole.
LEMMA PushStep ==
    ASSUME SafetyInv, NEW u \in Uploads, Push(u)
    PROVE  SafetyInv'
<1>1. /\ pc[u] = "push" /\ pc' = [pc EXCEPT ![u] = "insert"]
      /\ blobs' = [blobs EXCEPT ![u] = artifact[u]]
      /\ UNCHANGED <<clock, owner, stamp, answer, slots, expires, granted, artifact, row, arrived>>
  BY DEF Push, Goto, Store
<1>2. pc'[u] = "insert" /\ blobs'[u] = artifact[u]
  BY <1>1 DEF SafetyInv, Types, TypeOK
<1>3. Progress(u)
  BY DEF SafetyInv
<1>4. Moves(u, "insert")
  BY <1>1, <1>3 DEF Moves, Progress
<1>5. Progress(u)'
  BY <1>1, <1>2, <1>3 DEF Progress
<1>6. QED
  BY <1>4, <1>5, MovesStep

\* 503, 500: the artifact is stored, or a part of it, or nothing; there is no row.
LEMMA PushFailsStep ==
    ASSUME SafetyInv, NEW u \in Uploads, PushFails(u)
    PROVE  SafetyInv'
<1>1. PICK code \in {500, 503} : Answer(u, code)
  BY DEF PushFails
<1>2. /\ pc[u] = "push"
      /\ pc' = [pc EXCEPT ![u] = "done"] /\ answer' = [answer EXCEPT ![u] = code]
      /\ \/ UNCHANGED blobs
         \/ \E b \in {artifact[u], Truncated(artifact[u])} : blobs' = [blobs EXCEPT ![u] = b]
      /\ UNCHANGED <<clock, owner, stamp, slots, expires, granted, artifact, row, arrived>>
  BY <1>1 DEF PushFails, Answer, StorePart, Store
<1>3. pc'[u] = "done" /\ answer'[u] = code
  BY <1>2 DEF SafetyInv, Types, TypeOK
<1>4. Progress(u)
  BY DEF SafetyInv
<1>5. code \in Codes
  BY DEF Codes
<1>6. Moves(u, "done")
  <2>1. artifact[u] # Absent
    BY <1>2, <1>4 DEF Progress
  <2>2. CASE UNCHANGED blobs
    BY <1>2, <1>5, <2>2 DEF Moves
  <2>3. ASSUME NEW b \in {artifact[u], Truncated(artifact[u])}, blobs' = [blobs EXCEPT ![u] = b]
        PROVE  Moves(u, "done")
    BY <1>2, <1>5, <2>1, <2>3 DEF Moves
  <2>4. QED
    BY <1>2, <2>2, <2>3
<1>7. Progress(u)'
  BY <1>2, <1>3, <1>4 DEF Progress
<1>8. QED
  BY <1>6, <1>7, MovesStep

\* The row is inserted, and 201 says so; or the INSERT fails and 500 says nothing.
LEMMA InsertStep ==
    ASSUME SafetyInv, NEW u \in Uploads, InsertSubmission(u) \/ InsertFails(u)
    PROVE  SafetyInv'
<1>1. PICK code \in {201, 500} : /\ Answer(u, code)
                                 /\ InsertRow(u) \/ (code = 500 /\ UNCHANGED <<row, arrived>>)
  BY DEF InsertSubmission, InsertFails
<1>2. /\ pc[u] = "insert"
      /\ pc' = [pc EXCEPT ![u] = "done"] /\ answer' = [answer EXCEPT ![u] = code]
      /\ UNCHANGED <<clock, owner, stamp, slots, expires, granted, artifact, blobs>>
  BY <1>1 DEF InsertSubmission, InsertFails, Answer
<1>3. pc'[u] = "done" /\ answer'[u] = code
  BY <1>2 DEF SafetyInv, Types, TypeOK
<1>4. Progress(u)
  BY DEF SafetyInv
<1>5. code \in Codes
  BY DEF Codes
<1>6. Moves(u, "done")
  BY <1>1, <1>2, <1>5 DEF Moves
<1>7. InsertRow(u) => row'[u] = "UPLOADED"
  BY InsertRowFacts DEF SafetyInv, Types, TypeOK
<1>8. code = 201 => row'[u] # Absent
  BY <1>1, <1>7, AbsentFacts
<1>9. Progress(u)'
  BY <1>2, <1>3, <1>4, <1>8 DEF Progress
<1>10. QED
  BY <1>6, <1>9, MovesStep

\* The request is never answered, whatever its last call did.
LEMMA DieStep ==
    ASSUME SafetyInv, NEW u \in Uploads, Die(u)
    PROVE  SafetyInv'
<1>1. /\ pc[u] \notin {"new", "done"}
      /\ pc' = [pc EXCEPT ![u] = "done"]
      /\ UNCHANGED <<clock, owner, stamp, answer, slots, expires, granted, artifact>>
      /\ \/ UNCHANGED <<blobs, row, arrived>>
         \/ /\ pc[u] = "push"
            /\ \E b \in {artifact[u], Truncated(artifact[u])} : blobs' = [blobs EXCEPT ![u] = b]
            /\ UNCHANGED <<row, arrived>>
         \/ pc[u] = "insert" /\ InsertRow(u) /\ UNCHANGED blobs
  BY DEF Die, StorePart, Store
<1>2. pc'[u] = "done"
  BY <1>1 DEF SafetyInv, Types, TypeOK
<1>3. Progress(u)
  BY DEF SafetyInv
<1>4. Moves(u, "done")
  BY <1>1, <1>3 DEF Moves, Progress
<1>5. Progress(u)'
  BY <1>1, <1>2, <1>3, AbsentFacts DEF Progress
<1>6. QED
  BY <1>4, <1>5, MovesStep

-----------------------------------------------------------------------------
(* Requests arrive, and time passes *)

\* A request arrives and reads the clock.
LEMMA ReceiveStep ==
    ASSUME SafetyInv, NEW u \in Uploads, NEW c \in Contestants, Receive(u, c)
    PROVE  SafetyInv'
<1>1. /\ pc[u] = "new" /\ pc' = [pc EXCEPT ![u] = "limit"]
      /\ owner' = [owner EXCEPT ![u] = c] /\ stamp' = [stamp EXCEPT ![u] = clock]
      /\ UNCHANGED <<clock, answer, slots, expires, granted, artifact, blobs, row, arrived>>
  BY DEF Receive, Goto
<1>2. /\ pc'[u] = "limit" /\ owner'[u] = c /\ stamp'[u] = clock
      /\ \A w \in Uploads \ {u} : pc'[w] = pc[w] /\ owner'[w] = owner[w] /\ stamp'[w] = stamp[w]
      /\ clock \in Nat
  BY <1>1, GateAssumption DEF SafetyInv, Types, TypeOK, GateConstants
<1>3. Progress(u) /\ u \notin granted
  BY <1>1 DEF SafetyInv, Progress
<1>4. \A d \in Contestants : \A e \in slots[d] : e.member \in Uploads \ {u}
  BY <1>1 DEF SafetyInv, Types, TypeOK, RecentAreKept
<1>5. TypeOK'
  <2>1. pc' \in [Uploads -> {"new", "limit", "validate", "push", "insert", "done"}]
    BY <1>1 DEF SafetyInv, Types, TypeOK
  <2>2. owner' \in [Uploads -> Contestants \cup {Absent}]
    BY <1>1 DEF SafetyInv, Types, TypeOK
  <2>3. \A w \in Uploads : pc'[w] # "new" => owner'[w] \in Contestants /\ stamp'[w] \in 0..clock
    BY <1>2 DEF SafetyInv, Types, TypeOK
  <2>4. \A d \in Contestants : \A e \in slots[d] :
            e.member \in Uploads /\ owner'[e.member] = d /\ stamp'[e.member] = e.time
    BY <1>2, <1>4 DEF SafetyInv, Types, TypeOK
  <2>5. QED
    BY <1>1, <2>1, <2>2, <2>3, <2>4 DEF SafetyInv, Types, TypeOK
<1>6. Types'
  <2>1. stamp' \in [Uploads -> Nat]
    BY <1>1, <1>2 DEF SafetyInv, Types
  <2>2. QED
    BY <1>1, <1>5, <2>1 DEF SafetyInv, Types
<1>7. \A w \in Uploads : Progress(w)'
  <2>1. Progress(u)'
    BY <1>1, <1>2, <1>3 DEF Progress
  <2>2. \A w \in Uploads \ {u} : Apart(w)
    BY <1>1, <1>2 DEF Apart
  <2>3. QED
    BY <2>1, <2>2, ApartProgress DEF SafetyInv
<1>8. granted \subseteq Uploads \ {u}
  BY <1>3 DEF SafetyInv, Types, TypeOK
<1>9. RecentAreKept'
  <2>1. \A d \in Contestants : \A e \in slots'[d] :
            pc'[e.member] \notin {"new", "limit"} /\ e.time + Window <= expires'[d]
    BY <1>1, <1>2, <1>4 DEF SafetyInv, RecentAreKept
  <2>2. \A w \in granted' : /\ owner'[w] \in Contestants
                            /\ clock' <= stamp'[w] + Window => EntryOf(w)' \in slots'[owner'[w]]
    BY <1>1, <1>2, <1>8 DEF SafetyInv, RecentAreKept, EntryOf
  <2>3. MaxDelay \in Nat
    BY GateAssumption DEF GateConstants
  <2>4. \A w \in Uploads : pc'[w] = "limit" => clock' <= stamp'[w] + MaxDelay
    BY <1>1, <1>2, <2>3 DEF SafetyInv, RecentAreKept
  <2>5. QED
    BY <2>1, <2>2, <2>4 DEF RecentAreKept
<1>10. WindowsBounded'
  <2>1. \A d \in Contestants, s \in 0..MaxTime : InWindow(d, s)' = InWindow(d, s)
    BY <1>1, <1>2, <1>8 DEF InWindow
  <2>2. QED
    BY <1>1, <2>1 DEF SafetyInv, WindowsBounded
<1>11. QED
  BY <1>6, <1>7, <1>9, <1>10 DEF SafetyInv

-----------------------------------------------------------------------------
(* The rate limit *)

\* What a request that asks Redis does to its contestant's key, whichever answer it
\* gets: nothing, prune it, or prune it and add its own entry.
Asks(u, next) ==
    /\ pc[u] = "limit"
    /\ pc' = [pc EXCEPT ![u] = next]
    /\ answer' = answer \/ \E code \in Codes : answer' = [answer EXCEPT ![u] = code]
    /\ \/ UNCHANGED <<slots, expires>>
       \/ slots' = [slots EXCEPT ![owner[u]] = Kept(u)] /\ UNCHANGED expires
       \/ Record(u)
    /\ UNCHANGED <<clock, owner, stamp, artifact, blobs, row, arrived>>

\* The script counts every request that is not older than the window.
LEMMA KeptFacts ==
    ASSUME SafetyInv, NEW u \in Uploads, pc[u] = "limit"
    PROVE  /\ owner[u] \in Contestants
           /\ clock \in Nat /\ stamp[u] \in Nat
           /\ stamp[u] <= clock /\ clock <= stamp[u] + MaxDelay
           /\ u \notin granted
           /\ Kept(u) \subseteq slots[owner[u]] /\ IsFiniteSet(Kept(u))
           /\ \A w \in granted : owner[w] = owner[u] /\ clock <= stamp[w] + Window
                  => EntryOf(w) \in Kept(u)
<1>1. /\ owner[u] \in Contestants /\ clock \in Nat /\ stamp[u] \in Nat
      /\ stamp[u] <= clock /\ clock <= stamp[u] + MaxDelay
  BY GateAssumption DEF SafetyInv, Types, TypeOK, RecentAreKept, GateConstants
<1>2. u \notin granted
  BY DEF SafetyInv, Progress
<1>3. Kept(u) \subseteq slots[owner[u]]
  BY DEF Kept
<1>4. IsFiniteSet(Kept(u))
  BY <1>1, <1>3, FS_Subset DEF SafetyInv, WindowsBounded
<1>5. ASSUME NEW w \in granted, owner[w] = owner[u], clock <= stamp[w] + Window
      PROVE  EntryOf(w) \in Kept(u)
  <2>1. EntryOf(w) \in slots[owner[u]]
    BY <1>5 DEF SafetyInv, RecentAreKept
  <2>2. w \in Uploads /\ stamp[w] \in Nat
    BY DEF SafetyInv, Types, TypeOK
  <2>3. stamp[w] + Window <= expires[owner[u]] /\ expires[owner[u]] \in Nat
    BY <1>1, <2>1 DEF SafetyInv, Types, RecentAreKept, EntryOf
  <2>4. Window \in Nat
    BY GateAssumption DEF GateConstants
  <2>5. clock <= expires[owner[u]]
    BY <1>1, <1>5, <2>2, <2>3, <2>4
  <2>6. stamp[w] >= stamp[u] - Window
    BY <1>1, <1>5, <2>2, <2>4
  <2>7. QED
    BY <2>1, <2>5, <2>6 DEF Kept, EntryOf
<1>6. QED
  BY <1>1, <1>2, <1>3, <1>4, <1>5

\* What the contestant's key holds afterwards, and for how long.
LEMMA AsksKeys ==
    ASSUME SafetyInv, NEW u \in Uploads, NEW next, Asks(u, next)
    PROVE  /\ slots' \in [Contestants -> SUBSET Entries]
           /\ expires' \in [Contestants -> Nat]
           /\ \A c \in Contestants : IsFiniteSet(slots'[c])
           /\ \A c \in Contestants : \A e \in slots'[c] :
                  e \in slots[c] \/ (e = EntryOf(u) /\ c = owner[u])
           /\ \A c \in Contestants : expires'[c] \in 0..(clock + Window)
           /\ \A c \in Contestants : \A e \in slots'[c] : e.time + Window <= expires'[c]
<1>1. owner[u] \in Contestants /\ clock \in Nat /\ stamp[u] \in Nat /\ stamp[u] <= clock
  BY KeptFacts DEF Asks
<1>2. Kept(u) \subseteq slots[owner[u]] /\ IsFiniteSet(Kept(u))
  BY KeptFacts DEF Asks
<1>3. Window \in Nat
  BY GateAssumption DEF GateConstants
<1>4. /\ slots \in [Contestants -> SUBSET Entries] /\ expires \in [Contestants -> Nat]
      /\ \A c \in Contestants : expires[c] \in 0..(clock + Window)
  BY DEF SafetyInv, Types, TypeOK
<1>5. \A c \in Contestants : \A e \in slots[c] :
          e.time \in Nat /\ e.time <= clock /\ e.time + Window <= expires[c]
  <2>1. ASSUME NEW c \in Contestants, NEW e \in slots[c]
        PROVE  e.time \in Nat /\ e.time <= clock /\ e.time + Window <= expires[c]
    <3>1. e.member \in Uploads /\ stamp[e.member] = e.time
      BY DEF SafetyInv, Types, TypeOK
    <3>2. pc[e.member] # "new" /\ e.time + Window <= expires[c]
      BY DEF SafetyInv, RecentAreKept
    <3>3. stamp[e.member] \in 0..clock
      BY <3>1, <3>2 DEF SafetyInv, Types, TypeOK
    <3>4. QED
      BY <1>1, <3>1, <3>2, <3>3
  <2>2. QED
    BY <2>1
<1>6. \A c \in Contestants : IsFiniteSet(slots[c])
  BY DEF SafetyInv, WindowsBounded
<1>7. CASE UNCHANGED <<slots, expires>>
  BY <1>4, <1>5, <1>6, <1>7
<1>8. CASE slots' = [slots EXCEPT ![owner[u]] = Kept(u)] /\ UNCHANGED expires
  <2>1. /\ slots'[owner[u]] = Kept(u)
        /\ \A c \in Contestants \ {owner[u]} : slots'[c] = slots[c]
    BY <1>1, <1>4, <1>8
  <2>2. slots' \in [Contestants -> SUBSET Entries]
    BY <1>1, <1>2, <1>4, <1>8
  <2>3. QED
    BY <1>2, <1>4, <1>5, <1>6, <1>8, <2>1, <2>2
<1>9. CASE Record(u)
  <2>1. /\ slots' = [slots EXCEPT ![owner[u]] = Kept(u) \cup {EntryOf(u)}]
        /\ expires' = [expires EXCEPT ![owner[u]] = clock + Window]
    BY <1>9 DEF Record, EntryOf
  <2>2. EntryOf(u) \in Entries /\ EntryOf(u).time = stamp[u]
    BY <1>1 DEF EntryOf, Entries
  <2>3. slots' \in [Contestants -> SUBSET Entries]
    BY <1>1, <1>2, <1>4, <2>1, <2>2
  <2>4. expires' \in [Contestants -> Nat]
    BY <1>1, <1>3, <1>4, <2>1
  <2>5. /\ slots'[owner[u]] = Kept(u) \cup {EntryOf(u)}
        /\ expires'[owner[u]] = clock + Window
        /\ \A c \in Contestants \ {owner[u]} : slots'[c] = slots[c] /\ expires'[c] = expires[c]
    BY <1>1, <1>4, <2>1
  <2>6. IsFiniteSet(Kept(u) \cup {EntryOf(u)})
    BY <1>2, FS_AddElement
  <2>7. \A c \in Contestants : IsFiniteSet(slots'[c])
    BY <1>6, <2>5, <2>6
  <2>8. \A c \in Contestants : \A e \in slots'[c] :
            e \in slots[c] \/ (e = EntryOf(u) /\ c = owner[u])
    BY <1>2, <2>5
  <2>9. \A c \in Contestants : expires'[c] \in 0..(clock + Window)
    BY <1>1, <1>3, <1>4, <2>5
  <2>10. ASSUME NEW c \in Contestants, NEW e \in slots'[c]
         PROVE  e.time + Window <= expires'[c]
    <3>1. CASE c # owner[u]
      BY <1>5, <2>5, <3>1
    <3>2. CASE c = owner[u]
      <4>1. e.time \in Nat /\ e.time <= clock
        BY <1>1, <1>5, <2>2, <2>8
      <4>2. QED
        BY <1>1, <1>3, <2>5, <3>2, <4>1
    <3>3. QED
      BY <3>1, <3>2
  <2>11. QED
    BY <2>3, <2>4, <2>7, <2>8, <2>9, <2>10
<1>10. QED
  BY <1>7, <1>8, <1>9 DEF Asks

\* The other requests, and the types, are as they were.
LEMMA AsksTypes ==
    ASSUME SafetyInv, NEW u \in Uploads, NEW next \in {"validate", "done"}, Asks(u, next),
           granted' \in {granted, granted \cup {u}}
    PROVE  Types'
<1>1. pc' \in [Uploads -> {"new", "limit", "validate", "push", "insert", "done"}]
  BY DEF Asks, SafetyInv, Types, TypeOK
<1>2. \A w \in Uploads : pc'[w] # "new" => pc[w] # "new"
  BY DEF Asks, SafetyInv, Types, TypeOK
<1>3. answer' \in [Uploads -> {Absent, 201, 400, 413, 415, 422, 429, 500, 503}]
  <2>1. CASE answer' = answer
    BY <2>1 DEF SafetyInv, Types, TypeOK
  <2>2. ASSUME NEW code \in Codes, answer' = [answer EXCEPT ![u] = code]
        PROVE  answer' \in [Uploads -> {Absent, 201, 400, 413, 415, 422, 429, 500, 503}]
    BY <2>2 DEF SafetyInv, Types, TypeOK, Codes
  <2>3. QED
    BY <2>1, <2>2 DEF Asks
<1>4. UNCHANGED <<clock, owner, stamp, artifact, blobs, row, arrived>>
  BY DEF Asks
<1>5. \A c \in Contestants : \A e \in slots'[c] :
          e.member \in Uploads /\ owner[e.member] = c /\ stamp[e.member] = e.time
  <2>1. EntryOf(u).member = u /\ EntryOf(u).time = stamp[u]
    BY DEF EntryOf
  <2>2. QED
    BY <2>1, AsksKeys DEF SafetyInv, Types, TypeOK
<1>6. granted' \subseteq Uploads /\ granted \subseteq granted'
  BY DEF SafetyInv, Types, TypeOK
<1>7. TypeOK'
  BY <1>1, <1>2, <1>3, <1>4, <1>5, <1>6, AsksKeys DEF SafetyInv, Types, TypeOK
<1>8. QED
  BY <1>4, <1>7, AsksKeys DEF SafetyInv, Types

\* The key still holds every request that was let through and is recent.
LEMMA AsksRecent ==
    ASSUME SafetyInv, NEW u \in Uploads, NEW next \in {"validate", "done"}, Asks(u, next),
           granted' = granted \/ (granted' = granted \cup {u} /\ Record(u))
    PROVE  RecentAreKept'
<1>1. UNCHANGED <<clock, owner, stamp>> /\ pc[u] = "limit"
  BY DEF Asks
<1>2. pc'[u] \notin {"new", "limit"} /\ \A w \in Uploads \ {u} : pc'[w] = pc[w]
  BY DEF Asks, SafetyInv, Types, TypeOK
<1>3. ASSUME NEW c \in Contestants, NEW e \in slots'[c]
      PROVE  pc'[e.member] \notin {"new", "limit"} /\ e.time + Window <= expires'[c]
  <2>1. CASE e \in slots[c]
    <3>1. e.member \in Uploads /\ pc[e.member] \notin {"new", "limit"}
      BY <2>1 DEF SafetyInv, Types, TypeOK, RecentAreKept
    <3>2. QED
      BY <1>2, <3>1, AsksKeys
  <2>2. CASE e = EntryOf(u)
    BY <1>2, <2>2, AsksKeys DEF EntryOf
  <2>3. QED
    BY <2>1, <2>2, AsksKeys
<1>4. ASSUME NEW w \in granted'
      PROVE  /\ owner[w] \in Contestants
             /\ clock <= stamp[w] + Window => EntryOf(w) \in slots'[owner[w]]
  <2>1. owner[u] \in Contestants
    BY <1>1, KeptFacts
  <2>2. slots \in [Contestants -> SUBSET Entries]
    BY DEF SafetyInv, Types
  <2>3. CASE w \in granted
    <3>1. owner[w] \in Contestants
      BY <2>3 DEF SafetyInv, RecentAreKept
    <3>2. ASSUME clock <= stamp[w] + Window
          PROVE  EntryOf(w) \in slots[owner[w]]
      BY <2>3, <3>2 DEF SafetyInv, RecentAreKept
    <3>3. ASSUME clock <= stamp[w] + Window, owner[w] = owner[u]
          PROVE  EntryOf(w) \in Kept(u)
      BY <1>1, <2>3, <3>3, KeptFacts
    <3>4. Kept(u) \subseteq slots'[owner[u]] \/ UNCHANGED slots
      BY <2>1, <2>2 DEF Asks, Record
    <3>5. owner[w] # owner[u] => slots'[owner[w]] = slots[owner[w]]
      BY <2>1, <2>2, <3>1 DEF Asks, Record
    <3>6. QED
      BY <3>1, <3>2, <3>3, <3>4, <3>5
  <2>4. CASE w = u /\ Record(u)
    <3>1. EntryOf(u) \in slots'[owner[u]]
      BY <2>1, <2>2, <2>4 DEF Record, EntryOf
    <3>2. QED
      BY <2>1, <2>4, <3>1
  <2>5. QED
    BY <2>3, <2>4
<1>5. \A w \in Uploads : pc'[w] = "limit" => clock <= stamp[w] + MaxDelay
  BY <1>2 DEF SafetyInv, RecentAreKept
<1>6. \A w \in granted' : EntryOf(w)' = EntryOf(w)
  BY <1>1 DEF EntryOf
<1>7. QED
  BY <1>1, <1>3, <1>4, <1>5, <1>6 DEF RecentAreKept

\* Every request in a window that u falls into is counted, so there was room in the
\* window if there was room in the key.
LEMMA RoomInWindow ==
    ASSUME SafetyInv, NEW u \in Uploads, pc[u] = "limit",
           Cardinality(Kept(u)) < MaxUploads,
           NEW s \in 0..MaxTime, stamp[u] \in s..(s + Window - MaxDelay)
    PROVE  /\ IsFiniteSet(InWindow(owner[u], s))
           /\ Cardinality(InWindow(owner[u], s)) < MaxUploads
<1> DEFINE counted == InWindow(owner[u], s)
           entry == [w \in counted |-> EntryOf(w)]
<1>1. IsFiniteSet(counted)
  BY FS_Subset DEF InWindow, SafetyInv, WindowsBounded
<1>2. \A w \in counted : w \in granted /\ owner[w] = owner[u] /\ stamp[w] \in Nat /\ stamp[w] >= s
  BY DEF InWindow, SafetyInv, Types, TypeOK
<1>3. clock <= s + Window
  BY KeptFacts, GateAssumption DEF GateConstants
<1>4. \A w \in counted : clock <= stamp[w] + Window
  BY <1>2, <1>3, KeptFacts, GateAssumption DEF GateConstants
<1>5. \A w \in counted : EntryOf(w) \in Kept(u)
  BY <1>2, <1>4, KeptFacts
<1>6. entry \in Injection(counted, Kept(u))
  <2>1. \A v, w \in counted : EntryOf(v) = EntryOf(w) => v = w
    BY DEF EntryOf
  <2>2. QED
    BY <1>5, <2>1 DEF Injection, IsInjective
<1>7. IsFiniteSet(Kept(u))
  BY KeptFacts
<1>8. Cardinality(counted) <= Cardinality(Kept(u))
  BY <1>1, <1>6, <1>7, FS_Injection DEF ExistsInjection
<1>9. Cardinality(counted) \in Nat /\ Cardinality(Kept(u)) \in Nat /\ MaxUploads \in Nat
  BY <1>1, <1>7, FS_CardinalityType, GateAssumption DEF GateConstants
<1>10. QED
  BY <1>1, <1>8, <1>9

\* A window grows only by a request that found room in it.
LEMMA AsksWindows ==
    ASSUME SafetyInv, NEW u \in Uploads, NEW next, Asks(u, next),
           granted' = granted \/ (granted' = granted \cup {u} /\ Record(u))
    PROVE  WindowsBounded'
<1>1. UNCHANGED <<clock, owner, stamp>> /\ pc[u] = "limit"
  BY DEF Asks
<1>2. IsFiniteSet(granted')
  BY FS_AddElement DEF SafetyInv, WindowsBounded
<1>3. ASSUME NEW c \in Contestants, NEW s \in 0..MaxTime
      PROVE  Cardinality(InWindow(c, s)') <= MaxUploads
  <2>1. CASE InWindow(c, s)' = InWindow(c, s)
    BY <2>1 DEF SafetyInv, WindowsBounded
  <2>2. CASE InWindow(c, s)' # InWindow(c, s)
    <3>1. /\ granted' = granted \cup {u} /\ Record(u)
          /\ owner[u] = c /\ stamp[u] \in s..(s + Window - MaxDelay)
      BY <1>1, <2>2 DEF InWindow
    <3>2. InWindow(c, s)' = InWindow(c, s) \cup {u}
      BY <1>1, <3>1 DEF InWindow
    <3>3. Cardinality(Kept(u)) < MaxUploads
      BY <3>1 DEF Record
    <3>4. IsFiniteSet(InWindow(c, s)) /\ Cardinality(InWindow(c, s)) < MaxUploads
      BY <1>1, <3>1, <3>3, RoomInWindow
    <3>5. u \notin InWindow(c, s)
      BY <1>1, KeptFacts DEF InWindow
    <3>6. Cardinality(InWindow(c, s)') = Cardinality(InWindow(c, s)) + 1
      BY <3>2, <3>4, <3>5, FS_AddElement
    <3>7. Cardinality(InWindow(c, s)) \in Nat /\ MaxUploads \in Nat
      BY <3>4, FS_CardinalityType, GateAssumption DEF GateConstants
    <3>8. QED
      BY <3>4, <3>6, <3>7
  <2>3. QED
    BY <2>1, <2>2
<1>4. \A c \in Contestants : IsFiniteSet(slots'[c])
  BY AsksKeys
<1>5. QED
  BY <1>2, <1>3, <1>4 DEF WindowsBounded

\* So what is left to show is what becomes of the request itself.
LEMMA AsksStep ==
    ASSUME SafetyInv, NEW u \in Uploads, NEW next \in {"validate", "done"}, Asks(u, next),
           granted' = granted \/ (granted' = granted \cup {u} /\ Record(u)),
           Progress(u)'
    PROVE  SafetyInv'
<1>1. ASSUME NEW w \in Uploads \ {u}
      PROVE  Apart(w)
  BY DEF Apart, Asks, SafetyInv, Types, TypeOK
<1>2. \A w \in Uploads \ {u} : Progress(w)'
  BY <1>1, ApartProgress DEF SafetyInv
<1>3. Types'
  BY AsksTypes
<1>4. QED
  BY <1>2, <1>3, AsksRecent, AsksWindows DEF SafetyInv

\* The request is let through.
LEMMA AllowStep ==
    ASSUME SafetyInv, NEW u \in Uploads, Allow(u)
    PROVE  SafetyInv'
<1>1. /\ pc[u] = "limit" /\ pc' = [pc EXCEPT ![u] = "validate"]
      /\ Record(u) /\ granted' = granted \cup {u}
      /\ UNCHANGED <<clock, owner, stamp, answer, artifact, blobs, row, arrived>>
  BY DEF Allow, Goto
<1>2. Asks(u, "validate")
  BY <1>1 DEF Asks
<1>3. pc'[u] = "validate" /\ u \in granted'
  BY <1>1 DEF SafetyInv, Types, TypeOK
<1>4. Progress(u)
  BY DEF SafetyInv
<1>5. Progress(u)'
  BY <1>1, <1>3, <1>4 DEF Progress
<1>6. QED
  BY <1>1, <1>2, <1>5, AsksStep

\* 429, 500: it is not, although it may use up a slot.
LEMMA LimitStep ==
    ASSUME SafetyInv, NEW u \in Uploads, Limit(u) \/ LimiterFails(u)
    PROVE  SafetyInv'
<1>1. PICK code \in {429, 500} : Answer(u, code)
  BY DEF Limit, LimiterFails
<1>2. /\ pc[u] = "limit" /\ pc' = [pc EXCEPT ![u] = "done"]
      /\ answer' = [answer EXCEPT ![u] = code] /\ granted' = granted
      /\ UNCHANGED <<clock, owner, stamp, artifact, blobs, row, arrived>>
  BY <1>1 DEF Limit, LimiterFails, Answer
<1>3. code \in Codes
  BY DEF Codes
<1>4. Asks(u, "done")
  BY <1>2, <1>3 DEF Asks, Limit, LimiterFails
<1>5. pc'[u] = "done" /\ answer'[u] = code
  BY <1>2 DEF SafetyInv, Types, TypeOK
<1>6. Progress(u)
  BY DEF SafetyInv
<1>7. Progress(u)'
  BY <1>2, <1>5, <1>6 DEF Progress
<1>8. QED
  BY <1>2, <1>4, <1>7, AsksStep

\* Time passes, not too fast for a request that has read the clock.
LEMMA TickStep ==
    ASSUME SafetyInv, Tick
    PROVE  SafetyInv'
<1>1. /\ clock < MaxTime /\ clock' = clock + 1
      /\ \A u \in Uploads : pc[u] = "limit" => clock - stamp[u] < MaxDelay
      /\ UNCHANGED <<pc, owner, stamp, answer, slots, expires, granted, artifact, blobs, row, arrived>>
  BY DEF Tick
<1>2. /\ clock \in 0..MaxTime /\ Window \in Nat /\ MaxTime \in Nat /\ MaxDelay \in Nat
      /\ stamp \in [Uploads -> Nat]
  BY GateAssumption DEF SafetyInv, Types, TypeOK, GateConstants
<1>3. Types'
  <2>1. \A u \in Uploads : pc[u] # "new" => stamp[u] \in 0..clock'
    BY <1>1, <1>2 DEF SafetyInv, Types, TypeOK
  <2>2. \A c \in Contestants : expires[c] \in 0..(clock' + Window)
    BY <1>1, <1>2 DEF SafetyInv, Types, TypeOK
  <2>3. clock' \in 0..MaxTime
    BY <1>1, <1>2
  <2>4. TypeOK'
    BY <1>1, <2>1, <2>2, <2>3 DEF SafetyInv, Types, TypeOK
  <2>5. QED
    BY <1>1, <2>4 DEF SafetyInv, Types
<1>4. \A w \in Uploads : Progress(w)'
  BY <1>1 DEF SafetyInv, Progress
<1>5. RecentAreKept'
  <2>1. granted \subseteq Uploads
    BY DEF SafetyInv, Types, TypeOK
  <2>2. \A u \in granted : clock' <= stamp[u] + Window => EntryOf(u) \in slots[owner[u]]
    BY <1>1, <1>2, <2>1 DEF SafetyInv, RecentAreKept
  <2>3. \A u \in Uploads : pc[u] = "limit" => clock' <= stamp[u] + MaxDelay
    BY <1>1, <1>2
  <2>4. QED
    BY <1>1, <2>2, <2>3 DEF SafetyInv, RecentAreKept, EntryOf
<1>6. WindowsBounded'
  BY <1>1 DEF SafetyInv, WindowsBounded, InWindow
<1>7. QED
  BY <1>3, <1>4, <1>5, <1>6 DEF SafetyInv

-----------------------------------------------------------------------------
(* The theorems *)

\* Nothing has been asked, let through or stored.
LEMMA InitSafe == Init => SafetyInv
<1> SUFFICES ASSUME Init
             PROVE  SafetyInv
  OBVIOUS
<1>1. Window \in Nat /\ MaxTime \in Nat /\ MaxUploads \in Nat /\ MaxDelay \in 0..Window
  BY GateAssumption DEF GateConstants
<1>2. Types
  <2>1. arrived \in Seq(Uploads)
    BY DEF Init
  <2>2. TypeOK
    BY <1>1, <2>1 DEF Init, TypeOK
  <2>3. slots \in [Contestants -> SUBSET Entries]
    BY DEF Init
  <2>4. QED
    BY <2>2, <2>3 DEF Init, Types
<1>3. \A u \in Uploads : Progress(u)
  BY AbsentFacts DEF Init, Progress
<1>4. RecentAreKept
  BY DEF Init, RecentAreKept
<1>5. WindowsBounded
  <2>1. \A c \in Contestants, s \in 0..MaxTime : InWindow(c, s) = {}
    BY DEF Init, InWindow
  <2>2. IsFiniteSet({}) /\ Cardinality({}) = 0
    BY FS_EmptySet
  <2>3. \A c \in Contestants, s \in 0..MaxTime : Cardinality(InWindow(c, s)) <= MaxUploads
    BY <1>1, <2>1, <2>2
  <2>4. IsFiniteSet(granted) /\ \A c \in Contestants : IsFiniteSet(slots[c])
    BY <2>2 DEF Init
  <2>5. QED
    BY <2>3, <2>4 DEF WindowsBounded
<1>6. QED
  BY <1>2, <1>3, <1>4, <1>5 DEF SafetyInv

\* Every step of a request, and of the clock, preserves it.
LEMMA NextSafe == SafetyInv /\ [Next]_vars => SafetyInv'
<1> SUFFICES ASSUME SafetyInv, [Next]_vars
             PROVE  SafetyInv'
  OBVIOUS
<1>1. ASSUME NEW u \in Uploads, Handle(u)
      PROVE  SafetyInv'
  BY <1>1, ReceiveStep, AllowStep, LimitStep, RefuseStep, ValidateStep, PushStep,
     PushFailsStep, InsertStep, DieStep DEF Handle
<1>2. CASE Tick
  BY <1>2, TickStep
<1>3. CASE UNCHANGED vars
  BY <1>3 DEF vars, SafetyInv, Types, TypeOK, Progress, RecentAreKept, EntryOf,
             WindowsBounded, InWindow
<1>4. QED
  BY <1>1, <1>2, <1>3 DEF Next

\* What is seen of a step outside the handler: nothing, an artifact stored whole or in
\* part for a request that has no row, or a row inserted for an artifact that was found
\* valid and is stored whole.
Stores(u) ==
    /\ row[u] = Absent
    /\ \E a \in Uploadable : \E b \in {a, Truncated(a)} : blobs' = [blobs EXCEPT ![u] = b]
    /\ UNCHANGED <<row, arrived>>

Inserts(u) ==
    /\ row[u] = Absent /\ blobs[u] # Absent /\ Accepted(blobs[u])
    /\ InsertRow(u)
    /\ UNCHANGED blobs

\* Nothing else is.
LEMMA SeenOutside ==
    ASSUME SafetyInv, [Next]_vars
    PROVE  UNCHANGED <<row, arrived, blobs>> \/ \E u \in Uploads : Stores(u) \/ Inserts(u)
<1>1. ASSUME NEW u \in Uploads, StorePart(u) \/ Store(u, artifact[u]), pc[u] = "push",
             UNCHANGED <<row, arrived>>
      PROVE  Stores(u)
  <2>1. artifact[u] \in Uploadable /\ row[u] = Absent
    BY <1>1 DEF SafetyInv, Types, Progress
  <2>2. QED
    BY <1>1, <2>1 DEF Stores, StorePart, Store
<1>2. ASSUME NEW u \in Uploads, InsertRow(u), pc[u] = "insert", UNCHANGED blobs
      PROVE  Inserts(u)
  <2>1. /\ row[u] = Absent /\ blobs[u] = artifact[u] /\ artifact[u] # Absent
        /\ Accepted(artifact[u])
    BY <1>2 DEF SafetyInv, Types, TypeOK, Progress
  <2>2. QED
    BY <1>2, <2>1 DEF Inserts
<1>3. ASSUME NEW u \in Uploads, Handle(u)
      PROVE  UNCHANGED <<row, arrived, blobs>> \/ Stores(u) \/ Inserts(u)
  <2>1. CASE Push(u) \/ PushFails(u)
    BY <1>1, <2>1 DEF Push, PushFails
  <2>2. CASE InsertSubmission(u) \/ InsertFails(u)
    BY <1>2, <2>2 DEF InsertSubmission, InsertFails
  <2>3. CASE Die(u)
    BY <1>1, <1>2, <2>3 DEF Die
  <2>4. CASE ~(Push(u) \/ PushFails(u) \/ InsertSubmission(u) \/ InsertFails(u) \/ Die(u))
    BY <1>3, <2>4 DEF Handle, Receive, Allow, Limit, LimiterFails, BadRequest, Validate, Refuse
  <2>5. QED
    BY <2>1, <2>2, <2>3, <2>4
<1>4. QED
  BY <1>3 DEF Next, Tick, vars

\* The rows are the build pipeline's to change, which neither adds nor removes one.
LEMMA RowsMayMove ==
    ASSUME SafetyInv, UNCHANGED <<gateVars, arrived>>,
           DOMAIN row' = Uploads, \A u \in Uploads : row'[u] = Absent <=> row[u] = Absent
    PROVE  SafetyInv'
<1>1. UNCHANGED <<clock, pc, owner, stamp, answer, slots, expires, granted, artifact, blobs, arrived>>
  BY DEF gateVars
<1>2. Types'
  BY <1>1 DEF SafetyInv, Types, TypeOK
<1>3. \A u \in Uploads : Progress(u)'
  BY <1>1 DEF SafetyInv, Progress
<1>4. RecentAreKept' /\ WindowsBounded'
  BY <1>1 DEF SafetyInv, RecentAreKept, EntryOf, WindowsBounded, InWindow
<1>5. QED
  BY <1>2, <1>3, <1>4 DEF SafetyInv

\* The windows of RollingWindow are those that start when a request read the clock.
LEMMA SafeIsCorrect == SafetyInv => TypeOK /\ RollingWindow /\ AnswersAreTrue
<1> SUFFICES ASSUME SafetyInv
             PROVE  TypeOK /\ RollingWindow /\ AnswersAreTrue
  OBVIOUS
<1>1. TypeOK
  BY DEF SafetyInv, Types
<1>2. ASSUME NEW c \in Contestants, NEW u \in granted
      PROVE  Cardinality({v \in granted : /\ owner[v] = c
                             /\ stamp[v] \in stamp[u]..(stamp[u] + Window - MaxDelay)})
                 <= MaxUploads
  <2>1. u \in Uploads /\ pc[u] # "new"
    BY <1>1 DEF TypeOK, SafetyInv, Progress
  <2>2. stamp[u] \in 0..MaxTime
    BY <1>1, <2>1, GateAssumption DEF TypeOK, GateConstants
  <2>3. Cardinality(InWindow(c, stamp[u])) <= MaxUploads
    BY <2>2 DEF SafetyInv, WindowsBounded
  <2>4. QED
    BY <2>3 DEF InWindow
<1>3. RollingWindow
  BY <1>2 DEF RollingWindow
<1>4. AnswersAreTrue
  <2>1. \A u \in Uploads : row[u] # Absent => blobs[u] # Absent
    BY DEF SafetyInv, Progress
  <2>2. QED
    BY <2>1 DEF SafetyInv, Progress, AnswersAreTrue
<1>5. QED
  BY <1>1, <1>3, <1>4

\* The invariant of the upload handler: what each request has got to, and that the
\* key in Redis still holds every request that was let through within the window.
THEOREM AlwaysSafe == Spec => []SafetyInv
BY InitSafe, NextSafe, PTL DEF Spec

\* The types, and that only requests that were let through push artifacts.
THEOREM AlwaysTyped == Spec => []TypeOK
BY AlwaysSafe, SafeIsCorrect, PTL

\* However many requests race, no window lets more than MaxUploads of a contestant
\* through (the Lua script of Allow, and Window seconds less the delay of a script).
THEOREM LimitHolds == Spec => []RollingWindow
BY AlwaysSafe, SafeIsCorrect, PTL

\* 201 is answered only for a row whose whole artifact is in the registry, and a
\* request that was refused has no row.
THEOREM AnswersAlwaysTrue == Spec => []AnswersAreTrue
BY AlwaysSafe, SafeIsCorrect, PTL
=============================================================================
