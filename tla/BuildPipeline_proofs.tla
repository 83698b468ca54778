-------------------------- MODULE BuildPipeline_proofs --------------------------
(***************************************************************************)
(* Proofs about BuildPipeline for every set of submissions and artifacts   *)
(* and every size of a batch.                                              *)
(***************************************************************************)
EXTENDS BuildPipeline, WellFoundedInduction, TLAPS

-----------------------------------------------------------------------------
(* The inductive invariant *)

\* No row twice.
Distinct(a) == \A i, j \in 1..Len(a) : a[i] = a[j] => i = j

\* The table lists every row once, and a row's artifact was found valid.
RowsArrive ==
    /\ \A i \in 1..Len(arrived) : row[arrived[i]] # Absent
    /\ Distinct(arrived)
    /\ \A s \in Uploads : row[s] # Absent => IsArtifact(blobs[s]) /\ Accepted(blobs[s])

\* A row that nobody has marked has no Job, and a Job has been asked for once.
UnmarkedIsFresh ==
    \A s \in Uploads :
        /\ row[s] \in {Absent, "UPLOADED"} => job[s] = "none" /\ attempts[s] = 0
        /\ attempts[s] <= 1

\* A Job gets past compilation by a manifest, and past publication with an image;
\* what it found is what its row is told.
Manifested(s) == DetectManifest(blobs[s]) # "unknown"

JobsAreTrue ==
    \A s \in Uploads :
        /\ job[s] \in {"publish", "store", "BUILT"} => Manifested(s)
        /\ job[s] \in {"store", "BUILT"} => s \in images
        /\ row[s] = "BUILT" => Manifested(s) /\ s \in images

\* What a poll has fetched is distinct and, but for the submission being processed,
\* still unmarked; that one is marked, and has no Job before one is asked for.
BatchIsFresh ==
    /\ Distinct(batch)
    /\ \A i \in 1..Len(batch) : i > 1 \/ watcher = "mark" => row[batch[i]] = "UPLOADED"
    /\ watcher = "spawn" => /\ row[Head(batch)] = "BUILDING"
                            /\ job[Head(batch)] = "none"
                            /\ attempts[Head(batch)] = 0
    /\ watcher = "report" => row[Head(batch)] \notin {Absent, "UPLOADED"}

SafetyInv ==
    /\ TypeOK
    /\ blobs \in [Uploads -> Stored(Uploadable) \cup {Absent}]
    /\ RowsArrive
    /\ UnmarkedIsFresh
    /\ JobsAreTrue
    /\ BatchIsFresh

-----------------------------------------------------------------------------
(* Selecting rows.  Rows is defined by recursion over the table, so the facts *)
(* about it are proved by induction on the number of rows looked at.          *)

\* A set that holds 0 and, with each number, the next holds every natural number.
LEMMA Induction ==
    ASSUME NEW T, 0 \in T, \A n \in Nat : n \in T => n + 1 \in T
    PROVE  \A n \in Nat : n \in T
<1> DEFINE R == {ss \in Nat \X Nat : ss[1] < ss[2]}
           Missing == {n \in Nat : n \notin T}
<1>1. IsWellFoundedOn(R, Nat)
  BY NatLessThanWellFounded DEF OpToRel
<1>2. \A x, y \in Nat : <<y, x>> \in R <=> y < x
  OBVIOUS
<1> HIDE DEF R
<1>3. SUFFICES ASSUME Missing # {}
               PROVE  FALSE
  OBVIOUS
<1>4. Missing \subseteq Nat
  OBVIOUS
<1>5. PICK x \in Missing : \A y \in Missing : ~(<<y, x>> \in R)
  BY <1>1, <1>3, <1>4, WFMin
<1>6. x # 0 /\ x - 1 \in Nat /\ x = (x - 1) + 1
  OBVIOUS
<1>7. x - 1 \in Missing
  BY <1>6
<1>8. <<x - 1, x>> \in R
  BY <1>2, <1>6
<1>9. QED
  BY <1>5, <1>7, <1>8

\* F selects, from the first n rows of a, those whose status r is wanted.
Selects(F, a, r, wanted, m) ==
    F = [n \in 0..m |-> IF n = 0 THEN <<>>
                        ELSE IF r[a[n]] \in wanted THEN Append(F[n - 1], a[n])
                        ELSE F[n - 1]]

\* There is such a function for every sequence.
LEMMA SelectionExists ==
    ASSUME NEW a, NEW r, NEW wanted
    PROVE  \A m \in Nat : \E F : Selects(F, a, r, wanted, m)
<1> DEFINE T == {m \in Nat : \E F : Selects(F, a, r, wanted, m)}
<1>1. 0 \in T
  <2> DEFINE F == [n \in 0..0 |-> <<>>]
  <2>1. Selects(F, a, r, wanted, 0)
    BY DEF Selects
  <2>2. QED
    BY <2>1
<1>2. ASSUME NEW m \in Nat, m \in T
      PROVE  m + 1 \in T
  <2>1. PICK F : Selects(F, a, r, wanted, m)
    BY <1>2
  <2> DEFINE last == IF r[a[m + 1]] \in wanted THEN Append(F[m], a[m + 1]) ELSE F[m]
             G == [n \in 0..(m + 1) |-> IF n <= m THEN F[n] ELSE last]
  <2>2. \A n \in 0..m : G[n] = F[n]
    OBVIOUS
  <2>3. G[m + 1] = last
    OBVIOUS
  <2>4. ASSUME NEW n \in 0..(m + 1)
        PROVE  G[n] = IF n = 0 THEN <<>>
                      ELSE IF r[a[n]] \in wanted THEN Append(G[n - 1], a[n])
                      ELSE G[n - 1]
    <3>1. CASE n = m + 1
      <4>1. n # 0 /\ n - 1 \in 0..m /\ n - 1 = m
        BY <3>1
      <4>2. G[n - 1] = F[m]
        BY <2>2, <4>1
      <4>3. QED
        BY <2>3, <3>1, <4>1, <4>2
    <3>2. CASE n # m + 1
      <4>1. n \in 0..m /\ (n # 0 => n - 1 \in 0..m)
        BY <3>2
      <4>2. F[n] = IF n = 0 THEN <<>>
                   ELSE IF r[a[n]] \in wanted THEN Append(F[n - 1], a[n])
                   ELSE F[n - 1]
        BY <2>1, <4>1 DEF Selects
      <4>3. G[n] = F[n] /\ (n # 0 => G[n - 1] = F[n - 1])
        BY <2>2, <4>1
      <4> HIDE DEF G
      <4>4. QED
        BY <4>2, <4>3
    <3>3. QED
      BY <3>1, <3>2
  <2>5. DOMAIN G = 0..(m + 1)
    OBVIOUS
  <2>6. G = [n \in DOMAIN G |-> G[n]]
    OBVIOUS
  <2> HIDE DEF G
  <2>7. Selects(G, a, r, wanted, m + 1)
    BY <2>4, <2>5, <2>6 DEF Selects
  <2>8. QED
    BY <2>7
<1> HIDE DEF T
<1>3. \A m \in Nat : m \in T
  BY <1>1, <1>2, Induction
<1>4. QED
  BY <1>3 DEF T

\* What is selected has a wanted status, is one of the rows looked at, and is not
\* selected twice.
SelectedFrom(b, a, r, wanted, n, S) ==
    /\ b \in Seq(S)
    /\ \A i \in 1..Len(b) : r[b[i]] \in wanted /\ \E k \in 1..n : b[i] = a[k]
    /\ Distinct(b)

\* That holds of what a recursion over the whole table yields.
LEMMA SelectionFacts ==
    ASSUME NEW S, NEW a \in Seq(S), NEW r, NEW wanted, NEW F,
           Selects(F, a, r, wanted, Len(a)), Distinct(a)
    PROVE  SelectedFrom(F[Len(a)], a, r, wanted, Len(a), S)
<1> DEFINE T == {n \in Nat : n \in 0..Len(a) => SelectedFrom(F[n], a, r, wanted, n, S)}
<1>1. \A n \in 0..Len(a) :
        F[n] = IF n = 0 THEN <<>>
               ELSE IF r[a[n]] \in wanted THEN Append(F[n - 1], a[n])
               ELSE F[n - 1]
  BY DEF Selects
<1>2. 0 \in T
  <2>1. F[0] = <<>>
    <3>1. 0 \in 0..Len(a)
      OBVIOUS
    <3>2. QED
      BY <1>1, <3>1, Zenon
  <2>2. <<>> \in Seq(S) /\ 1..Len(<<>>) = {}
    OBVIOUS
  <2>3. SelectedFrom(<<>>, a, r, wanted, 0, S)
    BY <2>2 DEF SelectedFrom, Distinct
  <2>4. QED
    BY <2>1, <2>3
<1>3. ASSUME NEW m \in Nat, m \in T, m + 1 \in 0..Len(a)
      PROVE  SelectedFrom(F[m + 1], a, r, wanted, m + 1, S)
  <2>1. SelectedFrom(F[m], a, r, wanted, m, S)
    BY <1>3
  <2>2. F[m + 1] = IF r[a[m + 1]] \in wanted THEN Append(F[m], a[m + 1]) ELSE F[m]
    BY <1>1, <1>3
  <2>3. CASE r[a[m + 1]] \notin wanted
    BY <2>1, <2>2, <2>3 DEF SelectedFrom
  <2>4. CASE r[a[m + 1]] \in wanted
    <3> DEFINE x == a[m + 1]
               b == F[m]
    <3>1. /\ b \in Seq(S) /\ x \in S /\ F[m + 1] = Append(b, x)
          /\ \A i \in 1..Len(b) : r[b[i]] \in wanted /\ \E k \in 1..m : b[i] = a[k]
          /\ Distinct(b)
      BY <1>3, <2>1, <2>2, <2>4 DEF SelectedFrom
    <3>2. \A i \in 1..Len(b) : b[i] # x
      <4> SUFFICES ASSUME NEW i \in 1..Len(b), b[i] = x
                   PROVE  FALSE
        OBVIOUS
      <4>1. PICK k \in 1..m : b[i] = a[k]
        BY <3>1
      <4>2. k \in 1..Len(a) /\ m + 1 \in 1..Len(a) /\ k # m + 1
        BY <1>3
      <4>3. QED
        BY <4>1, <4>2 DEF Distinct
    <3>3. r[x] \in wanted
      BY <2>4
    <3> HIDE DEF b
    <3>4. /\ Append(b, x) \in Seq(S)
          /\ Len(Append(b, x)) = Len(b) + 1
          /\ \A i \in 1..Len(b) : Append(b, x)[i] = b[i]
          /\ Append(b, x)[Len(b) + 1] = x
      BY <3>1
    <3>5. Distinct(Append(b, x))
      BY <3>1, <3>2, <3>4 DEF Distinct
    <3>6. ASSUME NEW i \in 1..(Len(b) + 1)
          PROVE  r[Append(b, x)[i]] \in wanted /\ \E k \in 1..(m + 1) : Append(b, x)[i] = a[k]
      <4>1. CASE i = Len(b) + 1
        BY <3>3, <3>4, <4>1
      <4>2. CASE i # Len(b) + 1
        <5>1. i \in 1..Len(b)
          BY <3>1, <4>2
        <5>2. PICK k \in 1..m : b[i] = a[k]
          BY <3>1, <5>1
        <5>3. k \in 1..(m + 1)
          OBVIOUS
        <5> HIDE DEF x
        <5>4. QED
          BY <3>1, <3>4, <5>1, <5>2, <5>3
      <4>3. QED
        BY <4>1, <4>2
    <3>7. QED
      BY <3>1, <3>4, <3>5, <3>6 DEF SelectedFrom
  <2>5. QED
    BY <2>3, <2>4
<1>4. \A m \in Nat : m \in T => m + 1 \in T
  BY <1>3
<1> HIDE DEF T
<1>5. \A n \in Nat : n \in T
  BY <1>2, <1>4, Induction
<1>6. QED
  BY <1>5 DEF T

\* What a query of the table returns.
LEMMA RowsFacts ==
    ASSUME NEW wanted, arrived \in Seq(Uploads), Distinct(arrived)
    PROVE  SelectedFrom(Rows(wanted), arrived, row, wanted, Len(arrived), Uploads)
<1> DEFINE F == CHOOSE First : Selects(First, arrived, row, wanted, Len(arrived))
<1>1. Selects(F, arrived, row, wanted, Len(arrived))
  BY SelectionExists
<1>2. Rows(wanted) = F[Len(arrived)]
  BY DEF Rows, Selects
<1> HIDE DEF F
<1>3. QED
  BY <1>1, <1>2, SelectionFacts

-----------------------------------------------------------------------------
(* The submission engine *)

\* "No row" is no status.
LEMMA AbsentFacts ==
    ASSUME BuildConstants
    PROVE  /\ Absent # "UPLOADED" /\ Absent # "BUILDING" /\ Absent # "BUILT"
           /\ Absent \notin Verdicts
BY DEF BuildConstants, Statuses, Verdicts

\* An artifact is stored, whole or in part, for a submission that has no row yet.
LEMMA StoreArtifactStep ==
    ASSUME BuildConstants, SafetyInv, NEW s \in Uploads, StoreArtifact(s)
    PROVE  SafetyInv'
<1>1. /\ row[s] = Absent /\ job[s] = "none"
      /\ UNCHANGED <<row, arrived, batch, watcher, job, attempts, images, digests>>
  BY DEF StoreArtifact, SafetyInv, UnmarkedIsFresh
<1>2. PICK a \in Stored(Uploadable) : blobs' = [blobs EXCEPT ![s] = a]
  BY DEF StoreArtifact, Stored
<1>3. blobs' \in [Uploads -> Stored(Uploadable) \cup {Absent}]
  BY <1>2 DEF SafetyInv
<1>4. \A t \in Uploads : row[t] # Absent => blobs'[t] = blobs[t]
  BY <1>1, <1>2 DEF SafetyInv
<1>5. TypeOK'
  <2>1. \A t \in Uploads : row'[t] # Absent => blobs'[t] # Absent
    BY <1>1, <1>4 DEF SafetyInv, TypeOK
  <2>2. QED
    BY <1>1, <2>1 DEF SafetyInv, TypeOK
<1>6. RowsArrive'
  BY <1>1, <1>4 DEF SafetyInv, RowsArrive, Distinct
<1>7. JobsAreTrue'
  <2>1. \A t \in Uploads \ {s} : blobs'[t] = blobs[t]
    BY <1>2 DEF SafetyInv
  <2>2. QED
    BY <1>1, <2>1, AbsentFacts DEF SafetyInv, JobsAreTrue, Manifested
<1>8. UnmarkedIsFresh' /\ BatchIsFresh'
  BY <1>1 DEF SafetyInv, UnmarkedIsFresh, BatchIsFresh, Distinct
<1>9. QED
  BY <1>3, <1>5, <1>6, <1>7, <1>8 DEF SafetyInv

\* What is stored is an artifact, or a part of one.
LEMMA StoredAreArtifacts ==
    ASSUME BuildConstants
    PROVE  \A a \in Stored(Uploadable) : IsArtifact(a)
<1>1. ASSUME NEW a \in Uploadable
      PROVE  IsArtifact(Truncated(a))
  BY <1>1 DEF BuildConstants, IsArtifact, Truncated
<1>2. QED
  BY <1>1 DEF BuildConstants, Stored

\* A row is inserted for an artifact that was found valid: it is the newest.
LEMMA ArriveStep ==
    ASSUME BuildConstants, SafetyInv, NEW s \in Uploads, Arrive(s)
    PROVE  SafetyInv'
<1>1. /\ row[s] = Absent /\ blobs[s] # Absent /\ Accepted(blobs[s])
      /\ row' = [row EXCEPT ![s] = "UPLOADED"]
      /\ arrived' = Append(arrived, s)
      /\ UNCHANGED <<blobs, batch, watcher, job, attempts, images, digests>>
  BY DEF Arrive, buildVars
<1>2. /\ row'[s] = "UPLOADED" /\ \A t \in Uploads \ {s} : row'[t] = row[t]
      /\ row' \in [Uploads -> Statuses \cup {Absent}]
  BY <1>1 DEF SafetyInv, TypeOK, Statuses
<1>3. /\ arrived \in Seq(Uploads) /\ arrived' \in Seq(Uploads)
      /\ Len(arrived') = Len(arrived) + 1
      /\ arrived'[Len(arrived) + 1] = s
      /\ \A i \in 1..Len(arrived) : arrived'[i] = arrived[i] /\ arrived[i] \in Uploads
      /\ \A i \in 1..Len(arrived) : arrived[i] # s
  BY <1>1 DEF SafetyInv, TypeOK, RowsArrive
<1>4. TypeOK'
  <2>1. \A t \in Uploads : row'[t] # Absent => blobs'[t] # Absent
    BY <1>1, <1>2 DEF SafetyInv, TypeOK
  <2>2. QED
    BY <1>1, <1>2, <1>3, <2>1 DEF SafetyInv, TypeOK
<1>5. RowsArrive'
  <2>1. \A i \in 1..Len(arrived') : i \in 1..Len(arrived) \/ i = Len(arrived) + 1
    BY <1>3
  <2>2. \A i \in 1..Len(arrived') : row'[arrived'[i]] # Absent
    <3>1. \A i \in 1..Len(arrived) : row[arrived[i]] # Absent
      BY DEF SafetyInv, RowsArrive
    <3>2. QED
      BY <1>2, <1>3, <2>1, <3>1, AbsentFacts
  <2>3. Distinct(arrived')
    BY <1>3, <2>1 DEF SafetyInv, RowsArrive, Distinct
  <2>4. IsArtifact(blobs[s])
    BY <1>1, StoredAreArtifacts DEF SafetyInv
  <2>5. \A t \in Uploads : row'[t] # Absent => IsArtifact(blobs'[t]) /\ Accepted(blobs'[t])
    BY <1>1, <1>2, <2>4 DEF SafetyInv, RowsArrive
  <2>6. QED
    BY <2>2, <2>3, <2>5 DEF RowsArrive, Distinct
<1>6. UnmarkedIsFresh' /\ JobsAreTrue'
  BY <1>1, <1>2, AbsentFacts DEF SafetyInv, UnmarkedIsFresh, JobsAreTrue, Manifested
<1>7. BatchIsFresh'
  <2>1. \A i \in 1..Len(batch) : batch[i] \in Uploads
    BY DEF SafetyInv, TypeOK
  <2>2. \A i \in 1..Len(batch) : row[batch[i]] = "UPLOADED" => row'[batch[i]] = "UPLOADED"
    BY <1>2, <2>1
  <2>3. watcher # "sleep" => Head(batch) \in Uploads
    BY DEF SafetyInv, TypeOK
  <2>4. QED
    BY <1>1, <1>2, <2>2, <2>3, AbsentFacts DEF SafetyInv, BatchIsFresh, Distinct, TypeOK
<1>8. QED
  BY <1>1, <1>4, <1>5, <1>6, <1>7 DEF SafetyInv

-----------------------------------------------------------------------------
(* The watcher *)

\* The submission the watcher is processing, and those it has still to process.
LEMMA BatchFacts ==
    ASSUME TypeOK, watcher # "sleep"
    PROVE  /\ batch \in Seq(Uploads) /\ batch # <<>> /\ Len(batch) \in Nat \ {0}
           /\ Head(batch) = batch[1] /\ Head(batch) \in Uploads
           /\ \A i \in 1..Len(batch) : batch[i] \in Uploads
           /\ Tail(batch) \in Seq(Uploads) /\ Len(Tail(batch)) = Len(batch) - 1
           /\ \A i \in 1..Len(Tail(batch)) : i + 1 \in 1..Len(batch) /\ Tail(batch)[i] = batch[i + 1]
BY DEF TypeOK

\* Done with one submission, the watcher turns to the next, which nobody has marked.
LEMMA NextInBatchFacts ==
    ASSUME SafetyInv, watcher # "sleep", NextInBatch,
           \A i \in 2..Len(batch) : row'[batch[i]] = row[batch[i]]
    PROVE  /\ batch' \in Seq(Uploads)
           /\ watcher' \in {"sleep", "mark"}
           /\ watcher' # "sleep" => batch' # <<>>
           /\ BatchIsFresh'
<1>1. TypeOK /\ BatchIsFresh
  BY DEF SafetyInv
<1>2. /\ batch' = Tail(batch)
      /\ watcher' = IF Len(batch) = 1 THEN "sleep" ELSE "mark"
  BY DEF NextInBatch
<1>3. /\ batch \in Seq(Uploads) /\ Len(batch) \in Nat \ {0}
      /\ batch' \in Seq(Uploads) /\ Len(batch') = Len(batch) - 1
      /\ \A i \in 1..Len(batch') : i + 1 \in 2..Len(batch) /\ batch'[i] = batch[i + 1]
  BY <1>1, <1>2, BatchFacts
<1>4. watcher' # "sleep" => batch' # <<>>
  BY <1>2, <1>3
<1>5. Distinct(batch)'
  BY <1>1, <1>3 DEF BatchIsFresh, Distinct
<1>6. \A i \in 1..Len(batch') : row'[batch'[i]] = "UPLOADED"
  <2>1. \A i \in 2..Len(batch) : row[batch[i]] = "UPLOADED"
    BY <1>1, <1>3 DEF BatchIsFresh
  <2>2. QED
    BY <1>3, <2>1
<1>7. QED
  BY <1>2, <1>3, <1>4, <1>5, <1>6 DEF BatchIsFresh

\* A poll fetches unmarked rows, each once.
LEMMA PollStep ==
    ASSUME BuildConstants, SafetyInv, Poll
    PROVE  SafetyInv'
<1>1. /\ watcher = "sleep" /\ watcher' = "mark" /\ Uploaded # <<>> /\ batch' = fetchUploaded
      /\ UNCHANGED <<row, arrived, blobs, job, attempts, images, digests>>
  BY DEF Poll
<1>2. SelectedFrom(Uploaded, arrived, row, {"UPLOADED"}, Len(arrived), Uploads)
  BY RowsFacts DEF Uploaded, SafetyInv, TypeOK, RowsArrive
<1>3. /\ batch' \in Seq(Uploads) /\ batch' # <<>>
      /\ Distinct(batch')
      /\ \A i \in 1..Len(batch') : row[batch'[i]] = "UPLOADED"
  <2> DEFINE all == Uploaded
  <2>1. /\ all \in Seq(Uploads) /\ all # <<>> /\ Distinct(all)
        /\ \A i \in 1..Len(all) : row[all[i]] = "UPLOADED"
    BY <1>1, <1>2 DEF SelectedFrom
  <2>2. batch' = IF Len(all) <= BatchSize THEN all ELSE SubSeq(all, 1, BatchSize)
    BY <1>1 DEF fetchUploaded
  <2> HIDE DEF all
  <2>3. CASE Len(all) <= BatchSize
    BY <2>1, <2>2, <2>3
  <2>4. CASE ~(Len(all) <= BatchSize)
    <3>1. BatchSize \in 1..Len(all)
      BY <2>1, <2>4 DEF BuildConstants
    <3>2. /\ batch' = SubSeq(all, 1, BatchSize)
          /\ batch' \in Seq(Uploads) /\ Len(batch') = BatchSize
          /\ \A i \in 1..BatchSize : batch'[i] = all[i]
      BY <2>1, <2>2, <2>4, <3>1
    <3>3. QED
      BY <2>1, <3>1, <3>2 DEF Distinct
  <2>5. QED
    BY <2>3, <2>4
<1>4. TypeOK'
  BY <1>1, <1>3 DEF SafetyInv, TypeOK
<1>5. BatchIsFresh'
  BY <1>1, <1>3 DEF BatchIsFresh, Distinct
<1>6. RowsArrive' /\ UnmarkedIsFresh' /\ JobsAreTrue'
  BY <1>1 DEF SafetyInv, RowsArrive, Distinct, UnmarkedIsFresh, JobsAreTrue, Manifested
<1>7. QED
  BY <1>1, <1>4, <1>5, <1>6 DEF SafetyInv

\* The next submission is marked before its Job is asked for.
LEMMA MarkBuildingStep ==
    ASSUME BuildConstants, SafetyInv, markBuilding
    PROVE  SafetyInv'
<1> DEFINE s == Head(batch)
<1>1. /\ watcher = "mark" /\ watcher' = "spawn"
      /\ row' = [row EXCEPT ![s] = "BUILDING"]
      /\ UNCHANGED <<arrived, blobs, batch, job, attempts, images, digests>>
  BY DEF markBuilding
<1>2. /\ batch \in Seq(Uploads) /\ Len(batch) \in Nat \ {0} /\ batch # <<>>
      /\ s = batch[1] /\ s \in Uploads
      /\ \A i \in 1..Len(batch) : batch[i] \in Uploads
  BY <1>1, BatchFacts DEF SafetyInv
<1>3. row[s] = "UPLOADED" /\ row[s] # Absent /\ job[s] = "none" /\ attempts[s] = 0
  BY <1>1, <1>2, AbsentFacts DEF SafetyInv, BatchIsFresh, UnmarkedIsFresh
<1> HIDE DEF s
<1>4. /\ row'[s] = "BUILDING" /\ \A t \in Uploads \ {s} : row'[t] = row[t]
      /\ row' \in [Uploads -> Statuses \cup {Absent}]
  BY <1>1, <1>2 DEF SafetyInv, TypeOK, Statuses
<1>5. TypeOK'
  <2>1. \A t \in Uploads : row'[t] # Absent => blobs'[t] # Absent
    BY <1>1, <1>3, <1>4 DEF SafetyInv, TypeOK
  <2>2. QED
    BY <1>1, <1>2, <1>4, <2>1 DEF SafetyInv, TypeOK
<1>6. RowsArrive'
  BY <1>1, <1>3, <1>4, AbsentFacts DEF SafetyInv, TypeOK, RowsArrive, Distinct
<1>7. UnmarkedIsFresh' /\ JobsAreTrue'
  BY <1>1, <1>3, <1>4 DEF SafetyInv, UnmarkedIsFresh, JobsAreTrue, Manifested
<1>8. BatchIsFresh'
  <2>1. \A i \in 2..Len(batch) : batch[i] # s
    BY <1>2 DEF SafetyInv, BatchIsFresh, Distinct
  <2>2. \A i \in 2..Len(batch) : row'[batch[i]] = "UPLOADED"
    BY <1>1, <1>2, <1>4, <2>1 DEF SafetyInv, BatchIsFresh
  <2>3. \A i \in 1..Len(batch) : i > 1 => i \in 2..Len(batch)
    BY <1>2
  <2>4. Head(batch) = s
    BY DEF s
  <2>5. QED
    BY <1>1, <1>3, <1>4, <2>2, <2>3, <2>4 DEF SafetyInv, BatchIsFresh, Distinct
<1>9. QED
  BY <1>1, <1>5, <1>6, <1>7, <1>8 DEF SafetyInv

\* Whether or not the UPDATE took effect, the submission is left to nobody: it has
\* no Job, and is not asked to have one.
LEMMA MarkFailsStep ==
    ASSUME BuildConstants, SafetyInv, MarkFails
    PROVE  SafetyInv'
<1> DEFINE s == Head(batch)
<1>1. /\ watcher = "mark" /\ NextInBatch
      /\ row' \in {row, [row EXCEPT ![s] = "BUILDING"]}
      /\ UNCHANGED <<arrived, blobs, job, attempts, images, digests>>
  BY DEF MarkFails
<1>2. /\ batch \in Seq(Uploads) /\ Len(batch) \in Nat \ {0}
      /\ s = batch[1] /\ s \in Uploads
      /\ \A i \in 1..Len(batch) : batch[i] \in Uploads
  BY <1>1, BatchFacts DEF SafetyInv
<1>3. row[s] = "UPLOADED" /\ row[s] # Absent /\ job[s] = "none" /\ attempts[s] = 0
  BY <1>1, <1>2, AbsentFacts DEF SafetyInv, BatchIsFresh, UnmarkedIsFresh
<1> HIDE DEF s
<1>4. /\ row'[s] \in {"UPLOADED", "BUILDING"} /\ \A t \in Uploads \ {s} : row'[t] = row[t]
      /\ row' \in [Uploads -> Statuses \cup {Absent}]
  BY <1>1, <1>2, <1>3 DEF SafetyInv, TypeOK, Statuses
<1>5. \A i \in 2..Len(batch) : row'[batch[i]] = row[batch[i]]
  <2>1. \A i \in 2..Len(batch) : batch[i] # s /\ batch[i] \in Uploads
    BY <1>2 DEF SafetyInv, BatchIsFresh, Distinct
  <2>2. QED
    BY <1>4, <2>1
<1>6. /\ batch' \in Seq(Uploads) /\ watcher' \in {"sleep", "mark"}
      /\ watcher' # "sleep" => batch' # <<>>
      /\ BatchIsFresh'
  BY <1>1, <1>5, NextInBatchFacts
<1>7. TypeOK'
  <2>1. \A t \in Uploads : row'[t] # Absent => blobs'[t] # Absent
    BY <1>1, <1>3, <1>4 DEF SafetyInv, TypeOK
  <2>2. QED
    BY <1>1, <1>4, <1>6, <2>1 DEF SafetyInv, TypeOK
<1>8. RowsArrive'
  BY <1>1, <1>3, <1>4, AbsentFacts DEF SafetyInv, TypeOK, RowsArrive, Distinct
<1>9. UnmarkedIsFresh' /\ JobsAreTrue'
  BY <1>1, <1>3, <1>4 DEF SafetyInv, UnmarkedIsFresh, JobsAreTrue, Manifested
<1>10. QED
  BY <1>1, <1>6, <1>7, <1>8, <1>9 DEF SafetyInv

\* A Job is created, and the submission was not asked to have one before.
LEMMA SpawnBuildJobStep ==
    ASSUME BuildConstants, SafetyInv, SpawnBuildJob
    PROVE  SafetyInv'
<1> DEFINE s == Head(batch)
<1>1. /\ watcher = "spawn" /\ NextInBatch
      /\ job' = [job EXCEPT ![s] = "pending"]
      /\ attempts' = [attempts EXCEPT ![s] = @ + 1]
      /\ UNCHANGED <<row, arrived, blobs, images, digests>>
  BY DEF SpawnBuildJob, Attempt
<1>2. s \in Uploads /\ row[s] = "BUILDING" /\ attempts[s] = 0
  BY <1>1, BatchFacts DEF SafetyInv, BatchIsFresh
<1>3. /\ batch' \in Seq(Uploads) /\ watcher' \in {"sleep", "mark"}
      /\ watcher' # "sleep" => batch' # <<>>
      /\ BatchIsFresh'
  BY <1>1, NextInBatchFacts
<1> HIDE DEF s
<1>4. /\ job'[s] = "pending" /\ attempts'[s] = 1
      /\ \A t \in Uploads \ {s} : job'[t] = job[t] /\ attempts'[t] = attempts[t]
      /\ job' \in [Uploads -> {"none", "pending", "compile", "publish", "store", "ended"} \cup Verdicts]
      /\ attempts' \in [Uploads -> Nat]
  BY <1>1, <1>2 DEF SafetyInv, TypeOK
<1>5. TypeOK'
  BY <1>1, <1>3, <1>4 DEF SafetyInv, TypeOK
<1>6. RowsArrive'
  BY <1>1 DEF SafetyInv, RowsArrive, Distinct
<1>7. UnmarkedIsFresh'
  BY <1>1, <1>2, <1>4, AbsentFacts DEF SafetyInv, UnmarkedIsFresh
<1>8. JobsAreTrue'
  BY <1>1, <1>4 DEF SafetyInv, JobsAreTrue, Manifested
<1>9. QED
  BY <1>1, <1>3, <1>5, <1>6, <1>7, <1>8 DEF SafetyInv

\* Creating the Job fails, and the Job may exist all the same.
LEMMA SpawnFailsStep ==
    ASSUME BuildConstants, SafetyInv, SpawnFails
    PROVE  SafetyInv'
<1> DEFINE s == Head(batch)
<1>1. /\ watcher = "spawn" /\ watcher' = "report"
      /\ job' \in {job, [job EXCEPT ![s] = IF job[s] = "none" THEN "pending" ELSE job[s]]}
      /\ attempts' = [attempts EXCEPT ![s] = @ + 1]
      /\ UNCHANGED <<row, arrived, blobs, batch, images, digests>>
  BY DEF SpawnFails, Attempt
<1>2. /\ s \in Uploads /\ row[s] = "BUILDING" /\ attempts[s] = 0 /\ job[s] = "none"
      /\ batch # <<>>
  BY <1>1, BatchFacts DEF SafetyInv, BatchIsFresh
<1>3. row[s] \notin {Absent, "UPLOADED"}
  BY <1>2, AbsentFacts
<1>4. /\ job'[s] \in {"none", "pending"} /\ attempts'[s] = 1
      /\ \A t \in Uploads \ {s} : job'[t] = job[t] /\ attempts'[t] = attempts[t]
      /\ job' \in [Uploads -> {"none", "pending", "compile", "publish", "store", "ended"} \cup Verdicts]
      /\ attempts' \in [Uploads -> Nat]
  <2> HIDE DEF s
  <2>1. job' = job \/ job' = [job EXCEPT ![s] = "pending"]
    BY <1>1, <1>2
  <2>2. /\ job \in [Uploads -> {"none", "pending", "compile", "publish", "store", "ended"} \cup Verdicts]
        /\ attempts \in [Uploads -> Nat]
    BY DEF SafetyInv, TypeOK
  <2>3. attempts'[s] = 1 /\ attempts' \in [Uploads -> Nat]
    BY <1>1, <1>2, <2>2
  <2>4. QED
    BY <1>1, <1>2, <2>1, <2>2, <2>3
<1>5. BatchIsFresh'
  <2>1. \A i \in 1..Len(batch) : i > 1 => row[batch[i]] = "UPLOADED"
    BY DEF SafetyInv, BatchIsFresh
  <2>2. Distinct(batch)
    BY DEF SafetyInv, BatchIsFresh
  <2>3. QED
    BY <1>1, <1>3, <2>1, <2>2 DEF BatchIsFresh, Distinct
<1> HIDE DEF s
<1>6. TypeOK'
  BY <1>1, <1>2, <1>4 DEF SafetyInv, TypeOK
<1>7. RowsArrive'
  BY <1>1 DEF SafetyInv, RowsArrive, Distinct
<1>8. UnmarkedIsFresh'
  BY <1>1, <1>3, <1>4 DEF SafetyInv, UnmarkedIsFresh
<1>9. JobsAreTrue'
  BY <1>1, <1>4 DEF SafetyInv, JobsAreTrue, Manifested
<1>10. QED
  BY <1>1, <1>5, <1>6, <1>7, <1>8, <1>9 DEF SafetyInv

\* The failure is written over whatever the row said, or is not written.
LEMMA ReportSpawnErrorStep ==
    ASSUME BuildConstants, SafetyInv, ReportSpawnError
    PROVE  SafetyInv'
<1> DEFINE s == Head(batch)
<1>1. /\ watcher = "report" /\ NextInBatch
      /\ row' \in {row, [row EXCEPT ![s] = "BUILD_INFRASTRUCTURE_ERROR"]}
      /\ UNCHANGED <<arrived, blobs, job, attempts, images, digests>>
  BY DEF ReportSpawnError
<1>2. /\ batch \in Seq(Uploads) /\ Len(batch) \in Nat \ {0}
      /\ s = batch[1] /\ s \in Uploads
      /\ \A i \in 1..Len(batch) : batch[i] \in Uploads
      /\ row[s] \notin {Absent, "UPLOADED"}
  BY <1>1, BatchFacts DEF SafetyInv, BatchIsFresh
<1> HIDE DEF s
<1>3. /\ row'[s] = row[s] \/ row'[s] = "BUILD_INFRASTRUCTURE_ERROR"
      /\ \A t \in Uploads \ {s} : row'[t] = row[t]
      /\ row' \in [Uploads -> Statuses \cup {Absent}]
  BY <1>1, <1>2 DEF SafetyInv, TypeOK, Statuses, Verdicts
<1>4. row'[s] \notin {Absent, "UPLOADED"} /\ (row'[s] = "BUILT" => row[s] = "BUILT")
  BY <1>2, <1>3, AbsentFacts DEF Verdicts
<1>5. \A i \in 2..Len(batch) : row'[batch[i]] = row[batch[i]]
  <2>1. \A i \in 2..Len(batch) : batch[i] # s /\ batch[i] \in Uploads
    BY <1>2 DEF SafetyInv, BatchIsFresh, Distinct
  <2>2. QED
    BY <1>3, <2>1
<1>6. /\ batch' \in Seq(Uploads) /\ watcher' \in {"sleep", "mark"}
      /\ watcher' # "sleep" => batch' # <<>>
      /\ BatchIsFresh'
  BY <1>1, <1>5, NextInBatchFacts
<1>7. \A t \in Uploads : /\ row'[t] = Absent <=> row[t] = Absent
                         /\ row'[t] = "UPLOADED" <=> row[t] = "UPLOADED"
                         /\ row'[t] = "BUILT" => row[t] = "BUILT"
  BY <1>2, <1>3, <1>4
<1>8. TypeOK'
  <2>1. \A t \in Uploads : row'[t] # Absent => blobs'[t] # Absent
    BY <1>1, <1>7 DEF SafetyInv, TypeOK
  <2>2. QED
    BY <1>1, <1>3, <1>6, <2>1 DEF SafetyInv, TypeOK
<1>9. RowsArrive'
  BY <1>1, <1>7 DEF SafetyInv, TypeOK, RowsArrive, Distinct
<1>10. UnmarkedIsFresh' /\ JobsAreTrue'
  BY <1>1, <1>7 DEF SafetyInv, UnmarkedIsFresh, JobsAreTrue, Manifested
<1>11. QED
  BY <1>1, <1>6, <1>8, <1>9, <1>10 DEF SafetyInv

\* The watcher forgets its batch; the rows it had not marked are fetched again.
LEMMA CrashStep ==
    ASSUME SafetyInv, Crash
    PROVE  SafetyInv'
<1>1. /\ batch' = <<>> /\ watcher' = "sleep"
      /\ UNCHANGED <<row, arrived, blobs, job, attempts, images, digests>>
  BY DEF Crash
<1>2. batch' \in Seq(Uploads) /\ 1..Len(batch') = {}
  BY <1>1
<1>3. TypeOK'
  BY <1>1, <1>2 DEF SafetyInv, TypeOK
<1>4. BatchIsFresh'
  BY <1>1, <1>2 DEF BatchIsFresh, Distinct
<1>5. RowsArrive' /\ UnmarkedIsFresh' /\ JobsAreTrue'
  BY <1>1 DEF SafetyInv, RowsArrive, Distinct, UnmarkedIsFresh, JobsAreTrue, Manifested
<1>6. QED
  BY <1>1, <1>3, <1>4, <1>5 DEF SafetyInv

-----------------------------------------------------------------------------
(* The Job *)

Stages == {"pending", "compile", "publish", "store", "ended"} \cup Verdicts

\* What a step of the Job of s may do: take it to its next stage, which needs a
\* manifest or an image, and tell the row what it found.
JobMoves(s, to) ==
    /\ job[s] \notin {"none", "ended"} /\ to \notin {"none", "BUILD_INFRASTRUCTURE_ERROR"}
    /\ job[s] \in Verdicts => to = "ended"
    /\ job' = [job EXCEPT ![s] = to]
    /\ to \in {"publish", "store", "BUILT"} => Manifested(s)
    /\ to \in {"store", "BUILT"} => s \in images'
    /\ row' = row \/ (job[s] \in Verdicts /\ row' = [row EXCEPT ![s] = job[s]])
    /\ images \subseteq images' /\ images' \subseteq Uploads
    /\ digests' \subseteq images'
    /\ UNCHANGED <<arrived, blobs, batch, watcher, attempts>>

\* Such a step keeps the invariant: the submission was marked before it had a Job.
LEMMA JobMovesStep ==
    ASSUME BuildConstants, SafetyInv, NEW s \in Uploads, NEW to \in Stages, JobMoves(s, to)
    PROVE  SafetyInv'
<1>1. /\ job[s] # "none" /\ to # "none"
      /\ job' = [job EXCEPT ![s] = to]
      /\ images \subseteq images' /\ images' \subseteq Uploads /\ digests' \subseteq images'
      /\ UNCHANGED <<arrived, blobs, batch, watcher, attempts>>
  BY DEF JobMoves
<1>2. /\ job' \in [Uploads -> {"none", "pending", "compile", "publish", "store", "ended"} \cup Verdicts]
      /\ job'[s] = to /\ \A t \in Uploads \ {s} : job'[t] = job[t]
  BY <1>1 DEF SafetyInv, TypeOK, Stages
<1>3. row[s] \notin {Absent, "UPLOADED"}
  BY <1>1 DEF SafetyInv, UnmarkedIsFresh
<1>4. /\ row' \in [Uploads -> Statuses \cup {Absent}]
      /\ \A t \in Uploads \ {s} : row'[t] = row[t]
      /\ row'[s] = row[s] \/ (row'[s] = job[s] /\ job[s] \in Verdicts)
  BY DEF JobMoves, SafetyInv, TypeOK, Statuses
<1>5. row'[s] \notin {Absent, "UPLOADED"}
  BY <1>3, <1>4, AbsentFacts DEF Verdicts
<1>6. TypeOK'
  <2>1. \A t \in Uploads : row'[t] # Absent => blobs'[t] # Absent
    BY <1>1, <1>3, <1>4 DEF SafetyInv, TypeOK
  <2>2. QED
    BY <1>1, <1>2, <1>4, <2>1 DEF SafetyInv, TypeOK
<1>7. RowsArrive'
  <2>1. \A t \in Uploads : row'[t] # Absent <=> row[t] # Absent
    BY <1>3, <1>4, <1>5
  <2>2. QED
    BY <1>1, <2>1 DEF SafetyInv, TypeOK, RowsArrive, Distinct
<1>8. UnmarkedIsFresh'
  BY <1>1, <1>2, <1>4, <1>5 DEF SafetyInv, UnmarkedIsFresh
<1>9. JobsAreTrue'
  <2>1. \A t \in Uploads \ {s} :
          /\ job'[t] \in {"publish", "store", "BUILT"} => Manifested(t)'
          /\ job'[t] \in {"store", "BUILT"} => t \in images'
          /\ row'[t] = "BUILT" => Manifested(t)' /\ t \in images'
    BY <1>1, <1>2, <1>4 DEF SafetyInv, JobsAreTrue, Manifested
  <2>2. /\ job'[s] \in {"publish", "store", "BUILT"} => Manifested(s)'
        /\ job'[s] \in {"store", "BUILT"} => s \in images'
    BY <1>1, <1>2 DEF JobMoves, Manifested
  <2>3. row'[s] = "BUILT" => Manifested(s)' /\ s \in images'
    BY <1>1, <1>4 DEF SafetyInv, JobsAreTrue, Manifested
  <2>4. QED
    BY <2>1, <2>2, <2>3 DEF JobsAreTrue
<1>10. BatchIsFresh'
  <2>1. \A i \in 1..Len(batch) : batch[i] \in Uploads
    BY DEF SafetyInv, TypeOK
  <2>2. \A i \in 1..Len(batch) : row[batch[i]] = "UPLOADED" => row'[batch[i]] = "UPLOADED"
    BY <1>3, <1>4, <2>1
  <2>3. watcher # "sleep" => Head(batch) \in Uploads
    BY BatchFacts DEF SafetyInv
  <2>4. watcher = "spawn" => Head(batch) # s
    BY <1>1 DEF SafetyInv, BatchIsFresh
  <2>5. watcher = "report" => row'[Head(batch)] \notin {Absent, "UPLOADED"}
    BY <1>4, <1>5, <2>3 DEF SafetyInv, BatchIsFresh
  <2>6. watcher = "spawn" => /\ row'[Head(batch)] = "BUILDING"
                             /\ job'[Head(batch)] = "none"
                             /\ attempts[Head(batch)] = 0
    BY <1>2, <1>4, <2>3, <2>4 DEF SafetyInv, BatchIsFresh
  <2>7. \A i \in 1..Len(batch) : i > 1 \/ watcher = "mark" => row'[batch[i]] = "UPLOADED"
    BY <2>2 DEF SafetyInv, BatchIsFresh
  <2>8. Distinct(batch)
    BY DEF SafetyInv, BatchIsFresh
  <2>9. QED
    BY <1>1, <2>5, <2>6, <2>7, <2>8 DEF BatchIsFresh, Distinct
<1>11. QED
  BY <1>1, <1>6, <1>7, <1>8, <1>9, <1>10 DEF SafetyInv

\* Every step of a Job is such a move.
LEMMA JobStep ==
    ASSUME BuildConstants, SafetyInv, NEW s \in Uploads,
           StartPod(s) \/ Execute(s) \/ KillJob(s)
    PROVE  \E to \in Stages : JobMoves(s, to)
<1> USE DEF Stages, Verdicts, Advance
<1>1. digests \subseteq images /\ images \subseteq Uploads
  BY DEF SafetyInv, TypeOK
<1>2. CASE StartPod(s)
  BY <1>1, <1>2 DEF StartPod, JobMoves
<1>3. CASE NoManifest(s)
  BY <1>1, <1>3 DEF NoManifest, JobMoves
<1>4. CASE RunBuild(s)
  BY <1>1, <1>4 DEF RunBuild, JobMoves, Manifested
<1>5. CASE Publish(s)
  <2>1. Manifested(s)
    BY <1>5 DEF Publish, SafetyInv, JobsAreTrue
  <2>2. JobMoves(s, "store")
    BY <1>1, <1>5, <2>1 DEF Publish, JobMoves
  <2>3. QED
    BY <2>2
<1>6. CASE PublishFails(s)
  <2>1. JobMoves(s, "BUILD_PUBLISH_FAILED")
    BY <1>1, <1>6 DEF PublishFails, JobMoves
  <2>2. QED
    BY <2>1
<1>7. CASE StoreImageDigest(s)
  <2>1. Manifested(s) /\ s \in images
    BY <1>7 DEF StoreImageDigest, SafetyInv, JobsAreTrue
  <2>2. JobMoves(s, "BUILT")
    BY <1>1, <1>7, <2>1 DEF StoreImageDigest, JobMoves
  <2>3. QED
    BY <2>2
<1>8. CASE WriteVerdict(s)
  BY <1>1, <1>8 DEF WriteVerdict, JobMoves
<1>9. CASE KillJob(s)
  BY <1>1, <1>9 DEF KillJob, JobMoves
<1>10. QED
  BY <1>2, <1>3, <1>4, <1>5, <1>6, <1>7, <1>8, <1>9 DEF Execute

-----------------------------------------------------------------------------
(* The invariant, and what follows from it *)

\* No row, no artifact, no Job.
LEMMA InitSafe ==
    ASSUME BuildConstants, Init
    PROVE  SafetyInv
<1>1. /\ arrived = <<>> /\ batch = <<>> /\ watcher = "sleep" /\ images = {} /\ digests = {}
      /\ arrived \in Seq(Uploads) /\ batch \in Seq(Uploads)
      /\ 1..Len(arrived) = {} /\ 1..Len(batch) = {}
  BY DEF Init
<1>2. \A s \in Uploads : row[s] = Absent /\ blobs[s] = Absent /\ job[s] = "none" /\ attempts[s] = 0
  BY DEF Init
<1>3. TypeOK /\ blobs \in [Uploads -> Stored(Uploadable) \cup {Absent}]
  BY <1>1, <1>2 DEF Init, TypeOK
<1>4. RowsArrive /\ BatchIsFresh
  BY <1>1, <1>2 DEF RowsArrive, BatchIsFresh, Distinct
<1>5. UnmarkedIsFresh /\ JobsAreTrue
  BY <1>2, AbsentFacts DEF UnmarkedIsFresh, JobsAreTrue
<1>6. QED
  BY <1>3, <1>4, <1>5 DEF SafetyInv

\* Every step of the engine, the watcher and the Jobs keeps the invariant.
LEMMA NextSafe ==
    ASSUME BuildConstants, SafetyInv, [Next]_vars
    PROVE  SafetyInv'
<1>1. CASE Watch \/ Crash
  BY <1>1, PollStep, MarkBuildingStep, MarkFailsStep, SpawnBuildJobStep, SpawnFailsStep,
     ReportSpawnErrorStep, CrashStep DEF Watch
<1>2. ASSUME NEW s \in Uploads, StartPod(s) \/ Execute(s) \/ KillJob(s)
      PROVE  SafetyInv'
  BY <1>2, JobStep, JobMovesStep
<1>3. CASE UNCHANGED vars
  BY <1>3 DEF vars, SafetyInv, TypeOK, RowsArrive, Distinct, UnmarkedIsFresh, JobsAreTrue,
              Manifested, BatchIsFresh
<1>4. QED
  BY <1>1, <1>2, <1>3, StoreArtifactStep, ArriveStep DEF Next, Work

\* Who wrote a verdict: the watcher its own kind, when it was done with the row, and
\* the Job any other, with its last step.
VerdictsOwned ==
    \A s \in Uploads :
        /\ job[s] # "BUILD_INFRASTRUCTURE_ERROR"
        /\ row[s] \in Verdicts \ {"BUILD_INFRASTRUCTURE_ERROR"} => job[s] = "ended"
        /\ row[s] = "BUILD_INFRASTRUCTURE_ERROR" => \A i \in 1..Len(batch) : batch[i] # s

\* There is no verdict before there is a row.
LEMMA InitOwned ==
    ASSUME BuildConstants, Init
    PROVE  VerdictsOwned
<1>1. \A s \in Uploads : row[s] = Absent /\ job[s] = "none"
  BY DEF Init
<1>2. QED
  BY <1>1, AbsentFacts DEF VerdictsOwned, Verdicts

\* The watcher does not add to the batch it has fetched, and leaves the row that it
\* is done with behind.
LEMMA BatchShrinks ==
    ASSUME SafetyInv, watcher # "sleep", NextInBatch
    PROVE  /\ \A i \in 1..Len(batch') : \E j \in 1..Len(batch) : batch'[i] = batch[j]
           /\ \A i \in 1..Len(batch') : batch'[i] # Head(batch)
<1>1. /\ batch' = Tail(batch)
      /\ Len(batch) \in Nat \ {0} /\ Len(batch') = Len(batch) - 1
      /\ Head(batch) = batch[1]
      /\ \A i \in 1..Len(batch') : i + 1 \in 1..Len(batch) /\ batch'[i] = batch[i + 1]
  BY BatchFacts DEF SafetyInv, NextInBatch
<1>2. Distinct(batch)
  BY DEF SafetyInv, BatchIsFresh
<1>3. ASSUME NEW i \in 1..Len(batch')
      PROVE  batch'[i] # Head(batch)
  <2>1. i + 1 \in 1..Len(batch) /\ 1 \in 1..Len(batch) /\ i + 1 # 1
    BY <1>1
  <2>2. batch[i + 1] # batch[1]
    BY <1>2, <2>1 DEF Distinct
  <2>3. QED
    BY <1>1, <2>2
<1>4. QED
  BY <1>1, <1>3

\* It stays so when no verdict is written, no Job starts anew, and the batch shrinks.
LEMMA OwnedKept ==
    ASSUME BuildConstants, SafetyInv, VerdictsOwned,
           \A s \in Uploads : row'[s] = row[s] \/ row'[s] \in {"UPLOADED", "BUILDING"},
           \A s \in Uploads : job'[s] = job[s] \/ (job[s] = "none" /\ job'[s] = "pending"),
           \A i \in 1..Len(batch') : \E j \in 1..Len(batch) : batch'[i] = batch[j]
    PROVE  VerdictsOwned'
<1> SUFFICES ASSUME NEW s \in Uploads
             PROVE  /\ job'[s] # "BUILD_INFRASTRUCTURE_ERROR"
                    /\ row'[s] \in Verdicts \ {"BUILD_INFRASTRUCTURE_ERROR"} => job'[s] = "ended"
                    /\ row'[s] = "BUILD_INFRASTRUCTURE_ERROR" =>
                           \A i \in 1..Len(batch') : batch'[i] # s
  BY DEF VerdictsOwned, Verdicts
<1>1. /\ job[s] # "BUILD_INFRASTRUCTURE_ERROR"
      /\ row[s] \in Verdicts \ {"BUILD_INFRASTRUCTURE_ERROR"} => job[s] = "ended"
      /\ row[s] = "BUILD_INFRASTRUCTURE_ERROR" => \A i \in 1..Len(batch) : batch[i] # s
  BY DEF VerdictsOwned
<1>2. row'[s] \in Verdicts => row'[s] = row[s]
  BY DEF Verdicts
<1>3. "BUILD_INFRASTRUCTURE_ERROR" \in Verdicts
  BY DEF Verdicts
<1>4. QED
  BY <1>1, <1>2, <1>3

\* The watcher keeps it.
LEMMA WatchOwned ==
    ASSUME BuildConstants, SafetyInv, VerdictsOwned, Watch \/ Crash
    PROVE  VerdictsOwned'
<1>1. \A i \in 1..Len(batch) : \E j \in 1..Len(batch) : batch[i] = batch[j]
  OBVIOUS
<1>2. CASE Poll
  <2>1. SafetyInv' /\ watcher' = "mark" /\ UNCHANGED <<row, job>>
    BY <1>2, PollStep DEF Poll
  <2>2. \A i \in 1..Len(batch') : row[batch'[i]] = "UPLOADED"
    BY <2>1 DEF SafetyInv, BatchIsFresh
  <2>3. QED
    BY <2>1, <2>2 DEF VerdictsOwned
<1>3. CASE markBuilding \/ MarkFails
  <2>1. /\ watcher = "mark" /\ UNCHANGED job
        /\ row' = row \/ row' = [row EXCEPT ![Head(batch)] = "BUILDING"]
        /\ UNCHANGED batch \/ NextInBatch
    BY <1>3 DEF markBuilding, MarkFails
  <2>2. \A i \in 1..Len(batch') : \E j \in 1..Len(batch) : batch'[i] = batch[j]
    BY <1>1, <2>1, BatchShrinks
  <2>3. \A s \in Uploads : row'[s] = row[s] \/ row'[s] = "BUILDING"
    BY <2>1 DEF SafetyInv, TypeOK
  <2>4. QED
    BY <2>1, <2>2, <2>3, OwnedKept
<1>4. CASE SpawnBuildJob \/ SpawnFails
  <2>1. /\ watcher = "spawn" /\ UNCHANGED row
        /\ UNCHANGED batch \/ NextInBatch
        /\ \/ job' = job
           \/ job' = [job EXCEPT ![Head(batch)] = "pending"]
           \/ job' = [job EXCEPT ![Head(batch)] = IF @ = "none" THEN "pending" ELSE @]
    BY <1>4 DEF SpawnBuildJob, SpawnFails
  <2>2. \A i \in 1..Len(batch') : \E j \in 1..Len(batch) : batch'[i] = batch[j]
    BY <1>1, <2>1, BatchShrinks
  <2>3. Head(batch) \in Uploads /\ job[Head(batch)] = "none"
    BY <2>1, BatchFacts DEF SafetyInv, BatchIsFresh
  <2>4. \A s \in Uploads : job'[s] = job[s] \/ (job[s] = "none" /\ job'[s] = "pending")
    BY <2>1, <2>3 DEF SafetyInv, TypeOK
  <2>5. QED
    BY <2>1, <2>2, <2>4, OwnedKept
<1>5. CASE ReportSpawnError
  <2>1. /\ watcher = "report" /\ UNCHANGED job /\ NextInBatch
        /\ row' = row \/ row' = [row EXCEPT ![Head(batch)] = "BUILD_INFRASTRUCTURE_ERROR"]
    BY <1>5 DEF ReportSpawnError
  <2>2. /\ \A i \in 1..Len(batch') : \E j \in 1..Len(batch) : batch'[i] = batch[j]
        /\ \A i \in 1..Len(batch') : batch'[i] # Head(batch)
    BY <2>1, BatchShrinks
  <2>3. \A s \in Uploads : \/ row'[s] = row[s]
                           \/ s = Head(batch) /\ row'[s] = "BUILD_INFRASTRUCTURE_ERROR"
    BY <2>1 DEF SafetyInv, TypeOK
  <2>4. QED
    BY <2>1, <2>2, <2>3 DEF VerdictsOwned
<1>6. CASE Crash
  <2>1. UNCHANGED <<row, job>> /\ 1..Len(batch') = {}
    BY <1>6 DEF Crash
  <2>2. QED
    BY <2>1 DEF VerdictsOwned
<1>7. QED
  BY <1>2, <1>3, <1>4, <1>5, <1>6 DEF Watch

\* A Job keeps it: it writes its verdict with its last step.
LEMMA JobOwned ==
    ASSUME BuildConstants, SafetyInv, VerdictsOwned, NEW t \in Uploads, NEW to \in Stages,
           JobMoves(t, to)
    PROVE  VerdictsOwned'
<1>1. /\ job[t] \notin {"none", "ended"} /\ to # "BUILD_INFRASTRUCTURE_ERROR"
      /\ job[t] \in Verdicts => to = "ended"
      /\ UNCHANGED batch
  BY DEF JobMoves
<1>2. job'[t] = to /\ \A s \in Uploads \ {t} : job'[s] = job[s]
  BY DEF JobMoves, SafetyInv, TypeOK
<1>3. /\ \A s \in Uploads \ {t} : row'[s] = row[s]
      /\ row'[t] = row[t] \/ (job[t] \in Verdicts /\ row'[t] = job[t])
  BY DEF JobMoves, SafetyInv, TypeOK
<1>4. \A s \in Uploads \ {t} :
         /\ job'[s] # "BUILD_INFRASTRUCTURE_ERROR"
         /\ row'[s] \in Verdicts \ {"BUILD_INFRASTRUCTURE_ERROR"} => job'[s] = "ended"
         /\ row'[s] = "BUILD_INFRASTRUCTURE_ERROR" => \A i \in 1..Len(batch') : batch'[i] # s
  BY <1>1, <1>2, <1>3 DEF VerdictsOwned
<1>5. /\ job[t] # "BUILD_INFRASTRUCTURE_ERROR"
      /\ row[t] \in Verdicts \ {"BUILD_INFRASTRUCTURE_ERROR"} => job[t] = "ended"
      /\ row[t] = "BUILD_INFRASTRUCTURE_ERROR" => \A i \in 1..Len(batch) : batch[i] # t
  BY DEF VerdictsOwned
<1>6. /\ job'[t] # "BUILD_INFRASTRUCTURE_ERROR"
      /\ row'[t] \in Verdicts \ {"BUILD_INFRASTRUCTURE_ERROR"} => job'[t] = "ended"
      /\ row'[t] = "BUILD_INFRASTRUCTURE_ERROR" => \A i \in 1..Len(batch') : batch'[i] # t
  BY <1>1, <1>2, <1>3, <1>5
<1>7. QED
  BY <1>4, <1>6 DEF VerdictsOwned, Verdicts

\* So every step keeps it.
LEMMA NextOwned ==
    ASSUME BuildConstants, SafetyInv, VerdictsOwned, [Next]_vars
    PROVE  VerdictsOwned'
<1>1. ASSUME NEW t \in Uploads, StartPod(t) \/ Execute(t) \/ KillJob(t)
      PROVE  VerdictsOwned'
  BY <1>1, JobStep, JobOwned
<1>2. ASSUME NEW t \in Uploads, StoreArtifact(t) \/ Arrive(t)
      PROVE  VerdictsOwned'
  <2>1. /\ UNCHANGED <<job, batch>>
        /\ row' = row \/ row' = [row EXCEPT ![t] = "UPLOADED"]
    BY <1>2 DEF StoreArtifact, Arrive, buildVars
  <2>2. \A s \in Uploads : row'[s] = row[s] \/ row'[s] = "UPLOADED"
    BY <2>1 DEF SafetyInv, TypeOK
  <2>3. QED
    BY <2>1, <2>2, OwnedKept
<1>3. CASE UNCHANGED vars
  BY <1>3 DEF vars, VerdictsOwned
<1>4. QED
  BY <1>1, <1>2, <1>3, WatchOwned DEF Next, Work

\* What StatusSettles says of one submission and one step.
Settles(s) ==
    row'[s] # row[s] =>
        /\ ~Settled(s)
        /\ \/ Rank(row'[s]) > Rank(row[s])
           \/ /\ {row[s], row'[s]} \subseteq Verdicts
              /\ "BUILD_INFRASTRUCTURE_ERROR" \in {row[s], row'[s]}
              /\ Settled(s)'

\* Statuses only advance: the watcher marks and fails rows that are in its batch, and
\* a Job speaks only for a row that was marked.  Where both speak, each does so once.
LEMMA StepSettles ==
    ASSUME BuildConstants, SafetyInv, VerdictsOwned, [Next]_vars, NEW s \in Uploads
    PROVE  Settles(s)
<1> SUFFICES ASSUME row'[s] # row[s]
             PROVE  Settles(s)
  BY DEF Settles
<1>1. /\ Rank(Absent) = 0 /\ Rank("UPLOADED") = 1 /\ Rank("BUILDING") = 2
      /\ \A status \in Verdicts : Rank(status) = 3
  BY AbsentFacts DEF Rank, Verdicts
<1>2. /\ row[s] \in Statuses \cup {Absent} /\ "BUILD_INFRASTRUCTURE_ERROR" \in Verdicts
      /\ DOMAIN batch = 1..Len(batch) /\ "ended" \notin Verdicts
  BY DEF SafetyInv, TypeOK, Verdicts
<1>3. /\ job[s] # "BUILD_INFRASTRUCTURE_ERROR"
      /\ row[s] \in Verdicts \ {"BUILD_INFRASTRUCTURE_ERROR"} => job[s] = "ended"
      /\ row[s] = "BUILD_INFRASTRUCTURE_ERROR" => \A i \in 1..Len(batch) : batch[i] # s
  BY DEF VerdictsOwned
<1>4. ASSUME watcher # "sleep", s = Head(batch)
      PROVE  ~Settled(s)
  <2>1. 1 \in DOMAIN batch /\ batch[1] = s
    BY <1>2, <1>4, BatchFacts DEF SafetyInv
  <2>2. QED
    BY <2>1 DEF Settled
<1>5. CASE Poll \/ SpawnBuildJob \/ SpawnFails \/ Crash \/ UNCHANGED vars
  BY <1>5 DEF Poll, SpawnBuildJob, SpawnFails, Crash, vars
<1>6. CASE markBuilding \/ MarkFails
  <2>1. /\ watcher = "mark"
        /\ row' = row \/ row' = [row EXCEPT ![Head(batch)] = "BUILDING"]
    BY <1>6 DEF markBuilding, MarkFails
  <2>2. Head(batch) \in Uploads /\ row[Head(batch)] = "UPLOADED"
    BY <2>1, BatchFacts DEF SafetyInv, BatchIsFresh
  <2>3. s = Head(batch) /\ row'[s] = "BUILDING"
    BY <2>1 DEF SafetyInv, TypeOK
  <2>4. Rank(row'[s]) > Rank(row[s])
    BY <1>1, <2>2, <2>3
  <2>5. QED
    BY <1>4, <2>1, <2>3, <2>4 DEF Settles
<1>7. CASE ReportSpawnError
  <2>1. /\ watcher = "report" /\ NextInBatch /\ UNCHANGED job
        /\ row' = row \/ row' = [row EXCEPT ![Head(batch)] = "BUILD_INFRASTRUCTURE_ERROR"]
    BY <1>7 DEF ReportSpawnError
  <2>2. s = Head(batch) /\ row'[s] = "BUILD_INFRASTRUCTURE_ERROR"
    BY <2>1 DEF SafetyInv, TypeOK
  <2>3. ~Settled(s)
    BY <1>4, <2>1, <2>2
  <2>4. row[s] \notin {Absent, "UPLOADED"}
    BY <2>1, <2>2 DEF SafetyInv, BatchIsFresh
  <2>5. CASE row[s] = "BUILDING"
    <3>1. Rank(row'[s]) > Rank(row[s])
      BY <1>1, <1>2, <2>2, <2>5
    <3>2. QED
      BY <2>3, <3>1 DEF Settles
  <2>6. CASE row[s] \in Verdicts
    <3>1. job'[s] = "ended"
      BY <1>3, <2>1, <2>2, <2>6
    <3>2. \A i \in 1..Len(batch') : batch'[i] # s
      BY <2>1, <2>2, BatchShrinks
    <3>3. DOMAIN batch' = 1..Len(batch')
      BY <2>1, BatchFacts DEF SafetyInv, NextInBatch
    <3>4. Settled(s)'
      BY <3>1, <3>2, <3>3 DEF Settled
    <3>5. QED
      BY <1>2, <2>2, <2>3, <2>6, <3>4 DEF Settles
  <2>7. QED
    BY <1>2, <2>4, <2>5, <2>6 DEF Statuses
<1>8. ASSUME NEW t \in Uploads, StartPod(t) \/ Execute(t) \/ KillJob(t)
      PROVE  Settles(s)
  <2>1. PICK to \in Stages : JobMoves(t, to)
    BY <1>8, JobStep
  <2>2. /\ t = s /\ job[s] \in Verdicts /\ row'[s] = job[s]
        /\ job'[s] = "ended" /\ UNCHANGED batch
    BY <2>1 DEF JobMoves, SafetyInv, TypeOK
  <2>3. ~Settled(s)
    BY <1>2, <2>2 DEF Settled
  <2>4. row[s] \notin {Absent, "UPLOADED"}
    BY <2>1, <2>2 DEF JobMoves, SafetyInv, UnmarkedIsFresh
  <2>5. CASE row[s] = "BUILDING"
    <3>1. Rank(row'[s]) > Rank(row[s])
      BY <1>1, <2>2, <2>5
    <3>2. QED
      BY <2>3, <3>1 DEF Settles
  <2>6. CASE row[s] \in Verdicts
    <3>1. row[s] = "BUILD_INFRASTRUCTURE_ERROR"
      BY <1>2, <1>3, <2>2, <2>6
    <3>2. Settled(s)'
      BY <1>2, <1>3, <2>2, <3>1 DEF Settled
    <3>3. QED
      BY <2>2, <2>3, <2>6, <3>1, <3>2 DEF Settles
  <2>7. QED
    BY <1>2, <2>4, <2>5, <2>6 DEF Statuses
<1>9. ASSUME NEW t \in Uploads, StoreArtifact(t) \/ Arrive(t)
      PROVE  Settles(s)
  <2>1. row' = row \/ (row[t] = Absent /\ row' = [row EXCEPT ![t] = "UPLOADED"])
    BY <1>9 DEF StoreArtifact, Arrive
  <2>2. row[s] = Absent /\ row'[s] = "UPLOADED"
    BY <2>1 DEF SafetyInv, TypeOK
  <2>3. job[s] = "none"
    BY <2>2 DEF SafetyInv, UnmarkedIsFresh
  <2>4. ~Settled(s)
    BY <2>3 DEF Settled
  <2>5. Rank(row'[s]) > Rank(row[s])
    BY <1>1, <2>2
  <2>6. QED
    BY <2>4, <2>5 DEF Settles
<1>10. QED
  BY <1>5, <1>6, <1>7, <1>8, <1>9 DEF Next, Work, Watch

\* What the validator accepts and the executor finds a manifest in was vouched for,
\* is not too large, and has a manifest at its root for each of them.
LEMMA AcceptedWithManifest ==
    ASSUME NEW a, IsArtifact(a), Accepted(a), DetectManifest(a) # "unknown"
    PROVE  /\ a.checksumOk /\ ~a.tooLarge
           /\ \E e \in a.entries : e.path[1] \in rootManifests
           /\ \E e \in a.entries : e.path[Len(e.path)] \in rootManifests /\ ~e.dir
<1>1. ~a.tooLarge /\ a.checksumOk
  BY DEF Accepted, ValidateArtifact, DetectFormat, IsArtifact
<1>2. listRootFiles(a) \cap rootManifests # {}
  BY DEF DetectManifest, rootManifests
<1>3. PICK e \in a.entries : e.path[1] \in rootManifests
  BY <1>2 DEF listRootFiles
<1>4. a.magic \notin {"elf", "other"}
  BY <1>3 DEF IsArtifact
<1>5. archiveHasRootManifest(a)
  BY <1>4 DEF Accepted, ValidateArtifact, DetectFormat
<1>6. QED
  BY <1>1, <1>3, <1>5 DEF archiveHasRootManifest, isRootManifest

\* What the invariant says of the properties.
LEMMA SafeIsCorrect ==
    ASSUME BuildConstants, SafetyInv
    PROVE  TypeOK /\ SpawnedOnce /\ BuiltHasImage /\ BuiltFromManifest
<1>1. TypeOK /\ SpawnedOnce /\ BuiltHasImage
  BY DEF SafetyInv, UnmarkedIsFresh, JobsAreTrue, SpawnedOnce, BuiltHasImage
<1>2. ASSUME NEW s \in Uploads, row[s] = "BUILT"
      PROVE  /\ blobs[s].checksumOk /\ ~blobs[s].tooLarge
             /\ \E e \in blobs[s].entries : e.path[1] \in rootManifests
             /\ \E e \in blobs[s].entries : e.path[Len(e.path)] \in rootManifests /\ ~e.dir
  <2>1. row[s] # Absent
    BY <1>2, AbsentFacts
  <2>2. IsArtifact(blobs[s]) /\ Accepted(blobs[s]) /\ DetectManifest(blobs[s]) # "unknown"
    BY <1>2, <2>1 DEF SafetyInv, RowsArrive, JobsAreTrue, Manifested
  <2>3. QED
    BY <2>2, AcceptedWithManifest
<1>3. QED
  BY <1>1, <1>2 DEF BuiltFromManifest

\* The pipeline neither adds a row nor takes one away, and leaves the artifacts alone.
LEMMA WorkKeepsRows ==
    ASSUME BuildConstants, SafetyInv, Work
    PROVE  /\ UNCHANGED <<arrived, blobs>>
           /\ DOMAIN row' = Uploads
           /\ \A s \in Uploads : row'[s] = Absent <=> row[s] = Absent
<1>1. /\ row \in [Uploads -> Statuses \cup {Absent}]
      /\ Absent \notin Statuses /\ "BUILDING" \in Statuses
      /\ "BUILD_INFRASTRUCTURE_ERROR" \in Statuses /\ Verdicts \subseteq Statuses
  BY DEF SafetyInv, TypeOK, BuildConstants, Statuses, Verdicts
<1>2. watcher \in {"mark", "spawn", "report"} =>
          Head(batch) \in Uploads /\ row[Head(batch)] # Absent
  <2>1. ASSUME watcher \in {"mark", "spawn", "report"}
        PROVE  Head(batch) \in Uploads /\ row[Head(batch)] # Absent
    <3>1. batch \in Seq(Uploads) /\ batch # <<>>
      BY <2>1 DEF SafetyInv, TypeOK
    <3>2. Head(batch) = batch[1] /\ 1 \in 1..Len(batch) /\ Head(batch) \in Uploads
      BY <3>1
    <3>3. row[Head(batch)] # Absent
      <4>1. "UPLOADED" # Absent /\ "BUILDING" # Absent
        BY <1>1 DEF Statuses
      <4>2. QED
        BY <2>1, <3>2, <4>1 DEF SafetyInv, BatchIsFresh
    <3>4. QED
      BY <3>2, <3>3
  <2>2. QED
    BY <2>1
<1>3. ASSUME NEW s \in Uploads, row[s] # Absent, NEW status \in Statuses,
             row' \in {row, [row EXCEPT ![s] = status]}
      PROVE  DOMAIN row' = Uploads /\ \A r \in Uploads : row'[r] = Absent <=> row[r] = Absent
  BY <1>1, <1>3
<1>4. CASE Watch \/ Crash
  <2>1. UNCHANGED <<arrived, blobs>>
    BY <1>4 DEF Watch, Crash, Poll, markBuilding, MarkFails, SpawnBuildJob, SpawnFails,
                ReportSpawnError
  <2>2. \/ row' = row
        \/ /\ watcher \in {"mark", "report"}
           /\ \E status \in Statuses : row' \in {row, [row EXCEPT ![Head(batch)] = status]}
    BY <1>1, <1>4 DEF Watch, Crash, Poll, markBuilding, MarkFails, SpawnBuildJob, SpawnFails,
                      ReportSpawnError
  <2>3. QED
    BY <1>1, <1>2, <1>3, <2>1, <2>2
<1>5. ASSUME NEW s \in Uploads, StartPod(s) \/ Execute(s) \/ KillJob(s)
      PROVE  /\ UNCHANGED <<arrived, blobs>>
             /\ DOMAIN row' = Uploads
             /\ \A r \in Uploads : row'[r] = Absent <=> row[r] = Absent
  <2>1. UNCHANGED <<arrived, blobs>>
    BY <1>5 DEF StartPod, Execute, KillJob, NoManifest, RunBuild, Publish, PublishFails,
                StoreImageDigest, WriteVerdict
  <2>2. row' = row \/ (job[s] \in Verdicts /\ row' \in {row, [row EXCEPT ![s] = job[s]]})
    BY <1>5 DEF StartPod, Execute, KillJob, NoManifest, RunBuild, Publish, PublishFails,
                StoreImageDigest, WriteVerdict
  <2>3. job[s] \in Verdicts => row[s] # Absent
    BY DEF SafetyInv, UnmarkedIsFresh, Verdicts
  <2>4. QED
    BY <1>1, <1>3, <2>1, <2>2, <2>3
<1>6. QED
  BY <1>4, <1>5 DEF Work
=============================================================================
