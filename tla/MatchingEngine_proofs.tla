------------------------ MODULE MatchingEngine_proofs ------------------------
(***************************************************************************)
(* Proofs about MatchingEngine for every set of order ids and every bound  *)
(* on prices and quantities: the book stays consistent, implements         *)
(* price-time priority, its snapshot tells what the ledger does, and       *)
(* matching advances at every step.                                        *)
(***************************************************************************)
EXTENDS MatchingEngine, SequenceTheorems, FiniteSetTheorems,
        WellFoundedInduction, TLAPS

-----------------------------------------------------------------------------
(* The inductive invariant *)

\* What a queue holds.
Resting == [id: Ids, qty: 1..MaxQty]

\* Every resting order is indexed where it rests.
RestingIndexed ==
    \A side \in Sides : \A k \in DOMAIN levels[side] :
        \A i \in DOMAIN levels[side][k] :
            index[levels[side][k][i].id] = <<side, PriceOf(side, k)>>

\* Every indexed order rests where the index says.
IndexedRests ==
    \A id \in Ids : \A side \in Sides : \A k \in Prices :
        index[id] = <<side, PriceOf(side, k)>> =>
            /\ k \in DOMAIN levels[side]
            /\ \E i \in DOMAIN levels[side][k] : levels[side][k][i].id = id

\* A queue holds its orders in the order they were submitted, so none twice.
QueuesOrdered ==
    \A side \in Sides : \A k \in DOMAIN levels[side] :
        \A i, j \in DOMAIN levels[side][k] :
            i < j => time[levels[side][k][i].id] < time[levels[side][k][j].id]

\* Nothing is known of an id before it is submitted.
UnplacedIsFresh ==
    \A id \in Ids : placed[id] = Nil =>
        index[id] = Nil /\ filled[id] = 0 /\ time[id] = 0

\* The order being matched is the latest one, and is not on the book.
IncomingIsLatest ==
    incoming # Nil =>
        /\ placed[incoming.id] # Nil
        /\ index[incoming.id] = Nil
        /\ time[incoming.id] = clock
        /\ \A id \in Ids \ {incoming.id} : time[id] < clock

SafetyInv ==
    /\ TypeOK
    /\ NotCrossed
    /\ QuantityConserved
    /\ RestingIndexed
    /\ IndexedRests
    /\ QueuesOrdered
    /\ UnplacedIsFresh
    /\ IncomingIsLatest

-----------------------------------------------------------------------------
(* Facts about numbers, keys and sequences *)

\* A non-empty set of natural numbers has a least element.
LEMMA LeastNatural ==
    ASSUME NEW T \in SUBSET Nat, T # {}
    PROVE  \E x \in T : \A y \in T : x <= y
<1> DEFINE R == {ss \in Nat \X Nat : ss[1] < ss[2]}
<1>1. IsWellFoundedOn(R, Nat)
  BY NatLessThanWellFounded DEF OpToRel
<1>2. \A x, y \in Nat : <<y, x>> \in R <=> y < x
  OBVIOUS
<1> HIDE DEF R
<1>3. PICK x \in T : \A y \in T : ~(<<y, x>> \in R)
  BY <1>1, WFMin
<1>4. ASSUME NEW y \in T
      PROVE  x <= y
  <2>1. x \in Nat /\ y \in Nat
    OBVIOUS
  <2>2. ~(y < x)
    BY <1>2, <1>3, <2>1
  <2>3. QED
    BY <2>1, <2>2
<1>5. QED
  BY <1>4

\* A price key stands for one price, and is the key of that price.
LEMMA KeyFacts ==
    ASSUME NEW side \in Sides, NEW k \in Prices
    PROVE  /\ Key(side, k) \in Prices
           /\ PriceOf(side, k) \in Prices
           /\ PriceOf(side, k) = Key(side, k)
           /\ Key(side, Key(side, k)) = k
BY BoundsAssumption DEF Key, PriceOf, Prices

\* No value of the model is Nil.
LEMMA NilFacts ==
    /\ \A id \in Ids : id # Nil
    /\ \A p \in Prices : p # Nil
    /\ \A o \in OrderEvents : o # Nil
    /\ \A side \in Sides, p \in Prices : <<side, p>> # Nil
BY NilAssumption

\* The front of a queue is its first element.
LEMMA FrontFacts ==
    ASSUME NEW S, NEW s \in Seq(S), s # <<>>
    PROVE  /\ 1 \in DOMAIN s
           /\ Head(s) = s[1]
           /\ s[1] \in S
<1>1. Len(s) \in Nat \ {0} /\ DOMAIN s = 1..Len(s)
  BY EmptySeq, LenProperties
<1>2. SubSeq(s, 1, Len(s)) = s
  BY SubSeqFull
<1>3. 1 \in 1..Len(s) /\ Len(s) \in 1..Len(s)
  BY <1>1
<1>4. Head(SubSeq(s, 1, Len(s))) = s[1]
  BY <1>3, HeadTailOfSubSeq
<1>5. s[1] \in S
  BY <1>3, ElementOfSeq
<1>6. QED
  BY <1>1, <1>2, <1>3, <1>4, <1>5

\* t is s without its j-th element.
Without(s, j, t) ==
    /\ Len(t) = Len(s) - 1
    /\ DOMAIN t = 1..(Len(s) - 1)
    /\ \A i \in 1..(Len(s) - 1) : t[i] = IF i < j THEN s[i] ELSE s[i + 1]

\* Tail takes the first element out.
LEMMA TailFacts ==
    ASSUME NEW S, NEW s \in Seq(S), s # <<>>
    PROVE  Tail(s) \in Seq(S) /\ Without(s, 1, Tail(s))
<1>1. /\ Tail(s) \in Seq(S)
      /\ Len(Tail(s)) = Len(s) - 1
      /\ \A i \in 1..Len(Tail(s)) : Tail(s)[i] = s[i + 1]
  BY HeadTailProperties
<1>2. DOMAIN Tail(s) = 1..Len(Tail(s))
  BY <1>1, LenProperties
<1>3. Len(s) \in Nat
  BY LenProperties
<1>4. QED
  BY <1>1, <1>2, <1>3 DEF Without

\* RemoveAt takes the j-th element out.
LEMMA RemoveFacts ==
    ASSUME NEW S, NEW s \in Seq(S), NEW j \in 1..Len(s)
    PROVE  RemoveAt(s, j) \in Seq(S) /\ Without(s, j, RemoveAt(s, j))
<1> DEFINE a == SubSeq(s, 1, j - 1)
           b == SubSeq(s, j + 1, Len(s))
<1>1. Len(s) \in Nat /\ \A i \in 1..Len(s) : s[i] \in S
  BY LenProperties, ElementOfSeq
<1>2. /\ a \in Seq(S)
      /\ Len(a) = j - 1
      /\ \A i \in 1..(j - 1) : a[i] = s[i]
  <2>1. \A i \in 1..(j - 1) : s[i] \in S
    BY <1>1
  <2>2. /\ a \in Seq(S)
        /\ Len(a) = IF 1 <= j - 1 THEN (j - 1) - 1 + 1 ELSE 0
        /\ \A i \in 1..((j - 1) - 1 + 1) : a[i] = s[1 + i - 1]
    BY <1>1, <2>1, SubSeqProperties
  <2> HIDE DEF a
  <2>3. QED
    BY <1>1, <2>2
<1>3. /\ b \in Seq(S)
      /\ Len(b) = Len(s) - j
      /\ \A i \in 1..(Len(s) - j) : b[i] = s[j + i]
  <2>1. \A i \in (j + 1)..Len(s) : s[i] \in S
    BY <1>1
  <2>2. /\ b \in Seq(S)
        /\ Len(b) = IF j + 1 <= Len(s) THEN Len(s) - (j + 1) + 1 ELSE 0
        /\ \A i \in 1..(Len(s) - (j + 1) + 1) : b[i] = s[(j + 1) + i - 1]
    BY <1>1, <2>1, SubSeqProperties
  <2> HIDE DEF b
  <2>3. QED
    BY <1>1, <2>2
<1> HIDE DEF a, b
<1>4. /\ a \o b \in Seq(S)
      /\ Len(a \o b) = Len(a) + Len(b)
      /\ \A i \in 1..(Len(a) + Len(b)) :
            (a \o b)[i] = IF i <= Len(a) THEN a[i] ELSE b[i - Len(a)]
  BY <1>2, <1>3, ConcatProperties
<1>5. DOMAIN (a \o b) = 1..Len(a \o b)
  BY <1>4, LenProperties
<1>6. RemoveAt(s, j) = a \o b
  BY DEF RemoveAt, a, b
<1> DEFINE t == a \o b
<1>7. t \in Seq(S) /\ Len(t) = Len(s) - 1 /\ DOMAIN t = 1..(Len(s) - 1)
  BY <1>1, <1>2, <1>3, <1>4, <1>5
<1>8. ASSUME NEW i \in 1..(Len(s) - 1)
      PROVE  t[i] = IF i < j THEN s[i] ELSE s[i + 1]
  <2>1. t[i] = IF i <= j - 1 THEN a[i] ELSE b[i - (j - 1)]
    BY <1>1, <1>2, <1>3, <1>4
  <2> HIDE DEF t
  <2>2. CASE i < j
    BY <1>2, <2>1, <2>2
  <2>3. CASE i >= j
    <3>1. i - (j - 1) \in 1..(Len(s) - j) /\ j + (i - (j - 1)) = i + 1
      BY <1>1, <2>3
    <3>2. QED
      BY <1>3, <2>1, <2>3, <3>1
  <2>4. QED
    BY <2>2, <2>3
<1> HIDE DEF t
<1>9. RemoveAt(s, j) = t
  BY <1>6 DEF t
<1>10. QED
  BY <1>7, <1>8, <1>9 DEF Without

-----------------------------------------------------------------------------
(* Facts about the book *)

\* The types of one level of the book.
LEMMA LevelFacts ==
    ASSUME TypeOK, NEW side \in Sides, NEW k \in DOMAIN levels[side]
    PROVE  /\ k \in Prices
           /\ levels[side][k] \in Seq(Resting)
           /\ levels[side][k] # <<>>
           /\ Len(levels[side][k]) \in Nat \ {0}
           /\ DOMAIN levels[side][k] = 1..Len(levels[side][k])
           /\ \A i \in DOMAIN levels[side][k] :
                 /\ levels[side][k][i] \in Resting
                 /\ levels[side][k][i].id \in Ids
                 /\ levels[side][k][i].qty \in 1..MaxQty
<1>1. /\ k \in Prices
      /\ levels[side][k] \in Seq(Resting)
      /\ levels[side][k] # <<>>
  BY DEF TypeOK, Resting
<1> DEFINE q == levels[side][k]
<1> HIDE DEF q
<1>2. Len(q) \in Nat \ {0} /\ DOMAIN q = 1..Len(q)
  BY <1>1, EmptySeq, LenProperties DEF q
<1>3. \A i \in DOMAIN q : q[i] \in Resting
  BY <1>1, <1>2, ElementOfSeq DEF q
<1>4. QED
  BY <1>1, <1>2, <1>3 DEF q, Resting

\* The best key of a side is its first, when the side is not empty.
LEMMA BestKeyFacts ==
    ASSUME TypeOK, NEW side \in Sides, DOMAIN levels[side] # {}
    PROVE  /\ BestKey(side) \in DOMAIN levels[side]
           /\ \A k \in DOMAIN levels[side] : BestKey(side) <= k
<1>1. DOMAIN levels[side] \in SUBSET Nat
  BY BoundsAssumption DEF TypeOK, Prices
<1>2. \E k \in DOMAIN levels[side] : \A j \in DOMAIN levels[side] : k <= j
  BY <1>1, LeastNatural
<1>3. QED
  BY <1>2 DEF BestKey

\* The queue at key is replaced and every other level is kept.
LevelsSet(side, key, queue) ==
    /\ DOMAIN levels' = Sides
    /\ \A s \in Sides \ {side} : levels'[s] = levels[s]
    /\ \A k : k \in DOMAIN levels'[side] <=>
                IF k = key THEN queue # <<>> ELSE k \in DOMAIN levels[side]
    /\ \A k \in DOMAIN levels'[side] :
          levels'[side][k] = IF k = key THEN queue ELSE levels[side][k]

\* That is what the engine's updates of levels through WithQueue do.
LEMMA WithQueueFacts ==
    ASSUME TypeOK, NEW side \in Sides, NEW key, NEW queue,
           levels' = [levels EXCEPT ![side] = WithQueue(side, key, queue)]
    PROVE  LevelsSet(side, key, queue)
<1> DEFINE new == WithQueue(side, key, queue)
<1>1. /\ \A k : k \in DOMAIN new <=>
                 IF k = key THEN queue # <<>> ELSE k \in DOMAIN levels[side]
      /\ \A k \in DOMAIN new : new[k] = IF k = key THEN queue ELSE levels[side][k]
  <2>1. CASE queue = <<>>
    BY <2>1 DEF WithQueue
  <2>2. CASE queue # <<>>
    BY <2>2 DEF WithQueue
  <2>3. QED
    BY <2>1, <2>2
<1> HIDE DEF new
<1>2. levels' = [levels EXCEPT ![side] = new]
  BY DEF new
<1>3. /\ DOMAIN levels' = Sides
      /\ levels'[side] = new
      /\ \A s \in Sides \ {side} : levels'[s] = levels[s]
  BY <1>2 DEF TypeOK
<1>4. QED
  BY <1>1, <1>3 DEF LevelsSet

\* The types of the book, apart from those of the rest of the state.
LevelsTyped ==
    /\ DOMAIN levels = Sides
    /\ \A side \in Sides :
          /\ DOMAIN levels[side] \subseteq Prices
          /\ \A k \in DOMAIN levels[side] :
                /\ levels[side][k] \in Seq(Resting)
                /\ levels[side][k] # <<>>

\* The new levels have their types when the new queue has.
LEMMA LevelsSetTyped ==
    ASSUME TypeOK, NEW side \in Sides, NEW key \in Prices, NEW queue \in Seq(Resting),
           LevelsSet(side, key, queue)
    PROVE  LevelsTyped'
<1>1. \A s \in Sides \ {side} : levels'[s] = levels[s]
  BY DEF LevelsSet
<1>2. DOMAIN levels' = Sides
  BY DEF LevelsSet
<1>3. ASSUME NEW s \in Sides
      PROVE  /\ DOMAIN levels'[s] \subseteq Prices
             /\ \A k \in DOMAIN levels'[s] :
                   /\ levels'[s][k] \in Seq(Resting)
                   /\ levels'[s][k] # <<>>
  <2>1. CASE s # side
    BY <1>1, <2>1 DEF TypeOK, Resting
  <2>2. CASE s = side
    BY <2>2 DEF TypeOK, Resting, LevelsSet
  <2>3. QED
    BY <2>1, <2>2
<1>4. QED
  BY <1>2, <1>3 DEF LevelsTyped

\* No order is on the book twice.
LEMMA RestsOnce ==
    ASSUME TypeOK, RestingIndexed, QueuesOrdered,
           NEW s \in Sides, NEW k \in DOMAIN levels[s], NEW i \in DOMAIN levels[s][k],
           NEW t \in Sides, NEW l \in DOMAIN levels[t], NEW j \in DOMAIN levels[t][l],
           levels[s][k][i].id = levels[t][l][j].id
    PROVE  s = t /\ k = l /\ i = j
<1>1. <<s, PriceOf(s, k)>> = <<t, PriceOf(t, l)>>
  BY DEF RestingIndexed
<1>2. s = t /\ PriceOf(s, k) = PriceOf(t, l)
  BY <1>1
<1>3. k = l
  BY <1>2, LevelFacts, KeyFacts
<1>4. i \in Int /\ j \in Int
  BY LevelFacts
<1>5. time[levels[s][k][i].id] \in Int
  <2>1. levels[s][k][i].id \in Ids
    BY LevelFacts
  <2>2. time \in [Ids -> 0..clock] /\ clock \in Nat
    BY DEF TypeOK
  <2>3. QED
    BY <2>1, <2>2
<1>6. ~(i < j) /\ ~(j < i)
  BY <1>2, <1>3, <1>5 DEF QueuesOrdered
<1>7. QED
  BY <1>2, <1>3, <1>4, <1>6

\* The book loses at most the order gone and keeps the others in their places,
\* unchanged but for the order cut.
BookThinned(gone, cut) ==
    /\ \A s \in Sides : \A k \in DOMAIN levels'[s] :
          /\ k \in DOMAIN levels[s]
          /\ \A i \in DOMAIN levels'[s][k] : \E o \in DOMAIN levels[s][k] :
                /\ levels[s][k][o].id = levels'[s][k][i].id
                /\ levels[s][k][o].id # gone
                /\ levels[s][k][o].id # cut => levels[s][k][o] = levels'[s][k][i]
          /\ \A i, j \in DOMAIN levels'[s][k] :
                i < j => \E o, p \in DOMAIN levels[s][k] :
                            /\ o < p
                            /\ levels[s][k][o].id = levels'[s][k][i].id
                            /\ levels[s][k][p].id = levels'[s][k][j].id
    /\ \A s \in Sides : \A k \in DOMAIN levels[s] : \A o \in DOMAIN levels[s][k] :
          levels[s][k][o].id # gone =>
             /\ k \in DOMAIN levels'[s]
             /\ \E i \in DOMAIN levels'[s][k] :
                   /\ levels[s][k][o].id = levels'[s][k][i].id
                   /\ levels[s][k][o].id # cut => levels[s][k][o] = levels'[s][k][i]

\* Taking the j-th order out of a queue thins the book by that order.
LEMMA RemovalThins ==
    ASSUME TypeOK, RestingIndexed, QueuesOrdered,
           NEW side \in Sides, NEW key \in DOMAIN levels[side],
           NEW j \in DOMAIN levels[side][key], NEW queue \in Seq(Resting),
           Without(levels[side][key], j, queue),
           LevelsSet(side, key, queue)
    PROVE  BookThinned(levels[side][key][j].id, Nil)
<1> DEFINE gone == levels[side][key][j].id
           n == Len(levels[side][key])
           from(i) == IF i < j THEN i ELSE i + 1
<1>1. n \in Nat \ {0} /\ DOMAIN levels[side][key] = 1..n /\ j \in 1..n
  BY LevelFacts
<1>2. DOMAIN queue = 1..(n - 1) /\ Len(queue) = n - 1
  BY DEF Without
<1>3. \A i \in 1..(n - 1) :
         /\ from(i) \in 1..n
         /\ from(i) # j
         /\ queue[i] = levels[side][key][from(i)]
  BY <1>1 DEF Without
<1>4. \A s \in Sides : \A k \in DOMAIN levels[s] : \A o \in DOMAIN levels[s][k] :
         levels[s][k][o].id = gone => s = side /\ k = key /\ o = j
  BY RestsOnce
<1>5. queue = <<>> => n = 1
  BY <1>1, <1>2, EmptySeq
<1>6. \A s \in Sides \ {side} : levels'[s] = levels[s]
  BY DEF LevelsSet
<1>7. \A k : k \in DOMAIN levels'[side] <=>
             IF k = key THEN queue # <<>> ELSE k \in DOMAIN levels[side]
  BY DEF LevelsSet
<1>8. \A k \in DOMAIN levels'[side] :
         levels'[side][k] = IF k = key THEN queue ELSE levels[side][k]
  BY DEF LevelsSet
<1>9. \A s \in Sides : \A k \in DOMAIN levels[s] : \A o \in DOMAIN levels[s][k] : o \in Int
  BY LevelFacts
<1>10. ASSUME NEW s \in Sides, NEW k \in DOMAIN levels'[s]
       PROVE  /\ k \in DOMAIN levels[s]
              /\ \A i \in DOMAIN levels'[s][k] : \E o \in DOMAIN levels[s][k] :
                    levels[s][k][o].id # gone /\ levels[s][k][o] = levels'[s][k][i]
              /\ \A a, b \in DOMAIN levels'[s][k] :
                    a < b => \E o, p \in DOMAIN levels[s][k] :
                                /\ o < p
                                /\ levels[s][k][o] = levels'[s][k][a]
                                /\ levels[s][k][p] = levels'[s][k][b]
  <2>1. CASE s # side \/ k # key
    <3>1. k \in DOMAIN levels[s] /\ levels'[s][k] = levels[s][k]
      BY <1>6, <1>7, <1>8, <2>1
    <3>2. \A o \in DOMAIN levels[s][k] : levels[s][k][o].id # gone
      BY <1>4, <2>1, <3>1
    <3> HIDE DEF gone
    <3>3. QED
      BY <3>1, <3>2
  <2>2. CASE s = side /\ k = key
    <3>1. levels'[s][k] = queue
      BY <1>8, <2>2
    <3>2. \A i \in DOMAIN queue :
             /\ from(i) \in DOMAIN levels[s][k]
             /\ levels[s][k][from(i)].id # gone
             /\ levels[s][k][from(i)] = queue[i]
      <4>1. ASSUME NEW i \in DOMAIN queue
            PROVE  /\ from(i) \in DOMAIN levels[side][key] /\ from(i) # j
                   /\ levels[side][key][from(i)] = queue[i]
        BY <1>1, <1>2, <1>3
      <4> HIDE DEF from
      <4>2. QED
        BY <1>4, <2>2, <4>1
    <3>3. \A a, b \in DOMAIN queue : a < b => from(a) < from(b)
      BY <1>1, <1>2
    <3> HIDE DEF from, gone
    <3>4. QED
      BY <2>2, <3>1, <3>2, <3>3
  <2>3. QED
    BY <2>1, <2>2
<1>11. ASSUME NEW s \in Sides, NEW k \in DOMAIN levels[s], NEW o \in DOMAIN levels[s][k],
              levels[s][k][o].id # gone
       PROVE  /\ k \in DOMAIN levels'[s]
              /\ \E i \in DOMAIN levels'[s][k] : levels[s][k][o] = levels'[s][k][i]
  <2>1. CASE s # side \/ k # key
    BY <1>6, <1>7, <1>8, <2>1
  <2>2. CASE s = side /\ k = key
    <3> DEFINE i == IF o < j THEN o ELSE o - 1
    <3>1. o # j /\ o \in 1..n
      BY <1>1, <1>11, <2>2
    <3>2. i \in 1..(n - 1) /\ from(i) = o
      BY <1>1, <3>1
    <3> HIDE DEF i, from, n
    <3>3. queue[i] = levels[s][k][o] /\ n # 1
      <4>1. queue[i] = levels[side][key][o]
        BY <1>3, <3>2
      <4>2. n # 1
        BY <1>1, <3>2
      <4>3. QED
        BY <2>2, <4>1, <4>2
    <3>4. k \in DOMAIN levels'[s] /\ levels'[s][k] = queue
      BY <1>5, <1>7, <1>8, <2>2, <3>3
    <3>5. QED
      BY <1>2, <3>2, <3>3, <3>4
  <2>3. QED
    BY <2>1, <2>2
<1> HIDE DEF gone, from, n
<1>12. BookThinned(gone, Nil)
  BY <1>10, <1>11 DEF BookThinned
<1>13. QED
  BY <1>12 DEF gone

\* Reducing the order at the front of a queue thins the book by nothing.
LEMMA ReductionThins ==
    ASSUME TypeOK, RestingIndexed, QueuesOrdered,
           NEW side \in Sides, NEW key \in DOMAIN levels[side],
           NEW left, left.id = levels[side][key][1].id,
           LevelsSet(side, key, [levels[side][key] EXCEPT ![1] = left])
    PROVE  BookThinned(Nil, left.id)
<1> DEFINE queue == [levels[side][key] EXCEPT ![1] = left]
<1>1. /\ DOMAIN queue = DOMAIN levels[side][key]
      /\ 1 \in DOMAIN levels[side][key]
      /\ queue[1] = left
      /\ \A i \in DOMAIN queue : i # 1 => queue[i] = levels[side][key][i]
  BY LevelFacts
<1>2. queue # <<>>
  <2>1. 1 \notin DOMAIN <<>>
    BY EmptySeq, LenProperties
  <2>2. QED
    BY <1>1, <2>1
<1>3. \A s \in Sides : \A k \in DOMAIN levels[s] : \A o \in DOMAIN levels[s][k] :
         /\ levels[s][k][o].id # Nil
         /\ o \in Int
  BY LevelFacts, NilFacts
<1> HIDE DEF queue
<1>4. \A s \in Sides \ {side} : levels'[s] = levels[s]
  BY DEF LevelsSet
<1>5. \A k : k \in DOMAIN levels'[side] <=> k \in DOMAIN levels[side]
  BY <1>2 DEF LevelsSet, queue
<1>6. \A k \in DOMAIN levels'[side] :
         levels'[side][k] = IF k = key THEN queue ELSE levels[side][k]
  BY DEF LevelsSet, queue
<1>7. \A s \in Sides : \A k : k \in DOMAIN levels'[s] <=> k \in DOMAIN levels[s]
  BY <1>4, <1>5
<1>8. ASSUME NEW s \in Sides, NEW k \in DOMAIN levels[s]
      PROVE  /\ DOMAIN levels'[s][k] = DOMAIN levels[s][k]
             /\ \A i \in DOMAIN levels[s][k] :
                   /\ levels[s][k][i].id = levels'[s][k][i].id
                   /\ levels[s][k][i].id # left.id => levels[s][k][i] = levels'[s][k][i]
  <2>1. CASE s = side /\ k = key
    BY <1>1, <1>6, <1>7, <2>1
  <2>2. CASE s # side \/ k # key
    BY <1>4, <1>5, <1>6, <2>2
  <2>3. QED
    BY <2>1, <2>2
<1>9. QED
  BY <1>3, <1>7, <1>8 DEF BookThinned

\* A thinner book is as consistent as the one before, if the index loses the
\* order the book loses.
LEMMA ThinnedConsistent ==
    ASSUME TypeOK, NotCrossed, RestingIndexed, IndexedRests, QueuesOrdered,
           NEW gone, NEW cut, BookThinned(gone, cut), LevelsTyped',
           \A id \in Ids : index'[id] = IF id = gone THEN Nil ELSE index[id],
           time' = time
    PROVE  NotCrossed' /\ RestingIndexed' /\ IndexedRests' /\ QueuesOrdered'
<1>1. \A s \in Sides : \A k \in DOMAIN levels'[s] : k \in DOMAIN levels[s]
  BY DEF BookThinned
<1>2. NotCrossed'
  BY <1>1 DEF NotCrossed, Sides, PriceOf, Key
<1>3. ASSUME NEW s \in Sides, NEW k \in DOMAIN levels'[s], NEW i \in DOMAIN levels'[s][k]
      PROVE  index'[levels'[s][k][i].id] = <<s, PriceOf(s, k)>>
  <2>1. PICK o \in DOMAIN levels[s][k] :
           levels[s][k][o].id = levels'[s][k][i].id /\ levels[s][k][o].id # gone
    BY DEF BookThinned
  <2>2. k \in DOMAIN levels[s]
    BY <1>1
  <2>3. levels[s][k][o].id \in Ids
    BY <2>1, <2>2, LevelFacts
  <2>4. index[levels[s][k][o].id] = <<s, PriceOf(s, k)>>
    BY <2>2 DEF RestingIndexed
  <2>5. QED
    BY <2>1, <2>3, <2>4
<1>4. RestingIndexed'
  BY <1>3 DEF RestingIndexed, PriceOf, Key
<1>5. ASSUME NEW id \in Ids, NEW s \in Sides, NEW k \in Prices,
             index'[id] = <<s, PriceOf(s, k)>>
      PROVE  /\ k \in DOMAIN levels'[s]
             /\ \E i \in DOMAIN levels'[s][k] : levels'[s][k][i].id = id
  <2>1. PriceOf(s, k) \in Prices
    BY KeyFacts
  <2>2. id # gone /\ index[id] = <<s, PriceOf(s, k)>>
    BY <1>5, <2>1, NilFacts
  <2>3. k \in DOMAIN levels[s] /\ \E o \in DOMAIN levels[s][k] : levels[s][k][o].id = id
    BY <2>2 DEF IndexedRests
  <2>4. QED
    BY <2>2, <2>3 DEF BookThinned
<1>6. IndexedRests'
  BY <1>5 DEF IndexedRests, PriceOf, Key
<1>7. ASSUME NEW s \in Sides, NEW k \in DOMAIN levels'[s],
             NEW i \in DOMAIN levels'[s][k], NEW j \in DOMAIN levels'[s][k], i < j
      PROVE  time'[levels'[s][k][i].id] < time'[levels'[s][k][j].id]
  <2>1. PICK o \in DOMAIN levels[s][k], p \in DOMAIN levels[s][k] :
           /\ o < p
           /\ levels[s][k][o].id = levels'[s][k][i].id
           /\ levels[s][k][p].id = levels'[s][k][j].id
    BY <1>7 DEF BookThinned
  <2>2. time[levels[s][k][o].id] < time[levels[s][k][p].id]
    BY <1>1, <2>1 DEF QueuesOrdered
  <2>3. QED
    BY <2>1, <2>2
<1>8. QueuesOrdered'
  BY <1>7 DEF QueuesOrdered
<1>9. QED
  BY <1>2, <1>4, <1>6, <1>8

\* An order on the book is in the index.
LEMMA OnBook ==
    ASSUME TypeOK, RestingIndexed,
           NEW s \in Sides, NEW k \in DOMAIN levels[s], NEW i \in DOMAIN levels[s][k]
    PROVE  levels[s][k][i].id \in Ids /\ index[levels[s][k][i].id] # Nil
<1>1. k \in Prices /\ levels[s][k][i].id \in Ids
  BY LevelFacts
<1>2. index[levels[s][k][i].id] = <<s, PriceOf(s, k)>> /\ PriceOf(s, k) \in Prices
  BY <1>1, KeyFacts DEF RestingIndexed
<1>3. QED
  BY <1>1, <1>2, NilFacts

\* In a thinner book every order is accounted for as before, but for the one cut.
LEMMA ThinnedAccounts ==
    ASSUME SafetyInv, NEW gone, NEW cut, BookThinned(gone, cut), placed' = placed,
           \A id \in Ids \ {gone, cut} : index[id] # Nil => filled'[id] = filled[id],
           NEW s \in Sides, NEW k \in DOMAIN levels'[s], NEW i \in DOMAIN levels'[s][k]
    PROVE  /\ levels'[s][k][i].id \in Ids
           /\ levels'[s][k][i].id # cut =>
                 /\ placed'[levels'[s][k][i].id] # Nil
                 /\ levels'[s][k][i].qty + filled'[levels'[s][k][i].id]
                      = placed'[levels'[s][k][i].id].qty
<1>1. k \in DOMAIN levels[s]
  BY DEF BookThinned
<1>2. PICK o \in DOMAIN levels[s][k] :
         /\ levels[s][k][o].id = levels'[s][k][i].id
         /\ levels[s][k][o].id # gone
         /\ levels[s][k][o].id # cut => levels[s][k][o] = levels'[s][k][i]
  BY DEF BookThinned
<1>3. levels[s][k][o].id \in Ids /\ index[levels[s][k][o].id] # Nil
  BY <1>1, OnBook DEF SafetyInv
<1>4. ASSUME levels'[s][k][i].id # cut
      PROVE  /\ placed'[levels'[s][k][i].id] # Nil
             /\ levels'[s][k][i].qty + filled'[levels'[s][k][i].id]
                  = placed'[levels'[s][k][i].id].qty
  <2>1. levels[s][k][o] = levels'[s][k][i]
    BY <1>2, <1>4
  <2>2. filled'[levels[s][k][o].id] = filled[levels[s][k][o].id]
    BY <1>2, <1>3, <1>4
  <2>3. QED
    BY <1>1, <2>1, <2>2 DEF SafetyInv, QuantityConserved
<1>5. QED
  BY <1>2, <1>3, <1>4

-----------------------------------------------------------------------------
(* Every step keeps the inductive invariant *)

\* The order at the front of the best opposite level, while matching goes on.
LEMMA FrontOfBook ==
    ASSUME SafetyInv, MayTrade, NEW front, front = Head(levels[Against][TopKey])
    PROVE  /\ incoming \in OrderEvents
           /\ Against \in Sides
           /\ TopKey \in DOMAIN levels[Against]
           /\ TopPrice \in Prices
           /\ \A k \in DOMAIN levels[Against] : TopKey <= k
           /\ 1 \in DOMAIN levels[Against][TopKey]
           /\ front = levels[Against][TopKey][1]
           /\ front \in Resting
           /\ index[front.id] = <<Against, TopPrice>>
           /\ index[front.id] # Nil
           /\ front.id # incoming.id
<1>1. incoming \in OrderEvents /\ Against \in Sides
  BY DEF SafetyInv, TypeOK, MayTrade, OrderEvents, Against, Opposite, Sides
<1>2. /\ TopKey \in DOMAIN levels[Against]
      /\ \A k \in DOMAIN levels[Against] : TopKey <= k
  BY <1>1, BestKeyFacts DEF SafetyInv, MayTrade, TopKey
<1>3. /\ TopKey \in Prices
      /\ levels[Against][TopKey] \in Seq(Resting)
      /\ levels[Against][TopKey] # <<>>
  BY <1>1, <1>2, LevelFacts DEF SafetyInv
<1>4. /\ 1 \in DOMAIN levels[Against][TopKey]
      /\ front = levels[Against][TopKey][1]
      /\ front \in Resting
  BY <1>3, FrontFacts
<1>5. TopPrice \in Prices /\ TopPrice = PriceOf(Against, TopKey)
  BY <1>1, <1>3, KeyFacts DEF TopPrice
<1>6. index[front.id] = <<Against, TopPrice>>
  BY <1>1, <1>2, <1>4, <1>5 DEF SafetyInv, RestingIndexed
<1>7. index[front.id] # Nil
  BY <1>1, <1>5, <1>6, NilFacts
<1>8. index[incoming.id] = Nil
  BY DEF SafetyInv, IncomingIsLatest, MayTrade
<1>9. QED
  BY <1>1, <1>2, <1>4, <1>5, <1>6, <1>7, <1>8

\* A fill of q takes the same from what remains of the incoming order as it
\* adds to the fills of both orders.
LEMMA EmitFacts ==
    ASSUME SafetyInv, MayTrade, NEW front, front = Head(levels[Against][TopKey]),
           NEW q \in Nat, q <= incoming.qty, q <= front.qty,
           Emit(front.id, q), placed' = placed
    PROVE  /\ incoming' \in OrderEvents
           /\ incoming'.id = incoming.id
           /\ incoming'.qty = incoming.qty - q
           /\ filled' \in [Ids -> 0..MaxQty]
           /\ \A id \in Ids \ {incoming.id, front.id} : filled'[id] = filled[id]
           /\ filled'[front.id] = filled[front.id] + q
           /\ incoming'.qty + filled'[incoming.id] = placed[incoming.id].qty
<1>1. /\ incoming \in OrderEvents
      /\ Against \in Sides
      /\ TopKey \in DOMAIN levels[Against]
      /\ 1 \in DOMAIN levels[Against][TopKey]
      /\ front = levels[Against][TopKey][1]
      /\ front \in Resting
      /\ front.id # incoming.id
  BY FrontOfBook
<1>2. /\ incoming.id \in Ids /\ incoming.qty \in 0..MaxQty
      /\ front.id \in Ids /\ front.qty \in 1..MaxQty
  BY <1>1 DEF OrderEvents, Resting
<1>3. incoming' = [incoming EXCEPT !.qty = @ - q]
  BY DEF Emit
<1>4. incoming.qty - q \in 0..MaxQty
  BY <1>2, BoundsAssumption
<1>5. /\ incoming' \in OrderEvents
      /\ incoming'.id = incoming.id
      /\ incoming'.qty = incoming.qty - q
  BY <1>1, <1>3, <1>4 DEF OrderEvents
<1>6. filled \in [Ids -> 0..MaxQty]
  BY DEF SafetyInv, TypeOK
<1>7. filled' = [filled EXCEPT ![incoming.id] = @ + q, ![front.id] = @ + q]
  BY DEF Emit
<1>8. /\ DOMAIN filled' = Ids
      /\ filled'[incoming.id] = filled[incoming.id] + q
      /\ filled'[front.id] = filled[front.id] + q
      /\ \A id \in Ids \ {incoming.id, front.id} : filled'[id] = filled[id]
      /\ filled' = [id \in Ids |-> filled'[id]]
  BY <1>1, <1>2, <1>6, <1>7
<1>9. /\ placed[front.id] # Nil
      /\ placed[incoming.id] # Nil
      /\ front.qty + filled[front.id] = placed[front.id].qty
      /\ incoming.qty + filled[incoming.id] = placed[incoming.id].qty
  BY <1>1, NilFacts DEF SafetyInv, QuantityConserved, IncomingIsLatest
<1>10. placed[front.id].qty \in 0..MaxQty /\ placed[incoming.id].qty \in 0..MaxQty
  BY <1>2, <1>9 DEF SafetyInv, TypeOK, OrderEvents
<1>11. filled[incoming.id] \in Nat /\ filled[front.id] \in Nat
  BY <1>2, <1>6
<1>12. /\ incoming'.qty + filled'[incoming.id] = placed[incoming.id].qty
       /\ filled'[incoming.id] \in 0..MaxQty
       /\ filled'[front.id] \in 0..MaxQty
  <2>1. PICK a, b, m, n : a = incoming.qty /\ m = filled[incoming.id]
                          /\ b = front.qty /\ n = filled[front.id]
    OBVIOUS
  <2>2. {a, b, m, n} \subseteq Nat /\ q <= a /\ q <= b
    BY <1>2, <1>11, <2>1
  <2>3. a + m \in 0..MaxQty /\ b + n \in 0..MaxQty
    BY <1>9, <1>10, <2>1
  <2>4. m + q \in 0..MaxQty /\ n + q \in 0..MaxQty /\ (a - q) + (m + q) = a + m
    BY <2>2, <2>3, BoundsAssumption
  <2>5. QED
    BY <1>5, <1>8, <1>9, <2>1, <2>4
<1>13. \A id \in Ids : filled'[id] \in 0..MaxQty
  BY <1>6, <1>8, <1>12
<1>14. QED
  BY <1>5, <1>8, <1>12, <1>13

\* The engine's type invariant is what it says of the levels and of the rest.
LEMMA TypeParts ==
    ASSUME LevelsTyped', index' \in [Ids -> {Nil} \cup (Sides \X Prices)],
           incoming' \in {Nil} \cup OrderEvents,
           placed' \in [Ids -> {Nil} \cup OrderEvents],
           filled' \in [Ids -> 0..MaxQty],
           clock' \in Nat, time' \in [Ids -> 0..clock']
    PROVE  TypeOK'
BY DEF TypeOK, LevelsTyped, Resting

\* A fill that exhausts the front order takes it off the book.
LEMMA FillWholeThins ==
    ASSUME SafetyInv, FillWhole
    PROVE  LevelsTyped' /\ BookThinned(Head(levels[Against][TopKey]).id, Nil)
<1> DEFINE queue == levels[Against][TopKey]
           front == Head(queue)
<1>1. MayTrade
  BY DEF FillWhole
<1>2. /\ Against \in Sides /\ TopKey \in DOMAIN levels[Against]
      /\ 1 \in DOMAIN queue /\ front = queue[1]
  BY <1>1, FrontOfBook
<1>3. TopKey \in Prices /\ queue \in Seq(Resting) /\ queue # <<>>
  BY <1>2, LevelFacts DEF SafetyInv
<1>4. Tail(queue) \in Seq(Resting) /\ Without(queue, 1, Tail(queue))
  BY <1>3, TailFacts
<1>5. levels' = [levels EXCEPT ![Against] = WithQueue(Against, TopKey, Tail(queue))]
  BY DEF FillWhole
<1>6. LevelsSet(Against, TopKey, Tail(queue))
  BY <1>2, <1>5, WithQueueFacts DEF SafetyInv
<1>7. LevelsTyped'
  BY <1>2, <1>3, <1>4, <1>6, LevelsSetTyped DEF SafetyInv
<1>8. BookThinned(front.id, Nil)
  BY <1>2, <1>4, <1>6, RemovalThins DEF SafetyInv
<1>9. QED
  BY <1>7, <1>8

\* A fill that exhausts the front order keeps the invariant.
LEMMA FillWholeStep ==
    ASSUME SafetyInv, FillWhole
    PROVE  SafetyInv'
<1> DEFINE queue == levels[Against][TopKey]
           front == Head(queue)
<1>1. MayTrade /\ Emit(front.id, front.qty) /\ front.qty <= incoming.qty
  BY DEF FillWhole
<1>2. /\ incoming \in OrderEvents /\ Against \in Sides
      /\ TopKey \in DOMAIN levels[Against] /\ 1 \in DOMAIN queue
      /\ front = queue[1] /\ front \in Resting
      /\ index[front.id] # Nil /\ front.id # incoming.id
  BY <1>1, FrontOfBook
<1>3. front.id \in Ids /\ front.qty \in Nat
  BY <1>2 DEF Resting
<1>4. LevelsTyped' /\ BookThinned(front.id, Nil)
  BY FillWholeThins
<1>5. /\ index' = [index EXCEPT ![front.id] = Nil]
      /\ UNCHANGED <<placed, clock, time>>
  BY DEF FillWhole
<1>6. /\ incoming' \in OrderEvents
      /\ incoming'.id = incoming.id
      /\ filled' \in [Ids -> 0..MaxQty]
      /\ \A id \in Ids \ {incoming.id, front.id} : filled'[id] = filled[id]
      /\ incoming'.qty + filled'[incoming.id] = placed[incoming.id].qty
  <2> HIDE DEF front
  <2>1. front.qty <= front.qty
    BY <1>3
  <2>2. QED
    BY <1>1, <1>3, <1>5, <2>1, EmitFacts DEF front
<1> HIDE DEF front, queue
<1>7. \A id \in Ids : index'[id] = IF id = front.id THEN Nil ELSE index[id]
  BY <1>5 DEF SafetyInv, TypeOK
<1>8. NotCrossed' /\ RestingIndexed' /\ IndexedRests' /\ QueuesOrdered'
  BY <1>4, <1>5, <1>7, ThinnedConsistent DEF SafetyInv
<1>9. TypeOK'
  <2>1. index' \in [Ids -> {Nil} \cup (Sides \X Prices)]
    BY <1>5 DEF SafetyInv, TypeOK
  <2>2. QED
    BY <1>4, <1>5, <1>6, <2>1, TypeParts DEF SafetyInv, TypeOK
<1>10. QuantityConserved'
  <2>1. ASSUME NEW s \in Sides, NEW k \in DOMAIN levels'[s], NEW i \in DOMAIN levels'[s][k]
        PROVE  /\ placed'[levels'[s][k][i].id] # Nil
               /\ levels'[s][k][i].qty + filled'[levels'[s][k][i].id]
                    = placed'[levels'[s][k][i].id].qty
    <3>1. \A id \in Ids \ {front.id, Nil} : index[id] # Nil => filled'[id] = filled[id]
      BY <1>1, <1>6 DEF SafetyInv, IncomingIsLatest, MayTrade
    <3>2. QED
      BY <1>4, <1>5, <3>1, ThinnedAccounts, NilFacts
  <2>2. incoming'.qty + filled'[incoming'.id] = placed'[incoming'.id].qty
    BY <1>5, <1>6
  <2>3. QED
    BY <2>1, <2>2 DEF QuantityConserved
<1>11. UnplacedIsFresh'
  <2>1. placed[front.id] # Nil /\ placed[incoming.id] # Nil
    BY <1>1, <1>2, <1>3 DEF SafetyInv, UnplacedIsFresh, IncomingIsLatest, MayTrade
  <2>2. QED
    BY <1>5, <1>6, <1>7, <2>1 DEF SafetyInv, UnplacedIsFresh
<1>12. IncomingIsLatest'
  <2>1. incoming.id \in Ids
    BY <1>2 DEF OrderEvents
  <2>2. incoming # Nil
    BY <1>1 DEF MayTrade
  <2>3. QED
    BY <1>5, <1>6, <1>7, <2>1, <2>2 DEF SafetyInv, IncomingIsLatest
<1>13. QED
  BY <1>8, <1>9, <1>10, <1>11, <1>12 DEF SafetyInv

\* A fill smaller than the front order leaves it at its place with the rest of
\* its quantity.
LEMMA FillPartThins ==
    ASSUME SafetyInv, FillPart, NEW front, front = Head(levels[Against][TopKey])
    PROVE  /\ LevelsTyped'
           /\ BookThinned(Nil, front.id)
           /\ TopKey \in DOMAIN levels'[Against]
           /\ DOMAIN levels'[Against][TopKey] = DOMAIN levels[Against][TopKey]
           /\ levels'[Against][TopKey][1].id = front.id
           /\ levels'[Against][TopKey][1].qty = front.qty - incoming.qty
           /\ \A i \in DOMAIN levels[Against][TopKey] :
                 i # 1 => levels'[Against][TopKey][i] = levels[Against][TopKey][i]
<1> DEFINE queue == levels[Against][TopKey]
           left == [front EXCEPT !.qty = @ - incoming.qty]
<1>1. MayTrade /\ front.qty > incoming.qty
  BY DEF FillPart
<1>2. /\ incoming \in OrderEvents /\ Against \in Sides
      /\ TopKey \in DOMAIN levels[Against] /\ 1 \in DOMAIN queue
      /\ front = queue[1] /\ front \in Resting
  BY <1>1, FrontOfBook
<1>3. front.qty \in 1..MaxQty /\ incoming.qty \in 0..MaxQty /\ front.id \in Ids
  BY <1>2 DEF Resting, OrderEvents
<1>4. TopKey \in Prices /\ queue \in Seq(Resting) /\ 1 \in 1..Len(queue)
  BY <1>2, LevelFacts DEF SafetyInv
<1>5. left \in Resting /\ left.id = front.id /\ left.qty = front.qty - incoming.qty
  <2>1. front.qty - incoming.qty \in 1..MaxQty
    BY <1>1, <1>3, BoundsAssumption
  <2>2. QED
    BY <1>2, <2>1 DEF Resting
<1>6. levels' = [levels EXCEPT ![Against] =
                    WithQueue(Against, TopKey, [queue EXCEPT ![1] = left])]
  BY DEF FillPart
<1> HIDE DEF left
<1>7. [queue EXCEPT ![1] = left] \in Seq(Resting)
  BY <1>4, <1>5, ExceptSeq
<1>8. LevelsSet(Against, TopKey, [queue EXCEPT ![1] = left])
  BY <1>2, <1>6, WithQueueFacts DEF SafetyInv
<1>9. LevelsTyped'
  BY <1>2, <1>4, <1>7, <1>8, LevelsSetTyped DEF SafetyInv
<1>10. BookThinned(Nil, front.id)
  BY <1>2, <1>5, <1>8, ReductionThins DEF SafetyInv
<1>11. TopKey \in DOMAIN levels'[Against]
  <2>1. queue[1].id # Nil
    BY <1>2, <1>3, NilFacts
  <2>2. QED
    BY <1>2, <1>10, <2>1 DEF BookThinned
<1>12. levels'[Against][TopKey] = [queue EXCEPT ![1] = left]
  BY <1>8, <1>11 DEF LevelsSet
<1>13. /\ levels'[Against][TopKey][1] = left
       /\ DOMAIN levels'[Against][TopKey] = DOMAIN queue
       /\ \A i \in DOMAIN queue : i # 1 => levels'[Against][TopKey][i] = queue[i]
  BY <1>2, <1>12
<1>14. QED
  BY <1>5, <1>9, <1>10, <1>11, <1>13

\* A fill that leaves some of the front order keeps the invariant.
LEMMA FillPartStep ==
    ASSUME SafetyInv, FillPart
    PROVE  SafetyInv'
<1> DEFINE queue == levels[Against][TopKey]
           front == Head(queue)
<1>1. MayTrade /\ Emit(front.id, incoming.qty) /\ front.qty > incoming.qty
  BY DEF FillPart
<1>2. /\ incoming \in OrderEvents /\ Against \in Sides
      /\ TopKey \in DOMAIN levels[Against] /\ 1 \in DOMAIN queue
      /\ front = queue[1] /\ front \in Resting
      /\ index[front.id] # Nil /\ front.id # incoming.id
  BY <1>1, FrontOfBook
<1>3. /\ front.id \in Ids /\ front.qty \in 1..MaxQty
      /\ incoming.id \in Ids /\ incoming.qty \in 0..MaxQty
  BY <1>2 DEF Resting, OrderEvents
<1>4. TopKey \in Prices
  BY <1>2, LevelFacts DEF SafetyInv
<1>5. UNCHANGED <<index, placed, clock, time>>
  BY DEF FillPart
<1>6. /\ LevelsTyped'
      /\ BookThinned(Nil, front.id)
      /\ DOMAIN levels'[Against][TopKey] = DOMAIN queue
      /\ levels'[Against][TopKey][1].qty = front.qty - incoming.qty
      /\ \A i \in DOMAIN queue : i # 1 => levels'[Against][TopKey][i] = queue[i]
  BY FillPartThins
<1>7. /\ incoming' \in OrderEvents
      /\ incoming'.id = incoming.id
      /\ filled' \in [Ids -> 0..MaxQty]
      /\ \A id \in Ids \ {incoming.id, front.id} : filled'[id] = filled[id]
      /\ filled'[front.id] = filled[front.id] + incoming.qty
      /\ incoming'.qty + filled'[incoming.id] = placed[incoming.id].qty
  <2> HIDE DEF front
  <2>1. incoming.qty \in Nat /\ incoming.qty <= incoming.qty /\ incoming.qty <= front.qty
    BY <1>1, <1>3
  <2>2. QED
    BY <1>1, <1>5, <2>1, EmitFacts DEF front
<1>8. placed[front.id] # Nil /\ front.qty + filled[front.id] = placed[front.id].qty
  BY <1>2 DEF SafetyInv, QuantityConserved
<1> HIDE DEF front, queue
<1>9. \A id \in Ids : index'[id] = IF id = Nil THEN Nil ELSE index[id]
  BY <1>5, NilFacts
<1>10. NotCrossed' /\ RestingIndexed' /\ IndexedRests' /\ QueuesOrdered'
  BY <1>5, <1>6, <1>9, ThinnedConsistent DEF SafetyInv
<1>11. TypeOK'
  BY <1>5, <1>6, <1>7, TypeParts DEF SafetyInv, TypeOK
<1>12. QuantityConserved'
  <2>1. ASSUME NEW s \in Sides, NEW k \in DOMAIN levels'[s], NEW i \in DOMAIN levels'[s][k]
        PROVE  /\ placed'[levels'[s][k][i].id] # Nil
               /\ levels'[s][k][i].qty + filled'[levels'[s][k][i].id]
                    = placed'[levels'[s][k][i].id].qty
    <3>1. \A id \in Ids \ {Nil, front.id} : index[id] # Nil => filled'[id] = filled[id]
      BY <1>1, <1>7 DEF SafetyInv, IncomingIsLatest, MayTrade
    <3>2. CASE levels'[s][k][i].id # front.id
      <4>1. placed' = placed
        BY <1>5
      <4>2. QED
        BY <1>6, <3>1, <3>2, <4>1, ThinnedAccounts
    <3>3. CASE levels'[s][k][i].id = front.id
      <4>1. index'[front.id] = <<s, PriceOf(s, k)>>
        BY <1>10, <3>3 DEF RestingIndexed, PriceOf, Key
      <4>2. index'[front.id] = <<Against, PriceOf(Against, TopKey)>>
        BY <1>1, <1>5, FrontOfBook DEF TopPrice, front, queue
      <4>3. k \in Prices
        BY <1>6 DEF LevelsTyped
      <4>4. s = Against /\ k = TopKey
        BY <1>2, <1>4, <4>1, <4>2, <4>3, KeyFacts
      <4>5. i # 1 => levels[Against][TopKey][i].id = levels[Against][TopKey][1].id
        BY <1>2, <1>6, <3>3, <4>4 DEF queue
      <4>6. i = 1
        BY <1>2, <1>6, <4>4, <4>5, RestsOnce DEF SafetyInv, queue
      <4>7. levels'[s][k][i].qty = front.qty - incoming.qty
        BY <1>6, <4>4, <4>6
      <4>8. filled[front.id] \in Nat
        BY <1>3 DEF SafetyInv, TypeOK
      <4>9. (front.qty - incoming.qty) + (filled[front.id] + incoming.qty)
               = front.qty + filled[front.id]
        BY <1>3, <4>8
      <4>10. QED
        BY <1>5, <1>7, <1>8, <3>3, <4>7, <4>9
    <3>4. QED
      BY <3>2, <3>3
  <2>2. incoming'.qty + filled'[incoming'.id] = placed'[incoming'.id].qty
    BY <1>5, <1>7
  <2>3. QED
    BY <2>1, <2>2 DEF QuantityConserved
<1>13. UnplacedIsFresh'
  <2>1. placed[incoming.id] # Nil
    BY <1>1 DEF SafetyInv, IncomingIsLatest, MayTrade
  <2>2. QED
    BY <1>5, <1>7, <1>8, <2>1 DEF SafetyInv, UnplacedIsFresh
<1>14. IncomingIsLatest'
  BY <1>1, <1>3, <1>5, <1>7 DEF SafetyInv, IncomingIsLatest, MayTrade
<1>15. QED
  BY <1>10, <1>11, <1>12, <1>13, <1>14 DEF SafetyInv

\* A cancellation takes the order off the book, if it is there.
LEMMA CancelThins ==
    ASSUME SafetyInv, NEW id \in Ids, CancelOrder(id)
    PROVE  /\ LevelsTyped'
           /\ BookThinned(id, Nil)
           /\ index[id] # Nil =>
                 Positions(index[id][1], Key(index[id][1], index[id][2]), id) # {}
<1> DEFINE side == index[id][1]
           key == Key(side, index[id][2])
<1>1. CASE index[id] = Nil
  <2>1. levels' = levels
    BY <1>1 DEF CancelOrder
  <2>2. LevelsTyped'
    BY <2>1 DEF SafetyInv, TypeOK, LevelsTyped, Resting
  <2>3. \A s \in Sides : \A k \in DOMAIN levels[s] : \A i \in DOMAIN levels[s][k] :
           levels[s][k][i].id # id
    BY <1>1, OnBook DEF SafetyInv
  <2>4. BookThinned(id, Nil)
    BY <2>1, <2>3 DEF BookThinned
  <2>5. QED
    BY <1>1, <2>2, <2>4
<1>2. CASE index[id] # Nil
  <2>1. index[id] \in Sides \X Prices
    BY <1>2 DEF SafetyInv, TypeOK
  <2>2. side \in Sides /\ index[id][2] \in Prices /\ index[id] = <<side, index[id][2]>>
    BY <2>1
  <2>3. key \in Prices /\ PriceOf(side, key) = index[id][2]
    BY <2>2, KeyFacts
  <2> HIDE DEF key, side
  <2>4. index[id] = <<side, PriceOf(side, key)>>
    BY <2>2, <2>3
  <2>5. /\ key \in DOMAIN levels[side]
        /\ \E i \in DOMAIN levels[side][key] : levels[side][key][i].id = id
    BY <2>2, <2>3, <2>4 DEF SafetyInv, IndexedRests
  <2>6. QueueAt(side, key) = levels[side][key]
    BY <2>5 DEF QueueAt
  <2>7. PICK j \in DOMAIN levels[side][key] : levels[side][key][j].id = id
    BY <2>5
  <2>8. Positions(side, key, id) = {j}
    BY <2>2, <2>5, <2>6, <2>7, RestsOnce DEF SafetyInv, Positions
  <2>9. Min(Positions(side, key, id)) = j
    <3>1. j \in Int
      BY <2>2, <2>5, LevelFacts DEF SafetyInv
    <3>2. QED
      BY <2>8, <3>1 DEF Min
  <2>10. levels' = [levels EXCEPT ![side] =
                       WithQueue(side, key, RemoveAt(levels[side][key], j))]
    BY <1>2, <2>6, <2>8, <2>9 DEF CancelOrder, side, key
  <2>11. levels[side][key] \in Seq(Resting) /\ j \in 1..Len(levels[side][key])
    BY <2>2, <2>5, LevelFacts DEF SafetyInv
  <2>12. /\ RemoveAt(levels[side][key], j) \in Seq(Resting)
         /\ Without(levels[side][key], j, RemoveAt(levels[side][key], j))
    BY <2>11, RemoveFacts
  <2>13. LevelsSet(side, key, RemoveAt(levels[side][key], j))
    BY <2>2, <2>10, WithQueueFacts DEF SafetyInv
  <2>14. LevelsTyped'
    BY <2>2, <2>3, <2>12, <2>13, LevelsSetTyped DEF SafetyInv
  <2>15. BookThinned(levels[side][key][j].id, Nil)
    BY <2>2, <2>5, <2>12, <2>13, RemovalThins DEF SafetyInv
  <2>16. QED
    BY <2>7, <2>8, <2>14, <2>15 DEF side, key
<1>3. QED
  BY <1>1, <1>2

\* A cancellation keeps the invariant, whether or not the order is on the book.
LEMMA CancelStep ==
    ASSUME SafetyInv, NEW id \in Ids, CancelOrder(id)
    PROVE  SafetyInv'
<1>1. /\ incoming = Nil
      /\ index' = [index EXCEPT ![id] = Nil]
      /\ UNCHANGED <<incoming, placed, filled, clock, time>>
  BY DEF CancelOrder
<1>2. /\ index' \in [Ids -> {Nil} \cup (Sides \X Prices)]
      /\ \A x \in Ids : index'[x] = IF x = id THEN Nil ELSE index[x]
  BY <1>1 DEF SafetyInv, TypeOK
<1>3. LevelsTyped' /\ BookThinned(id, Nil)
  BY CancelThins
<1>4. NotCrossed' /\ RestingIndexed' /\ IndexedRests' /\ QueuesOrdered'
  BY <1>1, <1>2, <1>3, ThinnedConsistent DEF SafetyInv
<1>5. TypeOK'
  BY <1>1, <1>2, <1>3, TypeParts DEF SafetyInv, TypeOK
<1>6. QuantityConserved'
  BY <1>1, <1>3, ThinnedAccounts, NilFacts DEF QuantityConserved
<1>7. UnplacedIsFresh' /\ IncomingIsLatest'
  BY <1>1, <1>2 DEF SafetyInv, UnplacedIsFresh, IncomingIsLatest
<1>8. QED
  BY <1>4, <1>5, <1>6, <1>7 DEF SafetyInv

\* The book gains one order, behind the others of its queue.
BookExtended(side, key, order) ==
    /\ \A s \in Sides : \A k \in DOMAIN levels'[s] : \A i \in DOMAIN levels'[s][k] :
          \/ /\ k \in DOMAIN levels[s]
             /\ i \in DOMAIN levels[s][k]
             /\ levels'[s][k][i] = levels[s][k][i]
          \/ /\ s = side /\ k = key
             /\ levels'[s][k][i] = order
             /\ \A j \in DOMAIN levels'[s][k] : j <= i
    /\ \A s \in Sides : \A k \in DOMAIN levels[s] : \A i \in DOMAIN levels[s][k] :
          /\ k \in DOMAIN levels'[s]
          /\ i \in DOMAIN levels'[s][k]
          /\ levels'[s][k][i] = levels[s][k][i]
    /\ key \in DOMAIN levels'[side]
    /\ \E i \in DOMAIN levels'[side][key] : levels'[side][key][i] = order

\* That is what appending to the queue at a price does.
LEMMA AppendExtends ==
    ASSUME TypeOK, NEW side \in Sides, NEW key \in Prices, NEW order \in Resting,
           LevelsSet(side, key, Append(QueueAt(side, key), order))
    PROVE  LevelsTyped' /\ BookExtended(side, key, order)
<1> DEFINE old == QueueAt(side, key)
           n == Len(old)
           new == Append(old, order)
<1>1. /\ old \in Seq(Resting)
      /\ key \in DOMAIN levels[side] => old = levels[side][key]
      /\ key \notin DOMAIN levels[side] => old = <<>>
  BY LevelFacts, EmptySeq DEF QueueAt
<1> HIDE DEF old
<1>2. n \in Nat /\ DOMAIN old = 1..n /\ (old = <<>> => n = 0)
  BY <1>1, LenProperties, EmptySeq
<1>3. /\ new \in Seq(Resting) /\ new # <<>>
      /\ Len(new) = n + 1
      /\ \A i \in 1..n : new[i] = old[i]
      /\ new[n + 1] = order
  BY <1>1, AppendProperties
<1>4. DOMAIN new = 1..(n + 1)
  BY <1>3, LenProperties
<1>5. LevelsSet(side, key, new)
  BY DEF old
<1> HIDE DEF new, n
<1>6. LevelsTyped'
  BY <1>3, <1>5, LevelsSetTyped
<1>7. /\ \A s \in Sides \ {side} : levels'[s] = levels[s]
      /\ \A k : k \in DOMAIN levels'[side] <=> k = key \/ k \in DOMAIN levels[side]
      /\ \A k \in DOMAIN levels'[side] :
            levels'[side][k] = IF k = key THEN new ELSE levels[side][k]
  BY <1>3, <1>5 DEF LevelsSet
<1>8. ASSUME NEW s \in Sides, NEW k \in DOMAIN levels'[s], NEW i \in DOMAIN levels'[s][k]
      PROVE  \/ /\ k \in DOMAIN levels[s]
                /\ i \in DOMAIN levels[s][k]
                /\ levels'[s][k][i] = levels[s][k][i]
             \/ /\ s = side /\ k = key
                /\ levels'[s][k][i] = order
                /\ \A j \in DOMAIN levels'[s][k] : j <= i
  <2>1. CASE s # side \/ k # key
    BY <1>7, <2>1
  <2>2. CASE s = side /\ k = key
    <3>1. levels'[s][k] = new /\ i \in 1..(n + 1)
      BY <1>4, <1>7, <2>2
    <3>2. CASE i = n + 1
      <4>1. \A j \in 1..(n + 1) : j <= i
        BY <1>2, <3>2
      <4>2. QED
        BY <1>3, <1>4, <2>2, <3>1, <3>2, <4>1
    <3>3. CASE i \in 1..n
      <4>1. n # 0
        BY <1>2, <3>3
      <4>2. key \in DOMAIN levels[side] /\ old = levels[side][key]
        BY <1>1, <1>2, <4>1
      <4>3. QED
        BY <1>2, <1>3, <2>2, <3>1, <3>3, <4>2
    <3>4. QED
      BY <1>2, <3>1, <3>2, <3>3
  <2>3. QED
    BY <2>1, <2>2
<1>9. ASSUME NEW s \in Sides, NEW k \in DOMAIN levels[s], NEW i \in DOMAIN levels[s][k]
      PROVE  /\ k \in DOMAIN levels'[s]
             /\ i \in DOMAIN levels'[s][k]
             /\ levels'[s][k][i] = levels[s][k][i]
  <2>1. CASE s # side \/ k # key
    BY <1>7, <2>1
  <2>2. CASE s = side /\ k = key
    <3>1. old = levels[s][k] /\ i \in 1..n
      BY <1>1, <1>2, <2>2
    <3>2. levels'[s][k] = new /\ k \in DOMAIN levels'[s]
      BY <1>7, <2>2
    <3>3. i \in 1..(n + 1)
      BY <1>2, <3>1
    <3>4. QED
      BY <1>3, <1>4, <3>1, <3>2, <3>3
  <2>3. QED
    BY <2>1, <2>2
<1>10. key \in DOMAIN levels'[side] /\ levels'[side][key] = new /\ n + 1 \in DOMAIN new
  BY <1>2, <1>4, <1>7
<1>11. QED
  BY <1>3, <1>6, <1>8, <1>9, <1>10 DEF BookExtended

\* When matching is over, no order of the other side is within the limit.
LEMMA NothingCrosses ==
    ASSUME SafetyInv, incoming # Nil, incoming.qty > 0, ~MayTrade,
           NEW k \in DOMAIN levels[Against]
    PROVE  ~Crosses(incoming, PriceOf(Against, k))
<1>1. incoming \in OrderEvents /\ Against \in Sides
  BY DEF SafetyInv, TypeOK, OrderEvents, Against, Opposite, Sides
<1>2. DOMAIN levels[Against] # {}
  OBVIOUS
<1>3. TopKey \in DOMAIN levels[Against] /\ TopKey <= k
  BY <1>1, <1>2, BestKeyFacts DEF SafetyInv, TopKey
<1>4. TopKey \in Prices /\ k \in Prices
  BY <1>1, <1>3, LevelFacts DEF SafetyInv
<1>5. ~Crosses(incoming, PriceOf(Against, TopKey))
  BY <1>2 DEF MayTrade, TopPrice
<1>6. incoming.price \in Prices /\ incoming.side \in Sides
  BY <1>1, <1>5 DEF OrderEvents, Crosses
<1>7. QED
  BY <1>3, <1>4, <1>5, <1>6, BoundsAssumption
  DEF Crosses, PriceOf, Key, Against, Opposite, Sides, Prices

\* What is left of a limit order goes behind the others at its price.
LEMMA RestExtends ==
    ASSUME SafetyInv, Rest
    PROVE  LET side == incoming.side
               key == Key(side, incoming.price)
               order == [id |-> incoming.id, qty |-> incoming.qty]
           IN /\ LevelsSet(side, key, Append(QueueAt(side, key), order))
              /\ LevelsTyped'
              /\ BookExtended(side, key, order)
<1> DEFINE side == incoming.side
           key == Key(side, incoming.price)
           order == [id |-> incoming.id, qty |-> incoming.qty]
<1>1. incoming \in OrderEvents /\ incoming.qty > 0 /\ incoming.price # Nil
  BY DEF Rest, SafetyInv, TypeOK
<1>2. side \in Sides /\ key \in Prices
  BY <1>1, KeyFacts DEF OrderEvents
<1>3. order \in Resting
  BY <1>1, BoundsAssumption DEF OrderEvents, Resting
<1>4. levels' = [levels EXCEPT ![side] =
                    WithQueue(side, key, Append(QueueAt(side, key), order))]
  BY DEF Rest
<1> HIDE DEF side, key, order
<1>5. LevelsSet(side, key, Append(QueueAt(side, key), order))
  BY <1>2, <1>4, WithQueueFacts DEF SafetyInv
<1>6. LevelsTyped' /\ BookExtended(side, key, order)
  BY <1>2, <1>3, <1>5, AppendExtends DEF SafetyInv
<1>7. QED
  BY <1>5, <1>6 DEF side, key, order

\* An order that rests keeps the invariant: nothing it could trade with is left.
LEMMA RestStep ==
    ASSUME SafetyInv, Rest
    PROVE  SafetyInv'
<1> DEFINE side == incoming.side
           key == Key(side, incoming.price)
           order == [id |-> incoming.id, qty |-> incoming.qty]
<1>1. /\ incoming # Nil /\ incoming.qty > 0 /\ incoming.price # Nil /\ ~MayTrade
      /\ index' = [index EXCEPT ![incoming.id] = <<side, incoming.price>>]
      /\ incoming' = Nil
      /\ UNCHANGED <<placed, filled, clock, time>>
  BY DEF Rest
<1>2. /\ incoming \in OrderEvents /\ incoming.id \in Ids /\ side \in Sides
      /\ incoming.price \in Prices /\ incoming.qty \in 1..MaxQty
  BY <1>1, BoundsAssumption DEF SafetyInv, TypeOK, OrderEvents
<1>3. key \in Prices /\ PriceOf(side, key) = incoming.price
  BY <1>2, KeyFacts
<1>4. order \in Resting /\ order.id = incoming.id /\ order.qty = incoming.qty
  BY <1>2 DEF Resting
<1>5. /\ LevelsSet(side, key, Append(QueueAt(side, key), order))
      /\ LevelsTyped'
      /\ BookExtended(side, key, order)
  BY RestExtends
<1> HIDE DEF key, order
<1>6. LevelsSet(side, key, Append(QueueAt(side, key), order))
  BY <1>5
<1>7. LevelsTyped' /\ BookExtended(side, key, order)
  BY <1>5
<1>8. \A id \in Ids : index'[id] = IF id = incoming.id THEN <<side, PriceOf(side, key)>>
                                                     ELSE index[id]
  BY <1>1, <1>2, <1>3 DEF SafetyInv, TypeOK
<1>9. /\ index[incoming.id] = Nil
      /\ placed[incoming.id] # Nil
      /\ time[incoming.id] = clock
      /\ \A id \in Ids \ {incoming.id} : time[id] < clock
      /\ incoming.qty + filled[incoming.id] = placed[incoming.id].qty
  BY <1>1 DEF SafetyInv, IncomingIsLatest, QuantityConserved
<1>10. \A s \in Sides : \A k \in DOMAIN levels[s] : \A i \in DOMAIN levels[s][k] :
          levels[s][k][i].id \in Ids /\ levels[s][k][i].id # incoming.id
  BY <1>9, OnBook DEF SafetyInv
<1>11. TypeOK'
  <2>1. index' \in [Ids -> {Nil} \cup (Sides \X Prices)]
    BY <1>1, <1>2 DEF SafetyInv, TypeOK
  <2>2. QED
    BY <1>1, <1>7, <2>1, TypeParts DEF SafetyInv, TypeOK
<1>12. NotCrossed'
  <2>1. \A s \in Sides : \A k \in DOMAIN levels'[s] :
           k \in DOMAIN levels[s] \/ (s = side /\ k = key)
    BY <1>6 DEF LevelsSet
  <2>2. \A k \in DOMAIN levels[Against] : ~Crosses(incoming, PriceOf(Against, k))
    BY <1>1, NothingCrosses
  <2>3. /\ DOMAIN levels["Buy"] \subseteq Prices
        /\ DOMAIN levels["Sell"] \subseteq Prices
    BY DEF SafetyInv, TypeOK, Sides
  <2>4. ASSUME NEW b \in DOMAIN levels'["Buy"], NEW a \in DOMAIN levels'["Sell"]
        PROVE  PriceOf("Buy", b) < PriceOf("Sell", a)
    <3>1. CASE side = "Buy"
      <4>1. a \in DOMAIN levels["Sell"] /\ (b \in DOMAIN levels["Buy"] \/ b = key)
        BY <2>1, <3>1 DEF Sides
      <4>2. b = key => ~(PriceOf("Sell", a) <= PriceOf("Buy", b))
        BY <1>1, <1>3, <2>2, <3>1, <4>1 DEF Crosses, Against, Opposite
      <4>3. PriceOf("Sell", a) \in Int /\ PriceOf("Buy", b) \in Int
        BY <1>3, <2>3, <4>1, BoundsAssumption DEF PriceOf, Key, Prices
      <4>4. QED
        BY <4>1, <4>2, <4>3 DEF SafetyInv, NotCrossed
    <3>2. CASE side = "Sell"
      <4>1. b \in DOMAIN levels["Buy"] /\ (a \in DOMAIN levels["Sell"] \/ a = key)
        BY <2>1, <3>2 DEF Sides
      <4>2. a = key => ~(PriceOf("Buy", b) >= PriceOf("Sell", a))
        BY <1>1, <1>3, <2>2, <3>2, <4>1 DEF Crosses, Against, Opposite
      <4>3. PriceOf("Sell", a) \in Int /\ PriceOf("Buy", b) \in Int
        BY <1>3, <2>3, <4>1, BoundsAssumption DEF PriceOf, Key, Prices
      <4>4. QED
        BY <4>1, <4>2, <4>3 DEF SafetyInv, NotCrossed
    <3>3. QED
      BY <1>2, <3>1, <3>2 DEF Sides
  <2>5. QED
    BY <2>4 DEF NotCrossed, PriceOf, Key
<1>13. QuantityConserved'
  BY <1>1, <1>4, <1>7, <1>9 DEF SafetyInv, QuantityConserved, BookExtended
<1>14. RestingIndexed'
  <2>1. ASSUME NEW s \in Sides, NEW k \in DOMAIN levels'[s], NEW i \in DOMAIN levels'[s][k]
        PROVE  index'[levels'[s][k][i].id] = <<s, PriceOf(s, k)>>
    <3>1. CASE /\ k \in DOMAIN levels[s]
               /\ i \in DOMAIN levels[s][k]
               /\ levels'[s][k][i] = levels[s][k][i]
      <4>1. index[levels[s][k][i].id] = <<s, PriceOf(s, k)>>
        BY <3>1 DEF SafetyInv, RestingIndexed
      <4>2. QED
        BY <1>8, <1>10, <3>1, <4>1
    <3>2. CASE s = side /\ k = key /\ levels'[s][k][i] = order
      BY <1>2, <1>4, <1>8, <3>2
    <3>3. QED
      BY <1>7, <3>1, <3>2 DEF BookExtended
  <2>2. QED
    BY <2>1 DEF RestingIndexed, PriceOf, Key
<1>15. IndexedRests'
  <2>1. ASSUME NEW id \in Ids, NEW s \in Sides, NEW k \in Prices,
               index'[id] = <<s, PriceOf(s, k)>>
        PROVE  /\ k \in DOMAIN levels'[s]
               /\ \E i \in DOMAIN levels'[s][k] : levels'[s][k][i].id = id
    <3>1. CASE id = incoming.id
      <4>1. <<s, PriceOf(s, k)>> = <<side, PriceOf(side, key)>>
        BY <1>8, <2>1, <3>1
      <4>2. s = side /\ k = key
        BY <1>2, <1>3, <4>1, KeyFacts
      <4>3. QED
        BY <1>4, <1>7, <3>1, <4>2 DEF BookExtended
    <3>2. CASE id # incoming.id
      <4>1. index[id] = <<s, PriceOf(s, k)>>
        BY <1>8, <2>1, <3>2
      <4>2. k \in DOMAIN levels[s] /\ \E i \in DOMAIN levels[s][k] : levels[s][k][i].id = id
        BY <4>1 DEF SafetyInv, IndexedRests
      <4>3. QED
        BY <1>7, <4>2 DEF BookExtended
    <3>3. QED
      BY <3>1, <3>2
  <2>2. QED
    BY <2>1 DEF IndexedRests, PriceOf, Key
<1>16. QueuesOrdered'
  <2>1. ASSUME NEW s \in Sides, NEW k \in DOMAIN levels'[s],
               NEW i \in DOMAIN levels'[s][k], NEW j \in DOMAIN levels'[s][k], i < j
        PROVE  time'[levels'[s][k][i].id] < time'[levels'[s][k][j].id]
    <3>1. i \in Int /\ j \in Int
      BY <1>11, <2>1, LenProperties DEF TypeOK
    <3>2. /\ k \in DOMAIN levels[s]
          /\ i \in DOMAIN levels[s][k]
          /\ levels'[s][k][i] = levels[s][k][i]
      BY <1>7, <2>1, <3>1 DEF BookExtended
    <3>3. CASE j \in DOMAIN levels[s][k] /\ levels'[s][k][j] = levels[s][k][j]
      BY <1>1, <2>1, <3>2, <3>3 DEF SafetyInv, QueuesOrdered
    <3>4. CASE levels'[s][k][j] = order
      BY <1>1, <1>4, <1>9, <1>10, <3>2, <3>4
    <3>5. QED
      BY <1>7, <3>3, <3>4 DEF BookExtended
  <2>2. QED
    BY <2>1 DEF QueuesOrdered
<1>17. UnplacedIsFresh' /\ IncomingIsLatest'
  BY <1>1, <1>8, <1>9 DEF SafetyInv, UnplacedIsFresh, IncomingIsLatest
<1>18. QED
  BY <1>11, <1>12, <1>13, <1>14, <1>15, <1>16, <1>17 DEF SafetyInv

\* A new order keeps the invariant.
LEMMA SubmitStep ==
    ASSUME SafetyInv, NEW o \in OrderEvents, Submit(o)
    PROVE  SafetyInv'
<1>1. /\ incoming = Nil /\ placed[o.id] = Nil
      /\ incoming' = o
      /\ placed' = [placed EXCEPT ![o.id] = o]
      /\ clock' = clock + 1
      /\ time' = [time EXCEPT ![o.id] = clock + 1]
      /\ UNCHANGED <<levels, index, filled>>
  BY DEF Submit
<1>2. o.id \in Ids /\ o # Nil /\ o.qty \in 0..MaxQty
  BY NilFacts DEF OrderEvents
<1>3. index[o.id] = Nil /\ filled[o.id] = 0
  BY <1>1, <1>2 DEF SafetyInv, UnplacedIsFresh
<1>4. /\ \A id \in Ids \ {o.id} : placed'[id] = placed[id] /\ time'[id] = time[id]
      /\ placed'[o.id] = o /\ time'[o.id] = clock + 1
  BY <1>1, <1>2 DEF SafetyInv, TypeOK
<1>5. \A s \in Sides : \A k \in DOMAIN levels[s] : \A i \in DOMAIN levels[s][k] :
         levels[s][k][i].id \in Ids \ {o.id}
  BY <1>3, OnBook DEF SafetyInv
<1>6. TypeOK'
  <2>1. clock \in Nat /\ time \in [Ids -> 0..clock]
    BY DEF SafetyInv, TypeOK
  <2>2. clock' \in Nat /\ time' \in [Ids -> 0..clock']
    BY <1>1, <1>2, <2>1
  <2>3. LevelsTyped'
    BY <1>1 DEF SafetyInv, TypeOK, LevelsTyped, Resting
  <2>4. placed' \in [Ids -> {Nil} \cup OrderEvents]
    BY <1>1, <1>2 DEF SafetyInv, TypeOK
  <2>5. QED
    BY <1>1, <2>2, <2>3, <2>4, TypeParts DEF SafetyInv, TypeOK
<1>7. NotCrossed' /\ RestingIndexed' /\ IndexedRests'
  BY <1>1 DEF SafetyInv, NotCrossed, RestingIndexed, IndexedRests, PriceOf, Key
<1>8. QuantityConserved'
  <2>1. o.qty + filled'[o.id] = placed'[o.id].qty
    BY <1>1, <1>2, <1>3, <1>4
  <2>2. QED
    BY <1>1, <1>4, <1>5, <2>1 DEF SafetyInv, QuantityConserved
<1>9. QueuesOrdered'
  BY <1>1, <1>4, <1>5 DEF SafetyInv, QueuesOrdered
<1>10. UnplacedIsFresh'
  BY <1>1, <1>2, <1>4 DEF SafetyInv, UnplacedIsFresh
<1>11. IncomingIsLatest'
  <2>1. clock \in Nat /\ \A id \in Ids : time[id] \in 0..clock
    BY DEF SafetyInv, TypeOK
  <2>2. \A id \in Ids \ {o.id} : time'[id] < clock'
    BY <1>1, <1>4, <2>1
  <2>3. QED
    BY <1>1, <1>2, <1>3, <1>4, <2>2 DEF IncomingIsLatest
<1>12. QED
  BY <1>6, <1>7, <1>8, <1>9, <1>10, <1>11 DEF SafetyInv

\* The order is done with, or nothing happens, and the book is left alone.
LEMMA BookLeftAlone ==
    ASSUME SafetyInv, incoming' \in {Nil, incoming},
           UNCHANGED <<levels, index, placed, filled, clock, time>>
    PROVE  SafetyInv'
<1>1. TypeOK' /\ NotCrossed'
  BY DEF SafetyInv, TypeOK, NotCrossed, PriceOf, Key
<1>2. QuantityConserved'
  BY DEF SafetyInv, QuantityConserved
<1>3. RestingIndexed' /\ IndexedRests'
  BY DEF SafetyInv, RestingIndexed, IndexedRests, PriceOf, Key
<1>4. QueuesOrdered' /\ UnplacedIsFresh'
  BY DEF SafetyInv, QueuesOrdered, UnplacedIsFresh
<1>5. IncomingIsLatest'
  BY DEF SafetyInv, IncomingIsLatest
<1>6. QED
  BY <1>1, <1>2, <1>3, <1>4, <1>5 DEF SafetyInv

\* The empty book satisfies the invariant.
LEMMA InitSafety == Init => SafetyInv
<1> SUFFICES ASSUME Init PROVE SafetyInv
  OBVIOUS
<1>1. \A side \in Sides : DOMAIN levels[side] = {}
  BY EmptySeq, LenProperties DEF Init
<1>2. TypeOK
  BY <1>1, BoundsAssumption DEF Init, TypeOK
<1>3. NotCrossed
  BY <1>1 DEF NotCrossed, Sides
<1>4. QuantityConserved /\ RestingIndexed /\ QueuesOrdered
  BY <1>1 DEF Init, QuantityConserved, RestingIndexed, QueuesOrdered
<1>5. IndexedRests
  BY NilFacts, KeyFacts DEF Init, IndexedRests
<1>6. UnplacedIsFresh /\ IncomingIsLatest
  BY DEF Init, UnplacedIsFresh, IncomingIsLatest
<1>7. QED
  BY <1>2, <1>3, <1>4, <1>5, <1>6 DEF SafetyInv

\* Every step keeps the invariant.
LEMMA NextSafety == SafetyInv /\ [Next]_vars => SafetyInv'
<1> SUFFICES ASSUME SafetyInv, [Next]_vars PROVE SafetyInv'
  OBVIOUS
<1>1. CASE \E o \in OrderEvents : Submit(o)
  BY <1>1, SubmitStep
<1>2. CASE \E id \in Ids : CancelOrder(id)
  BY <1>2, CancelStep
<1>3. CASE FillWhole
  BY <1>3, FillWholeStep
<1>4. CASE FillPart
  BY <1>4, FillPartStep
<1>5. CASE Rest
  BY <1>5, RestStep
<1>6. CASE RejectRemainder \/ Finish
  BY <1>6, BookLeftAlone DEF RejectRemainder, Finish
<1>7. CASE UNCHANGED vars
  BY <1>7, BookLeftAlone DEF vars
<1>8. QED
  BY <1>1, <1>2, <1>3, <1>4, <1>5, <1>6, <1>7 DEF Next, Step

\* The inductive invariant holds in every reachable state.
THEOREM AlwaysSafe == Spec => []SafetyInv
BY InitSafety, NextSafety, PTL DEF Spec

\* The index and the queues agree: RestingIndexed and IndexedRests say so of
\* the sides and prices, RestsOnce of the position.
LEMMA IndexAgrees == SafetyInv => IndexMatchesBook
<1> SUFFICES ASSUME SafetyInv PROVE IndexMatchesBook
  OBVIOUS
<1>1. ASSUME NEW id \in Ids, index[id] # Nil
      PROVE  \E i \in Positions(index[id][1], Key(index[id][1], index[id][2]), id) :
                Positions(index[id][1], Key(index[id][1], index[id][2]), id) = {i}
  <2> DEFINE side == index[id][1]
             key == Key(side, index[id][2])
  <2>1. index[id] \in Sides \X Prices
    BY <1>1 DEF SafetyInv, TypeOK
  <2>2. side \in Sides /\ index[id][2] \in Prices /\ index[id] = <<side, index[id][2]>>
    BY <2>1
  <2>3. key \in Prices /\ PriceOf(side, key) = index[id][2]
    BY <2>2, KeyFacts
  <2> HIDE DEF side, key
  <2>4. /\ key \in DOMAIN levels[side]
        /\ \E i \in DOMAIN levels[side][key] : levels[side][key][i].id = id
    BY <2>2, <2>3 DEF SafetyInv, IndexedRests
  <2>5. PICK j \in DOMAIN levels[side][key] : levels[side][key][j].id = id
    BY <2>4
  <2>6. Positions(side, key, id) = {j}
    BY <2>2, <2>4, <2>5, RestsOnce DEF SafetyInv, Positions, QueueAt
  <2>7. QED
    BY <2>6 DEF side, key
<1>2. QED
  BY <1>1 DEF SafetyInv, RestingIndexed, IndexMatchesBook

\* Whatever orders, partial fills and cancellations came before, the levels,
\* the queues and the cancel index fit together, no order on the book could
\* still trade, and no quantity is created or lost.
THEOREM BookAlwaysConsistent == Spec => []BookConsistent
<1>1. SafetyInv => BookConsistent
  BY IndexAgrees DEF SafetyInv, BookConsistent
<1>2. QED
  BY <1>1, AlwaysSafe, PTL

-----------------------------------------------------------------------------
(* The book implements price-time priority *)

\* RestingOrders is what the level of each order says, and Nil off the book.
MappingIsExact ==
    /\ \A s \in Sides : \A k \in DOMAIN levels[s] : \A i \in DOMAIN levels[s][k] :
          /\ index[levels[s][k][i].id] # Nil
          /\ RestingOrders[levels[s][k][i].id] =
                [id |-> levels[s][k][i].id, side |-> s,
                 price |-> PriceOf(s, k), qty |-> levels[s][k][i].qty]
    /\ \A id \in Ids : index[id] = Nil => RestingOrders[id] = Nil
    /\ \A id \in Ids : index[id] # Nil =>
          \E s \in Sides : \E k \in DOMAIN levels[s] : \E i \in DOMAIN levels[s][k] :
             levels[s][k][i].id = id

\* The refinement mapping finds every order at its place.
LEMMA MappingExact == SafetyInv => MappingIsExact
<1> SUFFICES ASSUME SafetyInv PROVE MappingIsExact
  OBVIOUS
<1>1. ASSUME NEW s \in Sides, NEW k \in DOMAIN levels[s], NEW i \in DOMAIN levels[s][k]
      PROVE  /\ index[levels[s][k][i].id] # Nil
             /\ RestingOrders[levels[s][k][i].id] =
                   [id |-> levels[s][k][i].id, side |-> s,
                    price |-> PriceOf(s, k), qty |-> levels[s][k][i].qty]
  <2> DEFINE id == levels[s][k][i].id
  <2>1. k \in Prices
    BY LevelFacts DEF SafetyInv
  <2>2. index[id] = <<s, PriceOf(s, k)>> /\ index[id] # Nil
    BY OnBook DEF SafetyInv, RestingIndexed
  <2>3. Key(s, PriceOf(s, k)) = k
    BY <2>1, KeyFacts
  <2>4. Positions(s, k, id) = {i}
    BY RestsOnce DEF SafetyInv, Positions, QueueAt
  <2>5. (CHOOSE j \in Positions(s, k, id) : TRUE) = i
    BY <2>4
  <2>6. /\ index[id][1] = s
        /\ index[id][2] = PriceOf(s, k)
    BY <2>2
  <2>0. id \in Ids
    BY LevelFacts DEF SafetyInv
  <2> HIDE DEF id
  <2>7. RestingOrders[id] = [id |-> id, side |-> s, price |-> PriceOf(s, k),
                            qty |-> levels[s][k][i].qty]
    BY <2>0, <2>2, <2>3, <2>5, <2>6 DEF RestingOrder, RestingOrders
  <2>8. QED
    BY <2>2, <2>7 DEF id
<1>2. \A id \in Ids : index[id] = Nil => RestingOrders[id] = Nil
  BY DEF RestingOrder, RestingOrders
<1>3. ASSUME NEW id \in Ids, index[id] # Nil
      PROVE  \E s \in Sides : \E k \in DOMAIN levels[s] : \E i \in DOMAIN levels[s][k] :
                levels[s][k][i].id = id
  <2>1. PICK s \in Sides, p \in Prices : index[id] = <<s, p>>
    BY <1>3 DEF SafetyInv, TypeOK
  <2>2. Key(s, p) \in Prices /\ PriceOf(s, Key(s, p)) = p
    BY KeyFacts
  <2>3. QED
    BY <2>1, <2>2 DEF SafetyInv, IndexedRests
<1>4. QED
  BY <1>1, <1>2, <1>3 DEF MappingIsExact

\* It does so after a step, too.
LEMMA MappingExactNext ==
    ASSUME SafetyInv'
    PROVE  /\ \A s \in Sides : \A k \in DOMAIN levels'[s] : \A i \in DOMAIN levels'[s][k] :
                 /\ index'[levels'[s][k][i].id] # Nil
                 /\ RestingOrders'[levels'[s][k][i].id] =
                       [id |-> levels'[s][k][i].id, side |-> s,
                        price |-> PriceOf(s, k), qty |-> levels'[s][k][i].qty]
           /\ \A id \in Ids : index'[id] = Nil => RestingOrders'[id] = Nil
<1>1. SafetyInv' => MappingIsExact'
  BY MappingExact, PTL
<1>2. MappingIsExact'
  BY <1>1
<1>3. QED
  BY <1>2 DEF MappingIsExact, PriceOf, Key

\* Orders of a thinner book are mapped as before, but for the ones gone and cut.
LEMMA ThinnedMapping ==
    ASSUME SafetyInv, SafetyInv', NEW gone, NEW cut, BookThinned(gone, cut),
           \A id \in Ids : index'[id] = IF id = gone THEN Nil ELSE index[id],
           NEW id \in Ids, id # cut
    PROVE  RestingOrders'[id] = IF id = gone THEN Nil ELSE RestingOrders[id]
<1>1. MappingIsExact
  BY MappingExact
<1>2. CASE id = gone \/ index[id] = Nil
  BY <1>1, <1>2, MappingExactNext DEF MappingIsExact
<1>3. CASE id # gone /\ index[id] # Nil
  <2>1. PICK s \in Sides : \E k \in DOMAIN levels[s] : \E i \in DOMAIN levels[s][k] :
           levels[s][k][i].id = id
    BY <1>1, <1>3 DEF MappingIsExact
  <2>2. PICK k \in DOMAIN levels[s] : \E i \in DOMAIN levels[s][k] :
           levels[s][k][i].id = id
    BY <2>1
  <2> PICK i \in DOMAIN levels[s][k] : levels[s][k][i].id = id
    BY <2>2
  <2>3. /\ k \in DOMAIN levels'[s]
        /\ \E j \in DOMAIN levels'[s][k] : levels[s][k][i] = levels'[s][k][j]
    BY <1>3 DEF BookThinned
  <2>4. PICK j \in DOMAIN levels'[s][k] : levels[s][k][i] = levels'[s][k][j]
    BY <2>3
  <2>5. RestingOrders[id] = [id |-> id, side |-> s, price |-> PriceOf(s, k),
                            qty |-> levels[s][k][i].qty]
    BY <1>1 DEF MappingIsExact
  <2>6. RestingOrders'[id] = [id |-> id, side |-> s, price |-> PriceOf(s, k),
                             qty |-> levels'[s][k][j].qty]
    BY <2>3, <2>4, MappingExactNext
  <2>7. QED
    BY <1>3, <2>4, <2>5, <2>6
<1>4. QED
  BY <1>2, <1>3

\* The operators the two modules share are the same operators.
LEMMA SharedOperators ==
    /\ Book!OrderEvents = OrderEvents
    /\ Book!Silence = Silence
    /\ \A side : Book!Opposite(side) = Opposite(side)
    /\ \A o, p : Book!Crosses(o, p) <=> Crosses(o, p)
    /\ \A o, x, p, q : Book!Fill(o, x, p, q) = Fill(o, x, p, q)
    /\ \A id, reason : Book!Reject(id, reason) = Reject(id, reason)
BY DEF Book!OrderEvents, OrderEvents, Book!Sides, Sides, Book!Prices, Prices,
       Book!Silence, Silence, Book!Opposite, Opposite, Book!Crosses, Crosses,
       Book!Fill, Fill, Book!Reject, Reject

\* An order of the abstract book has a place on a level.
LEMMA PlaceOf ==
    ASSUME SafetyInv, NEW id \in Ids, RestingOrders[id] # Nil
    PROVE  \E s \in Sides : \E k \in DOMAIN levels[s] : \E i \in DOMAIN levels[s][k] :
              /\ levels[s][k][i].id = id
              /\ k \in Prices
              /\ RestingOrders[id] = [id |-> id, side |-> s, price |-> PriceOf(s, k),
                                     qty |-> levels[s][k][i].qty]
<1>1. MappingIsExact
  BY MappingExact
<1>2. PICK s \in Sides : \E k \in DOMAIN levels[s] : \E i \in DOMAIN levels[s][k] :
         levels[s][k][i].id = id
  BY <1>1 DEF MappingIsExact
<1>3. PICK k \in DOMAIN levels[s] : \E i \in DOMAIN levels[s][k] : levels[s][k][i].id = id
  BY <1>2
<1>4. PICK i \in DOMAIN levels[s][k] : levels[s][k][i].id = id
  BY <1>3
<1>5. k \in Prices
  BY LevelFacts DEF SafetyInv
<1>6. RestingOrders[id] = [id |-> id, side |-> s, price |-> PriceOf(s, k),
                           qty |-> levels[s][k][i].qty]
  BY <1>1, <1>4 DEF MappingIsExact
<1>7. QED
  BY <1>4, <1>5, <1>6

\* No order on the book is mapped to Nil.
LEMMA RestingIsNotNil ==
    ASSUME SafetyInv, NEW id \in Ids, index[id] # Nil
    PROVE  RestingOrders[id] # Nil
<1>1. MappingIsExact
  BY MappingExact
<1>2. PICK s \in Sides : \E k \in DOMAIN levels[s] : \E i \in DOMAIN levels[s][k] :
         levels[s][k][i].id = id
  BY <1>1 DEF MappingIsExact
<1>3. PICK k \in DOMAIN levels[s] : \E i \in DOMAIN levels[s][k] : levels[s][k][i].id = id
  BY <1>2
<1>4. PICK i \in DOMAIN levels[s][k] : levels[s][k][i].id = id
  BY <1>3
<1>5. k \in Prices /\ levels[s][k][i].qty \in 1..MaxQty
  BY LevelFacts DEF SafetyInv
<1>6. PriceOf(s, k) \in Prices /\ levels[s][k][i].qty \in 0..MaxQty
  BY <1>5, KeyFacts, BoundsAssumption
<1>7. RestingOrders[id] = [id |-> id, side |-> s, price |-> PriceOf(s, k),
                          qty |-> levels[s][k][i].qty]
  BY <1>1, <1>4 DEF MappingIsExact
<1>8. RestingOrders[id] \in OrderEvents
  BY <1>6, <1>7 DEF OrderEvents
<1>9. QED
  BY <1>8, NilFacts

\* Of the orders the incoming one may trade with, the front of the best level
\* has priority over every other.
LEMMA FrontHasPriority ==
    ASSUME SafetyInv, MayTrade, NEW front, front = Head(levels[Against][TopKey])
    PROVE  /\ front.id \in Ids
           /\ RestingOrders[front.id] = [id |-> front.id, side |-> Against,
                                        price |-> TopPrice, qty |-> front.qty]
           /\ front.id \in Book!Counterparties
           /\ \A y \in Book!Counterparties \ {front.id} : Book!HasPriority(front.id, y)
<1>1. /\ incoming \in OrderEvents /\ Against \in Sides
      /\ TopKey \in DOMAIN levels[Against]
      /\ \A k \in DOMAIN levels[Against] : TopKey <= k
      /\ 1 \in DOMAIN levels[Against][TopKey]
      /\ front = levels[Against][TopKey][1]
      /\ front \in Resting
  BY FrontOfBook
<1>2. front.id \in Ids
  BY <1>1 DEF Resting
<1>3. RestingOrders[front.id] = [id |-> front.id, side |-> Against,
                                 price |-> TopPrice, qty |-> front.qty]
  BY <1>1, MappingExact DEF MappingIsExact, TopPrice
<1>4. RestingOrders[front.id] # Nil
  <2>1. index[front.id] # Nil
    BY FrontOfBook
  <2>2. QED
    BY <1>2, <2>1, RestingIsNotNil
<1>5. front.id \in Book!Counterparties
  <2>1. Crosses(incoming, TopPrice)
    BY DEF MayTrade
  <2>2. QED
    BY <1>2, <1>3, <1>4, <2>1, SharedOperators DEF Book!Counterparties, Book!Live, Against
<1>6. ASSUME NEW y \in Book!Counterparties, y # front.id
      PROVE  Book!HasPriority(front.id, y)
  <2>1. y \in Ids /\ RestingOrders[y] # Nil /\ RestingOrders[y].side = Against
    BY SharedOperators DEF Book!Counterparties, Book!Live, Against
  <2>2. PICK s \in Sides : \E k \in DOMAIN levels[s] : \E i \in DOMAIN levels[s][k] :
           /\ levels[s][k][i].id = y
           /\ k \in Prices
           /\ RestingOrders[y] = [id |-> y, side |-> s, price |-> PriceOf(s, k),
                                 qty |-> levels[s][k][i].qty]
    BY <2>1, PlaceOf
  <2>3. s = Against
    BY <2>1, <2>2
  <2>4. PICK k \in DOMAIN levels[Against] : \E i \in DOMAIN levels[Against][k] :
           /\ levels[Against][k][i].id = y
           /\ k \in Prices
           /\ RestingOrders[y].price = PriceOf(Against, k)
    BY <2>2, <2>3
  <2>5. PICK i \in DOMAIN levels[Against][k] : levels[Against][k][i].id = y
    BY <2>4
  <2>6. TopKey \in Prices /\ TopKey <= k /\ k \in Prices
    BY <1>1, <2>4, LevelFacts DEF SafetyInv
  <2>7. CASE TopKey = k
    <3>1. 1 < i
      BY <1>1, <1>6, <2>5, <2>7, LevelFacts DEF SafetyInv
    <3>2. time[front.id] < time[y]
      BY <1>1, <2>5, <2>7, <3>1 DEF SafetyInv, QueuesOrdered
    <3>3. QED
      BY <1>3, <2>4, <2>7, <3>2 DEF Book!HasPriority, TopPrice
  <2>8. CASE TopKey # k
    <3>1. TopKey < k /\ k \in Int /\ TopKey \in Int
      BY <2>6, <2>8 DEF Prices
    <3>2. IF Against = "Buy" THEN TopPrice > RestingOrders[y].price
                             ELSE TopPrice < RestingOrders[y].price
      BY <1>1, <2>4, <3>1, BoundsAssumption DEF TopPrice, PriceOf, Key, Sides
    <3>3. QED
      BY <1>3, <3>2 DEF Book!HasPriority
  <2>9. QED
    BY <2>7, <2>8
<1>7. QED
  BY <1>2, <1>3, <1>5, <1>6

\* A fill that exhausts the front order is a trade with the order of priority.
LEMMA FillWholeTrades ==
    ASSUME SafetyInv, SafetyInv', FillWhole
    PROVE  \E x \in Ids : Book!Trade(x)
<1> DEFINE front == Head(levels[Against][TopKey])
           left == front.qty - incoming.qty
<1>1. MayTrade /\ Emit(front.id, front.qty) /\ front.qty <= incoming.qty
  BY DEF FillWhole
<1>2. /\ front.id \in Ids
      /\ RestingOrders[front.id] = [id |-> front.id, side |-> Against,
                                   price |-> TopPrice, qty |-> front.qty]
      /\ front.id \in Book!Counterparties
      /\ \A y \in Book!Counterparties \ {front.id} : Book!HasPriority(front.id, y)
  BY <1>1, FrontHasPriority
<1>3. front.qty \in Int /\ incoming.qty \in Int
  BY <1>1, FrontOfBook DEF Resting, OrderEvents
<1>4. left <= 0
  BY <1>1, <1>3
<1>5. RestingOrders' = [RestingOrders EXCEPT ![front.id] = Nil]
  <2>1. BookThinned(front.id, Nil)
    BY FillWholeThins
  <2>2. \A id \in Ids : index'[id] = IF id = front.id THEN Nil ELSE index[id]
    BY DEF FillWhole, SafetyInv, TypeOK
  <2> HIDE DEF front
  <2>3. \A id \in Ids : RestingOrders'[id] = IF id = front.id THEN Nil ELSE RestingOrders[id]
    BY <2>1, <2>2, ThinnedMapping, NilFacts
  <2>4. QED
    BY <2>3 DEF RestingOrders
<1>6. /\ incoming # Nil /\ incoming.qty > 0
      /\ output' = Fill(incoming, front.id, TopPrice, front.qty)
      /\ incoming' = [incoming EXCEPT !.qty = @ - front.qty]
      /\ UNCHANGED <<clock, time>>
  BY <1>1 DEF MayTrade, Emit, FillWhole
<1> HIDE DEF front
<1>7. Book!Trade(front.id)
  BY <1>2, <1>4, <1>5, <1>6, SharedOperators DEF Book!Trade
<1>8. QED
  BY <1>2, <1>7

\* So is a fill that leaves some of it.
LEMMA FillPartTrades ==
    ASSUME SafetyInv, SafetyInv', FillPart
    PROVE  \E x \in Ids : Book!Trade(x)
<1> DEFINE front == Head(levels[Against][TopKey])
           left == front.qty - incoming.qty
<1>1. MayTrade /\ Emit(front.id, incoming.qty) /\ front.qty > incoming.qty
  BY DEF FillPart
<1>2. /\ front.id \in Ids
      /\ RestingOrders[front.id] = [id |-> front.id, side |-> Against,
                                   price |-> TopPrice, qty |-> front.qty]
      /\ front.id \in Book!Counterparties
      /\ \A y \in Book!Counterparties \ {front.id} : Book!HasPriority(front.id, y)
  BY <1>1, FrontHasPriority
<1>3. /\ front.qty \in Int /\ incoming.qty \in Int
      /\ Against \in Sides /\ 1 \in DOMAIN levels[Against][TopKey]
  BY <1>1, FrontOfBook DEF Resting, OrderEvents
<1>4. ~(RestingOrders[front.id].qty - incoming.qty <= 0)
  <2>1. ~(left <= 0)
    BY <1>1, <1>3
  <2> HIDE DEF front
  <2>2. left = RestingOrders[front.id].qty - incoming.qty
    BY <1>2
  <2> HIDE DEF left
  <2>3. QED
    BY <2>1, <2>2
<1>5. RestingOrders' = [RestingOrders EXCEPT ![front.id] = [@ EXCEPT !.qty = left]]
  <2>1. /\ BookThinned(Nil, front.id)
        /\ TopKey \in DOMAIN levels'[Against]
        /\ DOMAIN levels'[Against][TopKey] = DOMAIN levels[Against][TopKey]
        /\ levels'[Against][TopKey][1].id = front.id
        /\ levels'[Against][TopKey][1].qty = left
    BY FillPartThins
  <2>2. \A id \in Ids : index'[id] = IF id = Nil THEN Nil ELSE index[id]
    BY NilFacts DEF FillPart
  <2> HIDE DEF front, left
  <2>3. \A id \in Ids \ {front.id} : RestingOrders'[id] = RestingOrders[id]
    BY <2>1, <2>2, ThinnedMapping, NilFacts
  <2>4. RestingOrders'[front.id] = [id |-> front.id, side |-> Against,
                                    price |-> PriceOf(Against, TopKey), qty |-> left]
    BY <1>3, <2>1, MappingExactNext
  <2>5. RestingOrders'[front.id] = [RestingOrders[front.id] EXCEPT !.qty = left]
    BY <1>2, <2>4 DEF TopPrice
  <2>6. QED
    BY <2>3, <2>5 DEF RestingOrders
<1>6. /\ incoming # Nil /\ incoming.qty > 0
      /\ output' = Fill(incoming, front.id, TopPrice, incoming.qty)
      /\ incoming' = [incoming EXCEPT !.qty = @ - incoming.qty]
      /\ UNCHANGED <<clock, time>>
  BY <1>1 DEF MayTrade, Emit, FillPart
<1> HIDE DEF front
<1>7. left = RestingOrders[front.id].qty - incoming.qty
  BY <1>2
<1> HIDE DEF left
<1>8. Book!Trade(front.id)
  BY <1>2, <1>4, <1>5, <1>6, <1>7, SharedOperators DEF Book!Trade
<1>9. QED
  BY <1>2, <1>8

\* With nothing left to match, no order of the abstract book can trade.
LEMMA NoCounterparties ==
    ASSUME SafetyInv, incoming # Nil, incoming.qty > 0, ~MayTrade
    PROVE  Book!Counterparties = {}
<1> SUFFICES ASSUME NEW y \in Book!Counterparties PROVE FALSE
  OBVIOUS
<1>1. /\ y \in Ids /\ RestingOrders[y] # Nil
      /\ RestingOrders[y].side = Against
      /\ Crosses(incoming, RestingOrders[y].price)
  BY SharedOperators DEF Book!Counterparties, Book!Live, Against
<1>2. PICK s \in Sides : \E k \in DOMAIN levels[s] : \E i \in DOMAIN levels[s][k] :
         /\ levels[s][k][i].id = y
         /\ k \in Prices
         /\ RestingOrders[y] = [id |-> y, side |-> s, price |-> PriceOf(s, k),
                               qty |-> levels[s][k][i].qty]
  BY <1>1, PlaceOf
<1>3. \E k \in DOMAIN levels[Against] : RestingOrders[y].price = PriceOf(Against, k)
  BY <1>1, <1>2
<1>4. QED
  BY <1>1, <1>3, NothingCrosses

\* Resting ends the matching of a limit order: it joins the abstract book.
LEMMA RestConcludes ==
    ASSUME SafetyInv, SafetyInv', Rest
    PROVE  Book!Conclude
<1> DEFINE side == incoming.side
           key == Key(side, incoming.price)
           order == [id |-> incoming.id, qty |-> incoming.qty]
<1>1. /\ incoming # Nil /\ incoming.qty > 0 /\ incoming.price # Nil /\ ~MayTrade
      /\ index' = [index EXCEPT ![incoming.id] = <<side, incoming.price>>]
      /\ incoming' = Nil /\ output' = Silence
      /\ UNCHANGED <<clock, time>>
  BY DEF Rest
<1>2. /\ incoming \in OrderEvents /\ incoming.id \in Ids /\ side \in Sides
      /\ index[incoming.id] = Nil
  BY <1>1 DEF SafetyInv, TypeOK, OrderEvents, IncomingIsLatest
<1>3. key \in Prices /\ PriceOf(side, key) = incoming.price
  BY <1>1, <1>2, KeyFacts DEF OrderEvents
<1> HIDE DEF key
<1>4. BookExtended(side, key, order)
  BY RestExtends DEF key
<1>5. MappingIsExact
  BY MappingExact
<1>6. RestingOrders'[incoming.id] = incoming
  <2>1. PICK i \in DOMAIN levels'[side][key] : levels'[side][key][i] = order
    BY <1>4 DEF BookExtended
  <2>2. key \in DOMAIN levels'[side]
    BY <1>4 DEF BookExtended
  <2>3. RestingOrders'[order.id] = [id |-> order.id, side |-> side,
                                    price |-> PriceOf(side, key), qty |-> order.qty]
    BY <1>2, <2>1, <2>2, MappingExactNext
  <2>4. QED
    BY <1>2, <1>3, <2>3 DEF OrderEvents
<1>7. ASSUME NEW id \in Ids, id # incoming.id
      PROVE  RestingOrders'[id] = RestingOrders[id]
  <2>1. index'[id] = index[id]
    BY <1>1, <1>2, <1>7 DEF SafetyInv, TypeOK
  <2>2. CASE index[id] = Nil
    BY <1>5, <2>1, <2>2, MappingExactNext DEF MappingIsExact
  <2>3. CASE index[id] # Nil
    <3>1. PICK s \in Sides : \E k \in DOMAIN levels[s] : \E i \in DOMAIN levels[s][k] :
             levels[s][k][i].id = id
      BY <1>5, <2>3 DEF MappingIsExact
    <3>2. PICK k \in DOMAIN levels[s] : \E i \in DOMAIN levels[s][k] :
             levels[s][k][i].id = id
      BY <3>1
    <3> PICK i \in DOMAIN levels[s][k] : levels[s][k][i].id = id
      BY <3>2
    <3>3. /\ k \in DOMAIN levels'[s] /\ i \in DOMAIN levels'[s][k]
          /\ levels'[s][k][i] = levels[s][k][i]
      BY <1>4 DEF BookExtended
    <3>4. RestingOrders[id] = [id |-> id, side |-> s, price |-> PriceOf(s, k),
                              qty |-> levels[s][k][i].qty]
      BY <1>5 DEF MappingIsExact
    <3>5. RestingOrders'[levels'[s][k][i].id] =
             [id |-> levels'[s][k][i].id, side |-> s, price |-> PriceOf(s, k),
              qty |-> levels'[s][k][i].qty]
      BY <3>3, MappingExactNext
    <3>6. QED
      BY <3>3, <3>4, <3>5
  <2>4. QED
    BY <2>2, <2>3
<1>8. RestingOrders' = [RestingOrders EXCEPT ![incoming.id] = incoming]
  BY <1>6, <1>7 DEF RestingOrders
<1>9. Book!Counterparties = {}
  BY <1>1, NoCounterparties
<1>10. QED
  BY <1>1, <1>8, <1>9, SharedOperators DEF Book!Conclude

\* A step that changes neither levels nor index changes no order of the
\* abstract book.
LEMMA SameMapping ==
    ASSUME UNCHANGED <<levels, index>>
    PROVE  UNCHANGED RestingOrders
BY DEF RestingOrders, RestingOrder, Positions, QueueAt, Key

\* Rejecting what remains, or having nothing left, ends the matching of an order.
LEMMA ConclusionConcludes ==
    ASSUME SafetyInv, RejectRemainder \/ Finish
    PROVE  Book!Conclude
<1>1. UNCHANGED RestingOrders
  BY SameMapping DEF RejectRemainder, Finish
<1>2. CASE RejectRemainder
  <2>1. Book!Counterparties = {}
    BY <1>2, NoCounterparties DEF RejectRemainder
  <2>2. QED
    BY <1>1, <1>2, <2>1, SharedOperators DEF RejectRemainder, Book!Conclude
<1>3. CASE Finish
  BY <1>1, <1>3, SharedOperators DEF Finish, Book!Conclude
<1>4. QED
  BY <1>2, <1>3

\* Submitting an order is submitting it to the abstract book.
LEMMA SubmitSubmits ==
    ASSUME SafetyInv, NEW o \in OrderEvents, Submit(o)
    PROVE  Book!Submit(o)
<1>1. UNCHANGED RestingOrders
  BY SameMapping DEF Submit
<1>2. time[o.id] = 0
  BY DEF OrderEvents, Submit, SafetyInv, UnplacedIsFresh
<1>3. QED
  BY <1>1, <1>2, SharedOperators DEF Submit, Book!Submit

\* Cancelling an order cancels it on the abstract book, and is refused when it is not there.
LEMMA CancelCancels ==
    ASSUME SafetyInv, SafetyInv', NEW id \in Ids, CancelOrder(id)
    PROVE  Book!Cancel(id)
<1>1. /\ incoming = Nil
      /\ index' = [index EXCEPT ![id] = Nil]
      /\ UNCHANGED <<incoming, clock, time>>
  BY DEF CancelOrder
<1>2. BookThinned(id, Nil)
  BY CancelThins
<1>3. \A x \in Ids : index'[x] = IF x = id THEN Nil ELSE index[x]
  BY <1>1 DEF SafetyInv, TypeOK
<1>4. \A x \in Ids : RestingOrders'[x] = IF x = id THEN Nil ELSE RestingOrders[x]
  BY <1>2, <1>3, ThinnedMapping, NilFacts
<1>5. RestingOrders' = [RestingOrders EXCEPT ![id] = Nil]
  BY <1>4 DEF RestingOrders
<1>6. id \in Book!Live <=> index[id] # Nil
  BY RestingIsNotNil, MappingExact DEF Book!Live, MappingIsExact
<1>7. output' = IF id \in Book!Live THEN Silence ELSE Reject(id, "UnknownOrderId")
  BY <1>6, CancelThins DEF CancelOrder
<1>8. QED
  BY <1>1, <1>5, <1>7, SharedOperators DEF Book!Cancel

\* Every step of the engine is a step of the abstract book, or changes nothing there.
LEMMA BookStep ==
    ASSUME SafetyInv, SafetyInv', [Next]_vars
    PROVE  [Book!Next]_(Book!vars)
<1>1. CASE \E o \in OrderEvents : Submit(o)
  BY <1>1, SubmitSubmits, SharedOperators DEF Book!Next
<1>2. CASE \E id \in Ids : CancelOrder(id)
  BY <1>2, CancelCancels DEF Book!Next
<1>3. CASE FillWhole
  BY <1>3, FillWholeTrades DEF Book!Next
<1>4. CASE FillPart
  BY <1>4, FillPartTrades DEF Book!Next
<1>5. CASE Rest
  BY <1>5, RestConcludes DEF Book!Next
<1>6. CASE RejectRemainder \/ Finish
  BY <1>6, ConclusionConcludes DEF Book!Next
<1>7. CASE UNCHANGED vars
  BY <1>7, SameMapping DEF vars, Book!vars
<1>8. QED
  BY <1>1, <1>2, <1>3, <1>4, <1>5, <1>6, <1>7 DEF Next, Step

\* The sorted levels with their inverted bid keys, the queues and the cancel
\* index implement price-time priority: every step of the engine is a step of
\* PriceTimeBook, or changes nothing there.
THEOREM EngineImplementsPriceTimeBook == Spec => ImplementsPriceTimeBook
<1>1. Init => Book!Init
  BY SharedOperators DEF Init, Book!Init, RestingOrders, RestingOrder
<1>2. SafetyInv /\ SafetyInv' /\ [Next]_vars => [Book!Next]_(Book!vars)
  BY BookStep
<1>3. QED
  BY <1>1, <1>2, AlwaysSafe, PTL DEF Spec, Book!Spec, ImplementsPriceTimeBook

-----------------------------------------------------------------------------
(* Facts about sums *)

\* What holds of 0, and of n + 1 when it does of n, holds of every number.
LEMMA Induction ==
    ASSUME NEW T, 0 \in T, \A n \in Nat : n \in T => n + 1 \in T
    PROVE  \A n \in Nat : n \in T
<1> DEFINE Missing == {n \in Nat : n \notin T}
<1>1. SUFFICES ASSUME Missing # {}
               PROVE  FALSE
  OBVIOUS
<1>2. Missing \in SUBSET Nat
  OBVIOUS
<1>3. PICK x \in Missing : \A y \in Missing : x <= y
  BY <1>1, <1>2, LeastNatural
<1>4. x # 0 /\ x - 1 \in Nat /\ x = (x - 1) + 1
  OBVIOUS
<1>5. x - 1 \in Missing
  BY <1>4
<1>6. QED
  BY <1>3, <1>4, <1>5

\* The element a sum takes out of a set first.
First(S) == CHOOSE x \in S : TRUE

\* F sums up f over each member of a family of sets.
Sums(F, f, Family) ==
    F = [s \in Family |-> IF s = {} THEN 0 ELSE f[First(s)] + F[s \ {First(s)}]]

\* A sum is the value of that function at the whole set.
LEMMA SumIsRecursive ==
    ASSUME NEW f, NEW S
    PROVE  SumFunctionOnSet(f, S) = (CHOOSE F : Sums(F, f, SUBSET S))[S]
BY DEF SumFunctionOnSet, FoldFunctionOnSet, MapThenFoldSet, Sums, First

\* It is an element of the set.
LEMMA FirstFacts ==
    ASSUME NEW S, S # {}
    PROVE  First(S) \in S
BY DEF First

\* One member fewer.
LEMMA OneFewer ==
    ASSUME NEW S, IsFiniteSet(S), NEW x \in S, NEW n \in Nat, Cardinality(S) = n + 1
    PROVE  IsFiniteSet(S \ {x}) /\ Cardinality(S \ {x}) = n
<1>1. IsFiniteSet(S \ {x}) /\ Cardinality(S \ {x}) = Cardinality(S) - 1
  BY FS_RemoveElement
<1>2. QED
  BY <1>1

\* The subsets of S of at most n members.
UpTo(n, S) == {s \in SUBSET S : Cardinality(s) <= n}

\* There is such a function for the subsets of a finite set.
LEMMA SumsExist ==
    ASSUME NEW f, NEW S, IsFiniteSet(S)
    PROVE  \E F : Sums(F, f, SUBSET S)
<1> DEFINE T == {n \in Nat : \E F : Sums(F, f, UpTo(n, S))}
<1>1. \A s \in SUBSET S : IsFiniteSet(s) /\ Cardinality(s) \in Nat /\ (Cardinality(s) = 0 <=> s = {})
  BY FS_Subset, FS_CardinalityType, FS_EmptySet
<1>2. 0 \in T
  <2> DEFINE F == [s \in UpTo(0, S) |-> 0]
  <2>1. \A s \in UpTo(0, S) : s = {}
    BY <1>1 DEF UpTo
  <2>2. F = [s \in UpTo(0, S) |-> IF s = {} THEN 0 ELSE f[First(s)] + F[s \ {First(s)}]]
    BY <2>1
  <2>3. Sums(F, f, UpTo(0, S))
    BY <2>2 DEF Sums
  <2>4. QED
    BY <2>3
<1>3. ASSUME NEW n \in Nat, n \in T
      PROVE  n + 1 \in T
  <2>1. PICK F : Sums(F, f, UpTo(n, S))
    BY <1>3
  <2> DEFINE G == [s \in UpTo(n + 1, S) |->
                      IF s \in UpTo(n, S) THEN F[s] ELSE f[First(s)] + F[s \ {First(s)}]]
  <2>2. ASSUME NEW s \in UpTo(n + 1, S), s # {}
        PROVE  s \ {First(s)} \in UpTo(n, S)
    <3>1. First(s) \in s /\ s \in SUBSET S /\ Cardinality(s) <= n + 1
      BY <2>2, FirstFacts DEF UpTo
    <3>2. Cardinality(s \ {First(s)}) = Cardinality(s) - 1
      BY <1>1, <3>1, FS_RemoveElement
    <3>3. Cardinality(s) \in Nat /\ s \ {First(s)} \in SUBSET S
      BY <1>1, <3>1
    <3>4. QED
      BY <3>1, <3>2, <3>3 DEF UpTo
  <2>3. \A s \in UpTo(n, S) : s \in UpTo(n + 1, S)
    BY <1>1 DEF UpTo
  <2>4. \A s \in UpTo(n, S) : F[s] = IF s = {} THEN 0 ELSE f[First(s)] + F[s \ {First(s)}]
    BY <2>1 DEF Sums
  <2>5. {} \in UpTo(n, S)
    BY <1>1 DEF UpTo
  <2>6. ASSUME NEW s \in UpTo(n + 1, S)
        PROVE  G[s] = IF s = {} THEN 0 ELSE f[First(s)] + G[s \ {First(s)}]
    <3>1. CASE s = {}
      BY <2>4, <2>5, <3>1
    <3>2. CASE s # {}
      <4>1. s \ {First(s)} \in UpTo(n, S)
        BY <2>2, <3>2
      <4>2. G[s \ {First(s)}] = F[s \ {First(s)}]
        BY <2>3, <4>1
      <4>3. G[s] = f[First(s)] + F[s \ {First(s)}]
        BY <2>4, <3>2
      <4>4. QED
        BY <3>2, <4>2, <4>3
    <3>3. QED
      BY <3>1, <3>2
  <2>7. G = [s \in UpTo(n + 1, S) |-> G[s]]
    OBVIOUS
  <2> HIDE DEF G
  <2>8. Sums(G, f, UpTo(n + 1, S))
    BY <2>6, <2>7 DEF Sums
  <2>9. QED
    BY <2>8
<1> HIDE DEF T
<1>4. Cardinality(S) \in T
  BY <1>1, <1>2, <1>3, Induction
<1>5. UpTo(Cardinality(S), S) = SUBSET S
  BY FS_Subset DEF UpTo
<1>6. QED
  BY <1>4, <1>5 DEF T

\* Functions that sum up over two families agree on the sets of both.
LEMMA SumsAgree ==
    ASSUME NEW f, NEW R, NEW S, NEW F, NEW G, Sums(F, f, SUBSET R), Sums(G, f, SUBSET S)
    PROVE  \A s \in SUBSET (R \cap S) : IsFiniteSet(s) => F[s] = G[s]
<1> DEFINE T == {n \in Nat : \A s \in SUBSET (R \cap S) :
                                 IsFiniteSet(s) /\ Cardinality(s) = n => F[s] = G[s]}
<1>1. \A s \in SUBSET (R \cap S) :
          /\ F[s] = IF s = {} THEN 0 ELSE f[First(s)] + F[s \ {First(s)}]
          /\ G[s] = IF s = {} THEN 0 ELSE f[First(s)] + G[s \ {First(s)}]
  BY DEF Sums
<1>2. 0 \in T
  BY <1>1, FS_EmptySet
<1>3. ASSUME NEW n \in Nat, n \in T
      PROVE  n + 1 \in T
  <2>1. ASSUME NEW s \in SUBSET (R \cap S), IsFiniteSet(s), Cardinality(s) = n + 1
        PROVE  F[s] = G[s]
    <3>1. s # {}
      BY <2>1, FS_EmptySet
    <3>2. First(s) \in s
      BY <3>1, FirstFacts
    <3>3. IsFiniteSet(s \ {First(s)}) /\ Cardinality(s \ {First(s)}) = n
      BY <2>1, <3>2, OneFewer
    <3>4. F[s \ {First(s)}] = G[s \ {First(s)}]
      BY <1>3, <3>3
    <3>5. QED
      BY <1>1, <3>1, <3>4
  <2>2. QED
    BY <2>1
<1>4. \A n \in Nat : n \in T => n + 1 \in T
  BY <1>3
<1> HIDE DEF T
<1>5. \A n \in Nat : n \in T
  BY <1>2, <1>4, Induction
<1>6. QED
  BY <1>5, FS_CardinalityType DEF T

\* The sum over a finite set, one element at a time.
LEMMA SumOfFirst ==
    ASSUME NEW f, NEW S, IsFiniteSet(S)
    PROVE  SumFunctionOnSet(f, S) =
               IF S = {} THEN 0 ELSE f[First(S)] + SumFunctionOnSet(f, S \ {First(S)})
<1> DEFINE F == CHOOSE H : Sums(H, f, SUBSET S)
           rest == S \ {First(S)}
           G == CHOOSE H : Sums(H, f, SUBSET rest)
<1>1. IsFiniteSet(rest) /\ rest \in SUBSET S
  BY FS_Subset
<1>2. Sums(F, f, SUBSET S) /\ Sums(G, f, SUBSET rest)
  BY <1>1, SumsExist
<1>3. SumFunctionOnSet(f, S) = F[S] /\ SumFunctionOnSet(f, rest) = G[rest]
  BY SumIsRecursive
<1> HIDE DEF F, G, rest
<1>4. F[S] = IF S = {} THEN 0 ELSE f[First(S)] + F[rest]
  BY <1>2 DEF Sums, rest
<1>5. F[rest] = G[rest]
  <2>1. rest \in SUBSET (S \cap rest)
    BY <1>1
  <2>2. \A s \in SUBSET (S \cap rest) : IsFiniteSet(s) => F[s] = G[s]
    BY <1>2, SumsAgree
  <2>3. QED
    BY <1>1, <2>1, <2>2
<1>6. QED
  BY <1>3, <1>4, <1>5 DEF rest

\* In whatever order.
LEMMA SumOfOne ==
    ASSUME NEW f, NEW S, IsFiniteSet(S), \A x \in S : f[x] \in Int
    PROVE  /\ SumFunctionOnSet(f, S) \in Int
           /\ S = {} => SumFunctionOnSet(f, S) = 0
           /\ \A x \in S : SumFunctionOnSet(f, S) = f[x] + SumFunctionOnSet(f, S \ {x})
<1> DEFINE Total(s) == SumFunctionOnSet(f, s)
           Adds(s) == Total(s) \in Int /\ \A x \in s : Total(s) = f[x] + Total(s \ {x})
           T == {n \in Nat : \A s \in SUBSET S : IsFiniteSet(s) /\ Cardinality(s) <= n => Adds(s)}
<1>1. Total({}) = 0
  BY SumOfFirst, FS_EmptySet
<1>2. 0 \in T
  <2>1. \A s \in SUBSET S : IsFiniteSet(s) /\ Cardinality(s) <= 0 => s = {}
    BY FS_EmptySet, FS_CardinalityType
  <2>2. Adds({})
    BY <1>1
  <2> HIDE DEF Total, Adds
  <2>3. QED
    BY <2>1, <2>2
<1>3. \A s \in SUBSET S : IsFiniteSet(s) /\ s # {} =>
          First(s) \in s /\ Total(s) = f[First(s)] + Total(s \ {First(s)})
  BY SumOfFirst, FirstFacts
<1> HIDE DEF Total
<1>4. ASSUME NEW n \in Nat, n \in T, NEW s \in SUBSET S, IsFiniteSet(s), Cardinality(s) = n + 1
      PROVE  Total(s) \in Int /\ \A x \in s : Total(s) = f[x] + Total(s \ {x})
  <2>1. s # {}
    BY <1>4, FS_EmptySet
  <2>2. PICK a \in s : a = First(s) /\ Total(s) = f[a] + Total(s \ {a})
    BY <1>3, <1>4, <2>1
  <2>3. \A x \in s : IsFiniteSet(s \ {x}) /\ Cardinality(s \ {x}) = n
    BY <1>4, OneFewer
  <2>4. \A x \in s : Total(s \ {x}) \in Int /\ \A y \in s \ {x} : Total(s \ {x}) = f[y] + Total((s \ {x}) \ {y})
    <3>1. ASSUME NEW x \in s
          PROVE  Adds(s \ {x})
      <4>1. IsFiniteSet(s \ {x}) /\ Cardinality(s \ {x}) <= n /\ s \ {x} \in SUBSET S
        BY <2>3
      <4> HIDE DEF Adds
      <4>2. QED
        BY <1>4, <4>1
    <3>2. QED
      BY <3>1
  <2>5. ASSUME NEW x \in s, x # a
        PROVE  Total(s) = f[x] + Total(s \ {x})
    <3>1. (s \ {a}) \ {x} = (s \ {x}) \ {a}
      OBVIOUS
    <3>2. PICK u : u = Total((s \ {a}) \ {x})
      OBVIOUS
    <3>3. Total(s \ {a}) = f[x] + u /\ Total(s \ {x}) = f[a] + u
      BY <2>4, <2>5, <3>1, <3>2
    <3>4. u \in Int
      <4>1. x \in s \ {a} /\ IsFiniteSet(s \ {a}) /\ Cardinality(s \ {a}) = n
        BY <2>3, <2>5
      <4>2. /\ IsFiniteSet((s \ {a}) \ {x})
            /\ Cardinality((s \ {a}) \ {x}) = n - 1
        BY <4>1, FS_RemoveElement
      <4>3. Cardinality((s \ {a}) \ {x}) <= n /\ (s \ {a}) \ {x} \in SUBSET S
        BY <4>2
      <4>4. QED
        BY <1>4, <3>2, <4>2, <4>3
    <3>5. f[a] \in Int /\ f[x] \in Int
      OBVIOUS
    <3>6. QED
      BY <2>2, <3>3, <3>4, <3>5
  <2>6. QED
    BY <2>2, <2>4, <2>5
<1>5. ASSUME NEW n \in Nat, n \in T
      PROVE  n + 1 \in T
  <2>1. ASSUME NEW s \in SUBSET S, IsFiniteSet(s), Cardinality(s) <= n + 1
        PROVE  Total(s) \in Int /\ \A x \in s : Total(s) = f[x] + Total(s \ {x})
    <3>1. Cardinality(s) \in Nat
      BY <2>1, FS_CardinalityType
    <3>2. CASE Cardinality(s) <= n
      BY <1>5, <2>1, <3>2
    <3>3. CASE Cardinality(s) = n + 1
      BY <1>4, <1>5, <2>1, <3>3
    <3>4. QED
      BY <2>1, <3>1, <3>2, <3>3
  <2>2. QED
    BY <2>1
<1> HIDE DEF T
<1>6. \A n \in Nat : n \in T
  BY <1>2, <1>5, Induction
<1>7. Cardinality(S) \in T /\ Cardinality(S) <= Cardinality(S)
  BY <1>6, FS_CardinalityType
<1>8. Total(S) \in Int /\ \A x \in S : Total(S) = f[x] + Total(S \ {x})
  BY <1>7 DEF T
<1>9. QED
  BY <1>1, <1>8 DEF Total

\* The sum depends on the values only, not on what they are the values of.
LEMMA SumOfImage ==
    ASSUME NEW f, NEW g, NEW h, NEW S, IsFiniteSet(S),
           \A x \in S : f[x] \in Int /\ g[h[x]] = f[x],
           \A x, y \in S : h[x] = h[y] => x = y
    PROVE  SumFunctionOnSet(g, {h[x] : x \in S}) = SumFunctionOnSet(f, S)
<1> DEFINE Image(s) == {h[x] : x \in s}
           Same(s) == IsFiniteSet(Image(s)) /\ SumFunctionOnSet(g, Image(s)) = SumFunctionOnSet(f, s)
           T == {n \in Nat : \A s \in SUBSET S : IsFiniteSet(s) /\ Cardinality(s) = n => Same(s)}
<1>1. 0 \in T
  <2>1. Image({}) = {} /\ IsFiniteSet({})
    BY FS_EmptySet
  <2>2. SumFunctionOnSet(g, {}) = 0 /\ SumFunctionOnSet(f, {}) = 0
    BY <2>1, SumOfFirst
  <2>3. Same({})
    BY <2>1, <2>2
  <2>4. \A s : IsFiniteSet(s) /\ Cardinality(s) = 0 => s = {}
    BY FS_EmptySet
  <2> HIDE DEF Same
  <2>5. QED
    BY <2>3, <2>4
<1>2. ASSUME NEW n \in Nat, n \in T
      PROVE  n + 1 \in T
  <2>1. ASSUME NEW s \in SUBSET S, IsFiniteSet(s), Cardinality(s) = n + 1
        PROVE  Same(s)
    <3>1. PICK x \in s : TRUE
      BY <2>1, FS_EmptySet
    <3>2. IsFiniteSet(s \ {x}) /\ Cardinality(s \ {x}) = n /\ s \ {x} \in SUBSET S
      BY <2>1, <3>1, OneFewer
    <3>3. Same(s \ {x})
      <4> HIDE DEF Same
      <4>1. QED
        BY <1>2, <3>2
    <3>4. Image(s) = Image(s \ {x}) \cup {h[x]} /\ Image(s) \ {h[x]} = Image(s \ {x}) /\ h[x] \in Image(s)
      BY <3>1
    <3>5. PICK R, Q, z : R = Image(s) /\ Q = Image(s \ {x}) /\ z = h[x]
      OBVIOUS
    <3>6. /\ R = Q \cup {z} /\ R \ {z} = Q /\ z \in R
          /\ IsFiniteSet(Q) /\ SumFunctionOnSet(g, Q) = SumFunctionOnSet(f, s \ {x})
      <4> HIDE DEF Image
      <4>1. QED
        BY <3>3, <3>4, <3>5 DEF Same
    <3>7. \A y \in R : g[y] \in Int
      BY <3>5
    <3> HIDE DEF Image
    <3>11. IsFiniteSet(R)
      BY <3>6, FS_AddElement
    <3>12. SumFunctionOnSet(g, R) = g[z] + SumFunctionOnSet(g, R \ {z})
      BY <3>6, <3>7, <3>11, SumOfOne
    <3>8. SumFunctionOnSet(f, s) = f[x] + SumFunctionOnSet(f, s \ {x})
      BY <2>1, <3>1, SumOfOne
    <3>9. g[z] = f[x]
      BY <3>1, <3>5
    <3>10. QED
      BY <3>5, <3>6, <3>8, <3>9, <3>11, <3>12 DEF Same
  <2> HIDE DEF Same
  <2>2. QED
    BY <2>1
<1> HIDE DEF T, Same
<1>3. \A n \in Nat : n \in T
  BY <1>1, <1>2, Induction
<1>4. Same(S)
  BY <1>3, FS_CardinalityType DEF T
<1>5. QED
  BY <1>4 DEF Same

-----------------------------------------------------------------------------
(* The snapshot *)

\* The side and price of an order are those it was submitted with, on the book
\* and while it is matched.
LedgerInv ==
    /\ \A id \in Ids : index[id] # Nil =>
          index[id] = <<placed[id].side, placed[id].price>>
    /\ incoming # Nil =>
          /\ incoming.side = placed[incoming.id].side
          /\ incoming.price = placed[incoming.id].price

\* A fill changes the quantity of the incoming order alone.
LEMMA FillKeepsLedger ==
    ASSUME SafetyInv, LedgerInv, incoming # Nil, NEW q,
           incoming' = [incoming EXCEPT !.qty = @ - q], placed' = placed,
           \A id \in Ids : index'[id] = Nil \/ index'[id] = index[id]
    PROVE  LedgerInv'
<1>1. incoming \in OrderEvents
  BY DEF SafetyInv, TypeOK
<1>2. /\ incoming'.id = incoming.id
      /\ incoming'.side = incoming.side
      /\ incoming'.price = incoming.price
  BY <1>1 DEF OrderEvents
<1>3. QED
  BY <1>2 DEF LedgerInv

\* Every step keeps the sides and prices.
LEMMA NextLedger == SafetyInv /\ LedgerInv /\ [Next]_vars => LedgerInv'
<1> SUFFICES ASSUME SafetyInv, LedgerInv, [Next]_vars PROVE LedgerInv'
  OBVIOUS
<1>1. DOMAIN index = Ids /\ DOMAIN placed = Ids
  BY DEF SafetyInv, TypeOK
<1>2. ASSUME NEW o \in OrderEvents, Submit(o)
      PROVE  LedgerInv'
  <2>1. /\ placed[o.id] = Nil /\ incoming' = o /\ index' = index
        /\ placed' = [placed EXCEPT ![o.id] = o]
    BY <1>2 DEF Submit
  <2>2. o.id \in Ids
    BY DEF OrderEvents
  <2>3. placed'[o.id] = o /\ \A id \in Ids \ {o.id} : placed'[id] = placed[id]
    BY <1>1, <2>1, <2>2
  <2>4. index[o.id] = Nil
    BY <2>1, <2>2 DEF SafetyInv, UnplacedIsFresh
  <2>5. QED
    BY <2>1, <2>3, <2>4 DEF LedgerInv
<1>3. ASSUME NEW id \in Ids, CancelOrder(id)
      PROVE  LedgerInv'
  <2>1. /\ index' = [index EXCEPT ![id] = Nil]
        /\ placed' = placed /\ incoming' = incoming
    BY <1>3 DEF CancelOrder
  <2>2. QED
    BY <1>1, <2>1 DEF LedgerInv
<1>4. CASE FillWhole
  <2>1. PICK x, q : Emit(x, q) /\ incoming # Nil /\ placed' = placed
    BY <1>4 DEF FillWhole, MayTrade
  <2>2. \E y \in {Head(levels[Against][TopKey]).id} : index' = [index EXCEPT ![y] = Nil]
    BY <1>4 DEF FillWhole
  <2>3. \A id \in Ids : index'[id] = Nil \/ index'[id] = index[id]
    BY <1>1, <2>2
  <2>4. QED
    BY <2>1, <2>3, FillKeepsLedger DEF Emit
<1>5. CASE FillPart
  <2>1. PICK x, q : Emit(x, q) /\ incoming # Nil /\ placed' = placed /\ index' = index
    BY <1>5 DEF FillPart, MayTrade
  <2>2. QED
    BY <2>1, FillKeepsLedger DEF Emit
<1>6. CASE Rest
  <2>1. /\ incoming # Nil /\ incoming' = Nil /\ placed' = placed
        /\ index' = [index EXCEPT ![incoming.id] = <<incoming.side, incoming.price>>]
    BY <1>6 DEF Rest
  <2>2. QED
    BY <1>1, <2>1 DEF LedgerInv
<1>7. CASE RejectRemainder \/ Finish
  BY <1>7 DEF RejectRemainder, Finish, LedgerInv
<1>8. CASE UNCHANGED vars
  BY <1>8 DEF vars, LedgerInv
<1>9. QED
  BY <1>2, <1>3, <1>4, <1>5, <1>6, <1>7, <1>8 DEF Next, Step

\* The orders the ledger has open at a price of a side.
Held(side, p) ==
    {id \in Ids : index[id] # Nil /\ placed[id].side = side /\ placed[id].price = p}

\* They are those in the queue of that price.
LEMMA HeldIsQueue ==
    ASSUME SafetyInv, LedgerInv, NEW side \in Sides, NEW k \in DOMAIN levels[side]
    PROVE  Held(side, PriceOf(side, k))
              = {levels[side][k][i].id : i \in DOMAIN levels[side][k]}
<1>1. k \in Prices /\ PriceOf(side, k) \in Prices
  BY LevelFacts, KeyFacts DEF SafetyInv
<1>2. ASSUME NEW i \in DOMAIN levels[side][k]
      PROVE  levels[side][k][i].id \in Held(side, PriceOf(side, k))
  <2>1. levels[side][k][i].id \in Ids
    BY LevelFacts DEF SafetyInv
  <2>2. index[levels[side][k][i].id] = <<side, PriceOf(side, k)>>
    BY DEF SafetyInv, RestingIndexed
  <2>3. index[levels[side][k][i].id] # Nil
    BY <1>1, <2>2, NilFacts
  <2>4. PICK id \in Ids : id = levels[side][k][i].id
    BY <2>1
  <2>5. <<placed[id].side, placed[id].price>> = <<side, PriceOf(side, k)>> /\ index[id] # Nil
    BY <2>2, <2>3, <2>4 DEF LedgerInv
  <2>6. placed[id].side = side /\ placed[id].price = PriceOf(side, k)
    BY <2>5
  <2>7. id \in Held(side, PriceOf(side, k))
    BY <2>5, <2>6 DEF Held
  <2>8. QED
    BY <2>4, <2>7
<1>3. ASSUME NEW id \in Held(side, PriceOf(side, k))
      PROVE  \E i \in DOMAIN levels[side][k] : levels[side][k][i].id = id
  <2>1. id \in Ids /\ index[id] = <<side, PriceOf(side, k)>>
    BY DEF LedgerInv, Held
  <2>2. QED
    BY <1>1, <2>1 DEF SafetyInv, IndexedRests
<1>4. QED
  BY <1>2, <1>3

\* So their quantities add up to the same.
LEMMA LevelTotal ==
    ASSUME SafetyInv, LedgerInv, NEW side \in Sides, NEW k \in DOMAIN levels[side],
           NEW queue, queue = levels[side][k], NEW held, held = Held(side, PriceOf(side, k))
    PROVE  SumFunction([i \in DOMAIN queue |-> queue[i].qty])
              = SumFunction([id \in held |-> placed[id].qty - filled[id]])
<1> DEFINE f == [i \in DOMAIN queue |-> queue[i].qty]
           g == [id \in held |-> placed[id].qty - filled[id]]
           h == [i \in DOMAIN queue |-> queue[i].id]
           S == DOMAIN queue
<1>1. IsFiniteSet(S)
  <2>1. S = 1..Len(queue) /\ Len(queue) \in Nat
    BY LevelFacts DEF SafetyInv
  <2>2. QED
    BY <2>1, FS_Interval
<1>2. held = {h[i] : i \in S}
  <2>1. held = {queue[i].id : i \in S}
    BY HeldIsQueue
  <2>2. \A i \in S : h[i] = queue[i].id
    OBVIOUS
  <2> HIDE DEF S, h
  <2>3. QED
    BY <2>1, <2>2
<1>3. ASSUME NEW i \in S
      PROVE  f[i] \in Int /\ g[h[i]] = f[i]
  <2>1. /\ queue[i].id \in held
        /\ queue[i].id \in Ids /\ queue[i].qty \in 1..MaxQty
    BY <1>2, LevelFacts DEF SafetyInv
  <2>2. PICK id, q : id = queue[i].id /\ q = queue[i].qty
    OBVIOUS
  <2>3. q + filled[id] = placed[id].qty
    BY <2>2 DEF SafetyInv, QuantityConserved
  <2>4. filled[id] \in Int /\ q \in Int
    BY <2>1, <2>2 DEF SafetyInv, TypeOK
  <2>5. placed[id].qty - filled[id] = q
    BY <2>3, <2>4
  <2>6. f[i] = q /\ h[i] = id /\ g[id] = placed[id].qty - filled[id]
    BY <2>1, <2>2
  <2>7. QED
    BY <2>4, <2>5, <2>6
<1>4. \A i, j \in S : h[i] = h[j] => i = j
  BY RestsOnce DEF SafetyInv
<1>5. DOMAIN f = S /\ DOMAIN g = held
  OBVIOUS
<1> HIDE DEF f, g, h, S
<1>6. SumFunctionOnSet(g, {h[i] : i \in S}) = SumFunctionOnSet(f, S)
  BY <1>1, <1>3, <1>4, SumOfImage
<1>7. SumFunction(f) = SumFunctionOnSet(f, S) /\ SumFunction(g) = SumFunctionOnSet(g, held)
  BY <1>5 DEF SumFunction
<1>8. SumFunction(f) = SumFunction(g)
  BY <1>2, <1>6, <1>7
<1>9. QED
  BY <1>8 DEF f, g

\* The prices of a side's levels are those of the open orders of that side.
LEMMA LevelPrices ==
    ASSUME SafetyInv, LedgerInv, NEW side \in Sides, NEW open,
           open = {id \in Ids : index[id] # Nil /\ placed[id].side = side}
    PROVE  {PriceOf(side, k) : k \in DOMAIN levels[side]} = {placed[id].price : id \in open}
<1>1. ASSUME NEW k \in DOMAIN levels[side]
      PROVE  \E id \in open : placed[id].price = PriceOf(side, k)
  <2>1. 1 \in DOMAIN levels[side][k]
    BY LevelFacts DEF SafetyInv
  <2>2. levels[side][k][1].id \in Held(side, PriceOf(side, k))
    BY <2>1, HeldIsQueue
  <2>3. QED
    BY <2>2 DEF Held
<1>2. ASSUME NEW id \in open
      PROVE  \E k \in DOMAIN levels[side] : PriceOf(side, k) = placed[id].price
  <2>1. id \in Ids /\ index[id] # Nil /\ index[id] = <<side, placed[id].price>>
    BY DEF LedgerInv
  <2>2. index[id] \in Sides \X Prices
    BY <2>1 DEF SafetyInv, TypeOK
  <2>3. placed[id].price \in Prices
    BY <2>1, <2>2
  <2>4. PICK k \in Prices : PriceOf(side, k) = placed[id].price
    BY <2>3, KeyFacts
  <2>5. k \in DOMAIN levels[side]
    BY <2>1, <2>4 DEF SafetyInv, IndexedRests
  <2>6. QED
    BY <2>4, <2>5
<1>3. QED
  BY <1>1, <1>2

\* One side of the snapshot is one side of the ledger.
LEMMA SideOfSnapshot ==
    ASSUME SafetyInv, LedgerInv, NEW side \in Sides, NEW open,
           open = {id \in Ids : index[id] # Nil /\ placed[id].side = side}
    PROVE  build_snapshot(side) =
             [p \in {placed[id].price : id \in open} |->
                 LET held == {id \in open : placed[id].price = p}
                 IN SumFunction([id \in held |-> placed[id].qty - filled[id]])]
<1> DEFINE prices == {PriceOf(side, k) : k \in DOMAIN levels[side]}
           ofQueue(p) == LET queue == levels[side][Key(side, p)]
                         IN SumFunction([i \in DOMAIN queue |-> queue[i].qty])
           ofLedger(p) == LET held == {id \in open : placed[id].price = p}
                          IN SumFunction([id \in held |-> placed[id].qty - filled[id]])
<1>1. ASSUME NEW p \in prices
      PROVE  ofQueue(p) = ofLedger(p)
  <2>1. PICK k \in DOMAIN levels[side] : p = PriceOf(side, k)
    OBVIOUS
  <2>2. Key(side, p) = k
    BY <2>1, LevelFacts, KeyFacts DEF SafetyInv
  <2>3. PICK queue, held : queue = levels[side][k] /\ held = Held(side, p)
    OBVIOUS
  <2>4. {id \in open : placed[id].price = p} = held
    BY <2>3 DEF Held
  <2>5. SumFunction([i \in DOMAIN queue |-> queue[i].qty])
           = SumFunction([id \in held |-> placed[id].qty - filled[id]])
    BY <2>1, <2>3, LevelTotal
  <2>6. ofQueue(p) = SumFunction([i \in DOMAIN queue |-> queue[i].qty])
    BY <2>2, <2>3
  <2>7. ofLedger(p) = SumFunction([id \in held |-> placed[id].qty - filled[id]])
    BY <2>4
  <2>8. QED
    BY <2>5, <2>6, <2>7
<1>2. prices = {placed[id].price : id \in open}
  BY LevelPrices
<1>3. build_snapshot(side) = [p \in prices |-> ofQueue(p)]
  BY DEF build_snapshot
<1> HIDE DEF prices, ofQueue, ofLedger
<1>4. build_snapshot(side) = [p \in {placed[id].price : id \in open} |-> ofLedger(p)]
  BY <1>1, <1>2, <1>3
<1>5. QED
  BY <1>4 DEF ofLedger

\* The snapshot the engine hands to the validator is what the submitted orders,
\* less their fills and less the cancelled ones, add up to at every price.
THEOREM SnapshotAlwaysMatchesLedger == Spec => []SnapshotMatchesLedger
<1>1. Init => LedgerInv
  BY DEF Init, LedgerInv
<1>2. SafetyInv /\ LedgerInv => SnapshotMatchesLedger
  BY SideOfSnapshot DEF SnapshotMatchesLedger
<1>3. QED
  BY <1>1, <1>2, NextLedger, AlwaysSafe, PTL DEF Spec
-----------------------------------------------------------------------------
(* Matching ends: the safety half of EventCompletes *)

\* match_order has a next step: nothing remains, nothing can be traded with, or
\* the best level has an order to fill.
StepRemains ==
    incoming # Nil => incoming.qty = 0 \/ ~MayTrade \/ levels[Against][TopKey] # <<>>

\* Every step ends the matching of the order or takes something off it: no turn
\* of the loops is for nothing.
MatchingAdvances ==
    [][incoming # Nil =>
          \/ incoming' = Nil
          \/ incoming'.id = incoming.id /\ incoming'.qty < incoming.qty]_vars

\* A fill takes at least one unit: no empty order rests.
LEMMA FillShrinks ==
    ASSUME SafetyInv, FillWhole \/ FillPart
    PROVE  incoming'.id = incoming.id /\ incoming'.qty < incoming.qty
<1>1. MayTrade
  BY DEF FillWhole, FillPart
<1>2. PICK front : front = Head(levels[Against][TopKey])
  OBVIOUS
<1>3. incoming \in OrderEvents /\ front \in Resting
  BY <1>1, <1>2, FrontOfBook
<1>4. incoming.qty \in Nat /\ incoming.qty > 0 /\ front.qty \in Nat /\ front.qty > 0
  BY <1>1, <1>3, BoundsAssumption DEF MayTrade, OrderEvents, Resting
<1>5. CASE FillWhole
  <2>1. Emit(front.id, front.qty) /\ placed' = placed /\ front.qty <= incoming.qty
    BY <1>2, <1>5 DEF FillWhole
  <2>2. incoming'.id = incoming.id /\ incoming'.qty = incoming.qty - front.qty
    BY <1>1, <1>2, <1>4, <2>1, EmitFacts
  <2>3. QED
    BY <1>4, <2>2
<1>6. CASE FillPart
  <2>1. Emit(front.id, incoming.qty) /\ placed' = placed /\ front.qty > incoming.qty
    BY <1>2, <1>6 DEF FillPart
  <2>2. incoming.qty <= front.qty /\ incoming.qty <= incoming.qty
    BY <1>4, <2>1
  <2>3. incoming'.id = incoming.id /\ incoming'.qty = incoming.qty - incoming.qty
    BY <1>1, <1>2, <1>4, <2>1, <2>2, EmitFacts
  <2>4. QED
    BY <1>4, <2>3
<1>7. QED
  BY <1>5, <1>6

\* Matching an order always has a next step, and every step ends it or lowers
\* its quantity, a natural number: under the fairness of Step, EventCompletes.
THEOREM MatchingAlwaysAdvances == Spec => []StepRemains /\ MatchingAdvances
<1>1. SafetyInv => StepRemains
  <2> SUFFICES ASSUME SafetyInv, MayTrade
               PROVE  levels[Against][TopKey] # <<>>
    BY DEF StepRemains
  <2>1. 1 \in DOMAIN levels[Against][TopKey]
    BY FrontOfBook
  <2>2. DOMAIN <<>> = {}
    OBVIOUS
  <2>3. QED
    BY <2>1, <2>2
<1>2. SafetyInv /\ [Next]_vars =>
          [incoming # Nil =>
              \/ incoming' = Nil
              \/ incoming'.id = incoming.id /\ incoming'.qty < incoming.qty]_vars
  <2> SUFFICES ASSUME SafetyInv, Next, incoming # Nil
               PROVE  \/ incoming' = Nil
                      \/ incoming'.id = incoming.id /\ incoming'.qty < incoming.qty
    OBVIOUS
  <2>1. Step
    BY DEF Next, Submit, CancelOrder
  <2>2. CASE FillWhole \/ FillPart
    BY <2>2, FillShrinks
  <2>3. CASE Rest \/ RejectRemainder \/ Finish
    BY <2>3 DEF Rest, RejectRemainder, Finish
  <2>4. QED
    BY <2>1, <2>2, <2>3 DEF Step
<1>3. QED
  BY <1>1, <1>2, AlwaysSafe, PTL DEF Spec, MatchingAdvances
=============================================================================
