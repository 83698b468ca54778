--------------------------- MODULE Leaderboard_proofs ---------------------------
(***************************************************************************)
(* Proofs about Leaderboard, and about the hub in it, for every set of     *)
(* connections and contestants, and every capacity of the queues; and,     *)
(* from the line that says so, about Telemetry, which shares no state with *)
(* them, for every set of events, window and capacity of the channels.     *)
(***************************************************************************)
EXTENDS Leaderboard, Telemetry, FiniteSetTheorems, SequenceTheorems,
        WellFoundedInduction, TLAPS

-----------------------------------------------------------------------------
(* The hub: its inductive invariant *)

WriterSteps == {"none", "register", "loop", "write", "unregister", "close"}

\* Types, for messages of any kind.
Queues(M) ==
    /\ hub \in {"running", "stopped"} /\ cancelled \in BOOLEAN
    /\ publishing \in M \cup {None}
    /\ broadcast \in Seq(M) /\ Len(broadcast) <= BroadcastCap
    /\ clients \subseteq Conns /\ IsFiniteSet(clients)
    /\ closed \subseteq Conns /\ dropped \in Nat
    /\ send \in [Conns -> Seq(M)] /\ \A k \in Conns : Len(send[k]) <= SendCap
    /\ writer \in [Conns -> WriterSteps]
    /\ hand \in [Conns -> M \cup {None}]
    /\ conn \in [Conns -> {"closed", "open", "lost"}]
    /\ wire \in [Conns -> Seq(M)] /\ read \in [Conns -> Nat]
    /\ fanned \in Seq(M) /\ from \in [Conns -> Nat]

\* The publisher stays within its bound.
Bounded ==
    /\ Len(fanned) + Len(broadcast) <= MaxMessages
    /\ publishing # None => Len(fanned) + Len(broadcast) < MaxMessages

\* What a writer's next step says of its connection.
WriterKnows(k) ==
    /\ k \in clients => writer[k] \in {"loop", "write", "unregister"}
    /\ k \in closed => writer[k] \in {"loop", "write", "unregister", "close"} /\ k \notin clients
    /\ hand[k] # None <=> writer[k] = "write"
    /\ writer[k] \in {"none", "register"} => wire[k] = <<>> /\ send[k] = <<>>

\* Without drops a registered client whose connection is up sees what is due to it.
SeesWhatIsDue(k) ==
    k \in clients =>
        /\ from[k] <= Len(fanned)
        /\ conn[k] = "open" /\ dropped = 0 => Seen(k) = Due(k)

\* Every loss is counted.
LossIsCounted == IsFiniteSet(Lost) /\ Cardinality(Lost) <= dropped

HubInv(M) ==
    /\ Queues(M)
    /\ Bounded
    /\ \A k \in Conns : WriterKnows(k) /\ SeesWhatIsDue(k)
    /\ LossIsCounted

\* A step of the service or of a peer.
ServerStep(M) ==
    \/ \E m \in M : CallBroadcast(m)
    \/ Broadcast \/ FanOut \/ StopHub \/ Cancel \/ Restart
    \/ \E k \in Conns :
          \/ Register(k) \/ Unregister(k) \/ Upgrade(k) \/ Read(k) \/ HangUp(k)
          \/ WriterLoop(k) \/ WriteMessage(k) \/ WriteFails(k) \/ Close(k)
    \/ UNCHANGED serverVars

\* A step in which a client loses nothing.
LosesNothing(k) ==
    k \in Live' => \/ Gap(k)' = 0
                   \/ k \in Live /\ Gap(k)' = Gap(k)

-----------------------------------------------------------------------------
(* Sequences *)

\* What is due grows by what is appended.
LEMMA SubSeqAppend ==
    ASSUME NEW S, NEW s \in Seq(S), NEW e \in S, NEW f \in Nat, f <= Len(s)
    PROVE  SubSeq(Append(s, e), f + 1, Len(Append(s, e)))
               = Append(SubSeq(s, f + 1, Len(s)), e)
<1>1. PICK t : t = Append(s, e)
  OBVIOUS
<1>2. /\ t \in Seq(S) /\ Len(t) = Len(s) + 1 /\ t[Len(s) + 1] = e
      /\ \A i \in 1..Len(s) : t[i] = s[i]
  BY <1>1
<1>3. PICK a : a = SubSeq(t, f + 1, Len(t))
  OBVIOUS
<1>4. PICK b : b = SubSeq(s, f + 1, Len(s))
  OBVIOUS
<1>5. /\ a \in Seq(S) /\ Len(a) = Len(s) + 1 - f
      /\ \A i \in 1..(Len(s) + 1 - f) : a[i] = t[f + i]
  BY <1>1, <1>2, <1>3, SubSeqProperties
<1>6. /\ b \in Seq(S) /\ Len(b) = Len(s) - f
      /\ \A i \in 1..(Len(s) - f) : b[i] = s[f + i]
  BY <1>4, SubSeqProperties
<1>7. PICK c : c = Append(b, e)
  OBVIOUS
<1>8. /\ c \in Seq(S) /\ Len(c) = Len(b) + 1 /\ c[Len(b) + 1] = e
      /\ \A i \in 1..Len(b) : c[i] = b[i]
  BY <1>6, <1>7
<1>9. Len(a) = Len(c) /\ \A i \in 1..Len(a) : a[i] = c[i]
  <2>1. Len(s) \in Nat /\ Len(a) = Len(c) /\ Len(a) = Len(s) - f + 1
    BY <1>5, <1>6, <1>8
  <2>2. ASSUME NEW i \in 1..(Len(s) - f)
        PROVE  a[i] = c[i]
    <3>1. f + i \in 1..Len(s) /\ i \in 1..(Len(s) + 1 - f) /\ i \in 1..Len(b)
      BY <1>6, <2>1
    <3>2. a[i] = t[f + i] /\ t[f + i] = s[f + i]
      BY <1>2, <1>5, <3>1
    <3>3. c[i] = b[i] /\ b[i] = s[f + i]
      BY <1>6, <1>8, <3>1
    <3>4. QED
      BY <3>2, <3>3
  <2>3. a[Len(s) - f + 1] = c[Len(s) - f + 1]
    <3>1. Len(s) - f + 1 \in 1..(Len(s) + 1 - f) /\ f + (Len(s) - f + 1) = Len(s) + 1
      BY <2>1
    <3>2. a[Len(s) - f + 1] = e
      BY <1>2, <1>5, <3>1
    <3>3. QED
      BY <1>6, <1>8, <3>2
  <2>4. \A i \in 1..Len(a) : i \in 1..(Len(s) - f) \/ i = Len(s) - f + 1
    BY <2>1
  <2>5. QED
    BY <2>1, <2>2, <2>3, <2>4
<1>10. a = c
  BY <1>5, <1>8, <1>9, SeqEqual
<1>11. QED
  BY <1>1, <1>3, <1>4, <1>7, <1>10

\* Nothing is due at first.
LEMMA SubSeqNone ==
    ASSUME NEW S, NEW s \in Seq(S)
    PROVE  SubSeq(s, Len(s) + 1, Len(s)) = <<>>
BY SubSeqProperties, EmptySeq

\* One more message waits in the queue.
LEMMA QueueGrows ==
    ASSUME NEW S, NEW a \in Seq(S), NEW b \in Seq(S), NEW e \in S
    PROVE  a \o Append(b, e) = Append(a \o b, e)
<1>1. <<e>> \in Seq(S)
  OBVIOUS
<1>2. Append(b, e) = b \o <<e>>
  BY AppendIsConcat
<1>3. a \o b \in Seq(S)
  BY ConcatProperties
<1>4. Append(a \o b, e) = (a \o b) \o <<e>>
  BY <1>3, AppendIsConcat
<1>5. (a \o b) \o <<e>> = a \o (b \o <<e>>)
  BY <1>1, ConcatAssociative
<1>6. QED
  BY <1>2, <1>4, <1>5

\* What is taken from a queue is in hand.
LEMMA TakenInHand ==
    ASSUME NEW S, NEW a \in Seq(S), NEW b \in Seq(S), b # <<>>
    PROVE  (a \o <<>>) \o b = (a \o <<Head(b)>>) \o Tail(b)
<1>1. a \o <<>> = a
  BY ConcatEmptySeq
<1>2. Head(b) \in S /\ Tail(b) \in Seq(S) /\ <<Head(b)>> \in Seq(S)
  BY HeadTailProperties
<1>3. (a \o <<Head(b)>>) \o Tail(b) = a \o (<<Head(b)>> \o Tail(b))
  BY <1>2, ConcatAssociative
<1>4. <<Head(b)>> \o Tail(b) = b
  <2>1. Len(b) \in Nat \ {0} /\ Head(b) = b[1]
    BY EmptySeq
  <2>2. 1 \in 1..Len(b) /\ Len(b) \in 1..Len(b)
    BY <2>1
  <2>3. SubSeq(b, 1, Len(b)) = <<b[1]>> \o SubSeq(b, 1 + 1, Len(b))
    BY <2>2, SubSeqRecursiveFirst
  <2>4. Tail(b) = SubSeq(b, 2, Len(b))
    BY TailIsSubSeq
  <2>5. SubSeq(b, 1, Len(b)) = b
    BY SubSeqFull
  <2>6. 1 + 1 = 2
    OBVIOUS
  <2>7. QED
    BY <2>1, <2>3, <2>4, <2>5, <2>6
<1>5. QED
  BY <1>1, <1>3, <1>4

-----------------------------------------------------------------------------
(* The hub's steps keep types and bounds *)

\* The constants.
LEMMA HubFacts ==
    /\ SendCap \in Nat /\ SendCap > 0 /\ BroadcastCap \in Nat /\ BroadcastCap > 0
    /\ MaxMessages \in Nat
BY HubAssumption

\* Messages move from queue to queue.
LEMMA QueuesKept ==
    ASSUME NEW M, None \notin M, Queues(M), Bounded, \A k \in Conns : WriterKnows(k), ServerStep(M)
    PROVE  Queues(M)' /\ Bounded'
<1> USE HubFacts DEF hubVars, connVars
<1>0. \A s \in Seq(M) : s # <<>> =>
          /\ Head(s) \in M /\ Tail(s) \in Seq(M)
          /\ Len(s) \in Nat /\ Len(s) > 0 /\ Len(Tail(s)) = Len(s) - 1
  BY HeadTailProperties, EmptySeq
<1>1. ASSUME NEW m \in M, CallBroadcast(m)
      PROVE  Queues(M)' /\ Bounded'
  BY <1>1 DEF CallBroadcast, Queues, Bounded
<1>2. ASSUME Broadcast
      PROVE  Queues(M)' /\ Bounded'
  <2>1. publishing \in M /\ broadcast \in Seq(M) /\ fanned \in Seq(M)
    BY <1>2 DEF Broadcast, Queues
  <2>2. /\ broadcast' \in Seq(M) /\ Len(broadcast') = Len(broadcast) + 1
        /\ publishing' = None /\ fanned' = fanned
    BY <1>2, <2>1 DEF Broadcast
  <2>3. Len(broadcast') <= BroadcastCap
    BY <1>2, <2>1, <2>2 DEF Broadcast
  <2>4. Queues(M)'
    BY <1>2, <2>2, <2>3 DEF Broadcast, Queues
  <2>5. Bounded'
    BY <1>2, <2>1, <2>2 DEF Broadcast, Bounded
  <2>6. QED
    BY <2>4, <2>5
<1>3. ASSUME FanOut
      PROVE  Queues(M)' /\ Bounded'
  <2>1. broadcast \in Seq(M) /\ fanned \in Seq(M) /\ broadcast # <<>>
    BY <1>3 DEF FanOut, Queues
  <2>2. /\ broadcast' \in Seq(M) /\ Len(broadcast') = Len(broadcast) - 1
        /\ fanned' \in Seq(M) /\ Len(fanned') = Len(fanned) + 1
    BY <1>0, <1>3, <2>1 DEF FanOut
  <2>3. send' \in [Conns -> Seq(M)] /\ \A k \in Conns : Len(send'[k]) <= SendCap
    <3>1. PICK m \in M : m = Head(broadcast)
      BY <1>0, <2>1
    <3>2. ASSUME NEW k \in Conns
          PROVE  send'[k] \in Seq(M) /\ Len(send'[k]) <= SendCap
      <4>1. send[k] \in Seq(M) /\ Len(send[k]) <= SendCap
        BY DEF Queues
      <4>2. send'[k] = IF k \in clients /\ HasRoom(k) THEN Append(send[k], m) ELSE send[k]
        BY <1>3, <3>1 DEF FanOut
      <4>3. QED
        BY <4>1, <4>2 DEF HasRoom
    <3>3. QED
      BY <1>3, <3>2 DEF FanOut
  <2>4. dropped' \in Nat
    <3>1. IsFiniteSet({k \in clients : ~HasRoom(k)})
      BY FS_Subset DEF Queues
    <3>2. QED
      BY <1>3, <3>1, FS_CardinalityType DEF FanOut, Queues
  <2>5. Queues(M)'
    <3>1. Len(broadcast') <= BroadcastCap
      BY <2>1, <2>2 DEF Queues
    <3>2. QED
      BY <1>3, <2>2, <2>3, <2>4, <3>1 DEF FanOut, Queues
  <2>6. Bounded'
    BY <1>3, <2>1, <2>2 DEF FanOut, Bounded
  <2>7. QED
    BY <2>5, <2>6
<1>4. ASSUME StopHub \/ Cancel
      PROVE  Queues(M)' /\ Bounded'
  <2>1. IsFiniteSet({})
    BY FS_EmptySet
  <2>2. QED
    BY <1>4, <2>1 DEF StopHub, Cancel, Queues, Bounded
<1>5. ASSUME Restart
      PROVE  Queues(M)' /\ Bounded'
  <2>1. IsFiniteSet({}) /\ <<>> \in Seq(M) /\ Len(<<>>) = 0
    BY FS_EmptySet, EmptySeq
  <2>2. broadcast' = <<>> /\ fanned' = <<>> /\ publishing' = None
    BY <1>5 DEF Restart
  <2>3. Bounded'
    BY <2>1, <2>2 DEF Bounded
  <2>4. \A k \in Conns : Len(send'[k]) <= SendCap
    BY <1>5, <2>1 DEF Restart
  <2>5. Len(broadcast') <= BroadcastCap
    BY <2>1, <2>2
  <2>6. Queues(M)'
    BY <1>5, <2>1, <2>4, <2>5 DEF Restart, Queues, WriterSteps
  <2>7. QED
    BY <2>3, <2>6
<1>6. ASSUME NEW k \in Conns,
             Register(k) \/ Unregister(k) \/ Upgrade(k) \/ Read(k) \/ HangUp(k) \/ WriteFails(k)
      PROVE  Queues(M)' /\ Bounded'
  <2>1. IsFiniteSet(clients \cup {k}) /\ IsFiniteSet(clients \ {k})
    BY FS_AddElement, FS_RemoveElement DEF Queues
  <2>2. CASE Register(k)
    BY <2>1, <2>2 DEF Register, Queues, Bounded, WriterSteps
  <2>3. CASE Unregister(k)
    BY <2>1, <2>3 DEF Unregister, Queues, Bounded, WriterSteps
  <2>4. CASE Upgrade(k) \/ HangUp(k) \/ WriteFails(k)
    BY <2>4 DEF Upgrade, HangUp, WriteFails, Queues, Bounded, WriterSteps
  <2>5. CASE Read(k)
    BY <2>5 DEF Read, Queues, Bounded
  <2>6. QED
    BY <1>6, <2>2, <2>3, <2>4, <2>5
<1>7. ASSUME NEW k \in Conns, WriterLoop(k)
      PROVE  Queues(M)' /\ Bounded'
  <2>1. send[k] \in Seq(M) /\ Len(send[k]) <= SendCap
    BY DEF Queues
  <2>2. send[k] # <<>> => /\ Head(send[k]) \in M /\ Tail(send[k]) \in Seq(M)
                          /\ Len(Tail(send[k])) <= SendCap
    BY <1>0, <2>1
  <2>3. CASE writer' = [writer EXCEPT ![k] = "unregister"] /\ UNCHANGED <<hand, send>>
    BY <1>7, <2>3 DEF WriterLoop, Queues, Bounded, WriterSteps
  <2>4. CASE /\ send[k] # <<>> /\ writer' = [writer EXCEPT ![k] = "write"]
             /\ hand' = [hand EXCEPT ![k] = Head(send[k])]
             /\ send' = [send EXCEPT ![k] = Tail(send[k])]
    <3>1. send' \in [Conns -> Seq(M)] /\ \A j \in Conns : Len(send'[j]) <= SendCap
      BY <2>2, <2>4 DEF Queues
    <3>2. hand' \in [Conns -> M \cup {None}] /\ writer' \in [Conns -> WriterSteps]
      BY <2>2, <2>4 DEF Queues, WriterSteps
    <3>3. QED
      BY <1>7, <3>1, <3>2 DEF WriterLoop, Queues, Bounded
  <2>5. QED
    BY <1>7, <2>3, <2>4 DEF WriterLoop
<1>8. ASSUME NEW k \in Conns, WriteMessage(k)
      PROVE  Queues(M)' /\ Bounded'
  <2>1. hand[k] \in M /\ wire[k] \in Seq(M)
    BY <1>8 DEF WriteMessage, Queues, WriterKnows
  <2>2. Append(wire[k], hand[k]) \in Seq(M)
    BY <2>1
  <2>3. QED
    BY <1>8, <2>2 DEF WriteMessage, Queues, Bounded, WriterSteps
<1>9. ASSUME NEW k \in Conns, Close(k)
      PROVE  Queues(M)' /\ Bounded'
  <2>1. <<>> \in Seq(M) /\ Len(<<>>) = 0
    BY EmptySeq
  <2>2. QED
    BY <1>9, <2>1 DEF Close, Queues, Bounded, WriterSteps
<1>10. ASSUME UNCHANGED serverVars
       PROVE  Queues(M)' /\ Bounded'
  BY <1>10 DEF serverVars, Queues, Bounded
<1>11. QED
  BY <1>1, <1>2, <1>3, <1>4, <1>5, <1>6, <1>7, <1>8, <1>9, <1>10 DEF ServerStep

\* Queues are closed and emptied where nobody uses them any more.
LEMMA WritersKnow ==
    ASSUME NEW M, None \notin M, Queues(M), \A k \in Conns : WriterKnows(k), ServerStep(M),
           NEW k \in Conns
    PROVE  WriterKnows(k)'
<1> USE DEF hubVars, connVars
<1>1. ASSUME NEW m \in M, CallBroadcast(m)
      PROVE  WriterKnows(k)'
  BY <1>1 DEF CallBroadcast, WriterKnows
<1>2. ASSUME Broadcast \/ Cancel \/ UNCHANGED serverVars
      PROVE  WriterKnows(k)'
  BY <1>2 DEF Broadcast, Cancel, serverVars, WriterKnows
<1>3. ASSUME FanOut
      PROVE  WriterKnows(k)'
  <2>1. k \notin clients => send'[k] = send[k]
    BY <1>3 DEF FanOut
  <2>2. QED
    BY <1>3, <2>1 DEF FanOut, WriterKnows
<1>4. ASSUME StopHub
      PROVE  WriterKnows(k)'
  BY <1>4 DEF StopHub, WriterKnows
<1>5. ASSUME Restart
      PROVE  WriterKnows(k)'
  BY <1>5 DEF Restart, WriterKnows
<1>6. ASSUME NEW j \in Conns, Register(j) \/ Unregister(j)
      PROVE  WriterKnows(k)'
  BY <1>6 DEF Register, Unregister, WriterKnows, Queues
<1>7. ASSUME NEW j \in Conns, Upgrade(j) \/ Read(j) \/ HangUp(j)
      PROVE  WriterKnows(k)'
  BY <1>7 DEF Upgrade, Read, HangUp, WriterKnows, Queues
<1>8. ASSUME NEW j \in Conns, WriterLoop(j)
      PROVE  WriterKnows(k)'
  <2>1. send[j] # <<>> => Head(send[j]) # None
    BY HeadTailProperties DEF Queues
  <2>2. QED
    BY <1>8, <2>1 DEF WriterLoop, WriterKnows, Queues
<1>9. ASSUME NEW j \in Conns, WriteMessage(j) \/ WriteFails(j)
      PROVE  WriterKnows(k)'
  BY <1>9 DEF WriteMessage, WriteFails, WriterKnows, Queues
<1>10. ASSUME NEW j \in Conns, Close(j)
       PROVE  WriterKnows(k)'
  BY <1>10 DEF Close, WriterKnows, Queues
<1>11. QED
  BY <1>1, <1>2, <1>3, <1>4, <1>5, <1>6, <1>7, <1>8, <1>9, <1>10 DEF ServerStep

\* What was seen and is due are messages.
LEMMA SeenTypes ==
    ASSUME NEW M, None \notin M, Queues(M), NEW k \in Conns
    PROVE  /\ Seen(k) \in Seq(M) /\ Due(k) \in Seq(M)
           /\ Gap(k) = Len(Due(k)) - Len(Seen(k))
           /\ Gap(k) \in Int /\ Gap(k) <= Len(fanned)
<1>1. PICK h : h = IF hand[k] = None THEN <<>> ELSE <<hand[k]>>
  OBVIOUS
<1>2. h \in Seq(M)
  <2>1. hand[k] \in M \cup {None}
    BY DEF Queues
  <2>2. QED
    BY <1>1, <2>1
<1>3. wire[k] \in Seq(M) /\ send[k] \in Seq(M)
  BY DEF Queues
<1>4. Seen(k) \in Seq(M)
  BY <1>1, <1>2, <1>3, ConcatProperties DEF Seen
<1>5. Due(k) \in Seq(M) /\ Len(Due(k)) <= Len(fanned)
  <2>1. from[k] \in Nat /\ fanned \in Seq(M)
    BY DEF Queues
  <2>2. \A i \in (from[k] + 1)..Len(fanned) : fanned[i] \in M
    BY <2>1
  <2>3. /\ Due(k) \in Seq(M)
        /\ Len(Due(k)) = IF from[k] + 1 <= Len(fanned) THEN Len(fanned) - (from[k] + 1) + 1 ELSE 0
    BY <2>1, <2>2, SubSeqProperties DEF Due
  <2>4. QED
    BY <2>1, <2>3
<1>6. Len(Due(k)) \in Nat /\ Len(Seen(k)) \in Nat /\ Len(fanned) \in Nat
  BY <1>4, <1>5 DEF Queues
<1>7. QED
  BY <1>4, <1>5, <1>6 DEF Gap

\* A step that is none of the client's.
LEMMA SameLoss ==
    ASSUME NEW k \in Conns, SeesWhatIsDue(k),
           wire'[k] = wire[k], hand'[k] = hand[k], send'[k] = send[k], from'[k] = from[k],
           fanned' = fanned, dropped' = dropped,
           k \in clients' => k \in clients,
           k \in clients /\ conn'[k] = "open" => conn[k] = "open"
    PROVE  SeesWhatIsDue(k)' /\ LosesNothing(k)
<1>1. Seen(k)' = Seen(k) /\ Due(k)' = Due(k)
  BY DEF Seen, Due
<1>2. Gap(k)' = Gap(k)
  BY <1>1 DEF Gap
<1>3. QED
  BY <1>1, <1>2 DEF SeesWhatIsDue, LosesNothing, Live

\* A message is taken from the queue, or written: it is still seen.
LEMMA HandOverLoss ==
    ASSUME NEW M, None \notin M, Queues(M), NEW k \in Conns, WriterKnows(k), SeesWhatIsDue(k),
           WriterLoop(k) \/ WriteMessage(k)
    PROVE  SeesWhatIsDue(k)' /\ LosesNothing(k)
<1> USE DEF hubVars, connVars
<1>1. /\ from' = from /\ fanned' = fanned /\ dropped' = dropped
      /\ clients' = clients /\ conn' = conn
  BY DEF WriterLoop, WriteMessage
<1>2. wire[k] \in Seq(M) /\ send[k] \in Seq(M)
  BY DEF Queues
<1>3. Seen(k)' = Seen(k)
  <2>1. ASSUME WriterLoop(k), UNCHANGED <<hand, send>>
        PROVE  Seen(k)' = Seen(k)
    BY <2>1 DEF WriterLoop, Seen
  <2>2. ASSUME WriterLoop(k), send[k] # <<>>,
               hand' = [hand EXCEPT ![k] = Head(send[k])],
               send' = [send EXCEPT ![k] = Tail(send[k])]
        PROVE  Seen(k)' = Seen(k)
    <3>1. hand[k] = None /\ wire' = wire
      BY <2>2 DEF WriterLoop, WriterKnows
    <3>2. Head(send[k]) \in M
      BY <1>2, <2>2, HeadTailProperties
    <3>3. hand'[k] = Head(send[k]) /\ send'[k] = Tail(send[k])
      BY <2>2 DEF Queues
    <3>4. Seen(k) = (wire[k] \o <<>>) \o send[k]
      BY <3>1 DEF Seen
    <3>5. Seen(k)' = (wire[k] \o <<Head(send[k])>>) \o Tail(send[k])
      BY <3>1, <3>2, <3>3 DEF Seen
    <3>6. QED
      BY <1>2, <2>2, <3>4, <3>5, TakenInHand
  <2>3. ASSUME WriteMessage(k)
        PROVE  Seen(k)' = Seen(k)
    <3>1. PICK m \in M : m = hand[k]
      BY <2>3 DEF WriteMessage, WriterKnows, Queues
    <3>2. wire'[k] = Append(wire[k], m) /\ hand'[k] = None /\ send' = send
      BY <2>3, <3>1 DEF WriteMessage, Queues
    <3>3. Append(wire[k], m) = wire[k] \o <<m>>
      BY <1>2, AppendIsConcat
    <3>4. wire[k] \o <<m>> \in Seq(M)
      BY <1>2, <3>3
    <3>5. (wire[k] \o <<m>>) \o <<>> = wire[k] \o <<m>>
      BY <3>4, ConcatEmptySeq
    <3>6. Seen(k) = (wire[k] \o <<m>>) \o send[k]
      BY <3>1 DEF Seen
    <3>7. Seen(k)' = ((wire[k] \o <<m>>) \o <<>>) \o send[k]
      BY <3>2, <3>3 DEF Seen
    <3>8. QED
      BY <3>5, <3>6, <3>7
  <2>4. QED
    BY <2>1, <2>2, <2>3 DEF WriterLoop
<1>4. Due(k)' = Due(k)
  BY <1>1 DEF Due
<1>5. Gap(k)' = Gap(k)
  BY <1>3, <1>4 DEF Gap
<1>6. QED
  BY <1>1, <1>3, <1>4, <1>5 DEF SeesWhatIsDue, LosesNothing, Live

\* A message is fanned out: it is seen, or the client has lost one more.
LEMMA FanOutLoss ==
    ASSUME NEW M, None \notin M, Queues(M), NEW k \in clients, SeesWhatIsDue(k), FanOut
    PROVE  /\ SeesWhatIsDue(k)'
           /\ Gap(k)' = IF HasRoom(k) THEN Gap(k) ELSE Gap(k) + 1
<1> DEFINE slow == {j \in clients : ~HasRoom(j)}
<1>1. /\ from' = from /\ clients' = clients
      /\ wire' = wire /\ hand' = hand /\ conn' = conn
      /\ dropped' = dropped + Cardinality(slow)
  BY DEF FanOut, connVars
<1>2. IsFiniteSet(slow) /\ Cardinality(slow) \in Nat /\ (Cardinality(slow) = 0 <=> slow = {})
  BY FS_Subset, FS_CardinalityType, FS_EmptySet DEF Queues
<1>3. k \in slow <=> ~HasRoom(k)
  OBVIOUS
<1> HIDE DEF slow
<1>4. PICK m \in M : m = Head(broadcast)
  BY HeadTailProperties DEF FanOut, Queues
<1>5. /\ k \in Conns /\ fanned' = Append(fanned, m)
      /\ send'[k] = IF HasRoom(k) THEN Append(send[k], m) ELSE send[k]
  BY <1>4 DEF FanOut, Queues
<1>6. /\ fanned \in Seq(M) /\ from[k] \in Nat /\ from[k] <= Len(fanned)
      /\ wire[k] \in Seq(M) /\ send[k] \in Seq(M) /\ dropped \in Nat
  BY <1>5 DEF Queues, SeesWhatIsDue
<1>7. Seen(k) \in Seq(M) /\ Due(k) \in Seq(M) /\ Gap(k) = Len(Due(k)) - Len(Seen(k))
  BY <1>5, SeenTypes
<1>8. Due(k)' = Append(Due(k), m)
  BY <1>1, <1>5, <1>6, SubSeqAppend DEF Due
<1>9. Seen(k)' = IF HasRoom(k) THEN Append(Seen(k), m) ELSE Seen(k)
  <2>1. PICK a : a = wire[k] \o (IF hand[k] = None THEN <<>> ELSE <<hand[k]>>)
    OBVIOUS
  <2>2. a \in Seq(M)
    <3>1. PICK h : h = IF hand[k] = None THEN <<>> ELSE <<hand[k]>>
      OBVIOUS
    <3>2. h \in Seq(M)
      <4>1. hand[k] \in M \cup {None}
        BY <1>5 DEF Queues
      <4>2. QED
        BY <3>1, <4>1
    <3>3. QED
      BY <1>6, <2>1, <3>1, <3>2, ConcatProperties
  <2>3. Seen(k) = a \o send[k]
    BY <2>1 DEF Seen
  <2>4. Seen(k)' = a \o send'[k]
    BY <1>1, <2>1 DEF Seen
  <2>5. a \o Append(send[k], m) = Append(a \o send[k], m)
    BY <1>6, <2>2, QueueGrows
  <2>6. QED
    BY <1>5, <2>3, <2>4, <2>5
<1>10. Len(Due(k)') = Len(Due(k)) + 1 /\ Len(Due(k)) \in Nat /\ Len(Seen(k)) \in Nat
  BY <1>7, <1>8
<1>11. Len(Seen(k)') = IF HasRoom(k) THEN Len(Seen(k)) + 1 ELSE Len(Seen(k))
  BY <1>7, <1>9
<1>12. Gap(k)' = IF HasRoom(k) THEN Gap(k) ELSE Gap(k) + 1
  <2>1. Gap(k)' = Len(Due(k)') - Len(Seen(k)')
    BY DEF Gap
  <2>2. QED
    BY <1>7, <1>10, <1>11, <2>1
<1>13. dropped' = 0 => dropped = 0 /\ HasRoom(k)
  BY <1>1, <1>2, <1>3, <1>6
<1>14. from'[k] <= Len(fanned')
  <2>1. Len(fanned') = Len(fanned) + 1
    BY <1>5, <1>6
  <2>2. QED
    BY <1>1, <1>6, <2>1
<1>15. SeesWhatIsDue(k)'
  BY <1>1, <1>8, <1>9, <1>13, <1>14 DEF SeesWhatIsDue
<1>16. QED
  BY <1>12, <1>15

\* The remaining steps touch no client's messages, or only those of a connection that
\* is no client.
LEMMA LossKept ==
    ASSUME NEW M, None \notin M, Queues(M), \A k \in Conns : WriterKnows(k), ServerStep(M),
           NEW k \in Conns, SeesWhatIsDue(k)
    PROVE  SeesWhatIsDue(k)' /\ (LosesNothing(k) \/ FanOut)
<1> USE DEF hubVars, connVars
<1>1. ASSUME NEW m \in M, CallBroadcast(m)
      PROVE  SeesWhatIsDue(k)' /\ (LosesNothing(k) \/ FanOut)
  BY <1>1, SameLoss DEF CallBroadcast
<1>2. ASSUME Broadcast \/ Cancel \/ UNCHANGED serverVars
      PROVE  SeesWhatIsDue(k)' /\ (LosesNothing(k) \/ FanOut)
  BY <1>2, SameLoss DEF Broadcast, Cancel, serverVars
<1>3. ASSUME FanOut
      PROVE  SeesWhatIsDue(k)' /\ (LosesNothing(k) \/ FanOut)
  <2>1. k \in clients \/ k \notin clients'
    BY <1>3 DEF FanOut
  <2>2. QED
    BY <1>3, <2>1, FanOutLoss DEF SeesWhatIsDue
<1>4. ASSUME StopHub \/ Restart
      PROVE  SeesWhatIsDue(k)' /\ (LosesNothing(k) \/ FanOut)
  BY <1>4 DEF StopHub, Restart, SeesWhatIsDue, LosesNothing, Live
<1>5. ASSUME NEW j \in Conns, Unregister(j)
      PROVE  SeesWhatIsDue(k)' /\ (LosesNothing(k) \/ FanOut)
  BY <1>5, SameLoss DEF Unregister
<1>6. ASSUME NEW j \in Conns, Upgrade(j)
      PROVE  SeesWhatIsDue(k)' /\ (LosesNothing(k) \/ FanOut)
  <2>1. j = k => k \notin clients
    BY <1>6 DEF Upgrade, WriterKnows
  <2>2. j # k => conn'[k] = conn[k]
    BY <1>6 DEF Upgrade, Queues
  <2>3. QED
    BY <1>6, <2>1, <2>2, SameLoss DEF Upgrade
<1>7. ASSUME NEW j \in Conns, Read(j) \/ HangUp(j)
      PROVE  SeesWhatIsDue(k)' /\ (LosesNothing(k) \/ FanOut)
  BY <1>7, SameLoss DEF Read, HangUp, Queues
<1>8. ASSUME NEW j \in Conns, WriteFails(j)
      PROVE  SeesWhatIsDue(k)' /\ (LosesNothing(k) \/ FanOut)
  <2>1. CASE j = k
    <3>1. conn'[k] = "lost"
      BY <1>8, <2>1 DEF WriteFails
    <3>2. fanned' = fanned /\ from' = from /\ clients' = clients
      BY <1>8 DEF WriteFails
    <3>3. QED
      BY <3>1, <3>2 DEF SeesWhatIsDue, LosesNothing, Live
  <2>2. CASE j # k
    BY <1>8, <2>2, SameLoss DEF WriteFails, Queues
  <2>3. QED
    BY <2>1, <2>2
<1>9. ASSUME NEW j \in Conns, WriterLoop(j) \/ WriteMessage(j)
      PROVE  SeesWhatIsDue(k)' /\ (LosesNothing(k) \/ FanOut)
  <2>1. CASE j = k
    BY <1>9, <2>1, HandOverLoss
  <2>2. CASE j # k
    BY <1>9, <2>2, SameLoss DEF WriterLoop, WriteMessage, Queues
  <2>3. QED
    BY <2>1, <2>2
<1>10. ASSUME NEW j \in Conns, Close(j)
       PROVE  SeesWhatIsDue(k)' /\ (LosesNothing(k) \/ FanOut)
  <2>1. CASE j = k
    BY <1>10, <2>1 DEF Close, WriterKnows, SeesWhatIsDue, LosesNothing, Live
  <2>2. CASE j # k
    BY <1>10, <2>2, SameLoss DEF Close, Queues
  <2>3. QED
    BY <2>1, <2>2
<1>11. ASSUME NEW j \in Conns, Register(j)
       PROVE  SeesWhatIsDue(k)' /\ (LosesNothing(k) \/ FanOut)
  <2>1. CASE j # k
    BY <1>11, <2>1, SameLoss DEF Register, Queues
  <2>2. CASE j = k
    <3>1. wire[k] = <<>> /\ send[k] = <<>> /\ hand[k] = None
      BY <1>11, <2>2 DEF Register, WriterKnows
    <3>2. /\ wire' = wire /\ send' = send /\ hand' = hand
          /\ fanned' = fanned /\ dropped' = dropped
          /\ from'[k] = Len(fanned)
      BY <1>11, <2>2 DEF Register, Queues
    <3>3. Seen(k)' = <<>>
      BY <3>1, <3>2, ConcatEmptySeq, EmptySeq DEF Seen
    <3>4. Due(k)' = <<>>
      BY <3>2, SubSeqNone DEF Due, Queues
    <3>5. Gap(k)' = 0
      BY <3>3, <3>4 DEF Gap
    <3>6. dropped \in Nat /\ Len(fanned) \in Nat
      BY DEF Queues
    <3>7. QED
      BY <3>2, <3>3, <3>4, <3>5, <3>6 DEF SeesWhatIsDue, LosesNothing, Live
  <2>3. QED
    BY <2>1, <2>2
<1>12. QED
  BY <1>1, <1>2, <1>3, <1>4, <1>5, <1>6, <1>7, <1>8, <1>9, <1>10, <1>11 DEF ServerStep

\* Losses are counted: a message that is fanned out is lost once by each slow client,
\* and no other step loses any.
LEMMA LossesCounted ==
    ASSUME NEW M, None \notin M, Queues(M), Bounded,
           \A k \in Conns : WriterKnows(k) /\ SeesWhatIsDue(k),
           LossIsCounted, ServerStep(M)
    PROVE  LossIsCounted'
<1> DEFINE slow == {j \in clients : ~HasRoom(j)}
<1>1. clients \subseteq Conns /\ clients' \subseteq Conns /\ dropped \in Nat /\ dropped' \in Nat
  BY QueuesKept DEF Queues
<1>2. IsFiniteSet(slow) /\ Cardinality(slow) \in Nat
  BY FS_Subset, FS_CardinalityType DEF Queues
<1>3. IsFiniteSet(Lost) /\ Cardinality(Lost) \in Nat /\ Cardinality(Lost) <= dropped
  BY FS_CardinalityType DEF LossIsCounted
<1>4. CASE ~FanOut
  <2>1. clients' = {} \/ (fanned' = fanned /\ dropped' = dropped)
    BY <1>4 DEF ServerStep, CallBroadcast, Broadcast, StopHub, Cancel, Restart, Register,
                Unregister, Upgrade, Read, HangUp, WriterLoop, WriteMessage, WriteFails, Close,
                serverVars, hubVars, connVars
  <2>2. \A k \in Conns : LosesNothing(k)
    BY <1>4, LossKept
  <2>3. CASE clients' = {}
    <3>1. Lost' = {}
      BY <2>3 DEF Lost, Live
    <3>2. QED
      BY <1>1, <3>1, FS_EmptySet DEF LossIsCounted
  <2>4. CASE fanned' = fanned /\ dropped' = dropped
    <3>1. ASSUME NEW p \in Lost'
          PROVE  p \in Lost
      <4>1. /\ p \in Live' \X (1..Len(fanned)) /\ p[1] \in Live' /\ p[2] \in 1..Len(fanned)
            /\ p[2] <= Gap(p[1])'
        BY <2>4, <3>1 DEF Lost
      <4>2. PICK k \in Conns : k = p[1]
        BY <1>1, <4>1 DEF Live
      <4>3. k \in Live /\ Gap(k)' = Gap(k)
        BY <2>2, <4>1, <4>2 DEF LosesNothing
      <4>4. p \in Live \X (1..Len(fanned)) /\ p[2] <= Gap(p[1])
        BY <4>1, <4>2, <4>3
      <4>5. QED
        BY <4>4 DEF Lost
    <3>2. IsFiniteSet(Lost') /\ Cardinality(Lost') <= Cardinality(Lost)
      BY <1>3, <3>1, FS_Subset
    <3>3. Cardinality(Lost') \in Nat
      BY <3>2, FS_CardinalityType
    <3>4. QED
      BY <1>1, <1>3, <2>4, <3>2, <3>3 DEF LossIsCounted
  <2>5. QED
    BY <2>1, <2>3, <2>4
<1>5. CASE FanOut
  <2> DEFINE new == Lost' \ Lost
  <2>1. /\ Live' = Live /\ Live \subseteq clients /\ dropped' = dropped + Cardinality(slow)
        /\ \A k \in clients : k \in slow <=> ~HasRoom(k)
    BY <1>5 DEF FanOut, Live, connVars
  <2>2. \A k \in clients : /\ Gap(k)' = IF HasRoom(k) THEN Gap(k) ELSE Gap(k) + 1
                           /\ Gap(k) \in Int /\ Gap(k) <= Len(fanned)
    BY <1>1, <1>5, FanOutLoss, SeenTypes
  <2>3. Len(fanned) \in Nat /\ Len(fanned') \in Nat
    BY QueuesKept DEF Queues
  <2> HIDE DEF slow
  <2>4. ASSUME NEW p \in new
        PROVE  p[1] \in slow /\ p[2] = Gap(p[1]) + 1 /\ p = <<p[1], p[2]>>
    <3>1. /\ p \in Live \X (1..Len(fanned')) /\ p[1] \in Live /\ p[2] \in 1..Len(fanned')
          /\ p[2] <= Gap(p[1])' /\ p = <<p[1], p[2]>>
      BY <2>1, <2>4 DEF Lost
    <3>2. ~(p \in Live \X (1..Len(fanned)) /\ p[2] <= Gap(p[1]))
      BY <2>4 DEF Lost
    <3>3. PICK k \in clients : k = p[1]
      BY <2>1, <3>1
    <3>4. PICK i \in 1..Len(fanned') : i = p[2]
      BY <3>1
    <3>5. ~(i \in 1..Len(fanned) /\ i <= Gap(k))
      BY <3>1, <3>2, <3>3, <3>4
    <3>6. i <= IF HasRoom(k) THEN Gap(k) ELSE Gap(k) + 1
      BY <2>2, <3>1, <3>3, <3>4
    <3>7. ~HasRoom(k) /\ i = Gap(k) + 1
      BY <2>2, <2>3, <3>5, <3>6
    <3>8. QED
      BY <2>1, <3>1, <3>3, <3>4, <3>7
  <2> HIDE DEF new
  <2>5. [p \in new |-> p[1]] \in Injection(new, slow)
    BY <2>4 DEF Injection, IsInjective
  <2>6. IsFiniteSet(new) /\ Cardinality(new) <= Cardinality(slow) /\ Cardinality(new) \in Nat
    BY <1>2, <2>5, FS_Injection, FS_CardinalityType
  <2>7. /\ IsFiniteSet(Lost \cup new)
        /\ Cardinality(Lost \cup new) = Cardinality(Lost) + Cardinality(new) - Cardinality(Lost \cap new)
    BY <1>3, <2>6, FS_Union
  <2>8. Cardinality(Lost \cap new) \in Nat
    <3>1. IsFiniteSet(Lost \cap new)
      BY <1>3, FS_Subset
    <3>2. QED
      BY <3>1, FS_CardinalityType
  <2>9. Lost' \subseteq Lost \cup new
    BY DEF new
  <2>10. IsFiniteSet(Lost') /\ Cardinality(Lost') <= Cardinality(Lost \cup new)
    BY <2>7, <2>9, FS_Subset
  <2>11. Cardinality(Lost') \in Nat
    BY <2>10, FS_CardinalityType
  <2>12. Cardinality(Lost') <= dropped'
    BY <1>1, <1>2, <1>3, <2>1, <2>6, <2>7, <2>8, <2>10, <2>11
  <2>13. QED
    BY <2>10, <2>12 DEF LossIsCounted
<1>6. QED
  BY <1>4, <1>5

\* Every step of the service and its peers keeps the hub's invariant.
LEMMA HubKeeps ==
    ASSUME NEW M, None \notin M, HubInv(M), ServerStep(M)
    PROVE  HubInv(M)'
<1>1. /\ Queues(M) /\ Bounded /\ LossIsCounted
      /\ \A k \in Conns : WriterKnows(k) /\ SeesWhatIsDue(k)
  BY DEF HubInv
<1>2. Queues(M)' /\ Bounded'
  BY <1>1, QueuesKept
<1>3. \A k \in Conns : WriterKnows(k)' /\ SeesWhatIsDue(k)'
  BY <1>1, WritersKnow, LossKept
<1>4. LossIsCounted'
  BY <1>1, LossesCounted
<1>5. QED
  BY <1>2, <1>3, <1>4 DEF HubInv

\* A new process has no clients.
LEMMA HubStarts ==
    ASSUME NEW M, ServerInit
    PROVE  HubInv(M)
<1> USE HubFacts DEF ServerInit
<1>1. IsFiniteSet({}) /\ <<>> \in Seq(M) /\ Len(<<>>) = 0
  BY FS_EmptySet, EmptySeq
<1>2. Queues(M)
  <2>1. Len(broadcast) <= BroadcastCap /\ \A k \in Conns : Len(send[k]) <= SendCap
    BY <1>1
  <2>2. QED
    BY <1>1, <2>1 DEF Queues, WriterSteps
<1>3. Bounded
  BY <1>1 DEF Bounded
<1>4. ASSUME NEW k \in Conns
      PROVE  WriterKnows(k) /\ SeesWhatIsDue(k)
  BY DEF WriterKnows, SeesWhatIsDue
<1>5. LossIsCounted
  <2>1. Lost = {}
    BY DEF Lost, Live
  <2>2. QED
    BY <2>1, FS_EmptySet DEF LossIsCounted
<1>6. QED
  BY <1>2, <1>3, <1>4, <1>5 DEF HubInv

-----------------------------------------------------------------------------
(* The page: its inductive invariant *)

\* Standings only grow, so the messages that overstate nothing stay such: whatever is
\* on its way is one of them.
FairMessages == {m \in Messages : m.score <= standings[m.handle]}

PageTypes ==
    /\ standings \in Tables /\ scored \in Handles \cup {None}
    /\ {mounted, timer, hasConnected, error} \subseteq BOOLEAN
    /\ wsState \in {"none", "connecting", "open"}
    /\ socket \in Conns \cup {None}
    /\ fetch \in [Fetches -> [state : {"idle", "asked", "answered"}, table : Tables]]
    /\ view \in Tables

\* A contestant whose standing is to be broadcast has one.
ScoredStands == scored # None => standings[scored] > 0

\* No table on its way, and none on the page, is ahead of the standings.
TablesAreOld ==
    /\ \A i \in Fetches, h \in Handles : fetch[i].table[h] <= standings[h]
    /\ NeverOverstates

OpenHasSocket == wsState = "open" => socket \in Conns

PageInv == PageTypes /\ ScoredStands /\ TablesAreOld /\ OpenHasSocket /\ OneConnection

Inv == HubInv(FairMessages) /\ PageInv

-----------------------------------------------------------------------------
(* The page's steps *)

\* Messages are score updates of contestants, and None is not among them.
LEMMA FairTypes ==
    /\ None \notin FairMessages
    /\ \A m \in FairMessages :
           m.handle \in Handles /\ m.score \in 1..MaxScore /\ m.score <= standings[m.handle]
BY HubAssumption, LeaderboardAssumption DEF FairMessages, ScoreUpdates

\* A standing is never lowered.
LEMMA StandingsGrow ==
    ASSUME PageTypes, [Next]_vars
    PROVE  standings' \in Tables /\ \A h \in Handles : standings[h] <= standings'[h]
<1> USE LeaderboardAssumption
<1>1. standings \in [Handles -> 0..MaxScore]
  BY DEF PageTypes, Tables
<1>2. ASSUME UNCHANGED standings
      PROVE  standings' \in Tables /\ \A h \in Handles : standings[h] <= standings'[h]
  BY <1>1, <1>2 DEF Tables
<1>3. ASSUME NEW g \in Handles, NEW s \in 1..MaxScore, UpdateStanding(g, s)
      PROVE  standings' \in Tables /\ \A h \in Handles : standings[h] <= standings'[h]
  <2>1. standings' = [standings EXCEPT ![g] = IF s > standings[g] THEN s ELSE standings[g]]
    BY <1>3 DEF UpdateStanding
  <2>2. PICK v : v = IF s > standings[g] THEN s ELSE standings[g]
    OBVIOUS
  <2>3. v \in 0..MaxScore /\ standings[g] <= v
    BY <1>1, <2>2
  <2>4. standings' = [standings EXCEPT ![g] = v]
    BY <2>1, <2>2
  <2>5. standings' \in [Handles -> 0..MaxScore]
    BY <1>1, <2>3, <2>4
  <2>6. ASSUME NEW h \in Handles
        PROVE  standings[h] <= standings'[h]
    BY <1>1, <2>3, <2>4
  <2>7. QED
    BY <2>5, <2>6 DEF Tables
<1>4. ASSUME Page
      PROVE  UNCHANGED standings
  BY <1>4 DEF Page, Mount, Unmount, OnOpen, OnMessage, OnClose, Reconnect, Accept,
              ServeSnapshot, TakeSnapshot, storeVars
<1>5. ASSUME PublishStanding \/ Serve \/ Stop \/ Replace \/ \E k \in Conns : Stranger(k)
      PROVE  UNCHANGED standings
  BY <1>5 DEF PublishStanding, Serve, Stop, Replace, Stranger, storeVars
<1>6. QED
  BY <1>2, <1>3, <1>4, <1>5 DEF Next, vars, storeVars

\* What was no overstatement is none later.
LEMMA FairStaysFair ==
    ASSUME PageTypes, [Next]_vars
    PROVE  FairMessages \subseteq FairMessages'
<1> SUFFICES ASSUME NEW m \in FairMessages
             PROVE  m \in FairMessages'
  OBVIOUS
<1>1. m \in Messages /\ m.handle \in Handles /\ m.score \in Int /\ m.score <= standings[m.handle]
  BY FairTypes, LeaderboardAssumption DEF FairMessages
<1>2. standings[m.handle] \in Int /\ standings'[m.handle] \in Int
  BY <1>1, StandingsGrow, LeaderboardAssumption DEF PageTypes, Tables
<1>3. standings[m.handle] <= standings'[m.handle]
  BY <1>1, StandingsGrow
<1>4. m.score <= standings'[m.handle]
  BY <1>1, <1>2, <1>3
<1>5. QED
  BY <1>1, <1>4 DEF FairMessages

\* What a step of the whole does to the service is a step of the service, and what it
\* broadcasts overstates nothing.
LEMMA StepOfTheService ==
    ASSUME NEW M, M = FairMessages, PageInv, [Next]_vars
    PROVE  ServerStep(M)
<1> USE DEF ServerStep
<1>1. ASSUME PublishStanding
      PROVE  ServerStep(M)
  <2>1. PICK m : m = [handle |-> scored, score |-> standings[scored]]
    OBVIOUS
  <2>2. scored \in Handles /\ standings[scored] \in 0..MaxScore /\ standings[scored] > 0
    BY <1>1 DEF PublishStanding, PageInv, PageTypes, ScoredStands, Tables
  <2>3. standings[scored] \in 1..MaxScore /\ standings[scored] <= standings[scored]
    BY <2>2, LeaderboardAssumption
  <2>4. m \in FairMessages
    BY <2>1, <2>2, <2>3, LeaderboardAssumption DEF FairMessages, ScoreUpdates
  <2>5. CallBroadcast(m)
    BY <1>1, <2>1 DEF PublishStanding
  <2>6. QED
    BY <2>4, <2>5
<1>2. ASSUME NEW h \in Handles, NEW s \in 1..MaxScore, UpdateStanding(h, s)
      PROVE  ServerStep(M)
  BY <1>2 DEF UpdateStanding
<1>3. ASSUME Mount \/ Unmount \/ OnOpen \/ OnClose \/ Reconnect
      PROVE  ServerStep(M)
  BY <1>3 DEF Mount, Unmount, OnOpen, OnClose, Reconnect
<1>4. ASSUME OnMessage
      PROVE  ServerStep(M)
  BY <1>4 DEF OnMessage, PageInv, OpenHasSocket
<1>5. ASSUME NEW k \in Conns, Accept(k) \/ Stranger(k)
      PROVE  ServerStep(M)
  BY <1>5 DEF Accept, Stranger
<1>6. ASSUME NEW i \in Fetches, ServeSnapshot(i) \/ TakeSnapshot(i)
      PROVE  ServerStep(M)
  BY <1>6 DEF ServeSnapshot, TakeSnapshot
<1>7. ASSUME Serve
      PROVE  ServerStep(M)
  BY <1>7 DEF Serve, HubStep, WriterStep
<1>8. ASSUME Stop \/ Replace \/ UNCHANGED vars
      PROVE  ServerStep(M)
  BY <1>8 DEF Stop, Replace, vars
<1>9. QED
  BY <1>1, <1>2, <1>3, <1>4, <1>5, <1>6, <1>7, <1>8 DEF Next, Page

\* The service keeps its invariant for what overstates nothing now.
LEMMA ServiceKeeps ==
    ASSUME HubInv(FairMessages), PageInv, [Next]_vars
    PROVE  HubInv(FairMessages)'
<1>1. PICK M : M = FairMessages
  OBVIOUS
<1>2. PICK N : N = FairMessages'
  OBVIOUS
<1>3. M \subseteq N
  BY <1>1, <1>2, FairStaysFair DEF PageInv
<1>4. HubInv(M)'
  <2>1. HubInv(M)
    BY <1>1
  <2>2. None \notin M
    BY <1>1, FairTypes
  <2>3. ServerStep(M)
    BY <1>1, StepOfTheService
  <2>4. QED
    BY <2>1, <2>2, <2>3, HubKeeps
<1>5. Seq(M) \subseteq Seq(N)
  BY <1>3
<1>6. Queues(N)'
  BY <1>3, <1>4, <1>5 DEF HubInv, Queues
<1>7. Queues(FairMessages)'
  BY <1>2, <1>6 DEF Queues
<1>8. QED
  BY <1>4, <1>7 DEF HubInv

\* A message the open connection delivers overstates nothing.
LEMMA MessageIsFair ==
    ASSUME HubInv(FairMessages), PageInv, OnMessage
    PROVE  \E m \in FairMessages : view' = [view EXCEPT ![m.handle] = m.score]
<1>1. socket \in Conns
  BY DEF OnMessage, PageInv, OpenHasSocket
<1>2. PICK M : M = FairMessages
  OBVIOUS
<1>3. wire[socket] \in Seq(M) /\ read[socket] \in Nat
  BY <1>1, <1>2 DEF HubInv, Queues
<1>4. read[socket] < Len(wire[socket])
  BY DEF OnMessage, Read
<1>5. read[socket] + 1 \in 1..Len(wire[socket])
  BY <1>3, <1>4
<1>6. PICK m : m = wire[socket][read[socket] + 1]
  OBVIOUS
<1>7. m \in FairMessages
  BY <1>2, <1>3, <1>5, <1>6
<1>8. view' = [view EXCEPT ![m.handle] = m.score]
  BY <1>6 DEF OnMessage
<1>9. QED
  BY <1>7, <1>8

\* Types of the store and the page.
LEMMA PageTypesKept ==
    ASSUME HubInv(FairMessages), PageInv, [Next]_vars
    PROVE  PageTypes'
<1> USE DEF PageTypes
<1>1. PageTypes /\ standings' \in Tables
  BY StandingsGrow DEF PageInv
<1>2. Idle \in [state : {"idle", "asked", "answered"}, table : Tables]
  BY LeaderboardAssumption DEF Idle, Tables
<1>3. [h \in Handles |-> 0] \in Tables
  BY LeaderboardAssumption DEF Tables
<1>4. ASSUME NEW i \in Fetches, Ask(i)
      PROVE  fetch' \in [Fetches -> [state : {"idle", "asked", "answered"}, table : Tables]]
  <2>1. PICK f : f = [fetch[i] EXCEPT !.state = "asked"]
    OBVIOUS
  <2>2. f \in [state : {"idle", "asked", "answered"}, table : Tables]
    BY <1>1, <2>1
  <2>3. QED
    BY <1>1, <1>4, <2>1, <2>2 DEF Ask
<1>5. CASE \E h \in Handles, s \in 1..MaxScore : UpdateStanding(h, s)
  BY <1>1, <1>5 DEF UpdateStanding, pageVars
<1>6. CASE PublishStanding \/ Serve \/ Stop \/ Replace \/ \E k \in Conns : Stranger(k)
  BY <1>1, <1>6 DEF PublishStanding, Serve, Stop, Replace, Stranger, storeVars, pageVars
<1>7. CASE Mount
  BY <1>1, <1>4, <1>7 DEF Mount, storeVars
<1>8. CASE Unmount
  BY <1>1, <1>2, <1>3, <1>8 DEF Unmount, storeVars
<1>9. CASE OnOpen
  BY <1>1, <1>4, <1>9 DEF OnOpen, storeVars
<1>10. CASE OnMessage
  <2>1. PICK m \in FairMessages : view' = [view EXCEPT ![m.handle] = m.score]
    BY <1>10, MessageIsFair
  <2>2. m.score \in 0..MaxScore
    BY FairTypes, LeaderboardAssumption
  <2>3. view' \in Tables
    BY <1>1, <2>1, <2>2 DEF Tables
  <2>4. QED
    BY <1>1, <1>10, <2>3 DEF OnMessage, storeVars
<1>11. CASE OnClose \/ Reconnect
  BY <1>1, <1>11 DEF OnClose, Reconnect, storeVars
<1>12. ASSUME NEW k \in Conns, Accept(k)
       PROVE  PageTypes'
  BY <1>1, <1>12 DEF Accept, storeVars
<1>13. ASSUME NEW i \in Fetches, ServeSnapshot(i)
       PROVE  PageTypes'
  <2>1. PICK f : f = [state |-> "answered", table |-> standings]
    OBVIOUS
  <2>2. f \in [state : {"idle", "asked", "answered"}, table : Tables]
    BY <1>1, <2>1
  <2>3. fetch' \in [Fetches -> [state : {"idle", "asked", "answered"}, table : Tables]]
    BY <1>1, <1>13, <2>1, <2>2 DEF ServeSnapshot
  <2>4. QED
    BY <1>1, <1>13, <2>3 DEF ServeSnapshot, storeVars
<1>14. ASSUME NEW i \in Fetches, TakeSnapshot(i)
       PROVE  PageTypes'
  <2>1. fetch' \in [Fetches -> [state : {"idle", "asked", "answered"}, table : Tables]]
    BY <1>1, <1>2, <1>14 DEF TakeSnapshot
  <2>2. view' \in Tables /\ error' \in BOOLEAN
    BY <1>1, <1>14 DEF TakeSnapshot
  <2>3. QED
    BY <1>1, <1>14, <2>1, <2>2 DEF TakeSnapshot, storeVars
<1>15. CASE UNCHANGED vars
  BY <1>1, <1>15 DEF vars, storeVars, pageVars
<1>16. QED
  BY <1>5, <1>6, <1>7, <1>8, <1>9, <1>10, <1>11, <1>12, <1>13, <1>14, <1>15 DEF Next, Page

\* A contestant that is scored has a standing.
LEMMA ScoredStandsKept ==
    ASSUME PageInv, [Next]_vars
    PROVE  ScoredStands'
<1> USE DEF PageInv, ScoredStands
<1>1. ASSUME NEW h \in Handles, NEW s \in 1..MaxScore, UpdateStanding(h, s)
      PROVE  ScoredStands'
  <2>1. scored' = h /\ standings'[h] = IF s > standings[h] THEN s ELSE standings[h]
    BY <1>1 DEF UpdateStanding, PageTypes, Tables
  <2>2. standings[h] \in Int /\ s > 0
    BY LeaderboardAssumption DEF PageTypes, Tables
  <2>3. standings'[h] > 0
    BY <2>1, <2>2
  <2>4. QED
    BY <2>1, <2>3
<1>2. CASE PublishStanding \/ Replace
  BY <1>2 DEF PublishStanding, Replace
<1>3. CASE Serve \/ Stop \/ \E k \in Conns : Stranger(k)
  BY <1>3 DEF Serve, Stop, Stranger, storeVars
<1>4. CASE Page
  BY <1>4 DEF Page, Mount, Unmount, OnOpen, OnMessage, OnClose, Reconnect, Accept,
              ServeSnapshot, TakeSnapshot, storeVars
<1>5. CASE UNCHANGED vars
  BY <1>5 DEF vars, storeVars
<1>6. QED
  BY <1>1, <1>2, <1>3, <1>4, <1>5 DEF Next

\* The page has one connection at most, and one on the way.
LEMMA ConnectionKept ==
    ASSUME PageInv, [Next]_vars
    PROVE  OneConnection' /\ OpenHasSocket'
<1> USE DEF PageInv, PageTypes, OneConnection, OpenHasSocket
<1>1. CASE UNCHANGED <<mounted, wsState, socket, timer>>
  BY <1>1
<1>2. CASE Mount \/ Unmount
  BY <1>2 DEF Mount, Unmount
<1>3. CASE OnOpen \/ OnClose \/ Reconnect
  BY <1>3 DEF OnOpen, OnClose, Reconnect, MayClose
<1>4. ASSUME NEW k \in Conns, Accept(k)
      PROVE  OneConnection' /\ OpenHasSocket'
  BY <1>4 DEF Accept
<1>5. CASE OnMessage \/ \E i \in Fetches : ServeSnapshot(i) \/ TakeSnapshot(i)
  BY <1>1, <1>5 DEF OnMessage, ServeSnapshot, TakeSnapshot
<1>6. CASE \E h \in Handles, s \in 1..MaxScore : UpdateStanding(h, s)
  BY <1>1, <1>6 DEF UpdateStanding, pageVars
<1>7. CASE PublishStanding \/ Serve \/ Stop \/ Replace \/ \E k \in Conns : Stranger(k)
  BY <1>1, <1>7 DEF PublishStanding, Serve, Stop, Replace, Stranger, pageVars
<1>8. CASE UNCHANGED vars
  BY <1>1, <1>8 DEF vars, pageVars
<1>9. QED
  BY <1>2, <1>3, <1>4, <1>5, <1>6, <1>7, <1>8 DEF Next, Page

\* Tables are copies of what the standings were, and messages overstate nothing.
LEMMA TablesStayOld ==
    ASSUME HubInv(FairMessages), PageInv, [Next]_vars
    PROVE  TablesAreOld'
<1>1. /\ PageTypes /\ TablesAreOld
      /\ \A h \in Handles : standings[h] \in Int /\ standings'[h] \in Int
      /\ \A h \in Handles : standings[h] <= standings'[h]
  <2>1. 0..MaxScore \subseteq Int
    BY LeaderboardAssumption
  <2>2. QED
    BY <2>1, StandingsGrow DEF PageInv, PageTypes, Tables
<1>2. \A i \in Fetches : fetch[i].table \in Tables /\ \A h \in Handles : fetch[i].table[h] \in Int
  BY <1>1, LeaderboardAssumption DEF PageTypes, Tables
<1>3. \A h \in Handles : view[h] \in Int
  BY <1>1, LeaderboardAssumption DEF PageTypes, Tables
<1>4. /\ \A i \in Fetches, h \in Handles : fetch[i].table[h] <= standings'[h]
      /\ \A h \in Handles : view[h] <= standings'[h]
  BY <1>1, <1>2, <1>3 DEF TablesAreOld, NeverOverstates
<1>5. \A i \in Fetches, h \in Handles : Idle.table[h] <= standings'[h]
  <2>1. \A h \in Handles : Idle.table[h] = 0 /\ 0 <= standings'[h]
    BY StandingsGrow, <1>1, LeaderboardAssumption DEF Idle, Tables
  <2>2. QED
    BY <2>1
<1>6. ASSUME \A i \in Fetches, h \in Handles : fetch'[i].table[h] <= standings'[h],
             \A h \in Handles : view'[h] <= standings'[h]
      PROVE  TablesAreOld'
  BY <1>6 DEF TablesAreOld, NeverOverstates
<1>7. ASSUME NEW i \in Fetches, Ask(i)
      PROVE  \A j \in Fetches : fetch'[j].table = fetch[j].table
  <2>1. PICK f : f = [fetch[i] EXCEPT !.state = "asked"]
    OBVIOUS
  <2>2. f.table = fetch[i].table
    BY <1>1, <2>1 DEF PageTypes
  <2>3. fetch' = [fetch EXCEPT ![i] = f]
    BY <1>7, <2>1 DEF Ask
  <2>4. QED
    BY <1>1, <2>2, <2>3 DEF PageTypes
<1>8. CASE UNCHANGED <<fetch, view>>
  BY <1>4, <1>6, <1>8
<1>9. CASE Mount
  BY <1>4, <1>6, <1>7, <1>9 DEF Mount
<1>10. CASE OnOpen
  BY <1>4, <1>6, <1>7, <1>10 DEF OnOpen
<1>11. CASE Unmount
  <2>1. \A j \in Fetches : fetch'[j] = Idle
    BY <1>11 DEF Unmount
  <2>2. \A h \in Handles : view'[h] = 0 /\ 0 <= standings'[h]
    BY <1>1, <1>11, StandingsGrow, LeaderboardAssumption DEF Unmount, Tables
  <2>3. QED
    BY <1>5, <1>6, <2>1, <2>2
<1>12. CASE OnMessage
  <2>1. PICK m \in FairMessages : view' = [view EXCEPT ![m.handle] = m.score]
    BY <1>12, MessageIsFair
  <2>2. m.handle \in Handles /\ m.score \in Int /\ m.score <= standings[m.handle]
    BY FairTypes, LeaderboardAssumption
  <2>3. m.score <= standings'[m.handle]
    BY <1>1, <2>2
  <2>4. \A h \in Handles : view'[h] <= standings'[h]
    BY <1>1, <1>4, <2>1, <2>2, <2>3 DEF PageTypes, Tables
  <2>5. UNCHANGED fetch
    BY <1>12 DEF OnMessage
  <2>6. QED
    BY <1>4, <1>6, <2>4, <2>5
<1>13. ASSUME NEW i \in Fetches, ServeSnapshot(i)
       PROVE  TablesAreOld'
  <2>1. PICK f : f = [state |-> "answered", table |-> standings]
    OBVIOUS
  <2>2. fetch' = [fetch EXCEPT ![i] = f] /\ view' = view
    BY <1>13, <2>1 DEF ServeSnapshot
  <2>3. \A h \in Handles : f.table[h] <= standings'[h]
    BY <1>1, <2>1
  <2>4. QED
    BY <1>1, <1>4, <1>6, <2>2, <2>3 DEF PageTypes
<1>14. ASSUME NEW i \in Fetches, TakeSnapshot(i)
       PROVE  TablesAreOld'
  <2>1. \A j \in Fetches : fetch'[j] = IF j = i THEN Idle ELSE fetch[j]
    BY <1>1, <1>14 DEF TakeSnapshot, PageTypes
  <2>2. view' = view \/ view' = fetch[i].table
    BY <1>14 DEF TakeSnapshot
  <2>3. QED
    BY <1>4, <1>5, <1>6, <2>1, <2>2
<1>15. CASE OnClose \/ Reconnect \/ \E k \in Conns : Accept(k)
  BY <1>8, <1>15 DEF OnClose, Reconnect, Accept
<1>16. CASE \E h \in Handles, s \in 1..MaxScore : UpdateStanding(h, s)
  BY <1>8, <1>16 DEF UpdateStanding, pageVars
<1>17. CASE PublishStanding \/ Serve \/ Stop \/ Replace \/ \E k \in Conns : Stranger(k)
  BY <1>8, <1>17 DEF PublishStanding, Serve, Stop, Replace, Stranger, pageVars
<1>18. CASE UNCHANGED vars
  BY <1>8, <1>18 DEF vars, pageVars
<1>19. QED
  BY <1>9, <1>10, <1>11, <1>12, <1>13, <1>14, <1>15, <1>16, <1>17, <1>18 DEF Next, Page

\* The invariant holds at the start.
LEMMA InvStarts ==
    ASSUME Init
    PROVE  Inv
<1> USE LeaderboardAssumption
<1>1. HubInv(FairMessages)
  <2>1. PICK M : M = FairMessages
    OBVIOUS
  <2>2. HubInv(M)
    BY HubStarts DEF Init
  <2>3. QED
    BY <2>1, <2>2
<1>2. [h \in Handles |-> 0] \in Tables
  BY DEF Tables
<1>3. PageTypes
  <2>1. Idle \in [state : {"idle", "asked", "answered"}, table : Tables]
    BY <1>2 DEF Idle
  <2>2. QED
    BY <1>2, <2>1 DEF Init, PageTypes
<1>4. TablesAreOld
  <2>1. \A i \in Fetches, h \in Handles : fetch[i].table[h] = 0
    BY DEF Init, Idle
  <2>2. \A h \in Handles : standings[h] = 0 /\ view[h] = 0
    BY DEF Init
  <2>3. QED
    BY <2>1, <2>2 DEF TablesAreOld, NeverOverstates
<1>5. ScoredStands /\ OpenHasSocket /\ OneConnection
  BY DEF Init, ScoredStands, OpenHasSocket, OneConnection
<1>6. QED
  BY <1>1, <1>3, <1>4, <1>5 DEF Inv, PageInv

\* Every step keeps it.
LEMMA InvKept ==
    ASSUME Inv, [Next]_vars
    PROVE  Inv'
BY ServiceKeeps, PageTypesKept, ScoredStandsKept, ConnectionKept, TablesStayOld DEF Inv, PageInv

-----------------------------------------------------------------------------
(* The theorems *)

\* The invariant holds in every state: of the service, for the messages that overstate
\* nothing, and of the page.
THEOREM AlwaysSafe == Spec => []Inv
<1>1. Init => Inv
  BY InvStarts
<1>2. Inv /\ [Next]_vars => Inv'
  BY InvKept
<1>3. QED
  BY <1>1, <1>2, PTL DEF Spec

\* useLeaderboard.ts:112-141: whatever snapshots and messages overtake each other, no
\* entry of the page exceeds the contestant's best score.
THEOREM PageNeverOverstates == Spec => []NeverOverstates
<1>1. Inv => NeverOverstates
  BY DEF Inv, PageInv, TablesAreOld
<1>2. QED
  BY <1>1, AlwaysSafe, PTL

\* useLeaderboard.ts:143-178: every state is well typed, its queues within their
\* capacities, and a mounted page has a socket or a timer, never both.
THEOREM PageAlwaysConsistent == Spec => []PageConsistent
<1>1. Inv => TypeOK
  <2> SUFFICES ASSUME Inv
               PROVE  TypeOK
    OBVIOUS
  <2>1. PICK M : M = FairMessages
    OBVIOUS
  <2>2. Seq(M) \subseteq Seq(Messages) /\ M \subseteq Messages
    BY <2>1 DEF FairMessages
  <2>3. Queues(M) /\ Bounded
    BY <2>1 DEF Inv, HubInv
  <2>4. Len(fanned) <= MaxMessages + 1
    <3>1. Len(fanned) \in Nat /\ Len(broadcast) \in Nat
      BY <2>3 DEF Queues
    <3>2. QED
      BY <2>3, <3>1, HubFacts DEF Bounded
  <2>5. HubTypeOK
    BY <2>2, <2>3, <2>4 DEF Queues, HubTypeOK, WriterSteps
  <2>6. QED
    BY <2>5 DEF Inv, PageInv, PageTypes, TypeOK
<1>2. Inv => PageConsistent
  BY <1>1 DEF Inv, PageInv, PageConsistent
<1>3. QED
  BY <1>2, AlwaysSafe, PTL

\* hub.go:54-80: the queue of a client in the map is open, so Run neither closes a
\* queue twice nor sends to a closed one.
THEOREM AlwaysRegisteredIsOpen == Spec => []RegisteredIsOpen
<1>1. Inv => RegisteredIsOpen
  BY DEF Inv, HubInv, Queues, WriterKnows, RegisteredIsOpen
<1>2. QED
  BY <1>1, AlwaysSafe, PTL

\* hub.go:71-79: the clients together never miss more messages than were counted as
\* dropped, and as long as there are none each sees what was fanned out, in that order.
THEOREM DropsAlwaysCounted == Spec => []DropsAreCounted
<1>1. Inv => DropsAreCounted
  BY DEF Inv, HubInv, Queues, SeesWhatIsDue, LossIsCounted, Live, DropsAreCounted
<1>2. QED
  BY <1>1, AlwaysSafe, PTL

\* The hub by itself, with a publisher that numbers its messages, has these properties
\* for any number of connections.
THEOREM HubAlone ==
    ASSUME None \notin Nat
    PROVE  ServerSpec => [](RegisteredIsOpen /\ DropsAreCounted)
<1>1. ServerInit => HubInv(Nat)
  BY HubStarts
<1>2. HubInv(Nat) /\ [ServerNext]_serverVars => HubInv(Nat)'
  <2> SUFFICES ASSUME HubInv(Nat), [ServerNext]_serverVars
               PROVE  HubInv(Nat)'
    OBVIOUS
  <2>1. Len(fanned) + Len(broadcast) + 1 \in Nat
    BY DEF HubInv, Queues
  <2>2. ServerStep(Nat)
    BY <2>1 DEF ServerNext, HubStep, WriterStep, ServerStep
  <2>3. QED
    BY <2>2, HubKeeps
<1>3. HubInv(Nat) => RegisteredIsOpen /\ DropsAreCounted
  BY DEF HubInv, Queues, WriterKnows, SeesWhatIsDue, LossIsCounted, Live, RegisteredIsOpen,
         DropsAreCounted
<1>4. QED
  BY <1>1, <1>2, <1>3, PTL DEF ServerSpec

-----------------------------------------------------------------------------
(* The telemetry ingester: its inductive invariant *)

\* What the consumer has handled: all it has acknowledged, and all it has fetched
\* but for the message it is dispatching.
HandledInOrder ==
    /\ committed <= LastHandled /\ start <= LastHandled
    /\ consumer # "fetch" => position > 0
    /\ 1..LastHandled \subseteq handled

\* The buckets count the events of a second, unless they have been evicted, which
\* they are only when they are too old to be looked at.
BucketsCount ==
    /\ \A i \in DOMAIN window : window[i].time <= clock
    /\ \A sec \in 0..MaxTime :
           buckets[sec] = ProcessedAt(sec) \/ (buckets[sec] = 0 /\ sec < cutoff)

TelemetryInv ==
    /\ TelemetryTypeOK
    /\ processor # "receive" => current \in Samples
    /\ HandledInOrder
    /\ WindowFollowsLog
    /\ BucketsCount

\* The number of events of a second is a number, of as many events as the window has.
LEMMA ProcessedAtFacts ==
    ASSUME NEW S, window \in Seq(S), NEW sec
    PROVE  ProcessedAt(sec) \in 0..Len(window)
<1> DEFINE hits == {i \in DOMAIN window : window[i].time = sec}
<1>1. DOMAIN window = 1..Len(window) /\ Len(window) \in Nat
  OBVIOUS
<1>2. IsFiniteSet(DOMAIN window) /\ Cardinality(DOMAIN window) = Len(window)
  BY <1>1, FS_Interval
<1>3. hits \in SUBSET (DOMAIN window)
  OBVIOUS
<1> HIDE DEF hits
<1>4. IsFiniteSet(hits) /\ Cardinality(hits) <= Cardinality(DOMAIN window) /\ Cardinality(hits) \in Nat
  BY <1>2, <1>3, FS_Subset, FS_CardinalityType
<1>5. Cardinality(hits) \in 0..Len(window)
  BY <1>1, <1>2, <1>4
<1>6. QED
  BY <1>5 DEF ProcessedAt, hits

\* One more event in the window.
LEMMA ProcessedOneMore ==
    ASSUME NEW S, window \in Seq(S), NEW e \in S, window' = Append(window, e), NEW sec
    PROVE  ProcessedAt(sec)' = IF e.time = sec THEN ProcessedAt(sec) + 1 ELSE ProcessedAt(sec)
<1> DEFINE hits == {i \in DOMAIN window : window[i].time = sec}
<1>1. /\ DOMAIN window = 1..Len(window) /\ Len(window) \in Nat
      /\ DOMAIN window' = 1..(Len(window) + 1)
      /\ window'[Len(window) + 1] = e /\ \A i \in 1..Len(window) : window'[i] = window[i]
  OBVIOUS
<1>2. IsFiniteSet(hits)
  <2>1. IsFiniteSet(DOMAIN window)
    BY <1>1, FS_Interval
  <2>2. hits \in SUBSET (DOMAIN window)
    OBVIOUS
  <2>3. QED
    BY <2>1, <2>2, FS_Subset
<1>3. {i \in DOMAIN window' : window'[i].time = sec}
          = IF e.time = sec THEN hits \cup {Len(window) + 1} ELSE hits
  BY <1>1
<1>4. Len(window) + 1 \notin hits
  BY <1>1
<1> HIDE DEF hits
<1>5. Cardinality(IF e.time = sec THEN hits \cup {Len(window) + 1} ELSE hits)
          = IF e.time = sec THEN Cardinality(hits) + 1 ELSE Cardinality(hits)
  BY <1>2, <1>4, FS_AddElement
<1>6. QED
  BY <1>3, <1>5 DEF ProcessedAt, hits

\* A bounded set of numbers that is not empty has a greatest element.
LEMMA MaxFacts ==
    ASSUME NEW S, S \subseteq Nat, S # {}, NEW b \in Nat, \A x \in S : x <= b
    PROVE  Max(S) \in S /\ \A x \in S : x <= Max(S)
<1> DEFINE R == {ss \in Nat \X Nat : ss[1] < ss[2]}
           Bounds == {n \in Nat : \A x \in S : x <= n}
<1>1. IsWellFoundedOn(R, Nat)
  BY NatLessThanWellFounded DEF OpToRel
<1>2. \A x, y \in Nat : <<y, x>> \in R <=> y < x
  OBVIOUS
<1> HIDE DEF R
<1>3. Bounds # {} /\ Bounds \subseteq Nat
  OBVIOUS
<1>4. PICK m \in Bounds : \A y \in Bounds : ~(<<y, m>> \in R)
  BY <1>1, <1>3, WFMin
<1>5. m \in S
  <2>1. SUFFICES ASSUME m \notin S
                 PROVE  FALSE
    OBVIOUS
  <2>2. \A x \in S : x < m
    BY <2>1
  <2>3. m # 0 /\ m - 1 \in Nat /\ m - 1 < m
    <3>1. PICK x \in S : x \in Nat /\ x < m
      BY <2>2
    <3>2. QED
      BY <3>1
  <2>4. m - 1 \in Bounds
    BY <2>2, <2>3
  <2>5. QED
    BY <1>2, <1>4, <2>3, <2>4
<1>6. \E x \in S : \A y \in S : x >= y
  BY <1>5
<1>7. Max(S) \in S /\ \A y \in S : Max(S) >= y
  BY <1>6 DEF Max
<1>8. QED
  BY <1>7

\* What MaxTPS is: 0 or one of the buckets it looks at, and no less than any of them.
LEMMA MaxTPSFacts ==
    ASSUME TelemetryInv
    PROVE  /\ MaxTPS \in Nat
           /\ \A sec \in 0..MaxTime : sec >= cutoff => buckets[sec] <= MaxTPS
           /\ MaxTPS = 0 \/ \E sec \in 0..MaxTime : sec >= cutoff /\ buckets[sec] = MaxTPS
<1> DEFINE looked == {buckets[sec] : sec \in {t \in 0..MaxTime : t >= cutoff}}
           S == {0} \cup looked
<1>1. Len(window) \in Nat
  BY DEF TelemetryInv, TelemetryTypeOK
<1>2. \A sec \in 0..MaxTime : buckets[sec] \in Nat /\ buckets[sec] <= Len(window)
  <2>1. ASSUME NEW sec \in 0..MaxTime
        PROVE  buckets[sec] \in Nat /\ buckets[sec] <= Len(window)
    <3>1. buckets[sec] \in Nat
      BY DEF TelemetryInv, TelemetryTypeOK
    <3>2. buckets[sec] = ProcessedAt(sec) \/ buckets[sec] = 0
      BY DEF TelemetryInv, BucketsCount
    <3>3. ProcessedAt(sec) <= Len(window)
      BY ProcessedAtFacts DEF TelemetryInv, TelemetryTypeOK
    <3>4. QED
      BY <1>1, <3>1, <3>2, <3>3
  <2>2. QED
    BY <2>1
<1>3. S \subseteq Nat /\ S # {} /\ \A x \in S : x <= Len(window)
  BY <1>1, <1>2
<1>4. MaxTPS = Max(S)
  BY DEF MaxTPS
<1>5. \A sec \in 0..MaxTime : sec >= cutoff => buckets[sec] \in S
  OBVIOUS
<1>6. \A x \in S : x = 0 \/ \E sec \in 0..MaxTime : sec >= cutoff /\ buckets[sec] = x
  OBVIOUS
<1> HIDE DEF S
<1>7. Max(S) \in S /\ \A x \in S : x <= Max(S)
  BY <1>1, <1>3, MaxFacts
<1>8. QED
  BY <1>3, <1>4, <1>5, <1>6, <1>7

\* The invariant bounds what the ticker publishes.
LEMMA PeakFollows ==
    ASSUME TelemetryInv
    PROVE  PeakIsExact
<1>1. clock \in 0..MaxTime /\ MaxTime \in Nat /\ Window \in Nat \ {0}
  BY TelemetryAssumption DEF TelemetryInv, TelemetryTypeOK
<1>2. \A sec \in 0..clock :
          /\ sec \in 0..MaxTime
          /\ sec >= cutoff <=> clock - sec < Window
  BY <1>1 DEF cutoff
<1>3. ASSUME NEW sec \in 0..MaxTime, sec >= cutoff
      PROVE  buckets[sec] = ProcessedAt(sec)
  <2>1. cutoff \in Int /\ ~(sec < cutoff)
    BY <1>1, <1>3 DEF cutoff
  <2>2. QED
    BY <2>1 DEF TelemetryInv, BucketsCount
<1>4. ASSUME NEW sec \in 0..clock, clock - sec < Window
      PROVE  ProcessedAt(sec) <= MaxTPS
  BY <1>2, <1>3, <1>4, MaxTPSFacts
<1>5. ASSUME NEW sec \in 0..MaxTime, sec >= cutoff, buckets[sec] = MaxTPS, MaxTPS # 0
      PROVE  sec \in 0..clock /\ clock - sec < Window /\ ProcessedAt(sec) = MaxTPS
  <2>1. ProcessedAt(sec) = MaxTPS
    BY <1>3, <1>5
  <2>2. sec <= clock
    <3>1. SUFFICES ASSUME \A i \in DOMAIN window : window[i].time # sec
                   PROVE  FALSE
      BY <1>1 DEF TelemetryInv, BucketsCount
    <3>2. {i \in DOMAIN window : window[i].time = sec} = {}
      BY <3>1
    <3>3. ProcessedAt(sec) = 0
      BY <3>2, FS_EmptySet DEF ProcessedAt
    <3>4. QED
      BY <1>5, <2>1, <3>3
  <2>3. QED
    BY <1>1, <1>2, <1>5, <2>1, <2>2
<1>6. QED
  BY <1>4, <1>5, MaxTPSFacts DEF PeakIsExact

\* At the start there is nothing to count or to follow.
LEMMA TelemetryStarts ==
    ASSUME TelemetryInit
    PROVE  TelemetryInv
<1>1. MaxTime \in Nat
  BY TelemetryAssumption
<1>2. /\ clock = 0 /\ log = <<>> /\ committed = 0 /\ position = 0 /\ start = 0
      /\ consumer = "fetch" /\ rawCh = <<>> /\ fillCh = <<>> /\ processor = "receive"
      /\ current = NoEvent /\ window = <<>> /\ stored = {} /\ handled = {}
      /\ buckets = [sec \in 0..MaxTime |-> 0]
  BY DEF TelemetryInit
<1>3. TelemetryTypeOK
  <2>1. RawCap \in Nat /\ FillCap \in Nat
    BY TelemetryAssumption
  <2>2. QED
    BY <1>1, <1>2, <2>1 DEF TelemetryTypeOK
<1>4. HandledInOrder
  BY <1>2 DEF HandledInOrder, LastHandled
<1>5. WindowFollowsLog
  <2>1. DOMAIN window = {} /\ rawCh = <<>>
    BY <1>2
  <2>2. DOMAIN Taken = {}
    BY <2>1 DEF Taken
  <2>3. Dispatched = {}
    BY <1>2 DEF Dispatched, LastHandled
  <2>4. PICK at : at = [k \in {} |-> k]
    OBVIOUS
  <2>5. at \in [DOMAIN Taken -> Dispatched]
    BY <2>2, <2>4
  <2>6. QED
    BY <2>2, <2>3, <2>5 DEF WindowFollowsLog
<1>6. BucketsCount
  <2>1. \A sec : ProcessedAt(sec) = 0
    BY <1>2, FS_EmptySet DEF ProcessedAt
  <2>2. QED
    BY <1>2, <2>1 DEF BucketsCount
<1>7. QED
  BY <1>2, <1>3, <1>4, <1>5, <1>6 DEF TelemetryInv

\* Steps that neither take an event nor dispatch one leave the two in step.
LEMMA StillFollows ==
    ASSUME WindowFollowsLog, Taken' = Taken, Dispatched' = Dispatched,
           \A i \in Dispatched : log'[i] = log[i]
    PROVE  WindowFollowsLog'
<1>1. PICK at \in [DOMAIN Taken -> Dispatched] :
          /\ \A k \in DOMAIN Taken : Taken[k] = log[at[k]]
          /\ \A j, k \in DOMAIN Taken : j < k => at[j] < at[k]
          /\ \A i \in Dispatched : \E k \in DOMAIN Taken : at[k] = i
  BY DEF WindowFollowsLog
<1>2. at \in [DOMAIN Taken' -> Dispatched']
  BY <1>1
<1>3. \A k \in DOMAIN Taken' : Taken'[k] = log'[at[k]]
  BY <1>1
<1>4. QED
  BY <1>1, <1>2, <1>3 DEF WindowFollowsLog

\* Steps that touch neither the window nor the clock leave the counts right.
LEMMA StillCounts ==
    ASSUME BucketsCount, window' = window, clock' = clock, buckets' = buckets
    PROVE  BucketsCount'
BY DEF BucketsCount, ProcessedAt, cutoff

\* Time passes: no event of the past comes back into sight.
LEMMA TickKeeps ==
    ASSUME TelemetryInv, Tick
    PROVE  TelemetryInv'
<1>1. /\ clock < MaxTime /\ clock' = clock + 1
      /\ UNCHANGED <<log, rawCh, fillCh, buckets, consumerVars, processorVars>>
  BY DEF Tick
<1>2. /\ log' = log /\ rawCh' = rawCh /\ fillCh' = fillCh /\ buckets' = buckets
      /\ committed' = committed /\ position' = position /\ start' = start
      /\ consumer' = consumer /\ handled' = handled /\ processor' = processor
      /\ current' = current /\ window' = window /\ stored' = stored
  BY <1>1 DEF consumerVars, processorVars
<1>3. clock \in 0..MaxTime /\ MaxTime \in Nat /\ Window \in Nat
  BY TelemetryAssumption DEF TelemetryInv, TelemetryTypeOK
<1>4. clock' \in 0..MaxTime
  BY <1>1, <1>3
<1>5. TelemetryTypeOK'
  BY <1>2, <1>4 DEF TelemetryInv, TelemetryTypeOK
<1>6. HandledInOrder'
  BY <1>2 DEF TelemetryInv, HandledInOrder, LastHandled
<1>7. WindowFollowsLog'
  <2>1. Taken' = Taken /\ Dispatched' = Dispatched
    BY <1>2 DEF Taken, Dispatched, LastHandled
  <2>2. QED
    BY <1>2, <2>1, StillFollows DEF TelemetryInv
<1>8. BucketsCount'
  <2>1. cutoff' = cutoff + 1 /\ cutoff \in Int
    BY <1>1, <1>3 DEF cutoff
  <2>2. \A sec : ProcessedAt(sec)' = ProcessedAt(sec)
    BY <1>2 DEF ProcessedAt
  <2>3. ASSUME NEW i \in DOMAIN window
        PROVE  window[i].time <= clock + 1
    <3>1. window \in Seq([time : 0..MaxTime, event : Samples])
      BY DEF TelemetryInv, TelemetryTypeOK
    <3>2. window[i] \in [time : 0..MaxTime, event : Samples]
      BY <3>1, DOMAIN window = 1..Len(window), ElementOfSeq
    <3>3. window[i].time <= clock
      BY DEF TelemetryInv, BucketsCount
    <3>4. QED
      BY <1>3, <3>2, <3>3
  <2>4. ASSUME NEW sec \in 0..MaxTime
        PROVE  buckets[sec] = ProcessedAt(sec) \/ (buckets[sec] = 0 /\ sec < cutoff + 1)
    <3>1. buckets[sec] = ProcessedAt(sec) \/ (buckets[sec] = 0 /\ sec < cutoff)
      BY DEF TelemetryInv, BucketsCount
    <3>2. QED
      BY <2>1, <3>1
  <2>5. QED
    BY <1>1, <1>2, <2>1, <2>2, <2>3, <2>4 DEF BucketsCount
<1>9. QED
  BY <1>2, <1>5, <1>6, <1>7, <1>8 DEF TelemetryInv

\* What is produced comes after all that is being followed.
LEMMA ProduceKeeps ==
    ASSUME TelemetryInv, NEW m \in LogMessages, Produce(m)
    PROVE  TelemetryInv'
<1>1. log' = Append(log, m)
  BY DEF Produce
<1>2. /\ clock' = clock /\ rawCh' = rawCh /\ fillCh' = fillCh /\ buckets' = buckets
      /\ committed' = committed /\ position' = position /\ start' = start
      /\ consumer' = consumer /\ handled' = handled /\ processor' = processor
      /\ current' = current /\ window' = window /\ stored' = stored
  BY DEF Produce, consumerVars, processorVars
<1>3. /\ log \in Seq(LogMessages) /\ Len(log) \in Nat /\ position \in 0..Len(log)
      /\ {committed, position, start} \subseteq 0..Len(log) /\ handled \subseteq 1..Len(log)
  BY DEF TelemetryInv, TelemetryTypeOK
<1>4. /\ log' \in Seq(LogMessages) /\ Len(log') = Len(log) + 1
      /\ \A i \in 1..Len(log) : log'[i] = log[i]
  BY <1>1, <1>3
<1>5. {committed, position, start} \subseteq 0..Len(log') /\ handled \subseteq 1..Len(log')
  BY <1>3, <1>4
<1>6. TelemetryTypeOK'
  BY <1>2, <1>4, <1>5 DEF TelemetryInv, TelemetryTypeOK
<1>7. HandledInOrder'
  BY <1>2 DEF TelemetryInv, HandledInOrder, LastHandled
<1>8. LastHandled \in -1..Len(log) /\ start \in Nat
  BY <1>3 DEF LastHandled
<1>9. \A i \in (start + 1)..LastHandled : i \in 1..Len(log)
  BY <1>3, <1>8
<1>10. Dispatched' = Dispatched /\ Taken' = Taken
  <2>1. LastHandled' = LastHandled
    BY <1>2 DEF LastHandled
  <2>2. \A i \in (start + 1)..LastHandled : log'[i] = log[i]
    BY <1>4, <1>9
  <2>3. QED
    BY <1>2, <2>1, <2>2 DEF Dispatched, Taken
<1>11. WindowFollowsLog'
  <2>1. \A i \in Dispatched : log'[i] = log[i]
    BY <1>4, <1>9 DEF Dispatched
  <2>2. QED
    BY <1>10, <2>1, StillFollows DEF TelemetryInv
<1>12. BucketsCount'
  BY <1>2, StillCounts DEF TelemetryInv
<1>13. QED
  BY <1>2, <1>6, <1>7, <1>11, <1>12 DEF TelemetryInv

\* Fetching changes neither what is dispatched nor what is acknowledged, and a
\* commit acknowledges only what is.
LEMMA ConsumerKeeps ==
    ASSUME TelemetryInv, FetchMessage \/ CommitOffset \/ CommitFails
    PROVE  TelemetryInv'
<1>1. /\ log' = log /\ clock' = clock /\ rawCh' = rawCh /\ fillCh' = fillCh /\ buckets' = buckets
      /\ start' = start /\ handled' = handled /\ processor' = processor
      /\ current' = current /\ window' = window /\ stored' = stored
  BY DEF FetchMessage, CommitOffset, CommitFails, processorVars
<1>2. \/ /\ consumer = "fetch" /\ consumer' = "dispatch" /\ position < Len(log)
         /\ position' = position + 1 /\ committed' = committed
      \/ /\ consumer = "commit" /\ consumer' = "fetch" /\ position' = position
         /\ committed' \in {committed, position}
  BY DEF FetchMessage, CommitOffset, CommitFails
<1>3. /\ Len(log) \in Nat /\ position \in 0..Len(log) /\ committed \in 0..Len(log)
      /\ start \in 0..Len(log)
  BY DEF TelemetryInv, TelemetryTypeOK
<1>4. /\ LastHandled' = LastHandled /\ committed' <= LastHandled
      /\ position' \in 0..Len(log) /\ committed' \in 0..Len(log)
      /\ consumer' # "fetch" => position' > 0
  BY <1>2, <1>3 DEF TelemetryInv, HandledInOrder, LastHandled
<1>5. TelemetryTypeOK'
  BY <1>1, <1>2, <1>3, <1>4 DEF TelemetryInv, TelemetryTypeOK
<1>6. HandledInOrder'
  BY <1>1, <1>4 DEF TelemetryInv, HandledInOrder
<1>7. WindowFollowsLog'
  <2>1. Taken' = Taken /\ Dispatched' = Dispatched
    BY <1>1, <1>4 DEF Taken, Dispatched
  <2>2. QED
    BY <1>1, <2>1, StillFollows DEF TelemetryInv
<1>8. BucketsCount'
  BY <1>1, StillCounts DEF TelemetryInv
<1>9. QED
  BY <1>1, <1>5, <1>6, <1>7, <1>8 DEF TelemetryInv

\* An event is put at the end of the channel, and its offset is the last one.
LEMMA EventFollows ==
    ASSUME WindowFollowsLog, NEW S, Taken \in Seq(S), NEW p \in Nat, Dispatched \subseteq 0..(p - 1),
           Dispatched' = Dispatched \cup {p}, log' = log, Taken' = Append(Taken, log[p])
    PROVE  WindowFollowsLog'
<1>1. PICK at \in [DOMAIN Taken -> Dispatched] :
          /\ \A k \in DOMAIN Taken : Taken[k] = log[at[k]]
          /\ \A j, k \in DOMAIN Taken : j < k => at[j] < at[k]
          /\ \A i \in Dispatched : \E k \in DOMAIN Taken : at[k] = i
  BY DEF WindowFollowsLog
<1>2. PICK n \in Nat : n = Len(Taken)
  OBVIOUS
<1>3. DOMAIN Taken = 1..n
  BY <1>2
<1>4. PICK t : t = Append(Taken, log[p])
  OBVIOUS
<1>5. DOMAIN t = 1..(n + 1) /\ t[n + 1] = log[p] /\ \A k \in 1..n : t[k] = Taken[k]
  <2>1. Len(t) = n + 1 /\ DOMAIN t = 1..Len(t)
    BY <1>2, <1>4
  <2>2. QED
    BY <1>2, <1>4, <2>1
<1> DEFINE next == [k \in 1..(n + 1) |-> IF k = n + 1 THEN p ELSE at[k]]
<1>6. next[n + 1] = p /\ \A k \in 1..n : next[k] = at[k]
  OBVIOUS
<1>7. next \in [DOMAIN t -> Dispatched']
  BY <1>1, <1>3, <1>5
<1> HIDE DEF next
<1>8. \A k \in DOMAIN t : t[k] = log[next[k]]
  BY <1>1, <1>3, <1>5, <1>6
<1>9. ASSUME NEW j \in 1..(n + 1), NEW k \in 1..(n + 1), j < k
      PROVE  next[j] < next[k]
  <2>1. CASE k = n + 1
    <3>1. j \in 1..n
      BY <1>9, <2>1
    <3>2. at[j] \in Dispatched
      BY <1>1, <1>3, <3>1
    <3>3. at[j] \in 0..(p - 1)
      BY <3>2, Zenon
    <3>4. QED
      BY <1>6, <2>1, <3>1, <3>3
  <2>2. CASE k # n + 1
    <3>1. j \in 1..n /\ k \in 1..n
      BY <1>9, <2>2
    <3>2. QED
      BY <1>1, <1>3, <1>6, <1>9, <3>1
  <2>3. QED
    BY <2>1, <2>2
<1>10. \A i \in Dispatched' : \E k \in DOMAIN t : next[k] = i
  BY <1>1, <1>3, <1>5, <1>6
<1>11. Taken' = t
  BY <1>4
<1>12. \A j, k \in DOMAIN t : j < k => next[j] < next[k]
  <2>1. SUFFICES ASSUME NEW j \in DOMAIN t, NEW k \in DOMAIN t, j < k
                 PROVE  next[j] < next[k]
    OBVIOUS
  <2>2. j \in 1..(n + 1) /\ k \in 1..(n + 1)
    BY <1>5, <2>1
  <2>3. QED
    BY <1>9, <2>1, <2>2
<1>13. \E f \in [DOMAIN t -> Dispatched'] :
          /\ \A k \in DOMAIN t : t[k] = log[f[k]]
          /\ \A j, k \in DOMAIN t : j < k => f[j] < f[k]
          /\ \A i \in Dispatched' : \E k \in DOMAIN t : f[k] = i
  BY <1>7, <1>8, <1>10, <1>12, Zenon
<1>14. \E f \in [DOMAIN Taken' -> Dispatched'] :
          /\ \A k \in DOMAIN Taken' : Taken'[k] = log'[f[k]]
          /\ \A j, k \in DOMAIN Taken' : j < k => f[j] < f[k]
          /\ \A i \in Dispatched' : \E k \in DOMAIN Taken' : f[k] = i
  BY <1>11, <1>13
<1>15. QED
  BY <1>14, Zenon DEF WindowFollowsLog

\* The window's events and the channel's are samples.
LEMMA TakenTypes ==
    ASSUME TelemetryTypeOK
    PROVE  /\ [i \in DOMAIN window |-> window[i].event] \in Seq(Samples)
           /\ Taken \in Seq(Samples)
<1>1. window \in Seq([time : 0..MaxTime, event : Samples]) /\ rawCh \in Seq(Samples)
  BY DEF TelemetryTypeOK
<1>2. DOMAIN window = 1..Len(window) /\ Len(window) \in Nat
  BY <1>1
<1>3. \A i \in DOMAIN window : window[i].event \in Samples
  <2>1. ASSUME NEW i \in DOMAIN window
        PROVE  window[i].event \in Samples
    <3>1. window[i] \in [time : 0..MaxTime, event : Samples]
      BY <1>1, <1>2, ElementOfSeq
    <3>2. QED
      BY <3>1
  <2>2. QED
    BY <2>1
<1>4. [i \in DOMAIN window |-> window[i].event] \in Seq(Samples)
  BY <1>2, <1>3
<1>5. QED
  BY <1>1, <1>4 DEF Taken

\* A message is dispatched: an event enters the channel behind those before it, and
\* anything else is not followed.
LEMMA DispatchKeeps ==
    ASSUME TelemetryInv, Dispatch
    PROVE  TelemetryInv'
<1>1. PICK p, m : p = position /\ m = log[p]
  OBVIOUS
<1>2. /\ consumer = "dispatch" /\ consumer' = "commit" /\ handled' = handled \cup {p}
      /\ log' = log /\ clock' = clock /\ buckets' = buckets /\ committed' = committed
      /\ position' = position /\ start' = start
      /\ processor' = processor /\ current' = current /\ window' = window /\ stored' = stored
  BY <1>1 DEF Dispatch, processorVars
<1>3. \/ m \in Samples /\ Len(rawCh) < RawCap /\ rawCh' = Append(rawCh, m) /\ fillCh' = fillCh
      \/ m = Fill /\ Len(fillCh) < FillCap /\ fillCh' = Append(fillCh, m) /\ rawCh' = rawCh
      \/ m = Garbage /\ rawCh' = rawCh /\ fillCh' = fillCh
  BY <1>1 DEF Dispatch
<1>4. /\ Len(log) \in Nat /\ p \in 1..Len(log) /\ committed \in 0..Len(log) /\ start \in 0..Len(log)
      /\ handled \subseteq 1..Len(log) /\ {committed, position, start} \subseteq 0..Len(log)
  BY <1>1, <1>2 DEF TelemetryInv, TelemetryTypeOK, HandledInOrder
<1>5. LastHandled = p - 1 /\ LastHandled' = p
  BY <1>1, <1>2 DEF LastHandled
<1>6. rawCh \in Seq(Samples) /\ fillCh \in Seq({Fill}) /\ RawCap \in Nat /\ FillCap \in Nat
  BY TelemetryAssumption DEF TelemetryInv, TelemetryTypeOK
<1>7. TelemetryTypeOK'
  <2>1. rawCh' \in Seq(Samples) /\ Len(rawCh') <= RawCap
    <3>1. CASE m \in Samples /\ Len(rawCh) < RawCap /\ rawCh' = Append(rawCh, m)
      BY <1>6, <3>1
    <3>2. CASE rawCh' = rawCh
      BY <3>2 DEF TelemetryInv, TelemetryTypeOK
    <3>3. QED
      BY <1>3, <3>1, <3>2
  <2>2. fillCh' \in Seq({Fill}) /\ Len(fillCh') <= FillCap
    <3>1. CASE m = Fill /\ Len(fillCh) < FillCap /\ fillCh' = Append(fillCh, m)
      BY <1>6, <3>1
    <3>2. CASE fillCh' = fillCh
      BY <3>2 DEF TelemetryInv, TelemetryTypeOK
    <3>3. QED
      BY <1>3, <3>1, <3>2
  <2>3. handled' \subseteq 1..Len(log)
    BY <1>2, <1>4
  <2>4. QED
    BY <1>2, <2>1, <2>2, <2>3 DEF TelemetryInv, TelemetryTypeOK
<1>8. HandledInOrder'
  <2>1. 1..p \subseteq handled'
    <3>1. 1..(p - 1) \subseteq handled
      BY <1>5 DEF TelemetryInv, HandledInOrder
    <3>2. 1..p = (1..(p - 1)) \cup {p}
      BY <1>4
    <3>3. QED
      BY <1>2, <3>1, <3>2
  <2>2. committed <= p /\ start <= p /\ p > 0
    BY <1>4, <1>5 DEF TelemetryInv, HandledInOrder
  <2>3. QED
    BY <1>1, <1>2, <1>5, <2>1, <2>2 DEF HandledInOrder
<1>9. WindowFollowsLog'
  <2>1. start \in Nat /\ start <= p - 1
    BY <1>4, <1>5 DEF TelemetryInv, HandledInOrder
  <2>2. (start + 1)..p = ((start + 1)..(p - 1)) \cup {p}
    BY <1>4, <2>1
  <2>3. Dispatched = {i \in (start + 1)..(p - 1) : log[i] \in Samples}
    BY <1>5 DEF Dispatched
  <2>4. Dispatched' = {i \in (start + 1)..p : log[i] \in Samples}
    BY <1>2, <1>5 DEF Dispatched
  <2>5. CASE m \in Samples
    <3>1. rawCh' = Append(rawCh, m)
      BY <1>3, <2>5, TelemetryAssumption
    <3>2. Dispatched' = Dispatched \cup {p}
      BY <1>1, <2>2, <2>3, <2>4, <2>5
    <3>3. Dispatched \subseteq 0..(p - 1)
      BY <2>1, <2>3
    <3>4. PICK w : w = [i \in DOMAIN window |-> window[i].event]
      OBVIOUS
    <3>5. w \in Seq(Samples)
      BY <3>4, TakenTypes DEF TelemetryInv
    <3>6. Taken' = Append(Taken, m)
      <4>1. Taken = w \o rawCh /\ Taken' = w \o Append(rawCh, m)
        BY <1>2, <3>1, <3>4 DEF Taken
      <4>2. QED
        BY <1>6, <2>5, <3>5, <4>1
    <3>7. Taken \in Seq(Samples) /\ p \in Nat
      BY <1>4, TakenTypes DEF TelemetryInv
    <3>8. QED
      BY <1>1, <1>2, <3>2, <3>3, <3>6, <3>7, EventFollows DEF TelemetryInv
  <2>6. CASE m \notin Samples
    <3>1. rawCh' = rawCh
      BY <1>3, <2>6
    <3>2. Taken' = Taken
      BY <1>2, <3>1 DEF Taken
    <3>3. Dispatched' = Dispatched
      BY <1>1, <2>2, <2>3, <2>4, <2>6
    <3>4. QED
      BY <1>2, <3>2, <3>3, StillFollows DEF TelemetryInv
  <2>7. QED
    BY <2>5, <2>6
<1>10. BucketsCount'
  BY <1>2, StillCounts DEF TelemetryInv
<1>11. QED
  BY <1>2, <1>7, <1>8, <1>9, <1>10 DEF TelemetryInv

\* The head of the channel moves into the window, and is counted for this second.
LEMMA ReceiveKeeps ==
    ASSUME TelemetryInv, Receive
    PROVE  TelemetryInv'
<1>1. PICK e : e = Head(rawCh)
  OBVIOUS
<1>2. PICK s : s = [time |-> clock, event |-> e]
  OBVIOUS
<1>3. /\ rawCh # <<>> /\ current' = e /\ rawCh' = Tail(rawCh) /\ window' = Append(window, s)
      /\ buckets' = [buckets EXCEPT ![clock] = buckets[clock] + 1]
  BY <1>1, <1>2 DEF Receive
<1>4. /\ log' = log /\ clock' = clock /\ fillCh' = fillCh /\ committed' = committed
      /\ position' = position /\ start' = start /\ consumer' = consumer /\ handled' = handled
      /\ processor' = "insert" /\ stored' = stored
  BY DEF Receive, consumerVars
<1>5. /\ rawCh \in Seq(Samples) /\ Len(rawCh) <= RawCap /\ RawCap \in Nat /\ clock \in 0..MaxTime
      /\ window \in Seq([time : 0..MaxTime, event : Samples]) /\ MaxTime \in Nat
      /\ buckets \in [0..MaxTime -> Nat]
  BY TelemetryAssumption DEF TelemetryInv, TelemetryTypeOK
<1>6. e \in Samples /\ Tail(rawCh) \in Seq(Samples) /\ Len(Tail(rawCh)) <= RawCap
  BY <1>1, <1>3, <1>5
<1>7. s \in [time : 0..MaxTime, event : Samples] /\ s.time = clock /\ s.event = e
  BY <1>2, <1>5, <1>6
<1>8. TelemetryTypeOK'
  <2>1. window' \in Seq([time : 0..MaxTime, event : Samples])
    BY <1>3, <1>5, <1>7
  <2>2. buckets' \in [0..MaxTime -> Nat]
    BY <1>3, <1>5
  <2>3. QED
    BY <1>3, <1>4, <1>5, <1>6, <2>1, <2>2 DEF TelemetryInv, TelemetryTypeOK
<1>9. HandledInOrder'
  BY <1>4 DEF TelemetryInv, HandledInOrder, LastHandled
<1>10. WindowFollowsLog'
  <2>1. PICK w : w = [i \in DOMAIN window |-> window[i].event]
    OBVIOUS
  <2>2. w \in Seq(Samples)
    BY <2>1, TakenTypes DEF TelemetryInv
  <2>3. [i \in DOMAIN window' |-> window'[i].event] = Append(w, e)
    <3>1. PICK n \in Nat : n = Len(window) /\ DOMAIN window = 1..n
      BY <1>5
    <3>2. /\ DOMAIN window' = 1..(n + 1) /\ window'[n + 1] = s
          /\ \A i \in 1..n : window'[i] = window[i]
      BY <1>3, <1>5, <1>7, <3>1
    <3>3. PICK v : v = Append(w, e)
      OBVIOUS
    <3>4. Len(w) = n
      BY <2>1, <2>2, <3>1
    <3>5. v \in Seq(Samples) /\ Len(v) = n + 1 /\ v[n + 1] = e /\ \A i \in 1..n : v[i] = w[i]
      BY <1>6, <2>2, <3>3, <3>4
    <3>6. \A i \in 1..n : w[i] = window[i].event
      BY <2>1, <3>1
    <3>7. \A i \in 1..(n + 1) : window'[i].event = v[i]
      BY <1>7, <3>1, <3>2, <3>5, <3>6
    <3>8. DOMAIN v = 1..(n + 1)
      BY <3>1, <3>5
    <3>9. v = [i \in 1..(n + 1) |-> v[i]]
      BY <3>5, <3>8
    <3>10. QED
      BY <3>2, <3>3, <3>7, <3>9
  <2>4. Taken' = Append(w, e) \o Tail(rawCh)
    BY <1>3, <2>3 DEF Taken
  <2>5. Taken = w \o rawCh
    BY <2>1 DEF Taken
  <2>6. rawCh = <<e>> \o Tail(rawCh)
    BY <1>1, <1>3, <1>5
  <2>7. Append(w, e) \o Tail(rawCh) = w \o (<<e>> \o Tail(rawCh))
    BY <1>6, <2>2, AppendIsConcat, ConcatAssociative
  <2>8. Taken' = Taken
    BY <2>4, <2>5, <2>6, <2>7
  <2>9. Dispatched' = Dispatched
    BY <1>4 DEF Dispatched, LastHandled
  <2>10. QED
    BY <1>4, <2>8, <2>9, StillFollows DEF TelemetryInv
<1>11. BucketsCount'
  <2>1. \A sec : ProcessedAt(sec)' = IF clock = sec THEN ProcessedAt(sec) + 1 ELSE ProcessedAt(sec)
    BY <1>3, <1>5, <1>7, ProcessedOneMore
  <2>2. \A i \in DOMAIN window' : window'[i].time <= clock
    <3>1. PICK n \in Nat : n = Len(window) /\ DOMAIN window = 1..n
      BY <1>5
    <3>2. /\ DOMAIN window' = 1..(n + 1) /\ window'[n + 1] = s
          /\ \A i \in 1..n : window'[i] = window[i]
      BY <1>3, <1>5, <1>7, <3>1
    <3>3. \A i \in 1..n : window[i].time <= clock
      BY <3>1 DEF TelemetryInv, BucketsCount
    <3>4. s.time <= clock
      BY <1>5, <1>7
    <3>5. \A i \in 1..(n + 1) : i \in 1..n \/ i = n + 1
      BY <3>1
    <3>6. QED
      BY <3>2, <3>3, <3>4, <3>5
  <2>3. cutoff' = cutoff /\ cutoff \in Int /\ clock >= cutoff
    BY <1>4, <1>5, TelemetryAssumption DEF cutoff
  <2>4. ASSUME NEW sec \in 0..MaxTime
        PROVE  buckets'[sec] = ProcessedAt(sec)' \/ (buckets'[sec] = 0 /\ sec < cutoff)
    <3>1. buckets[sec] = ProcessedAt(sec) \/ (buckets[sec] = 0 /\ sec < cutoff)
      BY DEF TelemetryInv, BucketsCount
    <3>2. CASE sec = clock
      <4>1. buckets'[sec] = buckets[sec] + 1
        BY <1>3, <1>5, <3>2
      <4>2. ~(sec < cutoff)
        BY <1>5, <2>3, <3>2
      <4>3. QED
        BY <2>1, <3>1, <3>2, <4>1, <4>2
    <3>3. CASE sec # clock
      BY <1>3, <1>5, <2>1, <3>1, <3>3
    <3>4. QED
      BY <3>2, <3>3
  <2>5. QED
    BY <1>4, <2>2, <2>3, <2>4 DEF BucketsCount
<1>12. QED
  BY <1>3, <1>4, <1>6, <1>8, <1>9, <1>10, <1>11 DEF TelemetryInv

\* What the processor, the drain of fills and the ticker do leaves the log and the
\* window alone; an eviction forgets only seconds that are too old.
LEMMA ProcessorKeeps ==
    ASSUME TelemetryInv, InsertTelemetrySample \/ RecordError \/ DrainFills \/ PublishMetrics
    PROVE  TelemetryInv'
<1>1. /\ log' = log /\ clock' = clock /\ rawCh' = rawCh /\ committed' = committed
      /\ position' = position /\ start' = start /\ consumer' = consumer /\ handled' = handled
      /\ window' = window
  BY DEF InsertTelemetrySample, RecordError, DrainFills, PublishMetrics, consumerVars, processorVars
<1>2. \/ /\ buckets' = buckets /\ fillCh' = fillCh
         /\ processor' \in {"error", "receive"} /\ current' \in {current, NoEvent}
         /\ processor' = "error" => current' = current /\ processor = "insert"
         /\ stored' \in {stored, stored \cup {current}}
         /\ processor \in {"insert", "error"}
      \/ /\ processor' = processor /\ current' = current /\ stored' = stored /\ buckets' = buckets
         /\ fillCh # <<>> /\ fillCh' = Tail(fillCh)
      \/ /\ processor' = processor /\ current' = current /\ stored' = stored /\ fillCh' = fillCh
         /\ buckets' = [sec \in 0..MaxTime |-> IF sec < cutoff THEN 0 ELSE buckets[sec]]
  BY DEF InsertTelemetrySample, RecordError, DrainFills, PublishMetrics, consumerVars, processorVars
<1>3. fillCh \in Seq({Fill}) /\ Len(fillCh) <= FillCap /\ FillCap \in Nat
  BY TelemetryAssumption DEF TelemetryInv, TelemetryTypeOK
<1>4. fillCh' \in Seq({Fill}) /\ Len(fillCh') <= FillCap
  <2>1. CASE fillCh # <<>> /\ fillCh' = Tail(fillCh)
    BY <1>3, <2>1
  <2>2. CASE fillCh' = fillCh
    BY <1>3, <2>2
  <2>3. QED
    BY <1>2, <2>1, <2>2
<1>5. buckets \in [0..MaxTime -> Nat] /\ buckets' \in [0..MaxTime -> Nat]
  BY <1>2 DEF TelemetryInv, TelemetryTypeOK
<1>6. /\ processor' \in {"receive", "insert", "error"} /\ current' \in Samples \cup {NoEvent}
      /\ stored' \subseteq Samples /\ (processor' # "receive" => current' \in Samples)
  BY <1>2 DEF TelemetryInv, TelemetryTypeOK
<1>7. TelemetryTypeOK'
  BY <1>1, <1>4, <1>5, <1>6 DEF TelemetryInv, TelemetryTypeOK
<1>8. HandledInOrder'
  BY <1>1 DEF TelemetryInv, HandledInOrder, LastHandled
<1>9. WindowFollowsLog'
  <2>1. Taken' = Taken /\ Dispatched' = Dispatched
    BY <1>1 DEF Taken, Dispatched, LastHandled
  <2>2. QED
    BY <1>1, <2>1, StillFollows DEF TelemetryInv
<1>10. BucketsCount'
  <2>1. CASE buckets' = buckets
    BY <1>1, <2>1, StillCounts DEF TelemetryInv
  <2>2. CASE buckets' = [sec \in 0..MaxTime |-> IF sec < cutoff THEN 0 ELSE buckets[sec]]
    <3>1. cutoff' = cutoff /\ \A sec : ProcessedAt(sec)' = ProcessedAt(sec)
      BY <1>1 DEF cutoff, ProcessedAt
    <3>2. \A sec \in 0..MaxTime :
              buckets'[sec] = ProcessedAt(sec) \/ (buckets'[sec] = 0 /\ sec < cutoff)
      BY <2>2 DEF TelemetryInv, BucketsCount
    <3>3. QED
      BY <1>1, <3>1, <3>2 DEF TelemetryInv, BucketsCount
  <2>3. QED
    BY <1>2, <2>1, <2>2
<1>11. QED
  BY <1>6, <1>7, <1>8, <1>9, <1>10 DEF TelemetryInv

\* A new process follows the log from the offset that was acknowledged.
LEMMA RestartKeeps ==
    ASSUME TelemetryInv, RestartIngester
    PROVE  TelemetryInv'
<1>1. /\ position' = committed /\ start' = committed /\ consumer' = "fetch" /\ rawCh' = <<>>
      /\ fillCh' = <<>> /\ processor' = "receive" /\ current' = NoEvent /\ window' = <<>>
      /\ buckets' = [sec \in 0..MaxTime |-> 0]
      /\ clock' = clock /\ log' = log /\ committed' = committed /\ stored' = stored
      /\ handled' = handled
  BY DEF RestartIngester
<1>2. /\ committed \in 0..Len(log) /\ Len(log) \in Nat /\ RawCap \in Nat /\ FillCap \in Nat
      /\ MaxTime \in Nat
  BY TelemetryAssumption DEF TelemetryInv, TelemetryTypeOK
<1>3. TelemetryTypeOK'
  BY <1>1, <1>2 DEF TelemetryInv, TelemetryTypeOK
<1>4. HandledInOrder'
  <2>1. LastHandled' = committed
    BY <1>1 DEF LastHandled
  <2>2. 1..committed \subseteq handled
    <3>1. committed <= LastHandled /\ 1..LastHandled \subseteq handled /\ LastHandled \in Int
      BY DEF TelemetryInv, TelemetryTypeOK, HandledInOrder, LastHandled
    <3>2. 1..committed \subseteq 1..LastHandled
      BY <1>2, <3>1
    <3>3. QED
      BY <3>1, <3>2
  <2>3. QED
    BY <1>1, <1>2, <2>1, <2>2 DEF HandledInOrder
<1>5. WindowFollowsLog'
  <2>1. DOMAIN Taken' = {}
    BY <1>1 DEF Taken
  <2>2. (start + 1)' = committed + 1 /\ LastHandled' = committed
    BY <1>1 DEF LastHandled
  <2>3. Dispatched' = {}
    BY <1>2, <2>2 DEF Dispatched
  <2>4. PICK at : at = [k \in {} |-> k]
    OBVIOUS
  <2>5. at \in [DOMAIN Taken' -> Dispatched']
    BY <2>1, <2>4
  <2>6. QED
    BY <2>1, <2>3, <2>5 DEF WindowFollowsLog
<1>6. BucketsCount'
  <2>1. \A sec : ProcessedAt(sec)' = 0
    BY <1>1, FS_EmptySet DEF ProcessedAt
  <2>2. QED
    BY <1>1, <2>1 DEF BucketsCount
<1>7. QED
  BY <1>1, <1>3, <1>4, <1>5, <1>6 DEF TelemetryInv

\* The ingester's invariant is inductive.
LEMMA TelemetryKept ==
    ASSUME TelemetryInv, [TelemetryNext]_telemetryVars
    PROVE  TelemetryInv'
<1>1. CASE TelemetryNext
  BY <1>1, TickKeeps, ProduceKeeps, ConsumerKeeps, DispatchKeeps, ReceiveKeeps, ProcessorKeeps,
     RestartKeeps DEF TelemetryNext, Process
<1>2. CASE UNCHANGED telemetryVars
  <2>1. /\ log' = log /\ clock' = clock /\ rawCh' = rawCh /\ fillCh' = fillCh
        /\ committed' = committed /\ position' = position /\ start' = start
        /\ consumer' = consumer /\ handled' = handled /\ window' = window /\ buckets' = buckets
        /\ processor' = processor /\ current' = current /\ stored' = stored
    BY <1>2 DEF telemetryVars, consumerVars, processorVars
  <2>2. TelemetryTypeOK' /\ HandledInOrder'
    BY <2>1 DEF TelemetryInv, TelemetryTypeOK, HandledInOrder, LastHandled
  <2>3. Taken' = Taken /\ Dispatched' = Dispatched
    BY <2>1 DEF Taken, Dispatched, LastHandled
  <2>4. WindowFollowsLog'
    BY <2>1, <2>3, StillFollows DEF TelemetryInv
  <2>5. BucketsCount'
    BY <2>1, StillCounts DEF TelemetryInv
  <2>6. QED
    BY <2>1, <2>2, <2>4, <2>5 DEF TelemetryInv
<1>3. QED
  BY <1>1, <1>2

\* Whatever fails, fills up or restarts, the offsets, the channels, the window and
\* the buckets of the ingester fit together.
THEOREM IngesterSafe == TelemetrySpec => []TelemetryInv
<1>1. TelemetryInit => TelemetryInv
  BY TelemetryStarts
<1>2. TelemetryInv /\ [TelemetryNext]_telemetryVars => TelemetryInv'
  BY TelemetryKept
<1>3. QED
  BY <1>1, <1>2, PTL DEF TelemetrySpec

\* No offset is committed before every message up to it was dispatched or rejected
\* (consumer.go:144), by this process or by an earlier one.
THEOREM OffsetsAlwaysConsistent == TelemetrySpec => []OffsetsConsistent
<1>1. TelemetryInv => OffsetsConsistent
  <2> SUFFICES ASSUME TelemetryInv
               PROVE  OffsetsConsistent
    OBVIOUS
  <2>1. committed <= LastHandled /\ 1..LastHandled \subseteq handled
    BY DEF TelemetryInv, HandledInOrder
  <2>2. LastHandled \in Int /\ committed \in Nat
    BY DEF TelemetryInv, TelemetryTypeOK, LastHandled
  <2>3. 1..committed \subseteq 1..LastHandled
    BY <2>1, <2>2
  <2>4. QED
    BY <2>1, <2>3 DEF TelemetryInv, OffsetsConsistent, CommittedWasHandled
<1>2. QED
  BY <1>1, IngesterSafe, PTL

\* The window and the channel hold the events of the partition in order, without
\* gaps and without repetition, from the offset the process started at.
THEOREM WindowAlwaysFollowsLog == TelemetrySpec => []WindowFollowsLog
<1>1. TelemetryInv => WindowFollowsLog
  BY DEF TelemetryInv
<1>2. QED
  BY <1>1, IngesterSafe, PTL

\* The peak published is that of the busiest of the last seconds, though older
\* buckets are evicted whenever it is read.
THEOREM PeakAlwaysExact == TelemetrySpec => []PeakIsExact
<1>1. TelemetryInv => PeakIsExact
  BY PeakFollows
<1>2. QED
  BY <1>1, IngesterSafe, PTL

\* The rank is within the sequence, and the least that p percent do not exceed.
LEMMA RankFacts ==
    ASSUME NEW n \in Nat \ {0}, NEW p \in 1..100
    PROVE  /\ Rank(n, p) \in 1..n
           /\ 100 * Rank(n, p) >= p * n
           /\ \A m \in Nat : m < Rank(n, p) => 100 * m < p * n
<1>1. PICK k \in Nat : k = p * n
  OBVIOUS
<1>2. 1 <= k /\ k <= 100 * n
  <2>1. 1 * n <= p * n /\ p * n <= 100 * n
    OBVIOUS
  <2>2. QED
    BY <1>1, <2>1
<1>3. 100 * p * n + 9999 = 100 * k + 9999
  BY <1>1
<1>4. PICK r : r = (100 * k + 9999) \div 10000
  OBVIOUS
<1>5. r \in Nat /\ 10000 * r <= 100 * k + 9999 /\ 100 * k + 9999 < 10000 * r + 10000
  BY <1>4
<1>6. r \in 1..n /\ 100 * r >= k /\ \A m \in Nat : m < r => 100 * m < k
  BY <1>2, <1>5
<1>7. Rank(n, p) = r
  BY <1>3, <1>4 DEF Rank
<1>8. QED
  BY <1>1, <1>6, <1>7

\* percentileAt returns the nearest-rank percentile of every ascending sequence: the
\* formula int(p*n + 0.9999) is never off by one (metrics/latency.go).
THEOREM NearestRank ==
    ASSUME NEW s \in Seq(Int), s # <<>>, \A i, j \in DOMAIN s : i <= j => s[i] <= s[j],
           NEW p \in 1..100
    PROVE  IsPercentile(percentileAt(s, p), s, p)
<1>1. PICK n \in Nat \ {0} : n = Len(s) /\ DOMAIN s = 1..n /\ Cardinality(DOMAIN s) = n
  <2>1. PICK n \in Nat \ {0} : n = Len(s) /\ DOMAIN s = 1..n
    BY EmptySeq
  <2>2. Cardinality(1..n) = IF 1 > n THEN 0 ELSE n - 1 + 1
    BY <2>1, FS_Interval
  <2>3. QED
    BY <2>1, <2>2
<1>2. PICK r : r = Rank(n, p)
  OBVIOUS
<1>3. r \in 1..n /\ 100 * r >= p * n /\ \A m \in Nat : m < r => 100 * m < p * n
  BY <1>2, RankFacts
<1>4. percentileAt(s, p) = s[r]
  <2>1. Min({n, r}) = r
    <3>1. r \in {n, r} /\ \A y \in {n, r} : r <= y
      BY <1>3
    <3>2. \A x \in {n, r} : (\A y \in {n, r} : x <= y) => x = r
      BY <1>3
    <3>3. QED
      BY <3>1, <3>2 DEF Min
  <2>2. Max({1, r}) = r
    <3>1. r \in {1, r} /\ \A y \in {1, r} : r >= y
      BY <1>3
    <3>2. \A x \in {1, r} : (\A y \in {1, r} : x >= y) => x = r
      BY <1>3
    <3>3. QED
      BY <3>1, <3>2 DEF Max
  <2>3. QED
    BY <1>1, <1>2, <2>1, <2>2 DEF percentileAt
<1> DEFINE AtMost(w) == {i \in DOMAIN s : s[i] <= w}
<1>5. ASSUME NEW w
      PROVE  IsFiniteSet(AtMost(w)) /\ Cardinality(AtMost(w)) \in Nat
  <2>1. IsFiniteSet(DOMAIN s) /\ AtMost(w) \in SUBSET (DOMAIN s)
    BY <1>1, FS_Interval
  <2>2. QED
    BY <2>1, FS_Subset, FS_CardinalityType
<1>6. /\ Cardinality(1..r) = r
      /\ IsFiniteSet(1..(r - 1)) /\ Cardinality(1..(r - 1)) = r - 1
  <2>1. r \in Int /\ r - 1 \in Int /\ 1 \in Int /\ r >= 1
    BY <1>3
  <2>2. Cardinality(1..r) = r
    <3>1. Cardinality(1..r) = IF 1 > r THEN 0 ELSE r - 1 + 1
      BY <2>1, FS_Interval
    <3>2. QED
      BY <2>1, <3>1
  <2>3. Cardinality(1..(r - 1)) = IF 1 > r - 1 THEN 0 ELSE (r - 1) - 1 + 1
    BY <2>1, FS_Interval
  <2>4. QED
    BY <2>1, <2>2, <2>3, FS_Interval
<1>7. Cardinality(AtMost(s[r])) >= r
  <2>1. 1..r \subseteq AtMost(s[r])
    BY <1>1, <1>3
  <2>2. Cardinality(1..r) <= Cardinality(AtMost(s[r]))
    BY <1>5, <2>1, FS_Subset
  <2>3. QED
    BY <1>3, <1>5, <1>6, <2>2
<1>8. ASSUME NEW w \in Range(s), w < s[r]
      PROVE  100 * Cardinality(AtMost(w)) < p * n
  <2>1. AtMost(w) \in SUBSET (1..(r - 1))
    <3>1. ASSUME NEW i \in DOMAIN s, s[i] <= w
          PROVE  i < r
      <4>1. s[i] \in Int /\ s[r] \in Int /\ w \in Int
        BY <1>1, <1>3 DEF Range
      <4>2. s[i] < s[r]
        BY <1>8, <3>1, <4>1
      <4>3. ~(r <= i)
        BY <1>1, <1>3, <4>1, <4>2
      <4>4. QED
        BY <1>1, <1>3, <4>3
    <3>2. QED
      BY <1>1, <1>3, <3>1
  <2>2. PICK c \in Nat : c = Cardinality(AtMost(w))
    BY <1>5
  <2>3. Cardinality(AtMost(w)) <= Cardinality(1..(r - 1))
    BY <1>6, <2>1, FS_Subset, Zenon
  <2>4. c <= r - 1
    BY <1>6, <2>2, <2>3, Zenon
  <2>5. c < r
    BY <1>3, <2>4
  <2>6. QED
    BY <1>3, <2>2, <2>5
<1>9. s[r] \in Range(s)
  BY <1>1, <1>3 DEF Range
<1>10. 100 * Cardinality(AtMost(s[r])) >= p * n
  <2>1. PICK k \in Nat : k = p * n
    BY <1>1
  <2>2. PICK c \in Nat : c = Cardinality(AtMost(s[r]))
    BY <1>5
  <2>3. 100 * r >= k /\ c >= r /\ r \in Nat
    BY <1>3, <1>7, <2>1, <2>2
  <2>4. 100 * c >= k
    BY <2>3
  <2>5. QED
    BY <2>1, <2>2, <2>4
<1>11. /\ 100 * Cardinality(AtMost(s[r])) >= p * Cardinality(DOMAIN s)
       /\ \A w \in Range(s) :
             w < s[r] => 100 * Cardinality(AtMost(w)) < p * Cardinality(DOMAIN s)
  <2> HIDE DEF AtMost
  <2>1. QED
    BY <1>1, <1>8, <1>10
<1>12. IsPercentile(s[r], s, p)
  BY <1>9, <1>11 DEF IsPercentile
<1>13. QED
  BY <1>4, <1>12

-----------------------------------------------------------------------------
(* Lists *)

\* What holds of 0, and of n + 1 when it does of n, holds of every number.
LEMMA Induction ==
    ASSUME NEW T, 0 \in T, \A n \in Nat : n \in T => n + 1 \in T
    PROVE  \A n \in Nat : n \in T
<1> DEFINE R == {ss \in Nat \X Nat : ss[1] < ss[2]}
           Missing == {n \in Nat : n \notin T}
<1>1. IsWellFoundedOn(R, Nat)
  BY NatLessThanWellFounded DEF OpToRel
<1>2. \A x, y \in Nat : <<y, x>> \in R <=> y < x
  OBVIOUS
<1> HIDE DEF R
<1>3. SUFFICES ASSUME Missing # {}
               PROVE  FALSE
  OBVIOUS
<1>4. Missing \subseteq Nat
  OBVIOUS
<1>5. PICK x \in Missing : \A y \in Missing : ~(<<y, x>> \in R)
  BY <1>1, <1>3, <1>4, WFMin
<1>6. x # 0 /\ x - 1 \in Nat /\ x = (x - 1) + 1
  OBVIOUS
<1>7. x - 1 \in Missing
  BY <1>6
<1>8. <<x - 1, x>> \in R
  BY <1>2, <1>6
<1>9. QED
  BY <1>5, <1>7, <1>8

\* b lists the n elements of D, each once.
Lists(b, n, D) ==
    /\ b \in [1..n -> D]
    /\ \A i, j \in 1..n : b[i] = b[j] => i = j
    /\ \A x \in D : \E i \in 1..n : b[i] = x

\* One element more.
LEMMA ListsOneMore ==
    ASSUME NEW n \in Nat, NEW D, NEW b, Lists(b, n, D), NEW d, d \notin D,
           NEW c, c = [i \in 1..(n + 1) |-> IF i = n + 1 THEN d ELSE b[i]]
    PROVE  Lists(c, n + 1, D \cup {d})
<1>1. \A i \in 1..(n + 1) : i = n + 1 \/ i \in 1..n
  OBVIOUS
<1>2. c[n + 1] = d /\ \A i \in 1..n : c[i] = b[i] /\ i \in 1..(n + 1) /\ b[i] \in D
  BY DEF Lists
<1>3. c \in [1..(n + 1) -> D \cup {d}]
  BY <1>1, <1>2
<1>4. ASSUME NEW i \in 1..(n + 1), NEW j \in 1..(n + 1), c[i] = c[j]
      PROVE  i = j
  BY <1>1, <1>2, <1>4 DEF Lists
<1>5. ASSUME NEW x \in D \cup {d}
      PROVE  \E i \in 1..(n + 1) : c[i] = x
  <2>1. CASE x = d
    <3>1. n + 1 \in 1..(n + 1)
      OBVIOUS
    <3>2. QED
      BY <1>2, <2>1, <3>1
  <2>2. CASE x \in D
    BY <1>2, <2>2 DEF Lists
  <2>3. QED
    BY <2>1, <2>2
<1>6. QED
  BY <1>3, <1>4, <1>5 DEF Lists

-----------------------------------------------------------------------------
(* What the ticker copies out of the window *)

\* F[n] is what the loop of Percentiles has copied after n samples of w.
Copies(F, w, limit, m) ==
    F = [n \in 0..m |->
            IF n = 0 THEN <<>>
            ELSE IF w[n].time >= limit
                   THEN Append(F[n - 1], LatencyUs(w[n].event))
                   ELSE F[n - 1]]

\* There is such a function for every window.
LEMMA CopyingExists ==
    ASSUME NEW w, NEW limit
    PROVE  \A m \in Nat : \E F : Copies(F, w, limit, m)
<1> DEFINE T == {m \in Nat : \E F : Copies(F, w, limit, m)}
<1>1. 0 \in T
  <2> DEFINE F == [n \in 0..0 |-> <<>>]
  <2>1. Copies(F, w, limit, 0)
    BY DEF Copies
  <2>2. QED
    BY <2>1
<1>2. ASSUME NEW m \in Nat, m \in T
      PROVE  m + 1 \in T
  <2>1. PICK F : Copies(F, w, limit, m)
    BY <1>2
  <2> DEFINE last == IF w[m + 1].time >= limit
                       THEN Append(F[m], LatencyUs(w[m + 1].event)) ELSE F[m]
             G == [n \in 0..(m + 1) |-> IF n <= m THEN F[n] ELSE last]
  <2>2. G[m + 1] = last /\ \A n \in 0..m : G[n] = F[n]
    OBVIOUS
  <2>3. DOMAIN G = 0..(m + 1) /\ G = [n \in DOMAIN G |-> G[n]]
    OBVIOUS
  <2> HIDE DEF G
  <2>4. ASSUME NEW n \in 0..(m + 1)
        PROVE  G[n] = IF n = 0 THEN <<>>
                      ELSE IF w[n].time >= limit
                             THEN Append(G[n - 1], LatencyUs(w[n].event))
                             ELSE G[n - 1]
    <3>1. CASE n = m + 1
      <4>1. n # 0 /\ n - 1 \in 0..m /\ n - 1 = m
        BY <3>1
      <4>2. QED
        BY <2>2, <3>1, <4>1
    <3>2. CASE n \in 0..m
      <4>1. n # 0 => n - 1 \in 0..m
        BY <3>2
      <4>2. F[n] = IF n = 0 THEN <<>>
                   ELSE IF w[n].time >= limit
                          THEN Append(F[n - 1], LatencyUs(w[n].event))
                          ELSE F[n - 1]
        BY <2>1, <3>2 DEF Copies
      <4>3. G[n] = F[n] /\ (n # 0 => G[n - 1] = F[n - 1])
        BY <2>2, <3>2, <4>1
      <4> HIDE DEF last
      <4>4. QED
        BY <4>2, <4>3, Zenon
    <3>3. n = m + 1 \/ n \in 0..m
      OBVIOUS
    <3>4. QED
      BY <3>1, <3>2, <3>3
  <2>5. Copies(G, w, limit, m + 1)
    BY <2>3, <2>4 DEF Copies
  <2>6. QED
    BY <2>5
<1> HIDE DEF T
<1>3. \A m \in Nat : m \in T
  BY <1>1, <1>2, Induction
<1>4. QED
  BY <1>3 DEF T

\* s has the latency of every fresh one of the first n samples of w, each once.
HasFresh(s, w, limit, n) ==
    /\ s \in Seq(Int)
    /\ \E b : /\ Lists(b, Len(s), {i \in 1..n : w[i].time >= limit})
              /\ \A k \in 1..Len(s) : s[k] = LatencyUs(w[b[k]].event)

\* A sample that is fresh is one more, and one that is not changes nothing.
LEMMA CopyOne ==
    ASSUME NEW w \in Seq([time : 0..MaxTime, event : Samples]), NEW limit \in Int,
           NEW n \in Nat, n + 1 \in 1..Len(w), NEW s, HasFresh(s, w, limit, n),
           NEW t, t = IF w[n + 1].time >= limit
                        THEN Append(s, LatencyUs(w[n + 1].event)) ELSE s
    PROVE  HasFresh(t, w, limit, n + 1)
<1> DEFINE D(k) == {i \in 1..k : w[i].time >= limit}
<1>1. PICK b : /\ Lists(b, Len(s), D(n))
               /\ \A k \in 1..Len(s) : s[k] = LatencyUs(w[b[k]].event)
  BY DEF HasFresh
<1>2. s \in Seq(Int) /\ Len(s) \in Nat
  BY DEF HasFresh
<1>3. CASE ~(w[n + 1].time >= limit)
  <2>1. D(n + 1) = D(n) /\ t = s
    BY <1>3
  <2> HIDE DEF D
  <2>2. Lists(b, Len(t), D(n + 1)) /\ \A k \in 1..Len(t) : t[k] = LatencyUs(w[b[k]].event)
    BY <1>1, <2>1
  <2>3. Lists(b, Len(t), {i \in 1..(n + 1) : w[i].time >= limit})
    BY <2>2 DEF D
  <2>4. QED
    BY <1>2, <2>1, <2>2, <2>3 DEF HasFresh
<1>4. CASE w[n + 1].time >= limit
  <2>1. D(n + 1) = D(n) \cup {n + 1} /\ n + 1 \notin D(n)
    BY <1>4
  <2> DEFINE v == LatencyUs(w[n + 1].event)
  <2>2. v \in Int
    <3>1. w[n + 1].event \in Samples
      <4>1. w[n + 1] \in [time : 0..MaxTime, event : Samples]
        BY ElementOfSeq
      <4>2. QED
        BY <4>1
    <3>2. Delay[w[n + 1].event] \in Int
      BY <3>1, TelemetryAssumption
    <3>3. QED
      BY <3>2 DEF LatencyUs
  <2>3. t = Append(s, v)
    BY <1>4
  <2> HIDE DEF D, v
  <2>4. PICK c : c = [i \in 1..(Len(s) + 1) |-> IF i = Len(s) + 1 THEN n + 1 ELSE b[i]]
    OBVIOUS
  <2>5. Lists(c, Len(s) + 1, D(n + 1))
    <3>1. Lists(c, Len(s) + 1, D(n) \cup {n + 1})
      BY <1>1, <1>2, <2>1, <2>4, ListsOneMore
    <3>2. QED
      BY <2>1, <3>1
  <2>6. t \in Seq(Int) /\ Len(t) = Len(s) + 1 /\ t[Len(s) + 1] = v
        /\ \A k \in 1..Len(s) : t[k] = s[k]
    BY <1>2, <2>2, <2>3, AppendProperties
  <2>7. ASSUME NEW k \in 1..(Len(s) + 1)
        PROVE  t[k] = LatencyUs(w[c[k]].event)
    <3>1. k = Len(s) + 1 \/ k \in 1..Len(s)
      BY <1>2
    <3>2. c[Len(s) + 1] = n + 1 /\ (k \in 1..Len(s) => c[k] = b[k])
      BY <1>2, <2>4
    <3>3. QED
      BY <1>1, <2>6, <3>1, <3>2 DEF v
  <2>8. t \in Seq(Int) /\ Lists(c, Len(t), D(n + 1))
        /\ \A k \in 1..Len(t) : t[k] = LatencyUs(w[c[k]].event)
    BY <2>5, <2>6, <2>7
  <2>9. Lists(c, Len(t), {i \in 1..(n + 1) : w[i].time >= limit})
    BY <2>8 DEF D
  <2>10. QED
    BY <2>8, <2>9 DEF HasFresh
<1>5. QED
  BY <1>3, <1>4

\* The snapshot has the latencies of the last seconds, each once.
LEMMA SnapshotFacts ==
    ASSUME TelemetryTypeOK
    PROVE  HasFresh(Snapshot, window, clock - WindowSize, Len(window))
<1> DEFINE limit == clock - WindowSize
           m == Len(window)
           F == CHOOSE G : Copies(G, window, limit, m)
           T == {n \in Nat : n <= m => HasFresh(F[n], window, limit, n)}
<1>1. m \in Nat /\ limit \in Int /\ window \in Seq([time : 0..MaxTime, event : Samples])
  BY TelemetryAssumption DEF TelemetryTypeOK
<1>2. Copies(F, window, limit, m)
  BY <1>1, CopyingExists
<1>3. Snapshot = F[m]
  BY DEF Snapshot, Copies
<1> HIDE DEF F, m, limit
<1>4. \A n \in 0..m : F[n] = IF n = 0 THEN <<>>
                             ELSE IF window[n].time >= limit
                                    THEN Append(F[n - 1], LatencyUs(window[n].event))
                                    ELSE F[n - 1]
  BY <1>2 DEF Copies
<1>5. 0 \in T
  <2>1. F[0] = <<>>
    BY <1>1, <1>4
  <2>2. <<>> \in Seq(Int) /\ Len(<<>>) = 0 /\ {i \in 1..0 : window[i].time >= limit} = {}
    OBVIOUS
  <2>3. Lists(<<>>, 0, {})
    BY DEF Lists
  <2>4. HasFresh(<<>>, window, limit, 0)
    BY <2>2, <2>3 DEF HasFresh
  <2>5. QED
    BY <2>1, <2>4
<1>6. ASSUME NEW n \in Nat, n \in T
      PROVE  n + 1 \in T
  <2>1. SUFFICES ASSUME n + 1 <= m
                 PROVE  HasFresh(F[n + 1], window, limit, n + 1)
    OBVIOUS
  <2>2. HasFresh(F[n], window, limit, n)
    BY <1>1, <1>6, <2>1
  <2>3. F[n + 1] = IF window[n + 1].time >= limit
                     THEN Append(F[n], LatencyUs(window[n + 1].event)) ELSE F[n]
    <3>1. n + 1 \in 0..m /\ n + 1 # 0 /\ (n + 1) - 1 = n
      BY <1>1, <2>1
    <3>2. QED
      BY <1>4, <3>1
  <2>4. n + 1 \in 1..Len(window)
    BY <1>1, <2>1 DEF m
  <2>5. QED
    BY <1>1, <2>2, <2>3, <2>4, CopyOne
<1>7. \A n \in Nat : n \in T
  <2> HIDE DEF T
  <2>1. QED
    BY <1>5, <1>6, Induction
<1>8. HasFresh(F[m], window, limit, m)
  BY <1>1, <1>7
<1>9. QED
  BY <1>3, <1>8 DEF m, limit

-----------------------------------------------------------------------------
(* How it sorts them *)

\* Of finitely many numbers one is the greatest.
LEMMA GreatestExists ==
    ASSUME NEW S, NEW f, \A x \in S : f[x] \in Int, IsFiniteSet(S), S # {}
    PROVE  \E d \in S : \A x \in S : f[x] <= f[d]
<1> DEFINE Has(D) == \E d \in D : \A x \in D : f[x] <= f[d]
           T == {n \in Nat : \A D \in SUBSET S :
                     IsFiniteSet(D) /\ Cardinality(D) = n /\ D # {} => Has(D)}
<1>1. 0 \in T
  BY FS_EmptySet
<1>2. ASSUME NEW n \in Nat, n \in T
      PROVE  n + 1 \in T
  <2>1. ASSUME NEW D \in SUBSET S, IsFiniteSet(D), Cardinality(D) = n + 1, D # {}
        PROVE  Has(D)
    <3>1. PICK d \in D : TRUE
      BY <2>1
    <3>2. PICK C \in SUBSET S : C = D \ {d}
      OBVIOUS
    <3>3. IsFiniteSet(C) /\ Cardinality(C) = n
      <4>1. IsFiniteSet(D \ {d}) /\ Cardinality(D \ {d}) = Cardinality(D) - 1
        BY <2>1, <3>1, FS_RemoveElement
      <4>2. QED
        BY <2>1, <3>2, <4>1
    <3>4. CASE C = {}
      <4>1. D = {d} /\ f[d] \in Int
        BY <3>1, <3>2, <3>4
      <4>2. QED
        BY <4>1
    <3>5. CASE C # {}
      <4>1. Has(C)
        <5> HIDE DEF Has
        <5>1. QED
          BY <1>2, <3>3, <3>5
      <4>2. PICK e \in C : \A x \in C : f[x] <= f[e]
        BY <4>1
      <4>3. e \in D /\ f[e] \in Int /\ f[d] \in Int /\ \A x \in D : x \in C \/ x = d
        BY <3>1, <3>2, <4>2
      <4>4. CASE f[d] <= f[e]
        BY <4>2, <4>3, <4>4
      <4>5. CASE f[e] <= f[d]
        <5>1. \A x \in C : f[x] \in Int
          OBVIOUS
        <5>2. \A x \in C : f[x] <= f[d]
          BY <4>2, <4>3, <4>5, <5>1
        <5>3. QED
          BY <3>1, <4>3, <5>2
      <4>6. QED
        BY <4>3, <4>4, <4>5
    <3>6. QED
      BY <3>4, <3>5
  <2> HIDE DEF Has
  <2>2. QED
    BY <2>1
<1> HIDE DEF T, Has
<1>3. \A n \in Nat : n \in T
  BY <1>1, <1>2, Induction
<1>4. Cardinality(S) \in T
  BY <1>3, FS_CardinalityType
<1>5. Has(S)
  BY <1>4 DEF T
<1>6. QED
  BY <1>5 DEF Has

\* b lists D in ascending order of f.
Sorts(b, n, D, f) ==
    Lists(b, n, D) /\ \A i, j \in 1..n : i < j => f[b[i]] <= f[b[j]]

\* Finitely many numbers can be put in order.
LEMMA OrderExists ==
    ASSUME NEW S, NEW f, \A x \in S : f[x] \in Int, IsFiniteSet(S)
    PROVE  \E b : Sorts(b, Cardinality(S), S, f)
<1> DEFINE Can(D, n) == \E b : Sorts(b, n, D, f)
           T == {n \in Nat : \A D \in SUBSET S :
                     IsFiniteSet(D) /\ Cardinality(D) = n => Can(D, n)}
<1>1. 0 \in T
  <2>1. Lists(<<>>, 0, {})
    BY DEF Lists
  <2>2. Can({}, 0)
    BY <2>1 DEF Sorts
  <2> HIDE DEF Can
  <2>3. QED
    BY <2>2, FS_EmptySet
<1>2. ASSUME NEW n \in Nat, n \in T
      PROVE  n + 1 \in T
  <2>1. ASSUME NEW D \in SUBSET S, IsFiniteSet(D), Cardinality(D) = n + 1
        PROVE  Can(D, n + 1)
    <3>1. D # {}
      BY <2>1, FS_EmptySet
    <3>2. PICK d \in D : \A x \in D : f[x] <= f[d]
      BY <2>1, <3>1, GreatestExists
    <3>3. PICK C \in SUBSET S : C = D \ {d}
      OBVIOUS
    <3>4. IsFiniteSet(C) /\ Cardinality(C) = n
      <4>1. IsFiniteSet(D \ {d}) /\ Cardinality(D \ {d}) = Cardinality(D) - 1
        BY <2>1, <3>2, FS_RemoveElement
      <4>2. QED
        BY <2>1, <3>3, <4>1
    <3>5. Can(C, n)
      <4> HIDE DEF Can
      <4>1. QED
        BY <1>2, <3>4
    <3>6. PICK b : Sorts(b, n, C, f)
      BY <3>5
    <3>7. PICK c : c = [i \in 1..(n + 1) |-> IF i = n + 1 THEN d ELSE b[i]]
      OBVIOUS
    <3>8. C \cup {d} = D /\ d \notin C
      BY <3>2, <3>3
    <3>9. Lists(c, n + 1, D)
      BY <3>6, <3>7, <3>8, ListsOneMore DEF Sorts
    <3>10. ASSUME NEW i \in 1..(n + 1), NEW j \in 1..(n + 1), i < j
           PROVE  f[c[i]] <= f[c[j]]
      <4>1. i \in 1..n /\ i # n + 1 /\ (j = n + 1 \/ (j \in 1..n /\ j # n + 1))
        BY <3>10
      <4>2. c[i] = b[i] /\ b[i] \in C
        BY <3>6, <3>7, <4>1 DEF Sorts, Lists
      <4>3. CASE j = n + 1
        <5>1. c[j] = d
          BY <3>7, <4>3
        <5>2. QED
          BY <3>2, <3>8, <4>2, <5>1
      <4>4. CASE j \in 1..n /\ j # n + 1
        <5>1. c[j] = b[j]
          BY <3>7, <4>4
        <5>2. QED
          BY <3>6, <3>10, <4>1, <4>2, <4>4, <5>1 DEF Sorts
      <4>5. QED
        BY <4>1, <4>3, <4>4
    <3>11. Sorts(c, n + 1, D, f)
      BY <3>9, <3>10 DEF Sorts
    <3>12. QED
      BY <3>11
  <2> HIDE DEF Can
  <2>2. QED
    BY <2>1
<1> HIDE DEF T, Can
<1>3. \A n \in Nat : n \in T
  BY <1>1, <1>2, Induction
<1>4. Cardinality(S) \in T
  BY <1>3, FS_CardinalityType
<1>5. Can(S, Cardinality(S))
  BY <1>4 DEF T
<1>6. QED
  BY <1>5 DEF Can

\* Sorting rearranges the values, in ascending order.
LEMMA SortedFacts ==
    ASSUME NEW s \in Seq(Int), NEW n, n = Len(s), NEW t, t = SortedValues(s)
    PROVE  /\ t \in Seq(Int) /\ Len(t) = n
           /\ \A i, j \in DOMAIN t : i <= j => t[i] <= t[j]
           /\ \E at : Lists(at, n, 1..n) /\ \A k \in 1..n : t[k] = s[at[k]]
<1>1. n \in Nat /\ DOMAIN s = 1..n /\ \A i \in 1..n : s[i] \in Int
  BY ElementOfSeq
<1> DEFINE Ascending(at) == \A i, j \in 1..n : i < j => s[at[i]] <= s[at[j]]
           order == CHOOSE at \in Bijection(1..n, 1..n) : Ascending(at)
<1>2. \E at \in Bijection(1..n, 1..n) : Ascending(at)
  <2>1. IsFiniteSet(1..n) /\ Cardinality(1..n) = n
    <3>1. 1 \in Int /\ n \in Int
      BY <1>1
    <3>2. IsFiniteSet(1..n)
      BY <3>1, FS_Interval
    <3>3. Cardinality(1..n) = IF 1 > n THEN 0 ELSE n - 1 + 1
      BY <3>1, FS_Interval
    <3>4. QED
      BY <1>1, <3>2, <3>3
  <2>2. PICK b : Sorts(b, n, 1..n, s)
    BY <1>1, <2>1, OrderExists
  <2>3. b \in Bijection(1..n, 1..n)
    BY <2>2 DEF Sorts, Lists, Bijection, Injection, Surjection, IsInjective
  <2>4. Ascending(b)
    BY <2>2 DEF Sorts
  <2> HIDE DEF Ascending
  <2>5. QED
    BY <2>3, <2>4
<1>3. order \in Bijection(1..n, 1..n) /\ Ascending(order)
  <2> HIDE DEF Ascending
  <2>1. QED
    BY <1>2
<1>4. t = [i \in 1..n |-> s[order[i]]]
  BY <1>1 DEF SortedValues
<1>5. PICK at : at = order
  OBVIOUS
<1> HIDE DEF order
<1>6. Lists(at, n, 1..n)
  BY <1>3, <1>5 DEF Lists, Bijection, Injection, Surjection, IsInjective
<1>7. ASSUME NEW k \in 1..n
      PROVE  t[k] = s[at[k]] /\ at[k] \in 1..n /\ t[k] \in Int
  <2>1. at[k] \in 1..n
    BY <1>6 DEF Lists
  <2>2. t[k] = s[at[k]]
    BY <1>4, <1>5
  <2>3. QED
    BY <1>1, <2>1, <2>2
<1>8. t \in Seq(Int) /\ Len(t) = n /\ DOMAIN t = 1..n
  BY <1>1, <1>4, <1>7
<1>9. ASSUME NEW i \in 1..n, NEW j \in 1..n, i <= j
      PROVE  t[i] <= t[j]
  <2>1. CASE i = j
    BY <1>7, <2>1
  <2>2. CASE i < j
    BY <1>3, <1>5, <1>7, <2>2
  <2>3. QED
    BY <1>1, <1>9, <2>1, <2>2
<1>10. QED
  BY <1>6, <1>7, <1>8, <1>9

\* Recent has the latencies of the last seconds, each once, in ascending order.
LEMMA RecentFacts ==
    ASSUME TelemetryTypeOK, NEW s, s = Recent, NEW values, values = RecentLatencies
    PROVE  /\ s \in Seq(Int)
           /\ \A i, j \in DOMAIN s : i <= j => s[i] <= s[j]
           /\ \E c : /\ Lists(c, Len(s), DOMAIN values)
                     /\ \A k \in 1..Len(s) : s[k] = values[c[k]]
<1> DEFINE D == {i \in 1..Len(window) : window[i].time >= clock - WindowSize}
<1>1. D = DOMAIN values /\ \A i \in D : values[i] = LatencyUs(window[i].event)
  <2>1. DOMAIN window = 1..Len(window)
    BY DEF TelemetryTypeOK
  <2>2. QED
    BY <2>1 DEF RecentLatencies
<1>2. PICK r : r = Snapshot
  OBVIOUS
<1>3. PICK n, b : /\ r \in Seq(Int) /\ n = Len(r) /\ Lists(b, n, D)
                  /\ \A k \in 1..n : r[k] = LatencyUs(window[b[k]].event)
  <2> HIDE DEF D
  <2>1. HasFresh(r, window, clock - WindowSize, Len(window))
    BY <1>2, SnapshotFacts
  <2>2. QED
    BY <2>1 DEF HasFresh, D
<1>4. s = SortedValues(r)
  BY <1>2 DEF Recent
<1>5. PICK at : /\ s \in Seq(Int) /\ Len(s) = n
                /\ \A i, j \in DOMAIN s : i <= j => s[i] <= s[j]
                /\ Lists(at, n, 1..n) /\ \A k \in 1..n : s[k] = r[at[k]]
  <2>1. r \in Seq(Int) /\ n = Len(r)
    BY <1>3
  <2>2. /\ s \in Seq(Int) /\ Len(s) = n
        /\ \A i, j \in DOMAIN s : i <= j => s[i] <= s[j]
        /\ \E at : Lists(at, n, 1..n) /\ \A k \in 1..n : s[k] = r[at[k]]
    BY <1>4, <2>1, SortedFacts
  <2>3. QED
    BY <2>2
<1>6. PICK c : c = [k \in 1..n |-> b[at[k]]]
  OBVIOUS
<1> HIDE DEF D
<1>7. \A k \in 1..n : at[k] \in 1..n /\ c[k] = b[at[k]] /\ c[k] \in D
  BY <1>3, <1>5, <1>6 DEF Lists
<1>8. Lists(c, n, D)
  <2>1. c \in [1..n -> D]
    BY <1>6, <1>7
  <2>2. ASSUME NEW i \in 1..n, NEW j \in 1..n, c[i] = c[j]
        PROVE  i = j
    <3>1. at[i] \in 1..n /\ at[j] \in 1..n /\ b[at[i]] = b[at[j]]
      BY <1>7, <2>2
    <3>2. at[i] = at[j]
      BY <1>3, <3>1 DEF Lists
    <3>3. QED
      BY <1>5, <3>2 DEF Lists
  <2>3. ASSUME NEW x \in D
        PROVE  \E i \in 1..n : c[i] = x
    <3>1. PICK j \in 1..n : b[j] = x
      BY <1>3 DEF Lists
    <3>2. PICK i \in 1..n : at[i] = j
      BY <1>5, <3>1 DEF Lists
    <3>3. QED
      BY <1>7, <3>1, <3>2
  <2>4. QED
    BY <2>1, <2>2, <2>3 DEF Lists
<1>9. ASSUME NEW k \in 1..n
      PROVE  s[k] = values[c[k]]
  <2>1. PICK j \in 1..n : j = at[k] /\ c[k] = b[j] /\ c[k] \in D
    BY <1>7
  <2>2. s[k] = r[j] /\ r[j] = LatencyUs(window[b[j]].event)
    BY <1>3, <1>5, <2>1
  <2>3. values[c[k]] = LatencyUs(window[c[k]].event)
    BY <1>1, <2>1
  <2>4. QED
    BY <2>1, <2>2, <2>3
<1>10. QED
  BY <1>1, <1>5, <1>8, <1>9

-----------------------------------------------------------------------------
(* The percentiles of a list are those of what it lists *)

\* A list has as many places for A as A has elements.
LEMMA SameCount ==
    ASSUME NEW n \in Nat, NEW D, NEW b, Lists(b, n, D), NEW A \in SUBSET D
    PROVE  Cardinality({k \in 1..n : b[k] \in A}) = Cardinality(A)
<1> DEFINE K == {k \in 1..n : b[k] \in A}
           c == [k \in K |-> b[k]]
<1>1. c \in Bijection(K, A)
  <2>1. c \in [K -> A]
    OBVIOUS
  <2>2. \A i, j \in K : c[i] = c[j] => i = j
    BY DEF Lists
  <2>3. \A x \in A : \E k \in K : c[k] = x
    BY DEF Lists
  <2> HIDE DEF c, K
  <2>4. QED
    BY <2>1, <2>2, <2>3 DEF Bijection, Injection, Surjection, IsInjective
<1>2. IsFiniteSet(K)
  <2>1. IsFiniteSet(1..n) /\ K \in SUBSET (1..n)
    BY FS_Interval
  <2>2. QED
    BY <2>1, FS_Subset
<1> HIDE DEF K, c
<1>3. ExistsBijection(K, A)
  BY <1>1 DEF ExistsBijection
<1>4. Cardinality(K) = Cardinality(A)
  BY <1>2, <1>3, FS_Bijection
<1>5. QED
  BY <1>4 DEF K

\* So what p percent of the one do not exceed, p percent of the other do not.
LEMMA SamePercentile ==
    ASSUME NEW s \in Seq(Int), NEW n, n = Len(s), NEW values, NEW D, D = DOMAIN values,
           NEW b, Lists(b, n, D), \A k \in 1..n : s[k] = values[b[k]],
           NEW v, NEW p, IsPercentile(v, s, p)
    PROVE  IsPercentile(v, values, p)
<1> DEFINE InList(w) == {k \in DOMAIN s : s[k] <= w}
           InSet(w) == {x \in DOMAIN values : values[x] <= w}
<1>1. n \in Nat /\ DOMAIN s = 1..n
  OBVIOUS
<1>2. ASSUME NEW w
      PROVE  Cardinality(InList(w)) = Cardinality(InSet(w))
  <2>1. PICK A \in SUBSET D : A = InSet(w)
    OBVIOUS
  <2>2. \A k \in 1..n : b[k] \in D
    BY DEF Lists
  <2>3. InList(w) = {k \in 1..n : b[k] \in A}
    BY <1>1, <2>1, <2>2
  <2> HIDE DEF InList, InSet
  <2>4. QED
    BY <1>1, <2>1, <2>3, SameCount
<1>3. Cardinality(DOMAIN s) = Cardinality(DOMAIN values)
  <2>1. {k \in 1..n : b[k] \in D} = DOMAIN s
    BY <1>1 DEF Lists
  <2>2. Cardinality({k \in 1..n : b[k] \in D}) = Cardinality(D)
    BY <1>1, SameCount
  <2>3. QED
    BY <2>1, <2>2
<1>4. Range(s) = Range(values)
  <2>1. ASSUME NEW k \in 1..n
        PROVE  \E x \in D : values[x] = s[k]
    BY DEF Lists
  <2>2. ASSUME NEW x \in D
        PROVE  \E k \in 1..n : s[k] = values[x]
    BY DEF Lists
  <2>3. \A y : y \in Range(s) <=> \E k \in 1..n : y = s[k]
    BY <1>1 DEF Range
  <2>4. \A y : y \in Range(values) <=> \E x \in D : y = values[x]
    BY DEF Range
  <2>5. \A y : y \in Range(s) <=> y \in Range(values)
    BY <2>1, <2>2, <2>3, <2>4
  <2>6. QED
    BY <2>5
<1>5. /\ v \in Range(s)
      /\ 100 * Cardinality(InList(v)) >= p * Cardinality(DOMAIN s)
      /\ \A w \in Range(s) : w < v => 100 * Cardinality(InList(w)) < p * Cardinality(DOMAIN s)
  BY DEF IsPercentile
<1>6. /\ v \in Range(values)
      /\ 100 * Cardinality(InSet(v)) >= p * Cardinality(DOMAIN values)
      /\ \A w \in Range(values) :
            w < v => 100 * Cardinality(InSet(w)) < p * Cardinality(DOMAIN values)
  <2> HIDE DEF InList, InSet
  <2>1. QED
    BY <1>2, <1>3, <1>4, <1>5, Zenon
<1>7. QED
  BY <1>6 DEF IsPercentile

\* The percentiles and the peak the ticker publishes are exact.
LEMMA MetricsFollow == TelemetryInv => MetricsAreExact
<1> SUFFICES ASSUME TelemetryInv
             PROVE  MetricsAreExact
  OBVIOUS
<1>1. PICK s, values : s = Recent /\ values = RecentLatencies
  OBVIOUS
<1>2. PICK c : /\ s \in Seq(Int)
               /\ \A i, j \in DOMAIN s : i <= j => s[i] <= s[j]
               /\ Lists(c, Len(s), DOMAIN values)
               /\ \A k \in 1..Len(s) : s[k] = values[c[k]]
  BY <1>1, RecentFacts DEF TelemetryInv
<1>3. Len(s) \in Nat
  BY <1>2
<1>4. ASSUME NEW p \in {50, 90, 99}
      PROVE  IF DOMAIN values = {} THEN percentileAt(s, p) = 0
             ELSE IsPercentile(percentileAt(s, p), values, p)
  <2>1. CASE DOMAIN values = {}
    <3>1. Len(s) = 0
      <4>1. ASSUME Len(s) # 0
            PROVE  FALSE
        <5>1. 1 \in 1..Len(s)
          BY <1>3, <4>1
        <5>2. QED
          BY <1>2, <2>1, <5>1 DEF Lists
      <4>2. QED
        BY <4>1
    <3>2. QED
      BY <2>1, <3>1 DEF percentileAt
  <2>2. CASE DOMAIN values # {}
    <3>1. PICK x \in DOMAIN values : TRUE
      BY <2>2
    <3>2. \E i \in 1..Len(s) : c[i] = x
      BY <1>2, <3>1 DEF Lists
    <3>3. s # <<>>
      BY <3>2
    <3>4. p \in 1..100
      OBVIOUS
    <3>5. PICK v : v = percentileAt(s, p)
      OBVIOUS
    <3>6. IsPercentile(v, s, p)
      <4>1. s \in Seq(Int) /\ \A i, j \in DOMAIN s : i <= j => s[i] <= s[j]
        BY <1>2
      <4>2. IsPercentile(percentileAt(s, p), s, p)
        BY <3>3, <3>4, <4>1, NearestRank
      <4>3. QED
        BY <3>5, <4>2
    <3>7. IsPercentile(v, values, p)
      BY <1>2, <3>6, SamePercentile
    <3>8. QED
      BY <2>2, <3>5, <3>7
  <2>3. QED
    BY <2>1, <2>2
<1>5. PeakIsExact
  BY PeakFollows
<1>6. QED
  BY <1>1, <1>4, <1>5 DEF MetricsAreExact

\* Whenever the ticker fires, the percentiles it publishes are the nearest-rank
\* percentiles of the latencies of the last seconds, however many samples the window
\* has and however they are sorted, and the peak is that of the busiest second.
THEOREM MetricsAlwaysExact == TelemetrySpec => []MetricsAreExact
BY MetricsFollow, IngesterSafe, PTL
=============================================================================
