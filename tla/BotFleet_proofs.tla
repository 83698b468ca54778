----------------------------- MODULE BotFleet_proofs -----------------------------
(***************************************************************************)
(* Proofs about BotFleet for every set of calls, stops and runs, every     *)
(* size of a fleet and every choice of names; and, after them, proofs      *)
(* about Scheduler, the other half of the bot fleet manager, for every     *)
(* list of nodes and every fleet size.  The two share no state.            *)
(***************************************************************************)
EXTENDS BotFleet, Scheduler, FiniteSetTheorems, SequenceTheorems, TLAPS

-----------------------------------------------------------------------------
(* The inductive invariant *)

CallSteps == {"idle", "create", "starting", "deploy", "record", "ready", "release",
              "delete", "give up", "done"}
Results == {"none", "READY", "FAILED", "TIMEOUT"}
Call == [pc : CallSteps, run : Runs \cup {None}, deployed : Nat, todo : SUBSET PodNames,
         result : Results]
Stop == [pc : {"idle", "sigterm", "kill", "done"}, run : Runs \cup {None},
         todo : SUBSET PodNames, result : {"ok", "error"}]

Types ==
    /\ call \in [Handlers -> Call]
    /\ gone \subseteq Handlers
    /\ stop \in [Stoppers -> Stop]
    /\ records \in [Runs -> Fleet \cup {None}]
    /\ pods \in [PodNames -> Pod \cup {None}]
    /\ alone \subseteq Handlers
    /\ quiet \subseteq Stoppers

\* What a call may look like at each of its steps.
CallMakesSense(h) ==
    /\ call[h].pc = "idle" <=> call[h].run = None
    /\ call[h].run # None => call[h].deployed <= FleetSize[call[h].run]
    /\ call[h].pc = "record" => call[h].deployed < FleetSize[call[h].run]
    /\ call[h].pc = "ready" => call[h].deployed = FleetSize[call[h].run]
    /\ call[h].pc \in {"idle", "create", "starting"} => call[h].deployed = 0
    /\ call[h].pc \in {"release", "delete", "give up"} => call[h].result \in {"FAILED", "TIMEOUT"}
    /\ call[h].todo # {} => call[h].pc = "delete"
    /\ \A p \in call[h].todo : p[1] = Prefix[call[h].run]

StopMakesSense(s) ==
    /\ stop[s].pc = "idle" <=> stop[s].run = None
    /\ stop[s].todo # {} => stop[s].pc \in {"sigterm", "kill"}
    /\ \A p \in stop[s].todo : p[1] = Prefix[stop[s].run]

\* Records and pods are named after their runs.
NamesMakeSense ==
    /\ \A p \in PodNames : pods[p] # None => p \in NamesOf(pods[p].run)
    /\ \A r \in Runs : records[r] # None => ToSet(records[r].podNames) \subseteq NamesOf(r)

\* A call that is alone is.
AloneIsAlone ==
    \A h \in alone : Active(h) =>
        \A g \in Handlers \ {h} : Active(g) => call[g].run # call[h].run

Recording(h) == call[h].pc \in {"starting", "deploy", "record", "ready", "release"}

Recorded(h) == ToSet(records[call[h].run].podNames)

\* Its record names the pods it has deployed so far, and was not lost.
RecordIsOwn(h) ==
    Recording(h) =>
        /\ records[call[h].run] # None
        /\ \A i \in 1..call[h].deployed : PodName(call[h].run, i) \in Recorded(h)
        /\ call[h].pc = "starting" => Recorded(h) = {}

\* The pods it has left behind are those it still knows of, or those whose Create or
\* Delete failed.
Left(h) == {p \in PodNames : pods[p] # None /\ pods[p].by = h /\ ~pods[p].leaving}

Accounted(h) == h \notin gone \/ call[h].result = "TIMEOUT"

LeftIsKnown(h) ==
    /\ call[h].pc \in {"idle", "create", "starting"} => Left(h) = {}
    /\ call[h].pc \in {"deploy", "ready"} => Left(h) \subseteq Recorded(h)
    /\ call[h].pc = "record" => Left(h) \subseteq Recorded(h) \cup {NextPod(h)}
    /\ call[h].pc = "release" /\ Accounted(h) =>
           \A p \in Left(h) : pods[p].orphan \/ p \in Recorded(h)
    /\ call[h].pc = "delete" /\ Accounted(h) =>
           \A p \in Left(h) : pods[p].orphan \/ p \in call[h].todo
    /\ \/ call[h].pc = "give up"
       \/ call[h].pc = "done" /\ call[h].result \in {"FAILED", "TIMEOUT"}
       => (Accounted(h) => \A p \in Left(h) : pods[p].orphan)

\* Names are a run's own as long as no run whose id begins alike is stopped or has two
\* calls at a time.
Undisturbed(r) == StopsLike(r) = {} /\ CallsLike(r) \subseteq alone

\* What such a call knows of is there, and its own.
KnownIsLeft(h) ==
    call[h].run # None /\ Undisturbed(call[h].run) =>
        /\ Recording(h) => Recorded(h) \subseteq Left(h)
        /\ call[h].pc = "record" => NextPod(h) \in Left(h)
        /\ call[h].pc = "ready" => \A p \in NamesOf(call[h].run) : p \in Left(h) /\ pods[p].ready
        /\ call[h].todo \subseteq Left(h)
        /\ call[h].pc = "done" /\ call[h].result = "READY" =>
               \A p \in NamesOf(call[h].run) : p \in Left(h) /\ pods[p].ready

\* The store knows nothing of a run nobody has asked for, and of one that a single
\* call was for it knows how far that has got.
Sole(h) == call[h].run # None /\ \A g \in Handlers \ {h} : call[g].run # call[h].run

PhaseIsTold(h) ==
    Sole(h) /\ records[call[h].run] # None =>
        /\ call[h].pc # "create"
        /\ call[h].pc = "give up" /\ call[h].result = "TIMEOUT" =>
               records[call[h].run].phase = "TERMINATED"
        /\ call[h].pc = "done" =>
               records[call[h].run].phase =
                   IF call[h].result = "TIMEOUT" THEN "TERMINATED" ELSE call[h].result

UnaskedIsUnknown ==
    \A r \in Runs : records[r] # None => \E h \in Handlers : call[h].run = r

\* A stop that no call for its run has disturbed has got rid of every pod, or still
\* knows of it.
StopKnows(s) ==
    /\ stop[s].pc # "idle"
    /\ \A h \in Handlers : Active(h) => call[h].run # stop[s].run
    /\ stop[s].pc = "done" /\ stop[s].result = "ok" => PodsOf(stop[s].run) = {}
    /\ stop[s].pc = "kill" /\ stop[s].result = "ok" => PodsOf(stop[s].run) \subseteq stop[s].todo

SafetyInv ==
    /\ Types
    /\ \A h \in Handlers : CallMakesSense(h)
    /\ \A s \in Stoppers : StopMakesSense(s)
    /\ NamesMakeSense
    /\ AloneIsAlone /\ UnaskedIsUnknown
    /\ \A h \in alone : RecordIsOwn(h) /\ LeftIsKnown(h) /\ KnownIsLeft(h)
    /\ \A h \in Handlers : PhaseIsTold(h)
    /\ \A s \in quiet : StopKnows(s)

-----------------------------------------------------------------------------
(* A step of a call, seen by everybody else *)

\* What such a step may do to a pod: create it, let it go, or know that a Delete failed.
PodMoves(h, p) ==
    \/ pods'[p] = pods[p]
    \/ /\ pods[p] = None
       /\ pods'[p] \in Pod /\ pods'[p].run = call[h].run /\ pods'[p].by = h
       /\ p \in NamesOf(call[h].run)
    \/ /\ pods[p] # None /\ p \in call[h].todo
       /\ pods'[p] = [pods[p] EXCEPT !.leaving = TRUE, !.orphan = FALSE]
    \/ /\ pods[p] # None /\ pods[p].by = h
       /\ pods'[p] = [pods[p] EXCEPT !.orphan = TRUE]

\* It goes on with its own run, and changes no other record.
CallMoves(h) ==
    /\ Active(h)
    /\ \E c \in Call :
          /\ c.run = call[h].run /\ c.pc # "idle"
          /\ call' = [call EXCEPT ![h] = c]
    /\ records' \in [Runs -> Fleet \cup {None}]
    /\ \A r \in Runs : r # call[h].run => records'[r] = records[r]
    /\ pods' \in [PodNames -> Pod \cup {None}]
    /\ \A p \in PodNames : PodMoves(h, p)
    /\ UNCHANGED <<gone, stop, alone, quiet>>

\* None is nothing else.
LEMMA NoneFacts ==
    /\ None \notin Runs /\ None \notin Handlers /\ None \notin Pod /\ None \notin Fleet
    /\ FleetSize \in [Runs -> Nat]
BY BotFleetAssumption

\* Names of one run begin alike.
LEMMA NamesBegin ==
    ASSUME NEW r \in Runs, NEW p \in NamesOf(r)
    PROVE  p[1] = Prefix[r] /\ p \in PodNames
BY DEF NamesOf, PodName, PodNames

\* The call has a run; the other calls are where they were.
LEMMA CallMovesFacts ==
    ASSUME Types, NEW h \in Handlers, CallMakesSense(h), CallMoves(h)
    PROVE  /\ call' \in [Handlers -> Call]
           /\ call[h].run \in Runs /\ call'[h].run = call[h].run /\ call'[h].pc # "idle"
           /\ \A g \in Handlers \ {h} : call'[g] = call[g]
           /\ \A g \in Handlers : call'[g].run = call[g].run /\ (Active(g)' => Active(g))
<1>1. PICK c \in Call : c.run = call[h].run /\ c.pc # "idle" /\ call' = [call EXCEPT ![h] = c]
  BY DEF CallMoves
<1>2. call \in [Handlers -> Call]
  BY DEF Types
<1>3. call'[h] = c /\ \A g \in Handlers \ {h} : call'[g] = call[g]
  BY <1>1, <1>2
<1>4. call[h].run \in Runs
  BY <1>2 DEF Call, CallMoves, Active, CallMakesSense
<1>5. QED
  BY <1>1, <1>2, <1>3, <1>4 DEF CallMoves, Active

\* Pods of other calls stay as they are, but for those it deletes.
LEMMA LeftOfOthers ==
    ASSUME Types, NEW h \in Handlers, CallMoves(h), NEW g \in Handlers \ {h}
    PROVE  /\ \A p \in Left(g)' : p \in Left(g) /\ pods'[p] = pods[p]
           /\ \A p \in Left(g) \ call[h].todo : p \in Left(g)' /\ pods'[p] = pods[p]
<1>1. pods \in [PodNames -> Pod \cup {None}] /\ None \notin Pod
  BY NoneFacts DEF Types
<1>2. ASSUME NEW p \in PodNames, pods'[p] # None, pods'[p].by = g, ~pods'[p].leaving
      PROVE  pods'[p] = pods[p]
  BY <1>1, <1>2 DEF CallMoves, PodMoves, Pod
<1>3. ASSUME NEW p \in PodNames, pods[p] # None, pods[p].by = g, p \notin call[h].todo
      PROVE  pods'[p] = pods[p]
  BY <1>1, <1>3 DEF CallMoves, PodMoves, Pod
<1>4. QED
  BY <1>2, <1>3 DEF Left

\* No pod of another run appears.
LEMMA PodsOfOthers ==
    ASSUME Types, NEW h \in Handlers, CallMoves(h), NEW r, r # call[h].run
    PROVE  PodsOf(r)' \subseteq PodsOf(r)
<1>1. pods \in [PodNames -> Pod \cup {None}] /\ None \notin Pod
  BY NoneFacts DEF Types
<1>2. ASSUME NEW p \in PodNames, pods'[p] # None, pods'[p].run = r
      PROVE  pods[p] # None /\ pods[p].run = r
  BY <1>1, <1>2 DEF CallMoves, PodMoves, Pod
<1>3. QED
  BY <1>2 DEF PodsOf

\* Nobody deletes what is known to be another's.
LEMMA NotDeleted ==
    ASSUME SafetyInv, NEW h \in Handlers, NEW g \in alone, g # h,
           call[g].run # None, Undisturbed(call[g].run),
           NEW p \in Left(g), p[1] = Prefix[call[g].run]
    PROVE  p \notin call[h].todo
<1> SUFFICES ASSUME p \in call[h].todo
             PROVE  FALSE
  OBVIOUS
<1>1. Prefix[call[h].run] = Prefix[call[g].run] /\ call[h].run # None
  BY DEF SafetyInv, CallMakesSense
<1>2. h \in alone
  BY <1>1 DEF Undisturbed, CallsLike
<1>3. Undisturbed(call[h].run)
  BY <1>1 DEF Undisturbed, CallsLike, StopsLike
<1>4. p \in Left(h)
  BY <1>1, <1>2, <1>3 DEF SafetyInv, KnownIsLeft
<1>5. QED
  BY <1>4 DEF Left

\* What is true of the other calls and of the stops stays true.
LEMMA OthersKeep ==
    ASSUME SafetyInv, NEW h \in Handlers, CallMoves(h)
    PROVE  /\ \A g \in Handlers \ {h} : CallMakesSense(g)' /\ PhaseIsTold(g)'
           /\ \A g \in alone \ {h} : RecordIsOwn(g)' /\ LeftIsKnown(g)' /\ KnownIsLeft(g)'
           /\ \A s \in Stoppers : StopMakesSense(s)'
           /\ \A s \in quiet : StopKnows(s)'
           /\ AloneIsAlone' /\ UnaskedIsUnknown'
<1>1. Types /\ CallMakesSense(h) /\ alone \subseteq Handlers /\ quiet \subseteq Stoppers
  BY DEF SafetyInv, Types
<1>2. /\ call' \in [Handlers -> Call]
      /\ call[h].run \in Runs /\ call'[h].run = call[h].run /\ call'[h].pc # "idle"
      /\ \A g \in Handlers \ {h} : call'[g] = call[g]
      /\ \A g \in Handlers : call'[g].run = call[g].run /\ (Active(g)' => Active(g))
  BY <1>1, CallMovesFacts
<1>3. UNCHANGED <<gone, stop, alone, quiet>> /\ Active(h)
  BY DEF CallMoves
<1>4. \A r \in Runs : r # call[h].run => records'[r] = records[r]
  BY DEF CallMoves
<1>5. ASSUME NEW g \in Handlers \ {h}
      PROVE  CallMakesSense(g)'
  <2>1. CallMakesSense(g) /\ call'[g] = call[g]
    BY <1>2 DEF SafetyInv
  <2>2. QED
    BY <2>1 DEF CallMakesSense
<1>6. ASSUME NEW g \in Handlers \ {h}
      PROVE  PhaseIsTold(g)'
  <2>1. CASE Sole(g)
    <3>1. call[g].run \in Runs /\ call[g].run # call[h].run
      BY <1>1, <1>2, <2>1 DEF Sole, Types, Call
    <3>2. records'[call[g].run] = records[call[g].run]
      BY <1>4, <3>1
    <3>3. PhaseIsTold(g)
      BY DEF SafetyInv
    <3>4. QED
      BY <1>2, <2>1, <3>2, <3>3 DEF PhaseIsTold
  <2>2. CASE ~Sole(g)
    BY <1>2, <2>2 DEF PhaseIsTold, Sole
  <2>3. QED
    BY <2>1, <2>2
<1>7. ASSUME NEW g \in alone \ {h}
      PROVE  RecordIsOwn(g)' /\ LeftIsKnown(g)' /\ KnownIsLeft(g)'
  <2>1. g \in Handlers \ {h} /\ call'[g] = call[g]
    BY <1>1, <1>2
  <2>2. Active(g) => call[g].run \in Runs /\ call[g].run # call[h].run
    BY <1>1, <1>3, <2>1 DEF SafetyInv, AloneIsAlone, CallMakesSense, Types, Call, Active
  <2>3. Active(g) => records'[call[g].run] = records[call[g].run]
    BY <1>4, <2>2
  <2>4. Recording(g) => Active(g)
    BY DEF Recording, Active
  <2>5. Recording(g) => Recorded(g)' = Recorded(g)
    BY <2>1, <2>3, <2>4 DEF Recorded
  <2>6. RecordIsOwn(g) /\ LeftIsKnown(g) /\ KnownIsLeft(g)
    BY DEF SafetyInv
  <2>7. RecordIsOwn(g)'
    BY <2>1, <2>3, <2>4, <2>5, <2>6 DEF RecordIsOwn, Recording
  <2>8. \A p \in Left(g)' : p \in Left(g) /\ pods'[p] = pods[p]
    BY <1>1, <2>1, LeftOfOthers
  <2>9. LeftIsKnown(g)'
    <3>1. Accounted(g)' <=> Accounted(g)
      BY <1>3, <2>1 DEF Accounted
    <3>2. NextPod(g)' = NextPod(g)
      BY <2>1 DEF NextPod
    <3>3. QED
      BY <2>1, <2>5, <2>6, <2>8, <3>1, <3>2 DEF LeftIsKnown, Recording
  <2>10. KnownIsLeft(g)'
    <3> SUFFICES ASSUME call[g].run # None, Undisturbed(call[g].run)
                 PROVE  KnownIsLeft(g)'
      BY <1>2, <1>3, <2>1 DEF KnownIsLeft, Undisturbed, CallsLike, StopsLike
    <3>1. call[g].run \in Runs
      BY <1>1, <2>1 DEF Types, Call
    <3>2. ASSUME NEW p \in Left(g), p[1] = Prefix[call[g].run]
          PROVE  p \in Left(g)' /\ pods'[p] = pods[p]
      <4>1. p \notin call[h].todo
        BY <2>1, <3>2, NotDeleted
      <4>2. QED
        BY <1>1, <2>1, <4>1, LeftOfOthers
    <3>3. \A p \in NamesOf(call[g].run) : p[1] = Prefix[call[g].run]
      BY <3>1, NamesBegin
    <3>4. Recording(g) => Recorded(g) \subseteq NamesOf(call[g].run)
      BY <2>6, <3>1 DEF SafetyInv, NamesMakeSense, Recorded, RecordIsOwn
    <3>5. NextPod(g)[1] = Prefix[call[g].run] /\ NextPod(g)' = NextPod(g)
      BY <2>1 DEF NextPod, PodName
    <3>6. \A p \in call[g].todo : p[1] = Prefix[call[g].run]
      BY <2>1 DEF SafetyInv, CallMakesSense
    <3>7. NamesOf(call[g].run)' = NamesOf(call[g].run)
      BY <2>1 DEF NamesOf, PodName
    <3>8. QED
      BY <2>1, <2>5, <2>6, <3>2, <3>3, <3>4, <3>5, <3>6, <3>7 DEF KnownIsLeft, Recording
  <2>11. QED
    BY <2>7, <2>9, <2>10
<1>8. \A s \in Stoppers : StopMakesSense(s)'
  BY <1>3 DEF SafetyInv, StopMakesSense
<1>9. ASSUME NEW s \in quiet
      PROVE  StopKnows(s)'
  <2>1. PICK r : r = stop[s].run
    OBVIOUS
  <2>2. call[h].run # r /\ StopKnows(s)
    BY <1>3, <2>1 DEF SafetyInv, StopKnows
  <2>3. PodsOf(r)' \subseteq PodsOf(r)
    BY <1>1, <2>2, PodsOfOthers
  <2>4. stop'[s] = stop[s] /\ PodsOf(stop[s].run) = PodsOf(r) /\ PodsOf(stop[s].run)' = PodsOf(r)'
    BY <1>3, <2>1 DEF PodsOf
  <2>5. QED
    BY <1>2, <2>2, <2>3, <2>4 DEF StopKnows
<1>10. AloneIsAlone'
  BY <1>1, <1>2, <1>3 DEF SafetyInv, AloneIsAlone
<1>11. UnaskedIsUnknown'
  BY <1>2, <1>4 DEF SafetyInv, UnaskedIsUnknown
<1>12. QED
  BY <1>5, <1>6, <1>7, <1>8, <1>9, <1>10, <1>11

-----------------------------------------------------------------------------
(* A step of a call, seen by itself *)

\* What is left to show of it.
OwnSafe(h) ==
    /\ CallMakesSense(h) /\ PhaseIsTold(h)
    /\ records[call[h].run] # None =>
           ToSet(records[call[h].run].podNames) \subseteq NamesOf(call[h].run)
    /\ h \in alone => RecordIsOwn(h) /\ LeftIsKnown(h) /\ KnownIsLeft(h)

\* With that, the whole invariant holds after a step of the call.
LEMMA MovesStep ==
    ASSUME SafetyInv, NEW h \in Handlers, CallMoves(h), OwnSafe(h)'
    PROVE  SafetyInv'
<1>1. Types /\ CallMakesSense(h)
  BY DEF SafetyInv
<1>2. /\ call' \in [Handlers -> Call]
      /\ call[h].run \in Runs /\ call'[h].run = call[h].run
  BY <1>1, CallMovesFacts
<1>3. Types'
  BY <1>1, <1>2 DEF Types, CallMoves
<1>4. NamesMakeSense'
  <2>1. \A p \in PodNames : pods'[p] # None => p \in NamesOf(pods'[p].run)
    <3>1. ASSUME NEW p \in PodNames, pods'[p] # None
          PROVE  p \in NamesOf(pods'[p].run)
      <4>1. pods[p] \in Pod \cup {None} /\ (pods[p] # None => p \in NamesOf(pods[p].run))
        BY <1>1 DEF Types, SafetyInv, NamesMakeSense
      <4>2. CASE pods[p] = None
        BY <3>1, <4>2 DEF CallMoves, PodMoves
      <4>3. CASE pods[p] # None
        <5>1. pods'[p].run = pods[p].run
          BY <4>1, <4>3 DEF CallMoves, PodMoves, Pod
        <5>2. QED
          BY <4>1, <4>3, <5>1
      <4>4. QED
        BY <4>2, <4>3
    <3>2. QED
      BY <3>1
  <2>2. \A r \in Runs : records'[r] # None => ToSet(records'[r].podNames) \subseteq NamesOf(r)
    BY <1>2 DEF CallMoves, OwnSafe, SafetyInv, NamesMakeSense, NamesOf, PodName
  <2>3. QED
    BY <2>1, <2>2 DEF NamesMakeSense, NamesOf, PodName
<1>5. /\ \A g \in Handlers : CallMakesSense(g)' /\ PhaseIsTold(g)'
      /\ \A g \in alone : RecordIsOwn(g)' /\ LeftIsKnown(g)' /\ KnownIsLeft(g)'
      /\ alone' = alone /\ quiet' = quiet
  BY OthersKeep DEF OwnSafe, CallMoves
<1>6. QED
  BY <1>3, <1>4, <1>5, OthersKeep DEF SafetyInv

\* A phase is written over the last one; a run without a record stays without.
LEMMA PhaseWritten ==
    ASSUME Types, NEW r \in Runs, NEW phase \in Phases, UpdatePhase(r, phase)
    PROVE  /\ records' \in [Runs -> Fleet \cup {None}]
           /\ \A q \in Runs : q # r => records'[q] = records[q]
           /\ records'[r] # None <=> records[r] # None
           /\ records[r] # None => /\ records'[r].phase = phase
                                   /\ records'[r].podNames = records[r].podNames
<1>1. records \in [Runs -> Fleet \cup {None}] /\ None \notin Fleet
  BY NoneFacts DEF Types
<1>2. CASE records[r] = None
  BY <1>1, <1>2 DEF UpdatePhase
<1>3. CASE records[r] # None
  <2>1. PICK f : f = [records[r] EXCEPT !.phase = phase]
    OBVIOUS
  <2>2. f \in Fleet /\ f.phase = phase /\ f.podNames = records[r].podNames
    BY <1>1, <1>3, <2>1 DEF Fleet
  <2>3. records' = [records EXCEPT ![r] = f]
    BY <1>3, <2>1 DEF UpdatePhase
  <2>4. QED
    BY <1>1, <1>3, <2>2, <2>3
<1>4. QED
  BY <1>2, <1>3

\* The runs of the calls, and so what is asked of others, stay the same.
LEMMA OwnView ==
    ASSUME SafetyInv, NEW h \in Handlers, CallMoves(h)
    PROVE  /\ call[h] \in Call /\ call[h].run \in Runs /\ call'[h].run = call[h].run
           /\ Undisturbed(call[h].run)' <=> Undisturbed(call[h].run)
           /\ Sole(h)' <=> Sole(h)
           /\ NamesOf(call[h].run)' = NamesOf(call[h].run)
           /\ UNCHANGED <<gone, alone>>
<1>1. Types /\ CallMakesSense(h)
  BY DEF SafetyInv
<1>2. /\ call[h].run \in Runs /\ call'[h].run = call[h].run
      /\ \A g \in Handlers : call'[g].run = call[g].run
  BY <1>1, CallMovesFacts
<1>3. UNCHANGED <<gone, stop, alone>>
  BY DEF CallMoves
<1>4. call[h] \in Call
  BY <1>1 DEF Types
<1>5. Undisturbed(call[h].run)' <=> Undisturbed(call[h].run)
  BY <1>2, <1>3 DEF Undisturbed, CallsLike, StopsLike
<1>6. Sole(h)' <=> Sole(h)
  BY <1>2 DEF Sole
<1>7. NamesOf(call[h].run)' = NamesOf(call[h].run)
  BY <1>2 DEF NamesOf, PodName
<1>8. QED
  BY <1>2, <1>3, <1>4, <1>5, <1>6, <1>7

\* A step of the call that leaves the pods alone.
LEMMA StillMoves ==
    ASSUME SafetyInv, NEW h \in Handlers, Active(h),
           NEW c \in Call, c.run = call[h].run, c.pc # "idle", Becomes(h, c),
           records' \in [Runs -> Fleet \cup {None}],
           \A q \in Runs : q # call[h].run => records'[q] = records[q],
           UNCHANGED <<gone, stop, pods, history>>
    PROVE  /\ CallMoves(h) /\ call'[h] = c
           /\ Left(h)' = Left(h) /\ pods' = pods
<1>1. Types
  BY DEF SafetyInv
<1>2. call' = [call EXCEPT ![h] = c] /\ call'[h] = c
  BY <1>1 DEF Becomes, Types
<1>3. pods' = pods /\ pods \in [PodNames -> Pod \cup {None}]
  BY <1>1 DEF Types
<1>4. \A p \in PodNames : PodMoves(h, p)
  BY <1>3 DEF PodMoves
<1>5. CallMoves(h)
  BY <1>2, <1>3, <1>4 DEF CallMoves, history
<1>6. Left(h)' = Left(h)
  BY <1>3 DEF Left
<1>7. QED
  BY <1>2, <1>3, <1>5, <1>6

\* The record is created.
LEMMA CreateRecordStep ==
    ASSUME SafetyInv, NEW h \in Handlers, CreateRecord(h)
    PROVE  SafetyInv'
<1>1. PICK c : c = [call[h] EXCEPT !.pc = "starting"]
  OBVIOUS
<1>2. Types /\ CallMakesSense(h) /\ call[h] \in Call /\ At(h, "create") /\ Active(h)
  BY DEF SafetyInv, Types, CreateRecord, At, Active
<1>3. /\ c \in Call /\ c.pc = "starting" /\ c.run = call[h].run /\ c.deployed = call[h].deployed
      /\ c.todo = call[h].todo /\ c.result = call[h].result
  BY <1>1, <1>2 DEF Call, CallSteps
<1>4. PICK f : f = [phase |-> "SCHEDULING", podNames |-> <<>>]
  OBVIOUS
<1>5. f \in Fleet /\ ToSet(f.podNames) = {}
  BY <1>4 DEF Fleet, Phases, ToSet
<1>6. call[h].run \in Runs
  BY <1>2 DEF CallMakesSense, Call, At
<1>7. /\ records' \in [Runs -> Fleet \cup {None}] /\ records'[call[h].run] = f
      /\ \A q \in Runs : q # call[h].run => records'[q] = records[q]
  BY <1>2, <1>4, <1>5, <1>6 DEF CreateRecord, Types
<1>8. CallMoves(h) /\ call'[h] = c /\ Left(h)' = Left(h)
  BY <1>1, <1>2, <1>3, <1>7, StillMoves DEF CreateRecord, Goto
<1>9. f # None
  BY <1>5, NoneFacts
<1>10. ToSet(records'[call'[h].run].podNames) = {}
  BY <1>3, <1>5, <1>7, <1>8
<1>11. CallMakesSense(h)' /\ PhaseIsTold(h)'
  BY <1>2, <1>3, <1>6, <1>8 DEF CallMakesSense, PhaseIsTold, At
<1>12. h \in alone => RecordIsOwn(h)' /\ LeftIsKnown(h)' /\ KnownIsLeft(h)'
  <2> SUFFICES ASSUME h \in alone
               PROVE  RecordIsOwn(h)' /\ LeftIsKnown(h)' /\ KnownIsLeft(h)'
    OBVIOUS
  <2>1. LeftIsKnown(h)
    BY DEF SafetyInv
  <2>2. c.deployed = 0 /\ c.todo = {}
    BY <1>2, <1>3 DEF CallMakesSense, At
  <2>3. RecordIsOwn(h)'
    BY <1>3, <1>7, <1>8, <1>9, <1>10, <2>2 DEF RecordIsOwn, Recorded
  <2>4. LeftIsKnown(h)'
    BY <1>2, <1>3, <1>8, <2>1 DEF LeftIsKnown, At
  <2>5. KnownIsLeft(h)'
    BY <1>3, <1>8, <1>10, <2>2 DEF KnownIsLeft, Recorded
  <2>6. QED
    BY <2>3, <2>4, <2>5
<1>13. OwnSafe(h)'
  <2>1. alone' = alone
    BY <1>8, OwnView
  <2>2. QED
    BY <1>10, <1>11, <1>12, <2>1 DEF OwnSafe
<1>14. QED
  BY <1>8, <1>13, MovesStep

\* A step of the call that writes the phase of its record, if it still has one.
LEMMA PhaseMoves ==
    ASSUME SafetyInv, NEW h \in Handlers, Active(h),
           NEW c \in Call, c.run = call[h].run, c.pc # "idle", Becomes(h, c),
           NEW phase \in Phases, UpdatePhase(call[h].run, phase),
           UNCHANGED <<gone, stop, pods, history>>
    PROVE  /\ CallMoves(h) /\ call'[h] = c
           /\ Left(h)' = Left(h) /\ pods' = pods
           /\ records[call[h].run] # None <=> records'[call[h].run] # None
           /\ records[call[h].run] # None =>
                  /\ records'[call[h].run].phase = phase
                  /\ Recorded(h)' = Recorded(h) /\ Recorded(h) \subseteq NamesOf(call[h].run)
           /\ h \in alone /\ Recording(h) => records[call[h].run] # None
<1>1. Types /\ call[h].run \in Runs
  BY DEF SafetyInv, CallMakesSense, Types, Call, Active
<1>2. /\ records' \in [Runs -> Fleet \cup {None}]
      /\ \A q \in Runs : q # call[h].run => records'[q] = records[q]
      /\ records'[call[h].run] # None <=> records[call[h].run] # None
      /\ records[call[h].run] # None =>
             /\ records'[call[h].run].phase = phase
             /\ records'[call[h].run].podNames = records[call[h].run].podNames
  BY <1>1, PhaseWritten
<1>3. CallMoves(h) /\ call'[h] = c /\ Left(h)' = Left(h) /\ pods' = pods
  BY <1>2, StillMoves
<1>4. records[call[h].run] # None => Recorded(h)' = Recorded(h)
  BY <1>2, <1>3 DEF Recorded
<1>5. records[call[h].run] # None => Recorded(h) \subseteq NamesOf(call[h].run)
  BY <1>1 DEF SafetyInv, NamesMakeSense, Recorded
<1>6. h \in alone /\ Recording(h) => records[call[h].run] # None
  BY DEF SafetyInv, RecordIsOwn
<1>7. QED
  BY <1>2, <1>3, <1>4, <1>5, <1>6

\* What is to be shown after it.
LEMMA PhaseStep ==
    ASSUME SafetyInv, NEW h \in Handlers, CallMoves(h),
           records[call[h].run] # None <=> records'[call[h].run] # None,
           records[call[h].run] # None =>
               Recorded(h)' = Recorded(h) /\ Recorded(h) \subseteq NamesOf(call[h].run),
           CallMakesSense(h)', PhaseIsTold(h)',
           h \in alone => RecordIsOwn(h)' /\ LeftIsKnown(h)' /\ KnownIsLeft(h)'
    PROVE  SafetyInv'
<1>1. /\ call[h].run \in Runs /\ call'[h].run = call[h].run
      /\ NamesOf(call[h].run)' = NamesOf(call[h].run)
      /\ UNCHANGED <<gone, alone>>
  BY OwnView
<1>2. OwnSafe(h)'
  BY <1>1 DEF OwnSafe, Recorded
<1>3. QED
  BY <1>2, MovesStep

\* The fleet starts.
LEMMA SetStartingStep ==
    ASSUME SafetyInv, NEW h \in Handlers, SetStarting(h)
    PROVE  SafetyInv'
<1>1. PICK c : c = [call[h] EXCEPT !.pc = "deploy"]
  OBVIOUS
<1>2. Types /\ CallMakesSense(h) /\ call[h] \in Call /\ At(h, "starting") /\ Active(h)
  BY DEF SafetyInv, Types, SetStarting, At, Active
<1>3. /\ c \in Call /\ c.pc = "deploy" /\ c.run = call[h].run /\ c.deployed = call[h].deployed
      /\ c.todo = call[h].todo /\ c.result = call[h].result
  BY <1>1, <1>2 DEF Call, CallSteps
<1>4. "STARTING" \in Phases
  BY DEF Phases
<1>5. /\ CallMoves(h) /\ call'[h] = c
      /\ Left(h)' = Left(h) /\ pods' = pods
      /\ records[call[h].run] # None <=> records'[call[h].run] # None
      /\ records[call[h].run] # None =>
             Recorded(h)' = Recorded(h) /\ Recorded(h) \subseteq NamesOf(call[h].run)
      /\ h \in alone /\ Recording(h) => records[call[h].run] # None
  BY <1>1, <1>2, <1>3, <1>4, PhaseMoves DEF SetStarting, Goto
<1>6. CallMakesSense(h)' /\ PhaseIsTold(h)'
  BY <1>2, <1>3, <1>5 DEF CallMakesSense, PhaseIsTold, At
<1>7. h \in alone => RecordIsOwn(h)' /\ LeftIsKnown(h)' /\ KnownIsLeft(h)'
  <2> SUFFICES ASSUME h \in alone
               PROVE  RecordIsOwn(h)' /\ LeftIsKnown(h)' /\ KnownIsLeft(h)'
    OBVIOUS
  <2>1. RecordIsOwn(h) /\ LeftIsKnown(h)
    BY DEF SafetyInv
  <2>2. c.deployed = 0 /\ c.todo = {}
    BY <1>2, <1>3 DEF CallMakesSense, At
  <2>3. Left(h) = {} /\ Recorded(h) = {} /\ records[call[h].run] # None
    BY <1>2, <2>1 DEF LeftIsKnown, RecordIsOwn, Recording, At
  <2>4. RecordIsOwn(h)'
    BY <1>3, <1>5, <2>2, <2>3 DEF RecordIsOwn
  <2>5. LeftIsKnown(h)'
    BY <1>3, <1>5, <2>3 DEF LeftIsKnown
  <2>6. KnownIsLeft(h)'
    BY <1>3, <1>5, <2>2, <2>3 DEF KnownIsLeft
  <2>7. QED
    BY <2>4, <2>5, <2>6
<1>8. QED
  BY <1>5, <1>6, <1>7, PhaseStep

\* The wait ends without a complete fleet.
LEMMA WaitTimesOutStep ==
    ASSUME SafetyInv, NEW h \in Handlers, WaitTimesOut(h)
    PROVE  SafetyInv'
<1>1. PICK c : c = [call[h] EXCEPT !.pc = "release", !.result = "TIMEOUT"]
  OBVIOUS
<1>2. Types /\ CallMakesSense(h) /\ call[h] \in Call /\ At(h, "deploy") /\ Active(h)
  BY DEF SafetyInv, Types, WaitTimesOut, At, Active
<1>3. /\ c \in Call /\ c.pc = "release" /\ c.run = call[h].run /\ c.deployed = call[h].deployed
      /\ c.todo = call[h].todo /\ c.result = "TIMEOUT"
  BY <1>1, <1>2 DEF Call, CallSteps, Results
<1>4. "TIMEOUT" \in Phases
  BY DEF Phases
<1>5. /\ CallMoves(h) /\ call'[h] = c
      /\ Left(h)' = Left(h) /\ pods' = pods
      /\ records[call[h].run] # None <=> records'[call[h].run] # None
      /\ records[call[h].run] # None =>
             Recorded(h)' = Recorded(h) /\ Recorded(h) \subseteq NamesOf(call[h].run)
      /\ h \in alone /\ Recording(h) => records[call[h].run] # None
  BY <1>1, <1>2, <1>3, <1>4, PhaseMoves DEF WaitTimesOut
<1>6. CallMakesSense(h)' /\ PhaseIsTold(h)'
  BY <1>2, <1>3, <1>5 DEF CallMakesSense, PhaseIsTold, At
<1>7. h \in alone => RecordIsOwn(h)' /\ LeftIsKnown(h)' /\ KnownIsLeft(h)'
  <2> SUFFICES ASSUME h \in alone
               PROVE  RecordIsOwn(h)' /\ LeftIsKnown(h)' /\ KnownIsLeft(h)'
    OBVIOUS
  <2>1. RecordIsOwn(h) /\ LeftIsKnown(h) /\ KnownIsLeft(h)
    BY DEF SafetyInv
  <2>2. Recording(h) /\ records[call[h].run] # None /\ c.todo = {}
    BY <1>2, <1>3, <1>5 DEF Recording, CallMakesSense, At
  <2>3. \A i \in 1..c.deployed : PodName(c.run, i)' \in Recorded(h)
    BY <1>3, <2>1, <2>2 DEF RecordIsOwn, PodName
  <2>4. RecordIsOwn(h)'
    BY <1>3, <1>5, <2>2, <2>3 DEF RecordIsOwn, PodName
  <2>5. LeftIsKnown(h)'
    BY <1>2, <1>3, <1>5, <2>1, <2>2 DEF LeftIsKnown, At
  <2>6. KnownIsLeft(h)'
    <3>1. Undisturbed(call[h].run)' <=> Undisturbed(call[h].run)
      BY <1>5, OwnView
    <3>2. QED
      BY <1>3, <1>5, <2>1, <2>2, <3>1 DEF KnownIsLeft
  <2>7. QED
    BY <2>4, <2>5, <2>6
<1>8. QED
  BY <1>5, <1>6, <1>7, PhaseStep

\* The fleet is reported READY.
LEMMA SetReadyStep ==
    ASSUME SafetyInv, NEW h \in Handlers, SetReady(h)
    PROVE  SafetyInv'
<1>1. PICK c : c = [call[h] EXCEPT !.pc = "done", !.result = "READY", !.deployed = 0]
  OBVIOUS
<1>2. Types /\ CallMakesSense(h) /\ call[h] \in Call /\ At(h, "ready") /\ Active(h)
  BY DEF SafetyInv, Types, SetReady, At, Active
<1>3. /\ c \in Call /\ c.pc = "done" /\ c.run = call[h].run /\ c.deployed = 0
      /\ c.todo = call[h].todo /\ c.result = "READY"
  BY <1>1, <1>2 DEF Call, CallSteps, Results
<1>4. "READY" \in Phases
  BY DEF Phases
<1>5. /\ CallMoves(h) /\ call'[h] = c
      /\ Left(h)' = Left(h) /\ pods' = pods
      /\ records[call[h].run] # None <=> records'[call[h].run] # None
      /\ records[call[h].run] # None =>
             /\ records'[call[h].run].phase = "READY"
             /\ Recorded(h)' = Recorded(h) /\ Recorded(h) \subseteq NamesOf(call[h].run)
  BY <1>1, <1>2, <1>3, <1>4, PhaseMoves DEF SetReady, Tell
<1>6. /\ call[h].run \in Runs
      /\ NamesOf(call[h].run)' = NamesOf(call[h].run)
      /\ Undisturbed(call[h].run)' <=> Undisturbed(call[h].run)
  BY <1>5, OwnView
<1>7. CallMakesSense(h)'
  <2>1. c.todo = {} /\ call[h].run # None
    BY <1>2, <1>3 DEF CallMakesSense, At
  <2>2. 0 <= FleetSize[call[h].run]
    BY <1>6, NoneFacts
  <2>3. QED
    BY <1>3, <1>5, <2>1, <2>2 DEF CallMakesSense
<1>8. PhaseIsTold(h)'
  BY <1>3, <1>5 DEF PhaseIsTold
<1>9. h \in alone => RecordIsOwn(h)' /\ LeftIsKnown(h)' /\ KnownIsLeft(h)'
  <2> SUFFICES ASSUME h \in alone
               PROVE  RecordIsOwn(h)' /\ LeftIsKnown(h)' /\ KnownIsLeft(h)'
    OBVIOUS
  <2>1. KnownIsLeft(h)
    BY DEF SafetyInv
  <2>2. RecordIsOwn(h)' /\ LeftIsKnown(h)'
    BY <1>3, <1>5 DEF RecordIsOwn, LeftIsKnown, Recording
  <2>3. KnownIsLeft(h)'
    BY <1>2, <1>3, <1>5, <1>6, <2>1 DEF KnownIsLeft, Recording, CallMakesSense, At
  <2>4. QED
    BY <2>2, <2>3
<1>10. QED
  BY <1>5, <1>7, <1>8, <1>9, PhaseStep

\* The release is complete.
LEMMA SetTerminatedStep ==
    ASSUME SafetyInv, NEW h \in Handlers, SetTerminated(h)
    PROVE  SafetyInv'
<1>1. PICK c : c = [call[h] EXCEPT !.pc = "give up"]
  OBVIOUS
<1>2. Types /\ CallMakesSense(h) /\ call[h] \in Call /\ At(h, "delete") /\ Active(h)
  BY DEF SafetyInv, Types, SetTerminated, At, Active
<1>3. /\ c \in Call /\ c.pc = "give up" /\ c.run = call[h].run /\ c.deployed = call[h].deployed
      /\ c.todo = {} /\ c.result = call[h].result
  BY <1>1, <1>2 DEF Call, CallSteps, SetTerminated
<1>4. "TERMINATED" \in Phases
  BY DEF Phases
<1>5. /\ CallMoves(h) /\ call'[h] = c
      /\ Left(h)' = Left(h) /\ pods' = pods
      /\ records[call[h].run] # None <=> records'[call[h].run] # None
      /\ records[call[h].run] # None =>
             /\ records'[call[h].run].phase = "TERMINATED"
             /\ Recorded(h)' = Recorded(h) /\ Recorded(h) \subseteq NamesOf(call[h].run)
  BY <1>1, <1>2, <1>3, <1>4, PhaseMoves DEF SetTerminated, Goto
<1>6. UNCHANGED <<gone, alone>>
  BY <1>5, OwnView
<1>7. CallMakesSense(h)'
  BY <1>2, <1>3, <1>5 DEF CallMakesSense, At
<1>8. PhaseIsTold(h)'
  BY <1>3, <1>5 DEF PhaseIsTold
<1>9. h \in alone => RecordIsOwn(h)' /\ LeftIsKnown(h)' /\ KnownIsLeft(h)'
  <2> SUFFICES ASSUME h \in alone
               PROVE  RecordIsOwn(h)' /\ LeftIsKnown(h)' /\ KnownIsLeft(h)'
    OBVIOUS
  <2>1. LeftIsKnown(h)
    BY DEF SafetyInv
  <2>2. RecordIsOwn(h)' /\ KnownIsLeft(h)'
    BY <1>3, <1>5 DEF RecordIsOwn, KnownIsLeft, Recording
  <2>3. Accounted(h)' <=> Accounted(h)
    BY <1>3, <1>5, <1>6 DEF Accounted
  <2>4. Accounted(h) => \A p \in Left(h) : pods[p].orphan
    BY <1>2, <2>1 DEF LeftIsKnown, SetTerminated, At
  <2>5. LeftIsKnown(h)'
    BY <1>3, <1>5, <2>3, <2>4 DEF LeftIsKnown
  <2>6. QED
    BY <2>2, <2>5
<1>10. QED
  BY <1>5, <1>7, <1>8, <1>9, PhaseStep

\* The call returns.
LEMMA GiveUpStep ==
    ASSUME SafetyInv, NEW h \in Handlers, GiveUp(h)
    PROVE  SafetyInv'
<1>1. PICK c : c = [call[h] EXCEPT !.pc = "done", !.result = call[h].result, !.deployed = 0]
  OBVIOUS
<1>2. Types /\ CallMakesSense(h) /\ call[h] \in Call /\ At(h, "give up") /\ Active(h)
  BY DEF SafetyInv, Types, GiveUp, At, Active
<1>3. /\ c \in Call /\ c.pc = "done" /\ c.run = call[h].run /\ c.deployed = 0
      /\ c.todo = call[h].todo /\ c.result = call[h].result
  BY <1>1, <1>2 DEF Call, CallSteps
<1>4. "FAILED" \in Phases
  BY DEF Phases
<1>5. /\ CallMoves(h) /\ call'[h] = c
      /\ Left(h)' = Left(h) /\ pods' = pods
      /\ records[call[h].run] # None <=> records'[call[h].run] # None
      /\ records[call[h].run] # None =>
             /\ call[h].result = "FAILED" => records'[call[h].run].phase = "FAILED"
             /\ call[h].result # "FAILED" => records'[call[h].run] = records[call[h].run]
             /\ Recorded(h)' = Recorded(h) /\ Recorded(h) \subseteq NamesOf(call[h].run)
  <2>1. CASE call[h].result = "FAILED"
    BY <1>1, <1>2, <1>3, <1>4, <2>1, PhaseMoves DEF GiveUp, Tell
  <2>2. CASE call[h].result # "FAILED"
    <3>1. records' = records /\ records \in [Runs -> Fleet \cup {None}]
      BY <1>2, <2>2 DEF GiveUp, Types
    <3>2. CallMoves(h) /\ call'[h] = c /\ Left(h)' = Left(h) /\ pods' = pods
      BY <1>1, <1>2, <1>3, <3>1, StillMoves DEF GiveUp, Tell
    <3>3. call[h].run \in Runs
      BY <3>2, OwnView
    <3>4. QED
      BY <1>3, <2>2, <3>1, <3>2, <3>3 DEF SafetyInv, NamesMakeSense, Recorded
  <2>3. QED
    BY <2>1, <2>2
<1>6. /\ call[h].run \in Runs /\ UNCHANGED <<gone, alone>>
      /\ Sole(h)' <=> Sole(h)
  BY <1>5, OwnView
<1>7. CallMakesSense(h)'
  <2>1. c.todo = {} /\ call[h].run # None
    BY <1>2, <1>3 DEF CallMakesSense, At
  <2>2. 0 <= FleetSize[call[h].run]
    BY <1>6, NoneFacts
  <2>3. QED
    BY <1>3, <1>5, <2>1, <2>2 DEF CallMakesSense
<1>8. PhaseIsTold(h)'
  <2>1. call[h].result \in {"FAILED", "TIMEOUT"} /\ PhaseIsTold(h)
    BY <1>2 DEF SafetyInv, CallMakesSense, At
  <2>2. QED
    BY <1>2, <1>3, <1>5, <1>6, <2>1 DEF PhaseIsTold, At
<1>9. h \in alone => RecordIsOwn(h)' /\ LeftIsKnown(h)' /\ KnownIsLeft(h)'
  <2> SUFFICES ASSUME h \in alone
               PROVE  RecordIsOwn(h)' /\ LeftIsKnown(h)' /\ KnownIsLeft(h)'
    OBVIOUS
  <2>1. LeftIsKnown(h) /\ c.todo = {} /\ c.result \in {"FAILED", "TIMEOUT"}
    BY <1>2, <1>3 DEF SafetyInv, CallMakesSense, At
  <2>2. RecordIsOwn(h)' /\ KnownIsLeft(h)'
    BY <1>3, <1>5, <2>1 DEF RecordIsOwn, KnownIsLeft, Recording
  <2>3. Accounted(h)' <=> Accounted(h)
    BY <1>3, <1>5, <1>6 DEF Accounted
  <2>4. Accounted(h) => \A p \in Left(h) : pods[p].orphan
    BY <1>2, <2>1 DEF LeftIsKnown, At
  <2>5. LeftIsKnown(h)'
    BY <1>3, <1>5, <2>3, <2>4 DEF LeftIsKnown
  <2>6. QED
    BY <2>2, <2>5
<1>10. QED
  BY <1>5, <1>7, <1>8, <1>9, PhaseStep

\* The record is read.
LEMMA ReadRecordStep ==
    ASSUME SafetyInv, NEW h \in Handlers, ReadRecord(h)
    PROVE  SafetyInv'
<1>1. Types /\ CallMakesSense(h) /\ call[h] \in Call /\ At(h, "release") /\ Active(h)
  BY DEF SafetyInv, Types, ReadRecord, At, Active
<1>2. call[h].run \in Runs /\ call[h].todo = {} /\ call[h].result \in {"FAILED", "TIMEOUT"}
  BY <1>1 DEF CallMakesSense, Call, At
<1>3. UNCHANGED <<gone, stop, records, pods, history>> /\ records \in [Runs -> Fleet \cup {None}]
  BY <1>1 DEF ReadRecord, Types
<1>4. h \in alone => RecordIsOwn(h) /\ LeftIsKnown(h) /\ KnownIsLeft(h) /\ records[call[h].run] # None
  BY <1>1 DEF SafetyInv, RecordIsOwn, Recording, At
<1>5. CASE records[call[h].run] = None
  <2>1. PICK c : c = [call[h] EXCEPT !.pc = "give up"]
    OBVIOUS
  <2>2. /\ c \in Call /\ c.pc = "give up" /\ c.run = call[h].run /\ c.deployed = call[h].deployed
        /\ c.todo = {} /\ c.result = call[h].result
    BY <1>1, <1>2, <2>1 DEF Call, CallSteps
  <2>3. CallMoves(h) /\ call'[h] = c
    BY <1>1, <1>3, <1>5, <2>1, <2>2, StillMoves DEF ReadRecord
  <2>4. CallMakesSense(h)' /\ PhaseIsTold(h)' /\ h \notin alone
    BY <1>1, <1>2, <1>3, <1>4, <1>5, <2>2, <2>3 DEF CallMakesSense, PhaseIsTold, At
  <2>5. QED
    BY <1>3, <1>5, <2>3, <2>4, PhaseStep
<1>6. CASE records[call[h].run] # None
  <2>1. PICK c : c = [call[h] EXCEPT !.pc = "delete", !.todo = Recorded(h)]
    OBVIOUS
  <2>2. Recorded(h) \subseteq NamesOf(call[h].run)
    BY <1>2, <1>6 DEF SafetyInv, NamesMakeSense, Recorded
  <2>3. \A p \in Recorded(h) : p[1] = Prefix[call[h].run] /\ p \in PodNames
    BY <1>2, <2>2, NamesBegin
  <2>4. /\ c \in Call /\ c.pc = "delete" /\ c.run = call[h].run /\ c.deployed = call[h].deployed
        /\ c.todo = Recorded(h) /\ c.result = call[h].result
    BY <1>1, <2>1, <2>3 DEF Call, CallSteps
  <2>5. /\ CallMoves(h) /\ call'[h] = c
        /\ Left(h)' = Left(h) /\ pods' = pods
    BY <1>1, <1>3, <1>6, <2>1, <2>4, StillMoves DEF ReadRecord, Recorded
  <2>6. Recorded(h)' = Recorded(h)
    BY <1>3, <2>4, <2>5 DEF Recorded
  <2>7. /\ UNCHANGED <<gone, alone>>
        /\ Undisturbed(call[h].run)' <=> Undisturbed(call[h].run)
    BY <2>5, OwnView
  <2>8. CallMakesSense(h)'
    BY <1>1, <1>2, <2>3, <2>4, <2>5 DEF CallMakesSense, At
  <2>9. PhaseIsTold(h)'
    BY <2>4, <2>5 DEF PhaseIsTold
  <2>10. h \in alone => RecordIsOwn(h)' /\ LeftIsKnown(h)' /\ KnownIsLeft(h)'
    <3> SUFFICES ASSUME h \in alone
                 PROVE  RecordIsOwn(h)' /\ LeftIsKnown(h)' /\ KnownIsLeft(h)'
      OBVIOUS
    <3>1. RecordIsOwn(h)'
      BY <2>4, <2>5 DEF RecordIsOwn, Recording
    <3>2. Accounted(h)' <=> Accounted(h)
      BY <2>4, <2>5, <2>7 DEF Accounted
    <3>3. LeftIsKnown(h)'
      BY <1>1, <1>4, <2>4, <2>5, <3>2 DEF LeftIsKnown, At
    <3>4. KnownIsLeft(h)'
      BY <1>1, <1>4, <2>4, <2>5, <2>7 DEF KnownIsLeft, Recording, At
    <3>5. QED
      BY <3>1, <3>3, <3>4
  <2>11. QED
    BY <1>3, <2>2, <2>5, <2>6, <2>8, <2>9, <2>10, PhaseStep
<1>7. QED
  BY <1>5, <1>6

\* Appending adds one element.
LEMMA AppendNames ==
    ASSUME NEW S, NEW s \in Seq(S), NEW x \in S
    PROVE  ToSet(Append(s, x)) = ToSet(s) \cup {x}
<1>1. PICK t : t = Append(s, x)
  OBVIOUS
<1>2. /\ Len(s) \in Nat /\ DOMAIN s = 1..Len(s) /\ DOMAIN t = 1..(Len(s) + 1)
      /\ \A i \in 1..Len(s) : t[i] = s[i]
      /\ t[Len(s) + 1] = x
  BY <1>1
<1>3. QED
  BY <1>1, <1>2 DEF ToSet

\* The pod created last is added to the record.
LEMMA AddPodStep ==
    ASSUME SafetyInv, NEW h \in Handlers, AddPod(h)
    PROVE  SafetyInv'
<1>1. PICK c : c = [call[h] EXCEPT !.pc = "deploy", !.deployed = call[h].deployed + 1]
  OBVIOUS
<1>2. Types /\ CallMakesSense(h) /\ call[h] \in Call /\ At(h, "record") /\ Active(h)
  BY DEF SafetyInv, Types, AddPod, At, Active
<1>3. call[h].deployed \in Nat
  BY <1>2 DEF Call
<1>4. /\ c \in Call /\ c.pc = "deploy" /\ c.run = call[h].run /\ c.deployed = call[h].deployed + 1
      /\ c.todo = {} /\ c.result = call[h].result
  <2>1. call[h].todo = {}
    BY <1>2 DEF CallMakesSense, At
  <2>2. PICK n \in Nat : n = call[h].deployed + 1
    BY <1>3
  <2>3. QED
    BY <1>1, <1>2, <2>1, <2>2 DEF Call, CallSteps
<1>5. /\ call[h].run \in Runs
      /\ FleetSize[call[h].run] \in Nat /\ call[h].deployed < FleetSize[call[h].run]
  BY <1>2, NoneFacts DEF CallMakesSense, Call, At
<1>6. NextPod(h) \in NamesOf(call[h].run)
  BY <1>3, <1>5 DEF NextPod, NamesOf
<1>7. /\ records' \in [Runs -> Fleet \cup {None}]
      /\ \A q \in Runs : q # call[h].run => records'[q] = records[q]
      /\ records[call[h].run] # None <=> records'[call[h].run] # None
      /\ records[call[h].run] # None =>
             ToSet(records'[call[h].run].podNames) = Recorded(h) \cup {NextPod(h)}
  <2>1. records \in [Runs -> Fleet \cup {None}] /\ None \notin Fleet
    BY <1>2, NoneFacts DEF Types
  <2>2. CASE records[call[h].run] = None
    BY <1>5, <2>1, <2>2 DEF AddPod
  <2>3. CASE records[call[h].run] # None
    <3>1. PICK s \in Seq(PodNames) : s = records[call[h].run].podNames
      BY <1>5, <2>1, <2>3 DEF Fleet
    <3>2. NextPod(h) \in PodNames
      BY <1>5, <1>6, NamesBegin
    <3>3. Append(s, NextPod(h)) \in Seq(PodNames)
      BY <3>1, <3>2
    <3>4. ToSet(Append(s, NextPod(h))) = ToSet(s) \cup {NextPod(h)}
      BY <3>1, <3>2, AppendNames
    <3>5. PICK f : f = [records[call[h].run] EXCEPT !.podNames = Append(s, NextPod(h))]
      OBVIOUS
    <3>6. f \in Fleet /\ f.podNames = Append(s, NextPod(h))
      BY <1>5, <2>1, <2>3, <3>3, <3>5 DEF Fleet
    <3>7. records' = [records EXCEPT ![call[h].run] = f]
      BY <2>3, <3>1, <3>5 DEF AddPod
    <3>8. QED
      BY <1>5, <2>1, <2>3, <3>1, <3>4, <3>6, <3>7 DEF Recorded
  <2>4. QED
    BY <2>2, <2>3
<1>8. /\ CallMoves(h) /\ call'[h] = c
      /\ Left(h)' = Left(h) /\ pods' = pods
  BY <1>1, <1>2, <1>4, <1>7, StillMoves DEF AddPod
<1>9. records[call[h].run] # None => Recorded(h)' = Recorded(h) \cup {NextPod(h)}
  BY <1>4, <1>7, <1>8 DEF Recorded
<1>10. /\ UNCHANGED <<gone, alone>>
       /\ NamesOf(call[h].run)' = NamesOf(call[h].run)
       /\ Undisturbed(call[h].run)' <=> Undisturbed(call[h].run)
  BY <1>8, OwnView
<1>11. CallMakesSense(h)'
  <2>1. call[h].run # None /\ c.deployed <= FleetSize[call[h].run]
    BY <1>3, <1>4, <1>5, NoneFacts
  <2>2. QED
    BY <1>4, <1>8, <2>1 DEF CallMakesSense
<1>12. PhaseIsTold(h)'
  BY <1>4, <1>8 DEF PhaseIsTold
<1>13. h \in alone => RecordIsOwn(h)' /\ LeftIsKnown(h)' /\ KnownIsLeft(h)'
  <2> SUFFICES ASSUME h \in alone
               PROVE  RecordIsOwn(h)' /\ LeftIsKnown(h)' /\ KnownIsLeft(h)'
    OBVIOUS
  <2>1. RecordIsOwn(h) /\ LeftIsKnown(h) /\ KnownIsLeft(h) /\ Recording(h)
    BY <1>2 DEF SafetyInv, Recording, At
  <2>2. records[call[h].run] # None /\ Recorded(h)' = Recorded(h) \cup {NextPod(h)}
    BY <1>9, <2>1 DEF RecordIsOwn
  <2>3. RecordIsOwn(h)'
    <3>1. ASSUME NEW i \in 1..c.deployed
          PROVE  PodName(call[h].run, i) \in Recorded(h)'
      <4>1. CASE i \in 1..call[h].deployed
        BY <2>1, <2>2, <4>1 DEF RecordIsOwn
      <4>2. CASE i = call[h].deployed + 1
        BY <2>2, <4>2 DEF NextPod
      <4>3. QED
        BY <1>3, <1>4, <4>1, <4>2
    <3>2. QED
      BY <1>4, <1>7, <1>8, <2>2, <3>1 DEF RecordIsOwn, PodName
  <2>4. LeftIsKnown(h)'
    BY <1>2, <1>4, <1>8, <2>1, <2>2 DEF LeftIsKnown, At
  <2>5. KnownIsLeft(h)'
    BY <1>2, <1>4, <1>8, <1>10, <2>1, <2>2 DEF KnownIsLeft, At
  <2>6. QED
    BY <2>3, <2>4, <2>5
<1>14. OwnSafe(h)'
  <2>1. records[call[h].run] # None => Recorded(h)' \subseteq NamesOf(call[h].run)'
    BY <1>5, <1>6, <1>9, <1>10 DEF SafetyInv, NamesMakeSense, Recorded
  <2>2. QED
    BY <1>4, <1>7, <1>8, <1>10, <1>11, <1>12, <1>13, <2>1 DEF OwnSafe, Recorded
<1>15. QED
  BY <1>8, <1>14, MovesStep

\* A fleet has no more names than bots, so that many of them are all.
LEMMA AllNames ==
    ASSUME NEW r \in Runs, NEW T \in SUBSET NamesOf(r), Cardinality(T) >= FleetSize[r]
    PROVE  T = NamesOf(r)
<1> DEFINE S == 1..FleetSize[r]
           f == [i \in S |-> PodName(r, i)]
<1>1. FleetSize[r] \in Nat
  BY NoneFacts
<1>2. IsFiniteSet(S) /\ Cardinality(S) = FleetSize[r]
  BY <1>1, FS_Interval
<1>3. f \in Surjection(S, NamesOf(r))
  BY DEF Surjection, NamesOf
<1> HIDE DEF S, f
<1>4. IsFiniteSet(NamesOf(r)) /\ Cardinality(NamesOf(r)) <= FleetSize[r]
  BY <1>2, <1>3, FS_Surjection
<1>5. /\ IsFiniteSet(T) /\ Cardinality(T) <= Cardinality(NamesOf(r))
      /\ Cardinality(NamesOf(r)) = Cardinality(T) => NamesOf(r) = T
  BY <1>4, FS_Subset
<1>6. Cardinality(T) \in Nat /\ Cardinality(NamesOf(r)) \in Nat
  BY <1>4, <1>5, FS_CardinalityType
<1>7. QED
  BY <1>1, <1>4, <1>5, <1>6

\* The whole fleet is found ready.
LEMMA FleetReadyStep ==
    ASSUME SafetyInv, NEW h \in Handlers, FleetReady(h)
    PROVE  SafetyInv'
<1>1. PICK c : c = [call[h] EXCEPT !.pc = "ready"]
  OBVIOUS
<1>2. Types /\ CallMakesSense(h) /\ call[h] \in Call /\ At(h, "deploy") /\ Active(h)
  BY DEF SafetyInv, Types, FleetReady, At, Active
<1>3. /\ c \in Call /\ c.pc = "ready" /\ c.run = call[h].run /\ c.deployed = call[h].deployed
      /\ c.todo = call[h].todo /\ c.result = call[h].result
  BY <1>1, <1>2 DEF Call, CallSteps
<1>4. UNCHANGED <<gone, stop, records, pods, history>> /\ records \in [Runs -> Fleet \cup {None}]
  BY <1>2 DEF FleetReady, Types
<1>5. /\ CallMoves(h) /\ call'[h] = c
      /\ Left(h)' = Left(h) /\ pods' = pods
  BY <1>1, <1>2, <1>3, <1>4, StillMoves DEF FleetReady, Goto
<1>6. /\ call[h].run \in Runs
      /\ NamesOf(call[h].run)' = NamesOf(call[h].run)
      /\ Undisturbed(call[h].run)' <=> Undisturbed(call[h].run)
  BY <1>5, OwnView
<1>7. records[call[h].run] # None =>
          Recorded(h)' = Recorded(h) /\ Recorded(h) \subseteq NamesOf(call[h].run)
  BY <1>3, <1>4, <1>5, <1>6 DEF SafetyInv, NamesMakeSense, Recorded
<1>8. call[h].deployed = FleetSize[call[h].run] /\ call[h].todo = {} /\ call[h].run # None
  <2>1. ~(call[h].deployed < FleetSize[call[h].run])
    BY DEF FleetReady, MorePods
  <2>2. /\ call[h].run # None /\ call[h].deployed <= FleetSize[call[h].run]
        /\ call[h].todo = {} /\ call[h].deployed \in Nat /\ FleetSize[call[h].run] \in Nat
    BY <1>2, <1>6, NoneFacts DEF CallMakesSense, Call, At
  <2>3. QED
    BY <2>1, <2>2
<1>9. CallMakesSense(h)'
  BY <1>2, <1>3, <1>5, <1>8 DEF CallMakesSense, At
<1>10. PhaseIsTold(h)'
  BY <1>3, <1>5 DEF PhaseIsTold
<1>11. \A p \in NamesOf(call[h].run) : pods[p] # None /\ pods[p].ready
  <2>1. PICK T : T = {p \in PodsOf(call[h].run) : pods[p].ready}
    OBVIOUS
  <2>2. T \in SUBSET NamesOf(call[h].run)
    BY <2>1 DEF PodsOf, SafetyInv, NamesMakeSense
  <2>3. Cardinality(T) >= FleetSize[call[h].run]
    BY <2>1 DEF FleetReady
  <2>4. T = NamesOf(call[h].run)
    BY <1>6, <2>2, <2>3, AllNames
  <2>5. QED
    BY <2>1, <2>4 DEF PodsOf
<1>12. h \in alone => RecordIsOwn(h)' /\ LeftIsKnown(h)' /\ KnownIsLeft(h)'
  <2> SUFFICES ASSUME h \in alone
               PROVE  RecordIsOwn(h)' /\ LeftIsKnown(h)' /\ KnownIsLeft(h)'
    OBVIOUS
  <2>1. RecordIsOwn(h) /\ LeftIsKnown(h) /\ KnownIsLeft(h) /\ Recording(h)
    BY <1>2 DEF SafetyInv, Recording, At
  <2>2. records[call[h].run] # None /\ Recorded(h)' = Recorded(h)
    BY <1>7, <2>1 DEF RecordIsOwn
  <2>3. \A i \in 1..call[h].deployed : PodName(call[h].run, i) \in Recorded(h)
    BY <2>1 DEF RecordIsOwn
  <2>4. NamesOf(call[h].run) \subseteq Recorded(h)
    BY <1>8, <2>3 DEF NamesOf
  <2>5. RecordIsOwn(h)'
    BY <1>3, <1>4, <1>5, <2>2, <2>3 DEF RecordIsOwn, PodName
  <2>6. LeftIsKnown(h)'
    BY <1>2, <1>3, <1>5, <2>1, <2>2 DEF LeftIsKnown, At
  <2>7. KnownIsLeft(h)'
    BY <1>3, <1>5, <1>6, <1>8, <1>11, <2>1, <2>2, <2>4 DEF KnownIsLeft
  <2>8. QED
    BY <2>5, <2>6, <2>7
<1>13. QED
  BY <1>4, <1>5, <1>7, <1>9, <1>10, <1>12, PhaseStep

\* A pod is created, under a name of the run's that no pod had.
LEMMA DeployMoves ==
    ASSUME SafetyInv, NEW h \in Handlers, At(h, "deploy"), MorePods(h),
           NEW c \in Call, c.run = call[h].run, c.pc # "idle", Becomes(h, c),
           NEW orphan \in BOOLEAN, pods[NextPod(h)] = None, Deploy(h, orphan),
           UNCHANGED <<gone, stop, records, history>>
    PROVE  /\ CallMoves(h) /\ call'[h] = c
           /\ Left(h)' = Left(h) \cup {NextPod(h)} /\ pods'[NextPod(h)].orphan = orphan
           /\ \A p \in Left(h) : pods'[p] = pods[p]
<1>1. Types /\ CallMakesSense(h) /\ call[h] \in Call /\ Active(h)
  BY DEF SafetyInv, Types, At, Active
<1>2. /\ call[h].run \in Runs /\ call[h].deployed \in Nat
      /\ FleetSize[call[h].run] \in Nat /\ call[h].deployed < FleetSize[call[h].run]
  BY <1>1, NoneFacts DEF CallMakesSense, Call, At, MorePods
<1>3. PICK n : n = NextPod(h)
  OBVIOUS
<1>4. n \in NamesOf(call[h].run)
  BY <1>2, <1>3 DEF NextPod, NamesOf
<1>5. n \in PodNames
  BY <1>2, <1>4, NamesBegin
<1>6. PICK e : e = [run |-> call[h].run, ready |-> FALSE, leaving |-> FALSE,
                    by |-> h, orphan |-> orphan]
  OBVIOUS
<1>7. /\ e \in Pod /\ e # None
      /\ e.run = call[h].run /\ ~e.leaving /\ e.by = h /\ e.orphan = orphan
  <2>1. e \in Pod
    BY <1>2, <1>6 DEF Pod
  <2>2. QED
    BY <1>6, <2>1, NoneFacts
<1>8. pods' = [pods EXCEPT ![n] = e] /\ pods[n] = None
  BY <1>3, <1>6 DEF Deploy
<1>9. pods \in [PodNames -> Pod \cup {None}] /\ records \in [Runs -> Fleet \cup {None}]
  BY <1>1 DEF Types
<1>10. /\ pods' \in [PodNames -> Pod \cup {None}] /\ pods'[n] = e
       /\ \A p \in PodNames \ {n} : pods'[p] = pods[p]
  BY <1>5, <1>7, <1>8, <1>9
<1>11. \A p \in PodNames : PodMoves(h, p)
  BY <1>4, <1>7, <1>8, <1>10 DEF PodMoves
<1>12. call' = [call EXCEPT ![h] = c] /\ call'[h] = c
  BY <1>1 DEF Becomes, Types
<1>13. CallMoves(h)
  BY <1>1, <1>9, <1>10, <1>11, <1>12 DEF CallMoves, history
<1>14. Left(h)' = Left(h) \cup {n} /\ \A p \in Left(h) : pods'[p] = pods[p]
  BY <1>5, <1>7, <1>8, <1>10 DEF Left
<1>15. QED
  BY <1>3, <1>7, <1>10, <1>12, <1>13, <1>14

\* The pod is created.
LEMMA CreatePodStep ==
    ASSUME SafetyInv, NEW h \in Handlers, CreatePod(h)
    PROVE  SafetyInv'
<1>1. PICK c : c = [call[h] EXCEPT !.pc = "record"]
  OBVIOUS
<1>2. Types /\ CallMakesSense(h) /\ call[h] \in Call /\ At(h, "deploy") /\ MorePods(h)
  BY DEF SafetyInv, Types, CreatePod, At
<1>3. /\ c \in Call /\ c.pc = "record" /\ c.run = call[h].run /\ c.deployed = call[h].deployed
      /\ c.todo = call[h].todo /\ c.result = call[h].result
  BY <1>1, <1>2 DEF Call, CallSteps
<1>4. UNCHANGED <<gone, stop, records, history>> /\ pods[NextPod(h)] = None /\ Deploy(h, FALSE)
  BY DEF CreatePod
<1>5. /\ CallMoves(h) /\ call'[h] = c
      /\ Left(h)' = Left(h) \cup {NextPod(h)}
  BY <1>1, <1>2, <1>3, <1>4, DeployMoves DEF CreatePod, Goto
<1>6. /\ call[h].run \in Runs
      /\ Undisturbed(call[h].run)' <=> Undisturbed(call[h].run)
  BY <1>5, OwnView
<1>7. records[call[h].run] # None =>
          Recorded(h)' = Recorded(h) /\ Recorded(h) \subseteq NamesOf(call[h].run)
  BY <1>3, <1>4, <1>5, <1>6 DEF SafetyInv, NamesMakeSense, Recorded
<1>8. CallMakesSense(h)'
  BY <1>2, <1>3, <1>5 DEF CallMakesSense, At, MorePods
<1>9. PhaseIsTold(h)'
  BY <1>3, <1>5 DEF PhaseIsTold
<1>10. h \in alone => RecordIsOwn(h)' /\ LeftIsKnown(h)' /\ KnownIsLeft(h)'
  <2> SUFFICES ASSUME h \in alone
               PROVE  RecordIsOwn(h)' /\ LeftIsKnown(h)' /\ KnownIsLeft(h)'
    OBVIOUS
  <2>1. RecordIsOwn(h) /\ LeftIsKnown(h) /\ KnownIsLeft(h) /\ Recording(h)
    BY <1>2 DEF SafetyInv, Recording, At
  <2>2. records[call[h].run] # None /\ Recorded(h)' = Recorded(h)
    BY <1>7, <2>1 DEF RecordIsOwn
  <2>3. NextPod(h)' = NextPod(h)
    BY <1>3, <1>5 DEF NextPod
  <2>4. RecordIsOwn(h)'
    BY <1>3, <1>4, <1>5, <2>1, <2>2 DEF RecordIsOwn, PodName
  <2>5. LeftIsKnown(h)'
    BY <1>2, <1>3, <1>5, <2>1, <2>2, <2>3 DEF LeftIsKnown, At
  <2>6. call[h].todo = {}
    BY <1>2 DEF CallMakesSense, At
  <2>7. KnownIsLeft(h)'
    BY <1>3, <1>5, <1>6, <2>1, <2>2, <2>3, <2>6 DEF KnownIsLeft
  <2>8. QED
    BY <2>4, <2>5, <2>7
<1>11. QED
  BY <1>4, <1>5, <1>7, <1>8, <1>9, <1>10, PhaseStep

\* It is not created, or not known to have been.
LEMMA CreatePodFailsStep ==
    ASSUME SafetyInv, NEW h \in Handlers, CreatePodFails(h)
    PROVE  SafetyInv'
<1>1. PICK c : c = [call[h] EXCEPT !.pc = "release", !.result = "FAILED"]
  OBVIOUS
<1>2. Types /\ CallMakesSense(h) /\ call[h] \in Call /\ At(h, "deploy") /\ MorePods(h) /\ Active(h)
  BY DEF SafetyInv, Types, CreatePodFails, At, Active
<1>3. /\ c \in Call /\ c.pc = "release" /\ c.run = call[h].run /\ c.deployed = call[h].deployed
      /\ c.todo = call[h].todo /\ c.result = "FAILED"
  BY <1>1, <1>2 DEF Call, CallSteps, Results
<1>4. UNCHANGED <<gone, stop, records, history>> /\ records \in [Runs -> Fleet \cup {None}]
  BY <1>2 DEF CreatePodFails, Types
<1>5. /\ CallMoves(h) /\ call'[h] = c /\ Left(h) \subseteq Left(h)'
      /\ \A p \in Left(h)' : pods'[p].orphan \/ p \in Left(h)
  <2>1. CASE UNCHANGED pods
    BY <1>1, <1>2, <1>3, <1>4, <2>1, StillMoves DEF CreatePodFails
  <2>2. CASE pods[NextPod(h)] = None /\ Deploy(h, TRUE)
    BY <1>1, <1>2, <1>3, <1>4, <2>2, DeployMoves DEF CreatePodFails
  <2>3. QED
    BY <2>1, <2>2 DEF CreatePodFails
<1>6. /\ call[h].run \in Runs
      /\ Undisturbed(call[h].run)' <=> Undisturbed(call[h].run)
  BY <1>5, OwnView
<1>7. records[call[h].run] # None =>
          Recorded(h)' = Recorded(h) /\ Recorded(h) \subseteq NamesOf(call[h].run)
  BY <1>3, <1>4, <1>5, <1>6 DEF SafetyInv, NamesMakeSense, Recorded
<1>8. CallMakesSense(h)'
  BY <1>2, <1>3, <1>5 DEF CallMakesSense, At
<1>9. PhaseIsTold(h)'
  BY <1>3, <1>5 DEF PhaseIsTold
<1>10. h \in alone => RecordIsOwn(h)' /\ LeftIsKnown(h)' /\ KnownIsLeft(h)'
  <2> SUFFICES ASSUME h \in alone
               PROVE  RecordIsOwn(h)' /\ LeftIsKnown(h)' /\ KnownIsLeft(h)'
    OBVIOUS
  <2>1. RecordIsOwn(h) /\ LeftIsKnown(h) /\ KnownIsLeft(h) /\ Recording(h)
    BY <1>2 DEF SafetyInv, Recording, At
  <2>2. records[call[h].run] # None /\ Recorded(h)' = Recorded(h)
    BY <1>7, <2>1 DEF RecordIsOwn
  <2>3. RecordIsOwn(h)'
    BY <1>3, <1>4, <1>5, <2>1, <2>2 DEF RecordIsOwn, PodName
  <2>4. LeftIsKnown(h)'
    BY <1>2, <1>3, <1>5, <2>1, <2>2 DEF LeftIsKnown, At
  <2>5. call[h].todo = {}
    BY <1>2 DEF CallMakesSense, At
  <2>6. KnownIsLeft(h)'
    BY <1>3, <1>5, <1>6, <2>1, <2>2, <2>5 DEF KnownIsLeft
  <2>7. QED
    BY <2>3, <2>4, <2>6
<1>11. QED
  BY <1>4, <1>5, <1>7, <1>8, <1>9, <1>10, PhaseStep

\* A pod is dealt with: afterwards it is leaving, or its Delete failed.
LEMMA DealtWith ==
    ASSUME SafetyInv, NEW h \in Handlers, At(h, "delete"), NEW p \in call[h].todo,
           Becomes(h, [call[h] EXCEPT !.todo = call[h].todo \ {p}]),
           pods' \in [PodNames -> Pod \cup {None}], PodMoves(h, p),
           \A q \in PodNames \ {p} : pods'[q] = pods[q],
           p \in Left(h)' /\ Accounted(h) => pods'[p].orphan,
           UNCHANGED <<gone, stop, records, history>>
    PROVE  SafetyInv'
<1>1. PICK c : c = [call[h] EXCEPT !.todo = call[h].todo \ {p}]
  OBVIOUS
<1>2. Types /\ CallMakesSense(h) /\ call[h] \in Call /\ Active(h)
  BY DEF SafetyInv, Types, At, Active
<1>3. /\ c \in Call /\ c.pc = "delete" /\ c.run = call[h].run /\ c.deployed = call[h].deployed
      /\ c.todo = call[h].todo \ {p} /\ c.result = call[h].result
  <2>1. call[h].todo \ {p} \in SUBSET PodNames
    BY <1>2 DEF Call
  <2>2. QED
    BY <1>1, <1>2, <2>1 DEF Call, At
<1>4. call' = [call EXCEPT ![h] = c] /\ call'[h] = c
  BY <1>1, <1>2 DEF Becomes, Types
<1>5. CallMoves(h)
  <2>1. \A q \in PodNames : PodMoves(h, q)
    BY DEF PodMoves
  <2>2. records \in [Runs -> Fleet \cup {None}]
    BY <1>2 DEF Types
  <2>3. QED
    BY <1>2, <1>3, <1>4, <2>1, <2>2 DEF CallMoves, history
<1>6. \A q \in Left(h)' \ {p} : q \in Left(h) /\ pods'[q] = pods[q]
  BY DEF Left
<1>7. \A q \in Left(h) \ {p} : q \in Left(h)'
  BY DEF Left
<1>8. /\ call[h].run \in Runs /\ UNCHANGED <<gone, alone>>
      /\ Undisturbed(call[h].run)' <=> Undisturbed(call[h].run)
  BY <1>5, OwnView
<1>9. records[call[h].run] # None =>
          Recorded(h)' = Recorded(h) /\ Recorded(h) \subseteq NamesOf(call[h].run)
  BY <1>3, <1>4, <1>8 DEF SafetyInv, NamesMakeSense, Recorded
<1>10. CallMakesSense(h)'
  BY <1>2, <1>3, <1>4 DEF CallMakesSense, At
<1>11. PhaseIsTold(h)'
  BY <1>3, <1>4 DEF PhaseIsTold
<1>12. h \in alone => RecordIsOwn(h)' /\ LeftIsKnown(h)' /\ KnownIsLeft(h)'
  <2> SUFFICES ASSUME h \in alone
               PROVE  RecordIsOwn(h)' /\ LeftIsKnown(h)' /\ KnownIsLeft(h)'
    OBVIOUS
  <2>1. LeftIsKnown(h) /\ KnownIsLeft(h)
    BY DEF SafetyInv
  <2>2. RecordIsOwn(h)'
    BY <1>3, <1>4 DEF RecordIsOwn, Recording
  <2>3. Accounted(h)' <=> Accounted(h)
    BY <1>3, <1>4, <1>8 DEF Accounted
  <2>4. Accounted(h) => \A q \in Left(h) : pods[q].orphan \/ q \in call[h].todo
    BY <2>1 DEF LeftIsKnown, At
  <2>5. Accounted(h) => \A q \in Left(h)' : pods'[q].orphan \/ q \in call[h].todo \ {p}
    BY <1>6, <2>4
  <2>6. LeftIsKnown(h)'
    BY <1>3, <1>4, <2>3, <2>5 DEF LeftIsKnown
  <2>7. KnownIsLeft(h)'
    BY <1>3, <1>4, <1>7, <1>8, <2>1 DEF KnownIsLeft, Recording
  <2>8. QED
    BY <2>2, <2>6, <2>7
<1>13. QED
  BY <1>5, <1>9, <1>10, <1>11, <1>12, PhaseStep

\* A pod changed in one place stays a pod.
LEMMA PodStays ==
    ASSUME NEW e \in Pod
    PROVE  /\ [e EXCEPT !.orphan = TRUE] \in Pod
           /\ [e EXCEPT !.ready = TRUE] \in Pod
           /\ [e EXCEPT !.leaving = TRUE, !.orphan = FALSE] \in Pod
BY DEF Pod

\* What a Delete does to the pods.
LEMMA LeaveFacts ==
    ASSUME Types, NEW p \in PodNames, Leave(p)
    PROVE  /\ pods' \in [PodNames -> Pod \cup {None}]
           /\ \A q \in PodNames \ {p} : pods'[q] = pods[q]
           /\ pods[p] = None => pods'[p] = None
           /\ pods[p] # None => /\ pods'[p] = [pods[p] EXCEPT !.leaving = TRUE, !.orphan = FALSE]
                                /\ pods[p] \in Pod /\ pods'[p].leaving
<1>1. pods \in [PodNames -> Pod \cup {None}]
  BY DEF Types
<1>2. CASE pods[p] = None
  BY <1>1, <1>2 DEF Leave
<1>3. CASE pods[p] # None
  <2>1. PICK e : e = [pods[p] EXCEPT !.leaving = TRUE, !.orphan = FALSE]
    OBVIOUS
  <2>2. pods[p] \in Pod
    BY <1>1, <1>3
  <2>3. e \in Pod
    BY <2>1, <2>2, PodStays
  <2>4. e.leaving
    BY <2>1, <2>2 DEF Pod
  <2>5. pods' = [pods EXCEPT ![p] = e]
    BY <1>3, <2>1 DEF Leave
  <2>6. QED
    BY <1>1, <1>3, <2>1, <2>2, <2>3, <2>4, <2>5
<1>4. QED
  BY <1>2, <1>3

\* A pod of a fleet that is given up is deleted.
LEMMA DeletePodStep ==
    ASSUME SafetyInv, NEW h \in Handlers, NEW p \in PodNames, DeletePod(h, p)
    PROVE  SafetyInv'
<1>1. Types /\ At(h, "delete") /\ p \in call[h].todo /\ Leave(p)
  BY DEF SafetyInv, DeletePod
<1>2. /\ pods' \in [PodNames -> Pod \cup {None}]
      /\ \A q \in PodNames \ {p} : pods'[q] = pods[q]
      /\ pods[p] = None => pods'[p] = None
      /\ pods[p] # None => /\ pods'[p] = [pods[p] EXCEPT !.leaving = TRUE, !.orphan = FALSE]
                           /\ pods'[p].leaving
  BY <1>1, LeaveFacts
<1>3. PodMoves(h, p) /\ p \notin Left(h)'
  BY <1>1, <1>2 DEF PodMoves, Left
<1>4. QED
  BY <1>1, <1>2, <1>3, DealtWith DEF DeletePod

\* Its Delete fails, perhaps without effect.
LEMMA DeletePodFailsStep ==
    ASSUME SafetyInv, NEW h \in Handlers, NEW p \in PodNames, DeletePodFails(h, p)
    PROVE  SafetyInv'
<1>1. Types /\ At(h, "delete") /\ p \in call[h].todo
  BY DEF SafetyInv, DeletePodFails
<1>2. pods \in [PodNames -> Pod \cup {None}]
  BY <1>1 DEF Types
<1>3. CASE MayDelete(h) /\ pods[p] # None /\ pods[p].by = h /\ ~pods[p].leaving
  <2>1. PICK e : e = [pods[p] EXCEPT !.orphan = TRUE]
    OBVIOUS
  <2>2. pods[p] \in Pod
    BY <1>2, <1>3
  <2>3. e \in Pod
    BY <2>1, <2>2, PodStays
  <2>4. e.orphan
    BY <2>1, <2>2 DEF Pod
  <2>5. pods' = [pods EXCEPT ![p] = e]
    BY <1>3, <2>1 DEF DeletePodFails
  <2>6. pods' \in [PodNames -> Pod \cup {None}] /\ \A q \in PodNames \ {p} : pods'[q] = pods[q]
    BY <1>2, <2>3, <2>5
  <2>7. PodMoves(h, p) /\ pods'[p].orphan
    BY <1>2, <1>3, <2>1, <2>4, <2>5 DEF PodMoves
  <2>8. QED
    BY <1>1, <2>6, <2>7, DealtWith DEF DeletePodFails
<1>4. CASE ~(MayDelete(h) /\ pods[p] # None /\ pods[p].by = h /\ ~pods[p].leaving)
  <2>1. pods' = pods
    BY <1>4 DEF DeletePodFails
  <2>2. p \in Left(h)' => ~Accounted(h)
    BY <1>4, <2>1 DEF Left, Accounted, MayDelete
  <2>3. PodMoves(h, p)
    BY <2>1 DEF PodMoves
  <2>4. QED
    BY <1>1, <1>2, <2>1, <2>2, <2>3, DealtWith DEF DeletePodFails
<1>5. QED
  BY <1>3, <1>4

\* Every step of a call.
LEMMA ProvisionStep ==
    ASSUME SafetyInv, NEW h \in Handlers, ProvisionFleet(h)
    PROVE  SafetyInv'
BY CreateRecordStep, SetStartingStep, CreatePodStep, AddPodStep, CreatePodFailsStep,
   FleetReadyStep, SetReadyStep, WaitTimesOutStep, ReadRecordStep, DeletePodStep,
   DeletePodFailsStep, SetTerminatedStep, GiveUpStep
   DEF ProvisionFleet

-----------------------------------------------------------------------------
(* Calls arrive, clients leave, the manager restarts *)

\* A request arrives.
LEMMA ReceiveStep ==
    ASSUME SafetyInv, NEW h \in Handlers, NEW r \in Runs, Receive(h, r)
    PROVE  SafetyInv'
<1>1. Types /\ CallMakesSense(h) /\ call[h] \in Call /\ call[h].pc = "idle" /\ call[h].run = None
  BY DEF SafetyInv, Types, CallMakesSense, Receive, At
<1>2. call[h].deployed = 0 /\ call[h].todo = {}
  BY <1>1 DEF CallMakesSense
<1>3. PICK c : /\ Becomes(h, c)
               /\ \/ c = [call[h] EXCEPT !.pc = "create", !.run = r]
                  \/ c = [call[h] EXCEPT !.pc = "done", !.run = r, !.result = "FAILED"]
  BY DEF Receive
<1>4. /\ c \in Call /\ c.pc \in {"create", "done"} /\ c.run = r /\ c.deployed = 0 /\ c.todo = {}
      /\ c.pc = "done" => c.result = "FAILED"
  BY <1>1, <1>2, <1>3 DEF Call, CallSteps, Results
<1>5. /\ call' \in [Handlers -> Call] /\ call'[h] = c
      /\ \A g \in Handlers \ {h} : call'[g] = call[g]
  BY <1>1, <1>3, <1>4 DEF Becomes, Types
<1>6. UNCHANGED <<gone, stop, records, pods>>
  BY DEF Receive
<1>7. PICK others : others = {g \in Handlers : Active(g) /\ call[g].run = r}
  OBVIOUS
<1>8. /\ alone' = IF others = {} THEN alone ELSE alone \ (others \cup {h})
      /\ quiet' = {s \in quiet : stop[s].run # r}
  BY <1>7 DEF Receive
<1>9. alone' \subseteq alone /\ alone \subseteq Handlers /\ quiet' \subseteq quiet
  BY <1>1, <1>8 DEF Types
<1>10. r # None /\ FleetSize[r] \in Nat
  BY NoneFacts
<1>11. Types'
  BY <1>1, <1>5, <1>6, <1>9 DEF Types
<1>12. \A g \in Handlers : CallMakesSense(g)'
  <2>1. CallMakesSense(h)'
    <3>1. c.run # None /\ 0 <= FleetSize[c.run]
      BY <1>4, <1>10
    <3>2. QED
      BY <1>4, <1>5, <3>1 DEF CallMakesSense
  <2>2. ASSUME NEW g \in Handlers \ {h}
        PROVE  CallMakesSense(g)'
    <3>1. CallMakesSense(g) /\ call'[g] = call[g]
      BY <1>5 DEF SafetyInv
    <3>2. QED
      BY <3>1 DEF CallMakesSense
  <2>3. QED
    BY <2>1, <2>2
<1>13. (\A s \in Stoppers : StopMakesSense(s)') /\ NamesMakeSense'
  BY <1>6 DEF SafetyInv, StopMakesSense, NamesMakeSense, NamesOf, PodName
<1>14. AloneIsAlone'
  <2> SUFFICES ASSUME NEW g \in alone', Active(g)', NEW k \in Handlers \ {g}, Active(k)'
               PROVE  call'[k].run # call'[g].run
    BY DEF AloneIsAlone
  <2>1. CASE g = h
    BY <1>4, <1>5, <1>7, <1>8, <2>1 DEF Active
  <2>2. CASE k = h
    <3>1. g \in Handlers \ {h} /\ Active(g) /\ call'[g] = call[g]
      BY <1>5, <1>9, <2>2 DEF Active
    <3>2. g \notin others
      BY <1>8
    <3>3. QED
      BY <1>4, <1>5, <1>7, <2>2, <3>1, <3>2
  <2>3. CASE g # h /\ k # h
    BY <1>5, <1>9, <2>3 DEF SafetyInv, AloneIsAlone, Active
  <2>4. QED
    BY <2>1, <2>2, <2>3
<1>15. UnaskedIsUnknown'
  BY <1>1, <1>5, <1>6, <1>10, NoneFacts DEF SafetyInv, UnaskedIsUnknown
<1>16. ASSUME NEW g \in alone'
       PROVE  RecordIsOwn(g)' /\ LeftIsKnown(g)' /\ KnownIsLeft(g)'
  <2>1. RecordIsOwn(g) /\ LeftIsKnown(g) /\ KnownIsLeft(g) /\ Left(g)' = Left(g)
    BY <1>6, <1>9 DEF SafetyInv, Left
  <2>2. CASE g = h
    <3>1. Left(h) = {}
      BY <1>1, <2>1, <2>2 DEF LeftIsKnown
    <3>2. QED
      BY <1>4, <1>5, <2>1, <2>2, <3>1 DEF RecordIsOwn, LeftIsKnown, KnownIsLeft, Recording
  <2>3. CASE g # h
    <3>1. call'[g] = call[g]
      BY <1>5, <1>9, <2>3
    <3>2. Recorded(g)' = Recorded(g) /\ NextPod(g)' = NextPod(g) /\ Accounted(g)' = Accounted(g)
      BY <1>6, <3>1 DEF Recorded, NextPod, Accounted
    <3>3. RecordIsOwn(g)' /\ LeftIsKnown(g)'
      BY <1>6, <2>1, <3>1, <3>2 DEF RecordIsOwn, LeftIsKnown, Recording, PodName
    <3>4. Undisturbed(call[g].run)' => Undisturbed(call[g].run)
      <4>1. CallsLike(call[g].run) \subseteq CallsLike(call[g].run)'
        BY <1>1, <1>5, <3>1 DEF CallsLike
      <4>2. StopsLike(call[g].run)' = StopsLike(call[g].run)
        BY <1>6, <3>1 DEF StopsLike
      <4>3. QED
        BY <1>9, <4>1, <4>2 DEF Undisturbed
    <3>5. NamesOf(call[g].run)' = NamesOf(call[g].run)
      BY <3>1 DEF NamesOf, PodName
    <3>6. KnownIsLeft(g)'
      BY <1>6, <2>1, <3>1, <3>2, <3>4, <3>5 DEF KnownIsLeft, Recording
    <3>7. QED
      BY <3>3, <3>6
  <2>4. QED
    BY <2>2, <2>3
<1>17. ASSUME NEW g \in Handlers
       PROVE  PhaseIsTold(g)'
  <2>1. CASE g = h
    <3> SUFFICES ASSUME Sole(h)', records'[call'[h].run] # None
                 PROVE  FALSE
      BY <2>1 DEF PhaseIsTold
    <3>1. PICK k \in Handlers : call[k].run = r
      BY <1>4, <1>5, <1>6 DEF SafetyInv, UnaskedIsUnknown
    <3>2. k # h
      BY <1>1, <1>10, <3>1
    <3>3. QED
      BY <1>4, <1>5, <3>1, <3>2 DEF Sole
  <2>2. CASE g # h
    <3>1. call'[g] = call[g] /\ PhaseIsTold(g)
      BY <1>5, <2>2 DEF SafetyInv
    <3>2. Sole(g)' => Sole(g)
      BY <1>1, <1>5, <3>1 DEF Sole
    <3>3. QED
      BY <1>6, <3>1, <3>2 DEF PhaseIsTold
  <2>3. QED
    BY <2>1, <2>2
<1>18. ASSUME NEW s \in quiet'
       PROVE  StopKnows(s)'
  <2>1. StopKnows(s) /\ stop[s].run # r
    BY <1>8 DEF SafetyInv
  <2>2. PodsOf(stop[s].run)' = PodsOf(stop[s].run)
    BY <1>6 DEF PodsOf
  <2>3. \A g \in Handlers : Active(g)' => call'[g].run # stop[s].run
    BY <1>4, <1>5, <2>1 DEF StopKnows, Active
  <2>4. QED
    BY <1>6, <2>1, <2>2, <2>3 DEF StopKnows
<1>19. QED
  BY <1>11, <1>12, <1>13, <1>14, <1>15, <1>16, <1>17, <1>18 DEF SafetyInv

\* A client leaves: less is asked of its call.
LEMMA ClientLeavesStep ==
    ASSUME SafetyInv, NEW h \in Handlers, ClientLeaves(h)
    PROVE  SafetyInv'
<1>1. /\ UNCHANGED <<call, stop, records, pods, alone, quiet>>
      /\ gone' = gone \cup {h} /\ Types
  BY DEF SafetyInv, ClientLeaves, history
<1>2. Types'
  BY <1>1 DEF Types
<1>3. /\ \A g \in Handlers : CallMakesSense(g)' /\ PhaseIsTold(g)'
      /\ \A s \in Stoppers : StopMakesSense(s)'
      /\ \A s \in quiet : StopKnows(s)'
      /\ NamesMakeSense' /\ AloneIsAlone' /\ UnaskedIsUnknown'
  <2>1. \A g \in Handlers : CallMakesSense(g)' = CallMakesSense(g)
    BY <1>1 DEF CallMakesSense
  <2>2. \A g \in Handlers : PhaseIsTold(g)' = PhaseIsTold(g)
    BY <1>1 DEF PhaseIsTold, Sole
  <2>3. \A s \in Stoppers : StopMakesSense(s)' = StopMakesSense(s)
    BY <1>1 DEF StopMakesSense
  <2>4. \A s \in quiet : StopKnows(s)' = StopKnows(s)
    BY <1>1 DEF StopKnows, PodsOf, Active
  <2>5. NamesMakeSense' /\ AloneIsAlone' /\ UnaskedIsUnknown'
    BY <1>1 DEF SafetyInv, NamesMakeSense, NamesOf, PodName, AloneIsAlone, UnaskedIsUnknown,
                Active
  <2>6. QED
    BY <2>1, <2>2, <2>3, <2>4, <2>5 DEF SafetyInv
<1>4. ASSUME NEW g \in alone
      PROVE  RecordIsOwn(g)' /\ LeftIsKnown(g)' /\ KnownIsLeft(g)'
  <2>1. RecordIsOwn(g) /\ LeftIsKnown(g) /\ KnownIsLeft(g)
    BY DEF SafetyInv
  <2>2. /\ Recorded(g)' = Recorded(g) /\ Left(g)' = Left(g) /\ NextPod(g)' = NextPod(g)
        /\ Recording(g)' = Recording(g) /\ NamesOf(call[g].run)' = NamesOf(call[g].run)
    BY <1>1 DEF Recorded, Left, NextPod, Recording, NamesOf, PodName
  <2>3. Accounted(g)' => Accounted(g)
    BY <1>1 DEF Accounted
  <2>4. RecordIsOwn(g)'
    BY <1>1, <2>1, <2>2 DEF RecordIsOwn, PodName
  <2>5. LeftIsKnown(g)'
    BY <1>1, <2>1, <2>2, <2>3 DEF LeftIsKnown
  <2>6. Undisturbed(call[g].run)' = Undisturbed(call[g].run)
    BY <1>1 DEF Undisturbed, CallsLike, StopsLike
  <2>7. KnownIsLeft(g)'
    BY <1>1, <2>1, <2>2, <2>6 DEF KnownIsLeft
  <2>8. QED
    BY <2>4, <2>5, <2>7
<1>5. QED
  BY <1>1, <1>2, <1>3, <1>4 DEF SafetyInv

\* The manager restarts: no call is under way, and no record left.
LEMMA RestartStep ==
    ASSUME SafetyInv, Restart
    PROVE  SafetyInv'
<1>1. Types /\ UNCHANGED <<gone, pods, alone, quiet>>
  BY DEF SafetyInv, Restart, history
<1>2. \A r \in Runs : records'[r] = None
  BY DEF Restart
<1>3. ASSUME NEW g \in Handlers
      PROVE  /\ call'[g] \in Call /\ call'[g].run = call[g].run /\ ~Active(g)'
             /\ Active(g) => /\ call'[g].pc = "done" /\ call'[g].result = "none"
                             /\ call'[g].deployed = 0 /\ call'[g].todo = {}
             /\ ~Active(g) => call'[g] = call[g]
  <2>1. call[g] \in Call /\ call'[g] = IF Active(g) THEN Dead(g) ELSE call[g]
    BY <1>1 DEF Types, Restart
  <2>2. Dead(g) \in Call /\ Dead(g).pc = "done"
    BY <2>1 DEF Dead, Call, CallSteps, Results
  <2>3. QED
    BY <2>1, <2>2 DEF Dead, Active
<1>4. call' \in [Handlers -> Call]
  BY <1>3 DEF Restart
<1>5. ASSUME NEW s \in Stoppers
      PROVE  /\ stop'[s] \in Stop /\ stop'[s].run = stop[s].run
             /\ \/ stop'[s] = stop[s]
                \/ stop'[s].pc = "done" /\ stop'[s].todo = {} /\ stop'[s].result = "error"
             /\ stop'[s].pc \in {"idle", "done"}
             /\ stop'[s].pc = "idle" <=> stop[s].pc = "idle"
  <2>1. stop[s] \in Stop
    BY <1>1 DEF Types
  <2>2. PICK c : c = [stop[s] EXCEPT !.pc = "done", !.todo = {}, !.result = "error"]
    OBVIOUS
  <2>3. /\ c \in Stop /\ c.pc = "done" /\ c.run = stop[s].run
        /\ c.todo = {} /\ c.result = "error"
    BY <2>1, <2>2 DEF Stop
  <2>4. stop'[s] = IF stop[s].pc \in {"sigterm", "kill"} THEN c ELSE stop[s]
    BY <2>2 DEF Restart
  <2>5. QED
    BY <2>1, <2>3, <2>4 DEF Stop
<1>6. stop' \in [Stoppers -> Stop]
  BY <1>5 DEF Restart
<1>7. Types'
  BY <1>1, <1>4, <1>6 DEF Types, Restart
<1>8. ASSUME NEW g \in Handlers
      PROVE  CallMakesSense(g)'
  <2>1. CallMakesSense(g)
    BY DEF SafetyInv
  <2>2. CASE Active(g)
    <3>1. call[g].run \in Runs
      BY <1>1, <2>1, <2>2 DEF CallMakesSense, Types, Call, Active
    <3>2. call[g].run # None /\ 0 <= FleetSize[call[g].run]
      BY <3>1, NoneFacts
    <3>3. QED
      BY <1>3, <2>2, <3>2 DEF CallMakesSense
  <2>3. CASE ~Active(g)
    BY <1>3, <2>1, <2>3 DEF CallMakesSense
  <2>4. QED
    BY <2>2, <2>3
<1>9. ASSUME NEW s \in Stoppers
      PROVE  StopMakesSense(s)'
  <2>1. StopMakesSense(s)
    BY DEF SafetyInv
  <2>2. QED
    BY <1>5, <2>1 DEF StopMakesSense
<1>10. NamesMakeSense' /\ AloneIsAlone' /\ UnaskedIsUnknown'
  <2>1. NamesMakeSense'
    BY <1>1, <1>2 DEF SafetyInv, NamesMakeSense, NamesOf, PodName
  <2>2. AloneIsAlone'
    BY <1>1, <1>3 DEF AloneIsAlone, Types
  <2>3. UnaskedIsUnknown'
    BY <1>2 DEF UnaskedIsUnknown
  <2>4. QED
    BY <2>1, <2>2, <2>3
<1>11. ASSUME NEW g \in alone
       PROVE  RecordIsOwn(g)' /\ LeftIsKnown(g)' /\ KnownIsLeft(g)'
  <2>1. RecordIsOwn(g) /\ LeftIsKnown(g) /\ KnownIsLeft(g) /\ g \in Handlers
    BY <1>1 DEF SafetyInv, Types
  <2>2. ~Recording(g)' /\ Left(g)' = Left(g)
    BY <1>1, <1>3, <2>1 DEF Recording, Active, Left
  <2>3. Undisturbed(call[g].run)' = Undisturbed(call[g].run)
    BY <1>1, <1>3, <1>5, <2>1 DEF Undisturbed, CallsLike, StopsLike
  <2>4. NamesOf(call[g].run)' = NamesOf(call[g].run)
    BY <1>3, <2>1 DEF NamesOf, PodName
  <2>5. CASE Active(g)
    BY <1>3, <2>1, <2>2, <2>5 DEF RecordIsOwn, LeftIsKnown, KnownIsLeft
  <2>6. CASE ~Active(g)
    <3>1. call'[g] = call[g] /\ Accounted(g)' = Accounted(g)
      BY <1>1, <1>3, <2>1, <2>6 DEF Accounted
    <3>2. call[g].pc \in {"idle", "done"}
      BY <2>6 DEF Active
    <3>3. QED
      BY <1>1, <2>1, <2>2, <2>3, <2>4, <3>1, <3>2 DEF RecordIsOwn, LeftIsKnown, KnownIsLeft
  <2>7. QED
    BY <2>5, <2>6
<1>12. \A g \in Handlers : PhaseIsTold(g)'
  <2>1. \A g \in Handlers : Sole(g)' => call'[g].run \in Runs
    BY <1>4 DEF Sole, Call
  <2>2. QED
    BY <1>2, <2>1 DEF PhaseIsTold
<1>13. ASSUME NEW s \in quiet
       PROVE  StopKnows(s)'
  <2>1. StopKnows(s) /\ s \in Stoppers /\ PodsOf(stop[s].run)' = PodsOf(stop[s].run)
    BY <1>1, <1>5 DEF SafetyInv, Types, PodsOf
  <2>2. QED
    BY <1>3, <1>5, <2>1 DEF StopKnows
<1>14. QED
  BY <1>1, <1>7, <1>8, <1>9, <1>10, <1>11, <1>12, <1>13 DEF SafetyInv

-----------------------------------------------------------------------------
(* Steps of StopFleet and of Kubernetes: pods only fade *)

\* What such a step may do to a pod: it is gone, or leaving, or ready.
Fades(p) ==
    \/ pods'[p] = pods[p]
    \/ pods'[p] = None
    \/ /\ pods[p] # None
       /\ \/ pods'[p] = [pods[p] EXCEPT !.ready = TRUE]
          \/ pods'[p] = [pods[p] EXCEPT !.leaving = TRUE, !.orphan = FALSE]

PodsFade ==
    /\ UNCHANGED <<call, gone, records, alone>>
    /\ pods' \in [PodNames -> Pod \cup {None}]
    /\ \A p \in PodNames : Fades(p)

\* A pod of a call that is let be stays, and stays ready.
Spared(g) ==
    \A p \in Left(g) : p[1] = Prefix[call[g].run] =>
        p \in Left(g)' /\ (pods[p].ready => pods'[p].ready)

\* A pod that fades remains whose it was.
LEMMA FadesFacts ==
    ASSUME Types, PodsFade, NEW p \in PodNames, pods'[p] # None
    PROVE  /\ pods[p] # None /\ pods[p] \in Pod
           /\ pods'[p].run = pods[p].run /\ pods'[p].by = pods[p].by
           /\ ~pods'[p].leaving => ~pods[p].leaving /\ pods'[p].orphan = pods[p].orphan
<1>1. Fades(p)
  BY DEF PodsFade
<1>2. pods[p] # None
  BY <1>1 DEF Fades
<1>3. pods[p] \in Pod
  BY <1>2 DEF Types
<1>4. QED
  BY <1>1, <1>2, <1>3 DEF Fades, Pod

\* No pod of a run appears.
LEMMA FadesPodsOf ==
    ASSUME Types, PodsFade, NEW r
    PROVE  PodsOf(r)' \subseteq PodsOf(r)
BY FadesFacts DEF PodsOf

\* No call notices, and a stop that keeps its run disturbs no fewer runs.
LEMMA FadeStep ==
    ASSUME SafetyInv, PodsFade,
           stop' \in [Stoppers -> Stop],
           \A s \in Stoppers : stop[s].run # None => stop'[s].run = stop[s].run,
           \A g \in alone : call[g].run # None /\ Undisturbed(call[g].run) => Spared(g),
           quiet' \subseteq Stoppers,
           \A s \in Stoppers : StopMakesSense(s)',
           \A s \in quiet' : StopKnows(s)'
    PROVE  SafetyInv'
<1>1. Types /\ UNCHANGED <<call, gone, records, alone>>
  BY DEF SafetyInv, PodsFade
<1>2. Types'
  BY <1>1 DEF Types, PodsFade
<1>3. \A g \in Handlers : CallMakesSense(g)' = CallMakesSense(g)
  BY <1>1 DEF CallMakesSense
<1>4. \A g \in Handlers : PhaseIsTold(g)' = PhaseIsTold(g)
  BY <1>1 DEF PhaseIsTold, Sole
<1>5. NamesMakeSense'
  BY <1>1, FadesFacts DEF SafetyInv, NamesMakeSense, NamesOf, PodName
<1>6. AloneIsAlone' /\ UnaskedIsUnknown'
  BY <1>1 DEF SafetyInv, AloneIsAlone, UnaskedIsUnknown, Active
<1>7. ASSUME NEW g \in alone
      PROVE  RecordIsOwn(g)' /\ LeftIsKnown(g)' /\ KnownIsLeft(g)'
  <2>1. RecordIsOwn(g) /\ LeftIsKnown(g) /\ KnownIsLeft(g) /\ CallMakesSense(g)
    BY <1>1 DEF SafetyInv, Types
  <2>2. /\ Recorded(g)' = Recorded(g) /\ NextPod(g)' = NextPod(g) /\ Accounted(g)' = Accounted(g)
        /\ Recording(g)' = Recording(g) /\ NamesOf(call[g].run)' = NamesOf(call[g].run)
    BY <1>1 DEF Recorded, NextPod, Accounted, Recording, NamesOf, PodName
  <2>3. RecordIsOwn(g)'
    BY <1>1, <2>1, <2>2 DEF RecordIsOwn, PodName
  <2>4. \A p \in Left(g)' : p \in Left(g) /\ pods'[p].orphan = pods[p].orphan
    BY <1>1, FadesFacts DEF Left
  <2>5. LeftIsKnown(g)'
    BY <1>1, <2>1, <2>2, <2>4 DEF LeftIsKnown
  <2>6. Undisturbed(call[g].run)' => Undisturbed(call[g].run)
    <3>1. StopsLike(call[g].run) \subseteq StopsLike(call[g].run)'
      BY <1>1 DEF StopsLike
    <3>2. CallsLike(call[g].run)' = CallsLike(call[g].run)
      BY <1>1 DEF CallsLike
    <3>3. QED
      BY <1>1, <3>1, <3>2 DEF Undisturbed
  <2>7. KnownIsLeft(g)'
    <3> SUFFICES ASSUME call[g].run # None, Undisturbed(call[g].run)
                 PROVE  KnownIsLeft(g)'
      BY <1>1, <2>6 DEF KnownIsLeft
    <3>1. call[g].run \in Runs
      BY <1>1 DEF Types, Call
    <3>2. \A p \in Left(g) : p[1] = Prefix[call[g].run] =>
              p \in Left(g)' /\ (pods[p].ready => pods'[p].ready)
      BY DEF Spared
    <3>3. \A p \in NamesOf(call[g].run) : p[1] = Prefix[call[g].run]
      BY <3>1, NamesBegin
    <3>4. Recording(g) => Recorded(g) \subseteq NamesOf(call[g].run)
      BY <2>1, <3>1 DEF SafetyInv, NamesMakeSense, Recorded, RecordIsOwn
    <3>5. NextPod(g)[1] = Prefix[call[g].run]
      BY DEF NextPod, PodName
    <3>6. \A p \in call[g].todo : p[1] = Prefix[call[g].run]
      BY <2>1 DEF CallMakesSense
    <3>7. QED
      BY <1>1, <2>1, <2>2, <3>2, <3>3, <3>4, <3>5, <3>6 DEF KnownIsLeft
  <2>8. QED
    BY <2>3, <2>5, <2>7
<1>8. QED
  BY <1>1, <1>2, <1>3, <1>4, <1>5, <1>6, <1>7 DEF SafetyInv

\* A pod becomes ready, or one that was leaving is gone.
LEMMA KubernetesStep ==
    ASSUME SafetyInv, Kubernetes
    PROVE  SafetyInv'
<1>1. Types /\ UNCHANGED <<call, gone, stop, records, alone, quiet>>
  BY DEF SafetyInv, Kubernetes, history
<1>2. PICK p \in PodNames : PodBecomesReady(p) \/ PodVanishes(p)
  BY DEF Kubernetes
<1>3. pods \in [PodNames -> Pod \cup {None}] /\ pods[p] \in Pod
  BY <1>1, <1>2 DEF Types, PodBecomesReady, PodVanishes
<1>4. PodsFade /\ \A g \in alone : Spared(g)
  <2>1. CASE PodBecomesReady(p)
    <3>1. PICK e : e = [pods[p] EXCEPT !.ready = TRUE]
      OBVIOUS
    <3>2. e \in Pod /\ e # None
      BY <1>3, <3>1, PodStays, NoneFacts
    <3>3. e.ready /\ e.by = pods[p].by /\ e.leaving = pods[p].leaving
      BY <1>3, <3>1 DEF Pod
    <3>4. pods' = [pods EXCEPT ![p] = e] /\ pods[p] # None
      BY <2>1, <3>1 DEF PodBecomesReady
    <3>5. PodsFade
      BY <1>1, <1>3, <3>1, <3>2, <3>4 DEF PodsFade, Fades
    <3>6. \A g \in alone : Spared(g)
      BY <1>3, <3>2, <3>3, <3>4 DEF Spared, Left
    <3>7. QED
      BY <3>5, <3>6
  <2>2. CASE PodVanishes(p)
    <3>1. pods' = [pods EXCEPT ![p] = None] /\ pods[p].leaving
      BY <2>2 DEF PodVanishes
    <3>2. PodsFade
      BY <1>1, <1>3, <3>1 DEF PodsFade, Fades
    <3>3. \A g \in alone : Spared(g)
      BY <1>3, <3>1 DEF Spared, Left
    <3>4. QED
      BY <3>2, <3>3
  <2>3. QED
    BY <1>2, <2>1, <2>2
<1>5. \A s \in Stoppers : StopMakesSense(s)'
  BY <1>1 DEF SafetyInv, StopMakesSense
<1>6. ASSUME NEW s \in quiet
      PROVE  StopKnows(s)'
  <2>1. StopKnows(s)
    BY DEF SafetyInv
  <2>2. PICK r : r = stop[s].run
    OBVIOUS
  <2>3. PodsOf(r)' \subseteq PodsOf(r)
    BY <1>1, <1>4, FadesPodsOf
  <2>4. PodsOf(stop[s].run) = PodsOf(r) /\ PodsOf(stop[s].run)' = PodsOf(r)'
    BY <1>1, <2>2 DEF PodsOf
  <2>5. QED
    BY <1>1, <2>1, <2>3, <2>4 DEF StopKnows, Active
<1>7. stop' \in [Stoppers -> Stop] /\ quiet' \subseteq Stoppers
  BY <1>1 DEF Types
<1>8. QED
  BY <1>1, <1>4, <1>5, <1>6, <1>7, FadeStep

\* Other stops that were quiet still know what they knew.
LEMMA OtherStopsKnow ==
    ASSUME SafetyInv, PodsFade, NEW s \in quiet, stop'[s] = stop[s]
    PROVE  StopKnows(s)'
<1>1. Types /\ StopKnows(s) /\ UNCHANGED call
  BY DEF SafetyInv, PodsFade
<1>2. PICK r : r = stop[s].run
  OBVIOUS
<1>3. PodsOf(r)' \subseteq PodsOf(r)
  BY <1>1, FadesPodsOf
<1>4. PodsOf(stop[s].run) = PodsOf(r) /\ PodsOf(stop[s].run)' = PodsOf(r)'
  BY <1>2 DEF PodsOf
<1>5. QED
  BY <1>1, <1>3, <1>4 DEF StopKnows, Active

\* A stop goes on; it touches no pod but those it means to.
LEMMA StopStep ==
    ASSUME SafetyInv, NEW s \in Stoppers, stop[s].pc \in {"sigterm", "kill"},
           NEW c \in Stop, c.run = stop[s].run, c.pc # "idle",
           c.todo # {} => c.pc \in {"sigterm", "kill"},
           \A p \in c.todo : p[1] = Prefix[stop[s].run],
           StopBecomes(s, c), PodsFade, UNCHANGED quiet,
           \A p \in PodNames : pods'[p] = pods[p] \/ p \in stop[s].todo,
           s \in quiet =>
               /\ c.pc = "done" /\ c.result = "ok" => PodsOf(c.run)' = {}
               /\ c.pc = "kill" /\ c.result = "ok" => PodsOf(c.run)' \subseteq c.todo
    PROVE  SafetyInv'
<1>1. Types /\ StopMakesSense(s) /\ stop' = [stop EXCEPT ![s] = c]
  BY DEF SafetyInv, StopBecomes
<1>2. stop' \in [Stoppers -> Stop] /\ stop'[s] = c /\ \A t \in Stoppers \ {s} : stop'[t] = stop[t]
  BY <1>1 DEF Types
<1>3. stop[s].run # None
  BY <1>1 DEF StopMakesSense
<1>4. ASSUME NEW g \in alone, call[g].run # None, Undisturbed(call[g].run)
      PROVE  Spared(g)
  <2> SUFFICES ASSUME NEW p \in Left(g), p[1] = Prefix[call[g].run]
               PROVE  p \in Left(g)' /\ (pods[p].ready => pods'[p].ready)
    BY DEF Spared
  <2>1. p \notin stop[s].todo
    BY <1>1, <1>3, <1>4 DEF StopMakesSense, Undisturbed, StopsLike
  <2>2. pods'[p] = pods[p]
    BY <2>1 DEF Left
  <2>3. QED
    BY <2>2 DEF Left
<1>5. \A t \in Stoppers : StopMakesSense(t)'
  <2>1. StopMakesSense(s)'
    BY <1>2, <1>3 DEF StopMakesSense
  <2>2. \A t \in Stoppers \ {s} : StopMakesSense(t)'
    BY <1>2 DEF SafetyInv, StopMakesSense
  <2>3. QED
    BY <2>1, <2>2
<1>6. ASSUME NEW t \in quiet
      PROVE  StopKnows(t)'
  <2>1. CASE t = s
    <3>1. StopKnows(s) /\ UNCHANGED call
      BY <2>1 DEF SafetyInv, PodsFade
    <3>2. PodsOf(stop[s].run)' = PodsOf(c.run)'
      BY <1>2 DEF PodsOf
    <3>3. QED
      BY <1>2, <2>1, <3>1, <3>2 DEF StopKnows, Active
  <2>2. CASE t # s
    BY <1>1, <1>2, <2>2, OtherStopsKnow DEF Types
  <2>3. QED
    BY <2>1, <2>2
<1>7. quiet' = quiet /\ quiet \subseteq Stoppers
  BY <1>1 DEF Types
<1>8. QED
  BY <1>2, <1>4, <1>5, <1>6, <1>7, FadeStep

\* A stop begins with the pods it finds.
LEMMA StopFleetStep ==
    ASSUME SafetyInv, NEW s \in Stoppers, NEW r \in Runs, StopFleet(s, r)
    PROVE  SafetyInv'
<1>1. /\ Types /\ UNCHANGED <<call, gone, records, pods, alone>>
      /\ stop[s].pc = "idle" /\ stop[s].run = None
  BY DEF SafetyInv, StopMakesSense, StopFleet
<1>2. PICK c : c = [pc |-> IF PodsOf(r) = {} THEN "done" ELSE "sigterm",
                    run |-> r, todo |-> PodsOf(r), result |-> "ok"]
  OBVIOUS
<1>3. /\ c.pc = IF PodsOf(r) = {} THEN "done" ELSE "sigterm"
      /\ c.run = r /\ c.todo = PodsOf(r)
  BY <1>2
<1>4. c \in Stop
  <2>1. PodsOf(r) \in SUBSET PodNames
    BY DEF PodsOf
  <2>2. QED
    BY <1>2, <2>1 DEF Stop
<1>5. stop' = [stop EXCEPT ![s] = c]
  BY <1>2 DEF StopFleet, StopBecomes
<1>6. stop' \in [Stoppers -> Stop] /\ stop'[s] = c /\ \A t \in Stoppers \ {s} : stop'[t] = stop[t]
  BY <1>1, <1>4, <1>5 DEF Types
<1>7. PodsFade
  BY <1>1 DEF PodsFade, Fades, Types
<1>8. \A g \in alone : Spared(g)
  BY <1>1 DEF Spared, Left
<1>9. r # None
  BY NoneFacts
<1>10. \A p \in PodsOf(r) : p[1] = Prefix[r]
  BY NamesBegin DEF PodsOf, SafetyInv, NamesMakeSense
<1>11. \A t \in Stoppers : StopMakesSense(t)'
  <2>1. StopMakesSense(s)'
    BY <1>3, <1>6, <1>9, <1>10 DEF StopMakesSense
  <2>2. \A t \in Stoppers \ {s} : StopMakesSense(t)'
    BY <1>6 DEF SafetyInv, StopMakesSense
  <2>3. QED
    BY <2>1, <2>2
<1>12. PICK busy \in BOOLEAN : busy <=> \E h \in Handlers : Active(h) /\ call[h].run = r
  OBVIOUS
<1>13. quiet' = IF busy THEN quiet ELSE quiet \cup {s}
  BY <1>12 DEF StopFleet
<1>14. s \notin quiet
  BY <1>1 DEF SafetyInv, StopKnows
<1>15. ASSUME NEW t \in quiet'
       PROVE  StopKnows(t)'
  <2>1. CASE t = s
    <3>1. ~busy
      BY <1>13, <1>14, <2>1
    <3>2. PodsOf(stop[s].run)' = PodsOf(r)
      BY <1>1, <1>3, <1>6 DEF PodsOf
    <3>3. \A h \in Handlers : Active(h)' => call'[h].run # stop'[s].run
      BY <1>1, <1>3, <1>6, <1>12, <3>1 DEF Active
    <3>4. QED
      BY <1>3, <1>6, <2>1, <3>2, <3>3 DEF StopKnows
  <2>2. CASE t # s
    BY <1>1, <1>6, <1>7, <1>13, <2>2, OtherStopsKnow DEF Types
  <2>3. QED
    BY <2>1, <2>2
<1>16. quiet' \subseteq Stoppers
  BY <1>1, <1>13 DEF Types
<1>17. QED
  BY <1>1, <1>6, <1>7, <1>8, <1>11, <1>15, <1>16, FadeStep

\* A stop that only looks at the pods, or fails to do anything to them.
LEMMA StillStop ==
    ASSUME SafetyInv, NEW s \in Stoppers, stop[s].pc \in {"sigterm", "kill"},
           NEW c \in Stop, c.run = stop[s].run, c.pc # "idle",
           c.todo # {} => c.pc \in {"sigterm", "kill"},
           \A p \in c.todo : p[1] = Prefix[stop[s].run],
           StopBecomes(s, c), UNCHANGED <<call, gone, records, pods, history>>,
           s \in quiet =>
               /\ c.pc = "done" /\ c.result = "ok" => PodsOf(stop[s].run) = {}
               /\ c.pc = "kill" /\ c.result = "ok" => PodsOf(stop[s].run) \subseteq c.todo
    PROVE  SafetyInv'
<1>1. Types /\ UNCHANGED <<call, gone, records, pods, alone, quiet>>
  BY DEF SafetyInv, history
<1>2. PodsFade
  BY <1>1 DEF PodsFade, Fades, Types
<1>3. PodsOf(c.run)' = PodsOf(stop[s].run)
  BY <1>1 DEF PodsOf
<1>4. \A p \in PodNames : pods'[p] = pods[p] \/ p \in stop[s].todo
  BY <1>1
<1>5. QED
  BY <1>1, <1>2, <1>3, <1>4, StopStep

\* A pod is asked to go, or could not be.
LEMMA TerminateStep ==
    ASSUME SafetyInv, NEW s \in Stoppers, NEW p \in PodNames, Terminate(s, p)
    PROVE  SafetyInv'
<1>1. /\ Types /\ StopMakesSense(s) /\ stop[s].pc = "sigterm" /\ p \in stop[s].todo
      /\ UNCHANGED <<call, gone, records, alone, quiet>> /\ stop[s] \in Stop
  BY DEF SafetyInv, Types, Terminate, history
<1>2. PICK c : c = [stop[s] EXCEPT !.todo = stop[s].todo \ {p}]
  OBVIOUS
<1>3. /\ c \in Stop /\ c.pc = "sigterm" /\ c.run = stop[s].run /\ c.todo = stop[s].todo \ {p}
  <2>1. stop[s].todo \ {p} \in SUBSET PodNames
    BY <1>1 DEF Stop
  <2>2. QED
    BY <1>1, <1>2, <2>1 DEF Stop
<1>4. StopBecomes(s, c)
  BY <1>2 DEF Terminate
<1>5. \A q \in c.todo : q[1] = Prefix[stop[s].run]
  BY <1>1, <1>3 DEF StopMakesSense
<1>6. PodsFade /\ \A q \in PodNames : pods'[q] = pods[q] \/ q \in stop[s].todo
  <2>1. CASE Leave(p)
    <3>1. /\ pods' \in [PodNames -> Pod \cup {None}]
          /\ \A q \in PodNames \ {p} : pods'[q] = pods[q]
          /\ pods[p] = None => pods'[p] = None
          /\ pods[p] # None => pods'[p] = [pods[p] EXCEPT !.leaving = TRUE, !.orphan = FALSE]
      BY <1>1, <2>1, LeaveFacts
    <3>2. Fades(p)
      BY <3>1 DEF Fades
    <3>3. \A q \in PodNames : Fades(q)
      BY <3>1, <3>2 DEF Fades
    <3>4. QED
      BY <1>1, <3>1, <3>3 DEF PodsFade
  <2>2. CASE UNCHANGED pods
    BY <1>1, <2>2 DEF PodsFade, Fades, Types
  <2>3. QED
    BY <2>1, <2>2 DEF Terminate
<1>7. QED
  BY <1>1, <1>3, <1>4, <1>5, <1>6, StopStep

\* A pod that is still there is killed.
LEMMA KillStep ==
    ASSUME SafetyInv, NEW s \in Stoppers, NEW p \in PodNames, Kill(s, p)
    PROVE  SafetyInv'
<1>1. /\ Types /\ StopMakesSense(s) /\ stop[s].pc = "kill" /\ p \in stop[s].todo
      /\ UNCHANGED <<call, gone, records, alone, quiet>> /\ stop[s] \in Stop
  BY DEF SafetyInv, Types, Kill, history
<1>2. PICK c : c = [stop[s] EXCEPT !.todo = stop[s].todo \ {p}]
  OBVIOUS
<1>3. /\ c \in Stop /\ c.pc = "kill" /\ c.run = stop[s].run /\ c.todo = stop[s].todo \ {p}
      /\ c.result = stop[s].result
  <2>1. stop[s].todo \ {p} \in SUBSET PodNames
    BY <1>1 DEF Stop
  <2>2. QED
    BY <1>1, <1>2, <2>1 DEF Stop
<1>4. StopBecomes(s, c) /\ pods' = [pods EXCEPT ![p] = None]
  BY <1>2 DEF Kill
<1>5. \A q \in c.todo : q[1] = Prefix[stop[s].run]
  BY <1>1, <1>3 DEF StopMakesSense
<1>6. pods \in [PodNames -> Pod \cup {None}]
  BY <1>1 DEF Types
<1>7. PodsFade /\ pods'[p] = None /\ \A q \in PodNames : pods'[q] = pods[q] \/ q \in stop[s].todo
  BY <1>1, <1>4, <1>6 DEF PodsFade, Fades
<1>8. s \in quiet /\ c.result = "ok" => PodsOf(c.run)' \subseteq c.todo
  <2> SUFFICES ASSUME s \in quiet, stop[s].result = "ok"
               PROVE  PodsOf(c.run)' \subseteq c.todo
    BY <1>3
  <2>1. PodsOf(stop[s].run) \subseteq stop[s].todo
    BY <1>1 DEF SafetyInv, StopKnows
  <2>2. PodsOf(c.run)' \subseteq PodsOf(c.run)
    BY <1>1, <1>7, FadesPodsOf
  <2>3. p \notin PodsOf(c.run)'
    BY <1>7 DEF PodsOf
  <2>4. PodsOf(c.run) = PodsOf(stop[s].run)
    BY <1>3 DEF PodsOf
  <2>5. QED
    BY <1>3, <2>1, <2>2, <2>3, <2>4
<1>9. QED
  BY <1>1, <1>3, <1>4, <1>5, <1>7, <1>8, StopStep

\* The other steps of a stop change no pod.
LEMMA ShutdownStep ==
    ASSUME SafetyInv, NEW s \in Stoppers, ShutdownFleet(s)
    PROVE  SafetyInv'
<1>1. Types /\ stop[s] \in Stop /\ StopMakesSense(s) /\ (s \in quiet => StopKnows(s))
  BY DEF SafetyInv, Types
<1>2. ASSUME AllGone(s)
      PROVE  SafetyInv'
  <2>1. PICK c : c = [stop[s] EXCEPT !.pc = "done", !.result = "ok"]
    OBVIOUS
  <2>2. /\ c \in Stop /\ c.pc = "done" /\ c.run = stop[s].run /\ c.todo = {}
        /\ stop[s].pc = "sigterm" /\ PodsOf(stop[s].run) = {}
    BY <1>1, <1>2, <2>1 DEF Stop, AllGone
  <2>3. StopBecomes(s, c) /\ UNCHANGED <<call, gone, records, pods, history>>
    BY <1>2, <2>1 DEF AllGone, StopReturns
  <2>4. QED
    BY <2>2, <2>3, StillStop
<1>3. ASSUME StopFails(s)
      PROVE  SafetyInv'
  <2>1. PICK c : c = [stop[s] EXCEPT !.pc = "done", !.result = "error"]
    OBVIOUS
  <2>2. /\ c \in Stop /\ c.pc = "done" /\ c.run = stop[s].run /\ c.todo = {}
        /\ c.result = "error" /\ stop[s].pc = "sigterm"
    BY <1>1, <1>3, <2>1 DEF Stop, StopFails
  <2>3. StopBecomes(s, c) /\ UNCHANGED <<call, gone, records, pods, history>>
    BY <1>3, <2>1 DEF StopFails, StopReturns
  <2>4. QED
    BY <2>2, <2>3, StillStop
<1>4. ASSUME GraceEnds(s)
      PROVE  SafetyInv'
  <2>1. PICK c : c = [stop[s] EXCEPT !.pc = "kill", !.todo = PodsOf(stop[s].run)]
    OBVIOUS
  <2>2. PodsOf(stop[s].run) \in SUBSET PodNames
    BY DEF PodsOf
  <2>3. /\ c \in Stop /\ c.pc = "kill" /\ c.run = stop[s].run /\ c.todo = PodsOf(stop[s].run)
        /\ stop[s].pc = "sigterm"
    BY <1>1, <1>4, <2>1, <2>2 DEF Stop, GraceEnds
  <2>4. stop[s].run \in Runs
    BY <1>1, <2>3 DEF StopMakesSense, Stop
  <2>5. \A p \in c.todo : p[1] = Prefix[stop[s].run]
    BY <2>3, <2>4, NamesBegin DEF PodsOf, SafetyInv, NamesMakeSense
  <2>6. StopBecomes(s, c) /\ UNCHANGED <<call, gone, records, pods, history>>
    BY <1>4, <2>1 DEF GraceEnds
  <2>7. QED
    BY <2>3, <2>5, <2>6, StillStop
<1>5. ASSUME AllKilled(s)
      PROVE  SafetyInv'
  <2>1. PICK c : c = [stop[s] EXCEPT !.pc = "done", !.result = stop[s].result]
    OBVIOUS
  <2>2. /\ c \in Stop /\ c.pc = "done" /\ c.run = stop[s].run /\ c.todo = {}
        /\ c.result = stop[s].result /\ stop[s].pc = "kill" /\ stop[s].todo = {}
    BY <1>1, <1>5, <2>1 DEF Stop, AllKilled
  <2>3. StopBecomes(s, c) /\ UNCHANGED <<call, gone, records, pods, history>>
    BY <1>5, <2>1 DEF AllKilled, StopReturns
  <2>4. s \in quiet /\ c.result = "ok" => PodsOf(stop[s].run) = {}
    BY <1>1, <2>2 DEF StopKnows
  <2>5. QED
    BY <2>2, <2>3, <2>4, StillStop
<1>6. ASSUME NEW p \in PodNames, KillFails(s, p)
      PROVE  SafetyInv'
  <2>1. PICK c : c = [stop[s] EXCEPT !.todo = stop[s].todo \ {p}, !.result = "error"]
    OBVIOUS
  <2>2. stop[s].todo \ {p} \in SUBSET PodNames
    BY <1>1 DEF Stop
  <2>3. /\ c \in Stop /\ c.pc = "kill" /\ c.run = stop[s].run /\ c.todo = stop[s].todo \ {p}
        /\ c.result = "error" /\ stop[s].pc = "kill"
    BY <1>1, <1>6, <2>1, <2>2 DEF Stop, KillFails
  <2>4. \A q \in c.todo : q[1] = Prefix[stop[s].run]
    BY <1>1, <2>3 DEF StopMakesSense
  <2>5. StopBecomes(s, c) /\ UNCHANGED <<call, gone, records, pods, history>>
    BY <1>6, <2>1 DEF KillFails
  <2>6. QED
    BY <2>3, <2>4, <2>5, StillStop
<1>7. QED
  BY <1>2, <1>3, <1>4, <1>5, <1>6, TerminateStep, KillStep DEF ShutdownFleet

-----------------------------------------------------------------------------
(* The theorems *)

\* Nothing has happened yet.
LEMMA InitSafe ==
    ASSUME Init
    PROVE  SafetyInv
<1>1. Types
  BY DEF Init, Types, Call, CallSteps, Results, Stop
<1>2. \A h \in Handlers : CallMakesSense(h)
  BY NoneFacts DEF Init, CallMakesSense
<1>3. \A s \in Stoppers : StopMakesSense(s)
  BY DEF Init, StopMakesSense
<1>4. NamesMakeSense /\ AloneIsAlone /\ UnaskedIsUnknown
  BY DEF Init, NamesMakeSense, AloneIsAlone, UnaskedIsUnknown, Active
<1>5. \A h \in alone : RecordIsOwn(h) /\ LeftIsKnown(h) /\ KnownIsLeft(h)
  BY DEF Init, RecordIsOwn, LeftIsKnown, KnownIsLeft, Recording, Left
<1>6. \A h \in Handlers : PhaseIsTold(h)
  BY DEF Init, PhaseIsTold, Sole
<1>7. \A s \in quiet : StopKnows(s)
  BY DEF Init
<1>8. QED
  BY <1>1, <1>2, <1>3, <1>4, <1>5, <1>6, <1>7 DEF SafetyInv

\* No step of any actor breaks the invariant.
LEMMA NextSafe ==
    ASSUME SafetyInv, [Next]_vars
    PROVE  SafetyInv'
<1>1. CASE Next
  BY <1>1, ReceiveStep, ProvisionStep, ClientLeavesStep, StopFleetStep, ShutdownStep,
     KubernetesStep, RestartStep
     DEF Next
<1>2. CASE UNCHANGED vars
  <2>1. UNCHANGED <<call, gone, stop, records, pods, alone, quiet>>
    BY <1>2 DEF vars
  <2>2. PodsFade /\ \A g \in alone : Spared(g)
    BY <2>1 DEF PodsFade, Fades, Spared, Left, SafetyInv, Types
  <2>3. \A s \in Stoppers : StopMakesSense(s)'
    BY <2>1 DEF SafetyInv, StopMakesSense
  <2>4. \A s \in quiet : StopKnows(s)'
    BY <2>1, <2>2, OtherStopsKnow
  <2>5. QED
    BY <2>1, <2>2, <2>3, <2>4, FadeStep DEF SafetyInv, Types
<1>3. QED
  BY <1>1, <1>2

\* What the invariant says of calls that have returned.
LEMMA SafeIsCorrect ==
    ASSUME SafetyInv
    PROVE  FleetsConsistent /\ GivenUpLeavesNothing /\ StoppedLeavesNothing
<1>1. Types /\ alone \subseteq Handlers /\ quiet \subseteq Stoppers
  BY DEF SafetyInv, Types
<1>2. \A h \in Handlers : call[h] \in Call /\ CallMakesSense(h)
  BY <1>1 DEF SafetyInv, Types
<1>3. TypeOK
  <2>1. \A h \in Handlers : /\ call[h].pc \in CallSteps
                            /\ call[h].run \in Runs \cup {None}
                            /\ call[h].run # None => call[h].deployed <= FleetSize[call[h].run]
                            /\ call[h].result \in Results
    BY <1>2 DEF Call, CallMakesSense
  <2>2. \A s \in Stoppers : /\ stop[s].pc \in {"idle", "sigterm", "kill", "done"}
                            /\ stop[s].todo # {} => stop[s].pc \in {"sigterm", "kill"}
    BY <1>1 DEF SafetyInv, StopMakesSense, Types, Stop
  <2>3. \A p \in PodNames : pods[p] # None =>
            p \in {PodName(pods[p].run, i) : i \in 1..FleetSize[pods[p].run]}
    BY DEF SafetyInv, NamesMakeSense, NamesOf
  <2>4. gone \subseteq Handlers
    BY <1>1 DEF Types
  <2>5. QED
    BY <2>1, <2>2, <2>3, <2>4 DEF TypeOK, CallSteps, Results
<1>4. ReadyIsComplete
  <2> SUFFICES ASSUME NEW h \in alone, At(h, "done"), call[h].result = "READY",
                      Undisturbed(call[h].run),
                      NEW i \in 1..FleetSize[call[h].run]
               PROVE  LET p == PodName(call[h].run, i) IN
                      pods[p] # None /\ pods[p].by = h /\ pods[p].ready /\ ~pods[p].leaving
    BY DEF ReadyIsComplete, Undisturbed
  <2>1. call[h].run # None
    BY <1>1, <1>2 DEF CallMakesSense, At
  <2>2. \A p \in NamesOf(call[h].run) : p \in Left(h) /\ pods[p].ready
    BY <2>1 DEF SafetyInv, KnownIsLeft, At
  <2>3. PodName(call[h].run, i) \in NamesOf(call[h].run)
    BY DEF NamesOf
  <2>4. QED
    BY <2>2, <2>3 DEF Left
<1>5. PhaseTellsOutcome
  <2> SUFFICES ASSUME NEW h \in alone, call[h].run # None, At(h, "done"),
                      records[call[h].run] # None,
                      \A g \in Handlers \ {h} : call[g].run # call[h].run
               PROVE  records[call[h].run].phase =
                          CASE call[h].result = "TIMEOUT" -> "TERMINATED"
                            [] OTHER -> call[h].result
    BY DEF PhaseTellsOutcome
  <2>1. Sole(h) /\ PhaseIsTold(h)
    BY <1>1 DEF Sole, SafetyInv
  <2>2. QED
    BY <2>1 DEF PhaseIsTold, At
<1>6. GivenUpLeavesNothing
  <2> SUFFICES ASSUME NEW h \in alone, NEW p \in PodNames,
                      At(h, "done"), call[h].result \in {"FAILED", "TIMEOUT"},
                      h \notin gone \/ call[h].result = "TIMEOUT",
                      pods[p] # None, pods[p].by = h, ~pods[p].leaving
               PROVE  pods[p].orphan
    BY DEF GivenUpLeavesNothing
  <2>1. LeftIsKnown(h) /\ Accounted(h) /\ p \in Left(h)
    BY DEF SafetyInv, Accounted, Left
  <2>2. QED
    BY <2>1 DEF LeftIsKnown, At
<1>7. StoppedLeavesNothing
  BY DEF StoppedLeavesNothing, SafetyInv, StopKnows
<1>8. QED
  BY <1>3, <1>4, <1>5, <1>6, <1>7 DEF FleetsConsistent

\* The invariant holds in every state.
THEOREM AlwaysSafe == Spec => []SafetyInv
<1>1. Init => SafetyInv
  BY InitSafe
<1>2. SafetyInv /\ [Next]_vars => SafetyInv'
  BY NextSafe
<1>3. QED
  BY <1>1, <1>2, PTL DEF Spec

\* The store and the cluster agree with what the callers of ProvisionFleet were told:
\* a fleet reported READY is complete and stays so until it is stopped, the phase in
\* the store is that of the call's end (provisioner.go:55-188).
THEOREM FleetsAlwaysConsistent == Spec => []FleetsConsistent
<1>1. SafetyInv => FleetsConsistent
  BY SafeIsCorrect
<1>2. QED
  BY <1>1, AlwaysSafe, PTL

\* A fleet given up leaves no pod running but those whose own Create or Delete failed
\* (provisioner.go:83-143).
THEOREM GivenUpAlwaysLeavesNothing == Spec => []GivenUpLeavesNothing
<1>1. SafetyInv => GivenUpLeavesNothing
  BY SafeIsCorrect
<1>2. QED
  BY <1>1, AlwaysSafe, PTL

\* A StopFleet that returns without error leaves no pod of its run
\* (shutdown.go:32-124).
THEOREM StoppedAlwaysLeavesNothing == Spec => []StoppedLeavesNothing
<1>1. SafetyInv => StoppedLeavesNothing
  BY SafeIsCorrect
<1>2. QED
  BY <1>1, AlwaysSafe, PTL

-----------------------------------------------------------------------------
(* The scheduler: division with remainder, for the rounds of its loop *)

\* Division with remainder.
LEMMA DivMod ==
    ASSUME NEW n \in Nat, NEW l \in Nat \ {0}
    PROVE  /\ n % l \in 0..(l - 1) /\ n \div l \in Nat
           /\ n = l * (n \div l) + (n % l)
OBVIOUS

\* It is unique.
LEMMA DivModUnique ==
    ASSUME NEW l \in Nat \ {0}, NEW q \in Nat, NEW r \in 0..(l - 1), NEW n \in Nat, n = l * q + r
    PROVE  n % l = r /\ n \div l = q
OBVIOUS

\* One more.
LEMMA DivModNext ==
    ASSUME NEW n \in Nat, NEW l \in Nat \ {0}
    PROVE  /\ (n + 1) % l = IF n % l = l - 1 THEN 0 ELSE (n % l) + 1
           /\ (n + 1) \div l = IF n % l = l - 1 THEN n \div l + 1 ELSE n \div l
<1>1. PICK q \in Nat : q = n \div l
  BY DivMod
<1>2. PICK r \in 0..(l - 1) : r = n % l
  BY DivMod
<1>3. n = l * q + r
  BY <1>1, <1>2, DivMod
<1>4. CASE r = l - 1
  <2>1. n + 1 = l * (q + 1) + 0 /\ q + 1 \in Nat /\ 0 \in 0..(l - 1) /\ n + 1 \in Nat
    BY <1>3, <1>4
  <2>2. (n + 1) % l = 0 /\ (n + 1) \div l = q + 1
    BY <2>1, DivModUnique
  <2>3. QED
    BY <1>1, <1>2, <1>4, <2>2
<1>5. CASE r # l - 1
  <2>1. n + 1 = l * q + (r + 1) /\ r + 1 \in 0..(l - 1) /\ n + 1 \in Nat
    BY <1>3, <1>5
  <2>2. (n + 1) % l = r + 1 /\ (n + 1) \div l = q
    BY <2>1, DivModUnique
  <2>3. QED
    BY <1>1, <1>2, <1>5, <2>2
<1>6. QED
  BY <1>4, <1>5

-----------------------------------------------------------------------------
(* The scheduler: its inductive invariant *)

\* How often the loop has come to a position, and how many steps ago it did last.
Turn == nodeIdx % Len(order)
Visits(i) == IF i <= Turn THEN (nodeIdx \div Len(order)) + 1 ELSE nodeIdx \div Len(order)
Ago(i) == IF i <= Turn THEN Turn - i ELSE (Len(order) + Turn) - i

\* The eligible nodes are listed once each, the least loaded first.
Ordered ==
    /\ \A i \in DOMAIN order : order[i] \in Eligible
    /\ \A i, j \in DOMAIN order : i < j => LeastLoadedFirst(order[i], order[j])
    /\ \A i, j \in DOMAIN order : order[i] = order[j] => i = j
    /\ \A n \in Eligible : \E i \in DOMAIN order : order[i] = n

\* Every visit placed a bot as long as the node had room for it.
RoundRobin ==
    \A i \in DOMAIN order :
        Placed(i, placed) = IF Free(order[i]) <= Visits(i) THEN Free(order[i]) ELSE Visits(i)

\* The nodes that were passed over one after the other are full.
PassedOverFull == \A i \in DOMAIN order : Ago(i) < attempts => nodeCaps[i] = 0

\* The places that are taken, and that there are as many as bots.
Taken == UNION {{order[i]} \X (1..Placed(i, placed)) : i \in DOMAIN order}
EachBotHasAPlace == IsFiniteSet(Taken) /\ Cardinality(Taken) = Len(placed)

Loop == Ordered /\ TotalFree >= fleetSize /\ RoundRobin /\ PassedOverFull /\ EachBotHasAPlace

RequestOK ==
    /\ \E n \in Nat : nodes \in [1..n -> [currentBots : Nat, maxCapacity : Nat]]
    /\ fleetSize \in Nat

SchedulerInv ==
    /\ RequestOK
    /\ SchedulerTypeOK
    /\ order # <<>> => Loop
    /\ pc = "start" => order = <<>> /\ placed = <<>> /\ nodeIdx = 0 /\ attempts = 0
    /\ pc = "place" => order # <<>> /\ attempts <= Len(order)
    /\ pc = "interleave" => order # <<>> /\ Len(placed) = fleetSize
    /\ pc # "done" => answer = "none"
    /\ RefusedOnlyIfFull

\* What an eligible node has left is a positive number of places.
LEMMA FreeFacts ==
    ASSUME RequestOK
    PROVE  /\ IsFiniteSet(DOMAIN nodes) /\ Eligible \subseteq DOMAIN nodes
           /\ \A n \in DOMAIN nodes : nodes[n].currentBots \in Nat /\ Capacity(n) \in Nat
           /\ \A n \in Eligible : Free(n) \in Nat \ {0}
<1>1. PICK k \in Nat : nodes \in [1..k -> [currentBots : Nat, maxCapacity : Nat]]
  BY DEF RequestOK
<1>2. IsFiniteSet(DOMAIN nodes)
  BY <1>1, FS_Interval
<1>3. \A n \in DOMAIN nodes : nodes[n].currentBots \in Nat /\ Capacity(n) \in Nat
  BY <1>1, SchedulerAssumption DEF Capacity
<1>4. QED
  BY <1>2, <1>3 DEF Eligible, Free

\* Sorting lists every eligible node once.
LEMMA SortFacts ==
    ASSUME RequestOK, NEW s \in SetToSeqs(Eligible), IsSorted(s, LeastLoadedFirst),
           order' = s, request' = request
    PROVE  Ordered' /\ s \in Seq(DOMAIN nodes) /\ (Eligible # {} => s # <<>>)
<1>1. IsFiniteSet(Eligible)
  BY FreeFacts, FS_Subset
<1>2. PICK c \in Nat : c = Cardinality(Eligible)
  BY <1>1, FS_CardinalityType
<1>3. s \in [1..c -> Eligible] /\ \A i, j \in 1..c : i # j => s[i] # s[j]
  BY <1>2 DEF SetToSeqs
<1>4. s \in Injection(1..c, Eligible)
  BY <1>3 DEF Injection, IsInjective
<1>5. IsFiniteSet(1..c) /\ Cardinality(1..c) = c
  BY <1>2, FS_Interval
<1>6. s \in Surjection(1..c, Eligible)
  BY <1>1, <1>2, <1>4, <1>5, FS_Injection
<1>7. s \in Seq(DOMAIN nodes) /\ Len(s) = c /\ DOMAIN s = 1..c
  BY <1>3, FreeFacts
<1>8. Eligible # {} => s # <<>>
  BY <1>1, <1>2, <1>7, FS_EmptySet
<1>9. Eligible' = Eligible
  BY DEF request, Eligible, Capacity
<1>10. \A i, j \in 1..c : i < j => LeastLoadedFirst(s[i], s[j])'
  BY <1>7 DEF IsSorted, LeastLoadedFirst, request
<1>11. \A n \in Eligible : \E i \in 1..c : s[i] = n
  BY <1>6 DEF Surjection
<1>12. Ordered'
  BY <1>3, <1>7, <1>9, <1>10, <1>11 DEF Ordered
<1>13. QED
  BY <1>7, <1>8, <1>12

\* One more bot on a node.
LEMMA PlacedAppend ==
    ASSUME NEW S, NEW s \in Seq(S), NEW c \in S, NEW i
    PROVE  /\ Placed(i, s) \in Nat
           /\ Placed(i, Append(s, c)) = IF i = c THEN Placed(i, s) + 1 ELSE Placed(i, s)
<1> DEFINE before == {b \in DOMAIN s : s[b] = i}
<1>1. IsFiniteSet(before) /\ Cardinality(before) \in Nat
  <2>1. DOMAIN s = 1..Len(s) /\ Len(s) \in Int
    OBVIOUS
  <2>2. IsFiniteSet(DOMAIN s)
    BY <2>1, FS_Interval
  <2>3. before \in SUBSET (DOMAIN s)
    OBVIOUS
  <2>4. QED
    BY <2>2, <2>3, FS_Subset, FS_CardinalityType
<1>2. PICK t : t = Append(s, c)
  OBVIOUS
<1>3. /\ DOMAIN s = 1..Len(s) /\ Len(s) \in Nat /\ DOMAIN t = 1..(Len(s) + 1)
      /\ t[Len(s) + 1] = c /\ \A b \in 1..Len(s) : t[b] = s[b]
  BY <1>2
<1>4. {b \in DOMAIN t : t[b] = i} = IF i = c THEN before \cup {Len(s) + 1} ELSE before
  BY <1>3
<1>5. Len(s) + 1 \notin before
  BY <1>3
<1> HIDE DEF before
<1>6. Cardinality({b \in DOMAIN t : t[b] = i})
          = IF i = c THEN Cardinality(before) + 1 ELSE Cardinality(before)
  BY <1>1, <1>4, <1>5, FS_AddElement
<1>7. QED
  BY <1>1, <1>2, <1>6 DEF Placed, before

\* No bots yet.
LEMMA PlacedNone ==
    ASSUME NEW i
    PROVE  Placed(i, <<>>) = 0
BY FS_EmptySet DEF Placed

\* The next step of the loop visits the candidate, and nobody else.
LEMMA NextVisit ==
    ASSUME NEW S, order \in Seq(S), order # <<>>, nodeIdx \in Nat,
           order' = order, nodeIdx' = nodeIdx + 1
    PROVE  /\ Candidate \in DOMAIN order
           /\ Visits(Candidate) = nodeIdx \div Len(order)
           /\ \A i \in DOMAIN order :
                  /\ Visits(i) \in Nat
                  /\ Visits(i)' = IF i = Candidate THEN Visits(i) + 1 ELSE Visits(i)
                  /\ Ago(i) \in 0..(Len(order) - 1)
                  /\ Ago(i)' = IF i = Candidate THEN 0 ELSE Ago(i) + 1
<1>1. PICK l \in Nat \ {0} : l = Len(order) /\ DOMAIN order = 1..l
  BY EmptySeq
<1>2. PICK q \in Nat : q = nodeIdx \div l
  BY DivMod
<1>3. PICK r \in 0..(l - 1) : r = nodeIdx % l
  BY DivMod
<1>4. PICK r1 : r1 = IF r = l - 1 THEN 0 ELSE r + 1
  OBVIOUS
<1>5. PICK q1 : q1 = IF r = l - 1 THEN q + 1 ELSE q
  OBVIOUS
<1>6. (nodeIdx + 1) % l = r1 /\ (nodeIdx + 1) \div l = q1
  BY <1>2, <1>3, <1>4, <1>5, DivModNext
<1>7. Candidate = r + 1
  BY <1>1, <1>3 DEF Candidate
<1>8. ASSUME NEW i \in 1..l
      PROVE  /\ Visits(i) = IF i <= r THEN q + 1 ELSE q
             /\ Visits(i)' = IF i <= r1 THEN q1 + 1 ELSE q1
             /\ Ago(i) = IF i <= r THEN r - i ELSE (l + r) - i
             /\ Ago(i)' = IF i <= r1 THEN r1 - i ELSE (l + r1) - i
  BY <1>1, <1>2, <1>3, <1>6 DEF Visits, Ago, Turn
<1>9. Candidate \in DOMAIN order
  BY <1>1, <1>7
<1>10. ASSUME NEW i \in 1..l
       PROVE  /\ (IF i <= r THEN q + 1 ELSE q) \in Nat
              /\ (IF i <= r1 THEN q1 + 1 ELSE q1)
                     = IF i = r + 1 THEN (IF i <= r THEN q + 1 ELSE q) + 1
                                    ELSE (IF i <= r THEN q + 1 ELSE q)
              /\ (IF i <= r THEN r - i ELSE (l + r) - i) \in 0..(l - 1)
              /\ (IF i <= r1 THEN r1 - i ELSE (l + r1) - i)
                     = IF i = r + 1 THEN 0 ELSE (IF i <= r THEN r - i ELSE (l + r) - i) + 1
  BY <1>4, <1>5
<1>11. Visits(Candidate) = q
  BY <1>1, <1>7, <1>8, <1>9
<1>12. ASSUME NEW i \in 1..l
       PROVE  /\ Visits(i) \in Nat
              /\ Visits(i)' = IF i = Candidate THEN Visits(i) + 1 ELSE Visits(i)
              /\ Ago(i) \in 0..(l - 1)
              /\ Ago(i)' = IF i = Candidate THEN 0 ELSE Ago(i) + 1
  BY <1>7, <1>8, <1>10
<1>13. QED
  BY <1>1, <1>2, <1>9, <1>11, <1>12

\* The request stays what it was, and with it what the nodes have left.
LEMMA SameRequest ==
    ASSUME request' = request
    PROVE  /\ nodes' = nodes /\ fleetSize' = fleetSize
           /\ Eligible' = Eligible /\ TotalFree' = TotalFree
           /\ \A n : Capacity(n)' = Capacity(n) /\ Free(n)' = Free(n)
           /\ RequestOK => RequestOK'
<1>1. nodes' = nodes /\ fleetSize' = fleetSize
  BY DEF request
<1>2. \A n : Capacity(n)' = Capacity(n) /\ Free(n)' = Free(n)
  BY <1>1 DEF Capacity, Free
<1>3. Eligible' = Eligible
  BY <1>1 DEF Eligible, Capacity
<1>4. TotalFree' = TotalFree
  BY <1>1 DEF TotalFree, Places, Eligible, Free, Capacity
<1>5. RequestOK => RequestOK'
  BY <1>1 DEF RequestOK
<1>6. QED
  BY <1>1, <1>2, <1>3, <1>4, <1>5

\* At the start nothing is placed, sorted or refused.
LEMMA SchedulerInvInit ==
    ASSUME SchedulerInit
    PROVE  SchedulerInv
<1>1. RequestOK
  <2>1. PICK n \in 0..MaxNodes :
            nodes \in [1..n -> [currentBots : 0..MaxLoad, maxCapacity : 0..MaxLoad]]
    BY DEF SchedulerInit
  <2>2. n \in Nat /\ 0..MaxLoad \subseteq Nat
    BY SchedulerAssumption
  <2>3. nodes \in [1..n -> [currentBots : Nat, maxCapacity : Nat]]
    BY <2>1, <2>2
  <2>4. fleetSize \in Nat
    BY SchedulerAssumption DEF SchedulerInit
  <2>5. QED
    BY <2>2, <2>3, <2>4 DEF RequestOK
<1>2. order = <<>> /\ placed = <<>> /\ nodeCaps = <<>> /\ DOMAIN order = {} /\ Len(placed) = 0
  BY DEF SchedulerInit
<1>3. SchedulerTypeOK
  BY <1>1, <1>2 DEF SchedulerTypeOK, SchedulerInit, RequestOK
<1>4. RefusedOnlyIfFull
  BY DEF RefusedOnlyIfFull, SchedulerInit
<1>5. QED
  BY <1>1, <1>2, <1>3, <1>4 DEF SchedulerInv, SchedulerInit

\* The call refuses before it places anything, for want of nodes or of places.
LEMMA RefusalsKeepInv ==
    ASSUME SchedulerInv, RefuseNoNodes \/ RefuseTooMany, request' = request
    PROVE  SchedulerInv'
<1>1. /\ pc' = "done" /\ answer' \in {"ErrNoAvailableNodes", "ErrInsufficientCapacity"}
      /\ order' = order /\ nodeCaps' = nodeCaps /\ placed' = placed
      /\ nodeIdx' = nodeIdx /\ attempts' = attempts
  BY DEF RefuseNoNodes, RefuseTooMany, Answer
<1>2. order = <<>> /\ pc = "start"
  BY DEF SchedulerInv, RefuseNoNodes, RefuseTooMany
<1>3. SchedulerTypeOK'
  BY <1>1, <1>2, SameRequest DEF SchedulerInv, SchedulerTypeOK
<1>4. RefusedOnlyIfFull'
  <2>1. CASE RefuseNoNodes
    <3>1. \A n \in DOMAIN nodes : nodes[n].currentBots >= Capacity(n)
      BY <2>1, FreeFacts DEF SchedulerInv, RefuseNoNodes, Eligible
    <3>2. QED
      BY <2>1, <3>1, <1>1, SameRequest DEF RefusedOnlyIfFull
  <2>2. CASE RefuseTooMany
    BY <2>2, <1>1, SameRequest DEF RefusedOnlyIfFull, RefuseTooMany
  <2>3. QED
    BY <2>1, <2>2
<1>5. QED
  BY <1>1, <1>2, <1>3, <1>4, SameRequest DEF SchedulerInv

\* Before the first bot nothing is visited, placed or taken.
LEMMA SortKeepsInv ==
    ASSUME SchedulerInv, SortNodes, request' = request
    PROVE  SchedulerInv'
<1>1. RequestOK /\ Eligible # {} /\ TotalFree >= fleetSize
  BY DEF SchedulerInv, SortNodes
<1>2. placed = <<>> /\ nodeIdx = 0 /\ attempts = 0 /\ answer = "none"
  BY DEF SchedulerInv, SortNodes
<1>3. PICK s \in SetToSeqs(Eligible) :
          /\ IsSorted(s, LeastLoadedFirst)
          /\ order' = s /\ nodeCaps' = [i \in DOMAIN s |-> Free(s[i])]
  BY DEF SortNodes
<1>4. /\ pc' = "place" /\ placed' = <<>> /\ nodeIdx' = 0 /\ attempts' = 0 /\ answer' = "none"
  BY <1>2 DEF SortNodes
<1>5. Ordered' /\ s \in Seq(DOMAIN nodes) /\ s # <<>>
  BY <1>1, <1>3, SortFacts
<1>6. nodes' = nodes /\ fleetSize' = fleetSize /\ RequestOK' /\ TotalFree' = TotalFree
  BY <1>1, SameRequest
<1>7. ASSUME NEW i \in DOMAIN s
      PROVE  /\ nodeCaps'[i] = Free(s[i]) /\ Free(s[i]) \in Nat
             /\ Placed(i, placed)' = 0 /\ Free(order[i])' = Free(s[i])
             /\ Visits(i)' = 0 /\ Ago(i)' \in Nat
  <2>1. s[i] \in Eligible
    BY <1>3, <1>5, <1>7, SameRequest DEF Ordered
  <2>2. Free(s[i]) \in Nat
    BY <1>1, <2>1, FreeFacts
  <2>3. Placed(i, placed)' = 0
    BY <1>4, PlacedNone
  <2>4. Free(order[i])' = Free(s[i])
    BY <1>3, SameRequest
  <2>5. PICK l \in Nat \ {0} : l = Len(s) /\ i \in 1..l
    BY <1>5, <1>7
  <2>6. 0 = l * 0 + 0 /\ 0 \in 0..(l - 1) /\ 0 \in Nat
    BY <2>5
  <2>7. 0 % l = 0 /\ 0 \div l = 0
    BY <2>6, DivModUnique
  <2>8. Turn' = 0 /\ (nodeIdx \div Len(order))' = 0 /\ Len(order)' = l
    BY <1>3, <1>4, <2>5, <2>7 DEF Turn
  <2>9. Visits(i)' = 0 /\ Ago(i)' = (l + 0) - i
    BY <2>5, <2>8 DEF Visits, Ago
  <2>10. QED
    BY <1>3, <2>2, <2>3, <2>4, <2>5, <2>9
<1>8. SchedulerTypeOK'
  <2>1. order' \in Seq(DOMAIN nodes') /\ DOMAIN nodeCaps' = DOMAIN order'
    BY <1>3, <1>5, <1>6
  <2>2. placed' \in Seq(DOMAIN order') /\ Len(placed') <= fleetSize'
    BY <1>1, <1>4, <1>6 DEF RequestOK
  <2>3. \A i \in DOMAIN order' : /\ nodeCaps'[i] \in Nat
                                /\ nodeCaps'[i] + Placed(i, placed)' = Free(order[i])'
    BY <1>3, <1>7
  <2>4. QED
    BY <1>4, <2>1, <2>2, <2>3 DEF SchedulerTypeOK
<1>9. RoundRobin'
  <2>1. \A i \in DOMAIN order' :
            Placed(i, placed)' = IF Free(order[i])' <= Visits(i)' THEN Free(order[i])' ELSE Visits(i)'
    BY <1>3, <1>7
  <2>2. QED
    BY <2>1 DEF RoundRobin
<1>10. PassedOverFull'
  <2>1. \A i \in DOMAIN order' : ~(Ago(i)' < attempts')
    BY <1>3, <1>4, <1>7
  <2>2. QED
    BY <2>1 DEF PassedOverFull
<1>11. EachBotHasAPlace'
  <2>1. \A i \in DOMAIN order' : 1..(Placed(i, placed)') = {}
    BY <1>3, <1>7
  <2>2. Taken' = {}
    BY <2>1 DEF Taken
  <2>3. Len(placed') = 0
    BY <1>4
  <2>4. QED
    BY <2>2, <2>3, FS_EmptySet DEF EachBotHasAPlace
<1>12. Loop'
  BY <1>1, <1>5, <1>6, <1>9, <1>10, <1>11 DEF Loop
<1>13. RefusedOnlyIfFull'
  BY <1>4 DEF RefusedOnlyIfFull
<1>14. order' # <<>> /\ attempts' <= Len(order')
  BY <1>3, <1>4, <1>5
<1>15. QED
  BY <1>4, <1>6, <1>8, <1>12, <1>13, <1>14 DEF SchedulerInv

\* What holds of the loop when it comes to a node: the candidate is one of the
\* nodes, and its places and its visits are those of the round.
LEMMA Candidates ==
    ASSUME SchedulerInv, pc = "place" \/ order # <<>>
    PROVE  /\ Candidate \in DOMAIN order /\ order # <<>> /\ order \in Seq(DOMAIN nodes)
           /\ \A i \in DOMAIN order :
                  /\ Free(order[i]) \in Nat /\ Placed(i, placed) \in Nat /\ nodeCaps[i] \in Nat
                  /\ Visits(i) \in Nat /\ Ago(i) \in 0..(Len(order) - 1)
                  /\ nodeCaps[i] + Placed(i, placed) = Free(order[i])
<1>1. order # <<>> /\ order \in Seq(DOMAIN nodes) /\ nodeIdx \in Nat /\ RequestOK /\ Ordered
  BY DEF SchedulerInv, SchedulerTypeOK, Loop
<1>2. Len(order) \in Nat \ {0} /\ DOMAIN order = 1..Len(order)
  BY <1>1, EmptySeq
<1>3. /\ nodeIdx % Len(order) \in 0..(Len(order) - 1)
      /\ nodeIdx \div Len(order) \in Nat
  BY <1>1, <1>2, DivMod
<1>4. Candidate \in DOMAIN order
  BY <1>2, <1>3 DEF Candidate
<1>5. ASSUME NEW i \in DOMAIN order
      PROVE  Visits(i) \in Nat /\ Ago(i) \in 0..(Len(order) - 1)
  BY <1>2, <1>3 DEF Visits, Ago, Turn
<1>6. \A i \in DOMAIN order : Free(order[i]) \in Nat
  BY <1>1, FreeFacts DEF Ordered
<1>7. placed \in Seq(DOMAIN order)
  BY DEF SchedulerInv, SchedulerTypeOK
<1>8. \A i \in DOMAIN order : Placed(i, placed) \in Nat
  BY <1>4, <1>7, PlacedAppend
<1>9. \A i \in DOMAIN order : /\ nodeCaps[i] \in Nat
                              /\ nodeCaps[i] + Placed(i, placed) = Free(order[i])
  BY DEF SchedulerInv, SchedulerTypeOK
<1>10. QED
  BY <1>1, <1>4, <1>5, <1>6, <1>8, <1>9

\* The nodes stay sorted.
LEMMA StaysOrdered ==
    ASSUME Ordered, request' = request, order' = order
    PROVE  Ordered' /\ \A i : Free(order[i])' = Free(order[i])
<1>1. nodes' = nodes /\ Eligible' = Eligible
  BY SameRequest
<1>2. \A a, b : LeastLoadedFirst(a, b)' = LeastLoadedFirst(a, b)
  BY <1>1 DEF LeastLoadedFirst
<1>3. Ordered'
  BY <1>1, <1>2 DEF Ordered
<1>4. QED
  BY <1>3, SameRequest

\* When every node is full every place is taken.
LEMMA AllFull ==
    ASSUME SchedulerInv, pc = "place", \A i \in DOMAIN order : nodeCaps[i] = 0
    PROVE  TotalFree = Len(placed)
<1>1. Ordered /\ EachBotHasAPlace
  BY DEF SchedulerInv, Loop
<1>2. \A i \in DOMAIN order : Placed(i, placed) = Free(order[i])
  BY Candidates
<1>3. ASSUME NEW p
      PROVE  p \in Taken <=> p \in Places
  <2>1. p \in Taken <=> \E i \in DOMAIN order : p \in {order[i]} \X (1..Placed(i, placed))
    BY DEF Taken
  <2>2. p \in Places <=> \E n \in Eligible : p \in {n} \X (1..Free(n))
    BY DEF Places
  <2>3. p \in Taken => p \in Places
    BY <1>1, <1>2, <2>1, <2>2 DEF Ordered
  <2>4. ASSUME NEW n \in Eligible, p \in {n} \X (1..Free(n))
        PROVE  p \in Taken
    <3>1. PICK i \in DOMAIN order : order[i] = n
      BY <1>1 DEF Ordered
    <3>2. p \in {order[i]} \X (1..Placed(i, placed))
      BY <1>2, <2>4, <3>1
    <3>3. QED
      BY <2>1, <3>2
  <2>5. QED
    BY <2>2, <2>3, <2>4
<1>4. Taken = Places
  BY <1>3
<1>5. QED
  BY <1>1, <1>4 DEF EachBotHasAPlace, TotalFree

\* A node that is passed over stays full, and the loop does not come round to
\* the same node with places still to give out.
LEMMA SkipKeepsInv ==
    ASSUME SchedulerInv, SkipFullNode, request' = request
    PROVE  SchedulerInv'
<1>1. /\ pc = "place" /\ Len(placed) < fleetSize /\ nodeCaps[Candidate] = 0
      /\ nodeIdx' = nodeIdx + 1 /\ attempts' = attempts + 1
      /\ order' = order /\ nodeCaps' = nodeCaps /\ placed' = placed
  BY DEF SkipFullNode
<1>2. PICK c : c = Candidate
  OBVIOUS
<1>3. Loop /\ SchedulerTypeOK /\ RequestOK /\ attempts <= Len(order) /\ answer = "none"
  BY <1>1, Candidates DEF SchedulerInv
<1>4. nodeIdx \in Nat /\ attempts \in Nat /\ Len(order) \in Nat
  BY <1>3 DEF SchedulerTypeOK
<1>5. c \in DOMAIN order /\ order # <<>> /\ order \in Seq(DOMAIN nodes) /\ nodeCaps[c] = 0
  BY <1>1, <1>2, Candidates
<1>6. \A i \in DOMAIN order :
          /\ Visits(i)' = IF i = c THEN Visits(i) + 1 ELSE Visits(i)
          /\ Ago(i)' = IF i = c THEN 0 ELSE Ago(i) + 1
  BY <1>1, <1>2, <1>4, <1>5, NextVisit
<1>7. \A i : Placed(i, placed)' = Placed(i, placed)
  BY <1>1
<1>8. Ordered' /\ \A i : Free(order[i])' = Free(order[i])
  BY <1>1, <1>3, StaysOrdered DEF Loop
<1>9. nodes' = nodes /\ fleetSize' = fleetSize /\ TotalFree' = TotalFree /\ RequestOK'
  BY <1>3, SameRequest
<1>10. RoundRobin'
  <2>1. ASSUME NEW i \in DOMAIN order
        PROVE  Placed(i, placed) = IF Free(order[i]) <= Visits(i)'
                                     THEN Free(order[i]) ELSE Visits(i)'
    <3>1. Placed(i, placed) = IF Free(order[i]) <= Visits(i) THEN Free(order[i]) ELSE Visits(i)
      BY <1>3 DEF Loop, RoundRobin
    <3>2. /\ Free(order[i]) \in Nat /\ Visits(i) \in Nat /\ Placed(i, placed) \in Nat
          /\ nodeCaps[i] + Placed(i, placed) = Free(order[i])
      BY <1>1, Candidates
    <3>3. CASE i = c
      <4>1. Placed(i, placed) = Free(order[i])
        BY <1>5, <3>2, <3>3
      <4>2. Free(order[i]) <= Visits(i)
        BY <3>1, <3>2, <4>1
      <4>3. Visits(i)' = Visits(i) + 1
        BY <1>6, <3>3
      <4>4. QED
        BY <3>2, <4>1, <4>2, <4>3
    <3>4. CASE i # c
      BY <1>6, <3>1, <3>4
    <3>5. QED
      BY <3>3, <3>4
  <2>2. QED
    BY <1>1, <1>7, <1>8, <2>1 DEF RoundRobin
<1>11. PassedOverFull'
  <2>1. ASSUME NEW i \in DOMAIN order, Ago(i)' < attempts + 1
        PROVE  nodeCaps[i] = 0
    <3>1. CASE i = c
      BY <1>5, <3>1
    <3>2. CASE i # c
      <4>1. Ago(i)' = Ago(i) + 1 /\ Ago(i) \in Nat
        BY <1>1, <1>6, <3>2, Candidates
      <4>2. Ago(i) < attempts
        BY <1>4, <2>1, <4>1
      <4>3. QED
        BY <1>3, <4>2 DEF Loop, PassedOverFull
    <3>3. QED
      BY <3>1, <3>2
  <2>2. QED
    BY <1>1, <2>1 DEF PassedOverFull
<1>12. EachBotHasAPlace'
  BY <1>1, <1>3, <1>7 DEF Loop, EachBotHasAPlace, Taken
<1>13. Loop'
  BY <1>3, <1>8, <1>9, <1>10, <1>11, <1>12 DEF Loop
<1>14. attempts' <= Len(order)
  <2>1. SUFFICES ASSUME attempts' > Len(order)
                 PROVE  FALSE
    BY <1>1, <1>4
  <2>2. attempts = Len(order)
    BY <1>1, <1>3, <1>4, <2>1
  <2>3. \A i \in DOMAIN order : Ago(i) < attempts
    BY <1>1, <1>4, <2>2, Candidates
  <2>4. \A i \in DOMAIN order : nodeCaps[i] = 0
    BY <1>3, <2>3 DEF Loop, PassedOverFull
  <2>5. TotalFree = Len(placed)
    BY <1>1, <2>4, AllFull
  <2>6. Len(placed) \in Nat /\ fleetSize \in Nat
    BY <1>3 DEF SchedulerTypeOK, RequestOK
  <2>7. QED
    BY <1>1, <1>3, <2>5, <2>6 DEF Loop
<1>15. pc' = "place" /\ answer' = "none"
  BY <1>1, <1>3, <1>4, <1>14 DEF SkipFullNode
<1>16. SchedulerTypeOK'
  BY <1>1, <1>3, <1>4, <1>7, <1>8, <1>9, <1>15 DEF SchedulerTypeOK
<1>17. RefusedOnlyIfFull'
  BY <1>15 DEF RefusedOnlyIfFull
<1>18. QED
  BY <1>1, <1>5, <1>9, <1>13, <1>14, <1>15, <1>16, <1>17 DEF SchedulerInv

\* A bot takes the next place of its node, which was free.
LEMMA OnePlaceTaken ==
    ASSUME Ordered, EachBotHasAPlace, NEW c \in DOMAIN order, order' = order,
           \A i \in DOMAIN order : Placed(i, placed) \in Nat,
           \A i \in DOMAIN order :
               Placed(i, placed)' = IF i = c THEN Placed(i, placed) + 1 ELSE Placed(i, placed)
    PROVE  IsFiniteSet(Taken)' /\ Cardinality(Taken)' = Cardinality(Taken) + 1
<1>1. PICK k \in Nat : k = Placed(c, placed)
  OBVIOUS
<1>2. PICK p : p = <<order[c], k + 1>>
  OBVIOUS
<1>3. \A t : t \in Taken <=> \E i \in DOMAIN order : t \in {order[i]} \X (1..Placed(i, placed))
  BY DEF Taken
<1>4. \A t : t \in Taken' <=> \E i \in DOMAIN order : t \in {order[i]} \X (1..(Placed(i, placed)'))
  BY DEF Taken
<1>5. p \notin Taken
  <2>1. SUFFICES ASSUME NEW i \in DOMAIN order, p \in {order[i]} \X (1..Placed(i, placed))
                 PROVE  FALSE
    BY <1>3
  <2>2. order[i] = order[c] /\ k + 1 \in 1..Placed(i, placed)
    BY <1>2, <2>1
  <2>3. i = c
    BY <2>2 DEF Ordered
  <2>4. QED
    BY <1>1, <2>2, <2>3
<1>6. ASSUME NEW t
      PROVE  t \in Taken' <=> t \in Taken \/ t = p
  <2>1. 1..(k + 1) = (1..k) \cup {k + 1}
    BY <1>1
  <2>2. t \in {order[c]} \X (1..(k + 1)) <=> t \in {order[c]} \X (1..k) \/ t = p
    BY <1>2, <2>1
  <2>3. ASSUME NEW i \in DOMAIN order
        PROVE  t \in {order[i]} \X (1..(Placed(i, placed)'))
                  <=> t \in {order[i]} \X (1..Placed(i, placed)) \/ (i = c /\ t = p)
    <3>1. CASE i = c
      <4>1. Placed(i, placed)' = k + 1 /\ Placed(i, placed) = k
        BY <1>1, <3>1
      <4>2. QED
        BY <2>2, <3>1, <4>1
    <3>2. CASE i # c
      BY <3>2
    <3>3. QED
      BY <3>1, <3>2
  <2>4. QED
    BY <1>3, <1>4, <2>3
<1>7. Taken' = Taken \cup {p}
  BY <1>6
<1>8. QED
  BY <1>5, <1>7, FS_AddElement DEF EachBotHasAPlace

\* A node with room has been given a bot on every visit, so this is its turn.
LEMMA PlaceKeepsInv ==
    ASSUME SchedulerInv, PlaceBot, request' = request
    PROVE  SchedulerInv'
<1>1. PICK c : c = Candidate
  OBVIOUS
<1>2. /\ pc = "place" /\ Len(placed) < fleetSize /\ nodeCaps[c] # 0
      /\ nodeIdx' = nodeIdx + 1 /\ attempts' = 0 /\ order' = order /\ pc' = pc /\ answer' = answer
      /\ placed' = Append(placed, c) /\ nodeCaps' = [nodeCaps EXCEPT ![c] = nodeCaps[c] - 1]
  BY <1>1 DEF PlaceBot
<1>3. Loop /\ SchedulerTypeOK /\ RequestOK /\ answer = "none"
  BY <1>2, Candidates DEF SchedulerInv
<1>4. nodeIdx \in Nat /\ Len(order) \in Nat
  BY <1>3 DEF SchedulerTypeOK
<1>5. c \in DOMAIN order /\ order # <<>> /\ order \in Seq(DOMAIN nodes)
  BY <1>1, <1>2, Candidates
<1>6. \A i \in DOMAIN order :
          /\ Visits(i)' = IF i = c THEN Visits(i) + 1 ELSE Visits(i)
          /\ Ago(i)' = IF i = c THEN 0 ELSE Ago(i) + 1
  BY <1>1, <1>2, <1>4, <1>5, NextVisit
<1>7. placed \in Seq(DOMAIN order)
  BY <1>3 DEF SchedulerTypeOK
<1>8. \A i : Placed(i, placed)' = IF i = c THEN Placed(i, placed) + 1 ELSE Placed(i, placed)
  BY <1>2, <1>5, <1>7, PlacedAppend
<1>9. \A i \in DOMAIN order :
          /\ Free(order[i]) \in Nat /\ Placed(i, placed) \in Nat /\ nodeCaps[i] \in Nat
          /\ Visits(i) \in Nat /\ Ago(i) \in Nat
          /\ nodeCaps[i] + Placed(i, placed) = Free(order[i])
  BY <1>2, Candidates
<1>10. Ordered' /\ \A i : Free(order[i])' = Free(order[i])
  BY <1>2, <1>3, StaysOrdered DEF Loop
<1>11. nodes' = nodes /\ fleetSize' = fleetSize /\ TotalFree' = TotalFree /\ RequestOK'
  BY <1>3, SameRequest
<1>12. RoundRobin'
  <2>1. ASSUME NEW i \in DOMAIN order
        PROVE  Placed(i, placed)' = IF Free(order[i]) <= Visits(i)'
                                      THEN Free(order[i]) ELSE Visits(i)'
    <3>1. Placed(i, placed) = IF Free(order[i]) <= Visits(i) THEN Free(order[i]) ELSE Visits(i)
      BY <1>3 DEF Loop, RoundRobin
    <3>2. CASE i = c
      <4>1. Placed(i, placed) < Free(order[i])
        BY <1>2, <1>9, <3>2
      <4>2. Placed(i, placed) = Visits(i)
        BY <1>9, <3>1, <4>1
      <4>3. Visits(i)' = Visits(i) + 1 /\ Placed(i, placed)' = Placed(i, placed) + 1
        BY <1>6, <1>8, <3>2
      <4>4. QED
        BY <1>9, <4>1, <4>2, <4>3
    <3>3. CASE i # c
      BY <1>6, <1>8, <3>1, <3>3
    <3>4. QED
      BY <3>2, <3>3
  <2>2. QED
    BY <1>2, <1>10, <2>1 DEF RoundRobin
<1>13. PassedOverFull'
  <2>1. ASSUME NEW i \in DOMAIN order
        PROVE  ~(Ago(i)' < 0)
    BY <1>6, <1>9
  <2>2. QED
    BY <1>2, <2>1 DEF PassedOverFull
<1>14. EachBotHasAPlace'
  <2>1. IsFiniteSet(Taken)' /\ Cardinality(Taken)' = Cardinality(Taken) + 1
    BY <1>2, <1>3, <1>5, <1>8, <1>9, OnePlaceTaken DEF Loop
  <2>2. Len(placed') = Len(placed) + 1
    BY <1>2, <1>7
  <2>3. QED
    BY <1>3, <2>1, <2>2 DEF Loop, EachBotHasAPlace
<1>15. Loop'
  BY <1>3, <1>10, <1>11, <1>12, <1>13, <1>14 DEF Loop
<1>16. SchedulerTypeOK'
  <2>1. placed' \in Seq(DOMAIN order') /\ Len(placed') <= fleetSize'
    BY <1>2, <1>3, <1>5, <1>7, <1>11 DEF RequestOK
  <2>2. DOMAIN nodeCaps' = DOMAIN order' /\ order' \in Seq(DOMAIN nodes')
    BY <1>2, <1>3, <1>11 DEF SchedulerTypeOK
  <2>3. ASSUME NEW i \in DOMAIN order
        PROVE  /\ nodeCaps'[i] \in Nat
               /\ nodeCaps'[i] + Placed(i, placed)' = Free(order[i])
    <3>1. nodeCaps'[i] = IF i = c THEN nodeCaps[i] - 1 ELSE nodeCaps[i]
      BY <1>2, <1>3 DEF SchedulerTypeOK
    <3>2. QED
      BY <1>2, <1>8, <1>9, <3>1
  <2>4. \A i \in DOMAIN order' : /\ nodeCaps'[i] \in Nat
                                /\ nodeCaps'[i] + Placed(i, placed)' = Free(order[i])'
    BY <1>2, <1>10, <2>3
  <2>5. nodeIdx' \in Nat /\ attempts' \in Nat
    BY <1>2, <1>4
  <2>6. QED
    BY <1>2, <1>3, <2>1, <2>2, <2>4, <2>5 DEF SchedulerTypeOK
<1>17. RefusedOnlyIfFull'
  BY <1>2, <1>3 DEF RefusedOnlyIfFull
<1>18. order' # <<>> /\ attempts' <= Len(order')
  BY <1>2, <1>4, <1>5
<1>19. QED
  BY <1>2, <1>3, <1>11, <1>15, <1>16, <1>17, <1>18 DEF SchedulerInv

\* Giving out the scenarios does not touch the places, and there is one for every bot.
LEMMA ScenariosKeepInv ==
    ASSUME SchedulerInv, CountScenarios \/ TakeTurn \/ ReturnAssignments, request' = request
    PROVE  SchedulerInv'
<1>1. /\ pc \in {"place", "interleave"} /\ Len(placed) = fleetSize /\ order # <<>>
      /\ \/ pc' = "interleave" /\ answer' = answer /\ answer = "none"
         \/ pc' = "done" /\ answer' = "ok"
      /\ order' = order /\ nodeCaps' = nodeCaps /\ nodeIdx' = nodeIdx
      /\ attempts' = attempts /\ placed' = placed
  BY DEF SchedulerInv, CountScenarios, TakeTurn, ReturnAssignments
<1>2. Loop /\ SchedulerTypeOK /\ RequestOK
  BY <1>1 DEF SchedulerInv
<1>3. nodes' = nodes /\ fleetSize' = fleetSize /\ TotalFree' = TotalFree /\ RequestOK'
  BY <1>2, SameRequest
<1>4. Ordered' /\ \A i : Free(order[i])' = Free(order[i])
  BY <1>1, <1>2, StaysOrdered DEF Loop
<1>5. \A i : Placed(i, placed)' = Placed(i, placed) /\ Visits(i)' = Visits(i) /\ Ago(i)' = Ago(i)
  BY <1>1 DEF Visits, Ago, Turn
<1>6. RoundRobin' /\ PassedOverFull'
  BY <1>1, <1>2, <1>4, <1>5 DEF Loop, RoundRobin, PassedOverFull
<1>7. EachBotHasAPlace'
  BY <1>1, <1>2, <1>5 DEF Loop, EachBotHasAPlace, Taken
<1>8. Loop'
  BY <1>2, <1>3, <1>4, <1>6, <1>7 DEF Loop
<1>9. SchedulerTypeOK'
  BY <1>1, <1>2, <1>3, <1>4, <1>5 DEF SchedulerTypeOK
<1>10. RefusedOnlyIfFull'
  BY <1>1, <1>3 DEF RefusedOnlyIfFull
<1>11. QED
  BY <1>1, <1>3, <1>8, <1>9, <1>10 DEF SchedulerInv

\* The scheduler's invariant is inductive.
LEMMA SchedulerInvStep ==
    ASSUME SchedulerInv, [SchedulerNext]_schedulerVars
    PROVE  SchedulerInv'
<1>1. CASE SchedulerNext
  <2>1. request' = request /\ Step
    BY <1>1 DEF SchedulerNext
  <2>2. CASE RefuseNoNodes \/ RefuseTooMany
    BY <2>1, <2>2, RefusalsKeepInv
  <2>3. CASE SortNodes
    BY <2>1, <2>3, SortKeepsInv
  <2>4. CASE SkipFullNode
    BY <2>1, <2>4, SkipKeepsInv
  <2>5. CASE PlaceBot
    BY <2>1, <2>5, PlaceKeepsInv
  <2>6. CASE CountScenarios \/ TakeTurn \/ ReturnAssignments
    BY <2>1, <2>6, ScenariosKeepInv
  <2>7. QED
    BY <2>1, <2>2, <2>3, <2>4, <2>5, <2>6 DEF Step
<1>2. CASE UNCHANGED schedulerVars
  <2>1. /\ request' = request /\ pc' = pc /\ order' = order /\ nodeCaps' = nodeCaps
        /\ nodeIdx' = nodeIdx /\ attempts' = attempts /\ placed' = placed /\ answer' = answer
    BY <1>2 DEF schedulerVars
  <2>2. nodes' = nodes /\ fleetSize' = fleetSize /\ TotalFree' = TotalFree /\ (RequestOK => RequestOK')
    BY <2>1, SameRequest
  <2>3. \A i : Placed(i, placed)' = Placed(i, placed) /\ Visits(i)' = Visits(i) /\ Ago(i)' = Ago(i)
    BY <2>1 DEF Visits, Ago, Turn
  <2>4. Loop => Loop'
    <3>1. SUFFICES ASSUME Loop
                   PROVE  Loop'
      OBVIOUS
    <3>2. Ordered' /\ \A i : Free(order[i])' = Free(order[i])
      BY <2>1, <3>1, StaysOrdered DEF Loop
    <3>3. RoundRobin' /\ PassedOverFull'
      BY <2>1, <2>3, <3>1, <3>2 DEF Loop, RoundRobin, PassedOverFull
    <3>4. EachBotHasAPlace'
      BY <2>1, <2>3, <3>1 DEF Loop, EachBotHasAPlace, Taken
    <3>5. QED
      BY <2>2, <3>1, <3>2, <3>3, <3>4 DEF Loop
  <2>5. \A i : Free(order[i])' = Free(order[i])
    BY <2>1, SameRequest
  <2>6. SchedulerTypeOK'
    BY <2>1, <2>2, <2>3, <2>5 DEF SchedulerInv, SchedulerTypeOK
  <2>7. RefusedOnlyIfFull'
    BY <2>1, <2>2, SameRequest DEF SchedulerInv, RefusedOnlyIfFull
  <2>8. QED
    BY <2>1, <2>2, <2>4, <2>6, <2>7 DEF SchedulerInv
<1>3. QED
  BY <1>1, <1>2

\* Round after round spreads the fleet: a node that is behind another is full, or
\* its turn comes later in the same round.
LEMMA RoundsLevelTheLoad ==
    ASSUME SchedulerInv
    PROVE  LoadIsLevelled
<1>1. SUFFICES ASSUME NEW i \in DOMAIN order, NEW j \in DOMAIN order,
                      Placed(i, placed) > Placed(j, placed),
                      Placed(j, placed) # Free(order[j])
               PROVE  /\ Placed(i, placed) = Placed(j, placed) + 1
                      /\ LeastLoadedFirst(order[i], order[j])
  BY DEF LoadIsLevelled
<1>2. order # <<>> /\ Loop
  <2>1. order # <<>>
    BY <1>1
  <2>2. QED
    BY <2>1 DEF SchedulerInv
<1>3. \A k \in DOMAIN order :
          /\ Free(order[k]) \in Nat /\ Placed(k, placed) \in Nat /\ Visits(k) \in Nat
          /\ Placed(k, placed) = IF Free(order[k]) <= Visits(k) THEN Free(order[k]) ELSE Visits(k)
  BY <1>2, Candidates DEF Loop, RoundRobin
<1>4. PICK r, q : r = Turn /\ q = nodeIdx \div Len(order)
  OBVIOUS
<1>5. r \in Nat /\ q \in Nat /\ i \in Nat /\ j \in Nat
  <2>1. order \in Seq(DOMAIN nodes) /\ nodeIdx \in Nat
    BY DEF SchedulerInv, SchedulerTypeOK
  <2>2. Len(order) \in Nat \ {0} /\ DOMAIN order = 1..Len(order)
    BY <1>2, <2>1, EmptySeq
  <2>3. /\ nodeIdx % Len(order) \in 0..(Len(order) - 1)
        /\ nodeIdx \div Len(order) \in Nat
    BY <2>1, <2>2, DivMod
  <2>4. r \in Nat /\ q \in Nat
    BY <1>4, <2>2, <2>3 DEF Turn
  <2>5. i \in Nat /\ j \in Nat
    BY <2>2
  <2>6. QED
    BY <2>4, <2>5
<1>6. /\ Visits(i) = IF i <= r THEN q + 1 ELSE q
      /\ Visits(j) = IF j <= r THEN q + 1 ELSE q
  BY <1>4 DEF Visits
<1>7. Placed(j, placed) = Visits(j) /\ Placed(i, placed) <= Visits(i)
  BY <1>1, <1>3
<1>8. Visits(i) > Visits(j)
  BY <1>1, <1>3, <1>7
<1>9. Visits(i) = Visits(j) + 1 /\ i < j
  BY <1>5, <1>6, <1>8
<1>10. Placed(i, placed) = Placed(j, placed) + 1
  BY <1>1, <1>3, <1>7, <1>9
<1>11. LeastLoadedFirst(order[i], order[j])
  BY <1>1, <1>2, <1>9 DEF Loop, Ordered
<1>12. QED
  BY <1>10, <1>11

\* In every state of the scheduler the invariant holds.
THEOREM SchedulerSafe == SchedulerSpec => []SchedulerInv
<1>1. SchedulerInit => SchedulerInv
  BY SchedulerInvInit
<1>2. SchedulerInv /\ [SchedulerNext]_schedulerVars => SchedulerInv'
  BY SchedulerInvStep
<1>3. QED
  BY <1>1, <1>2, PTL DEF SchedulerSpec

\* A fleet is refused only when it does not fit: the loop that skips full nodes
\* never gives up on a fleet the capacity check let through (scheduler.go:121).
THEOREM FleetsThatFitArePlaced == SchedulerSpec => []RefusedOnlyIfFull
<1>1. SchedulerInv => RefusedOnlyIfFull
  BY DEF SchedulerInv
<1>2. QED
  BY <1>1, SchedulerSafe, PTL

\* After every bot the places left are counted right and the load is level:
\* scheduler.Schedule fills the nodes evenly, the least loaded ones first.
THEOREM LoadAlwaysLevelled == SchedulerSpec => []PlacementConsistent
<1>1. SchedulerInv => PlacementConsistent
  BY RoundsLevelTheLoad DEF SchedulerInv, PlacementConsistent
<1>2. QED
  BY <1>1, SchedulerSafe, PTL
-----------------------------------------------------------------------------
(* The scheduler: scenarios *)

RequestedShares == fleetSize \in Nat /\ dist \in [Scenarios -> Nat]

\* Five numbers that are not all zero.
LEMMA PositiveSum ==
    ASSUME NEW a \in Nat, NEW b \in Nat, NEW c \in Nat, NEW d \in Nat, NEW e \in Nat,
           a # 0 \/ b # 0 \/ c # 0 \/ d # 0 \/ e # 0
    PROVE  a + b + c + d + e \in Nat \ {0}
OBVIOUS

\* Adding pairwise.
LEMMA PairwiseSum ==
    ASSUME NEW a1 \in Nat, NEW a2 \in Nat, NEW a3 \in Nat, NEW a4 \in Nat, NEW a5 \in Nat,
           NEW b1 \in Nat, NEW b2 \in Nat, NEW b3 \in Nat, NEW b4 \in Nat, NEW b5 \in Nat
    PROVE  (a1 + b1) + (a2 + b2) + (a3 + b3) + (a4 + b4) + (a5 + b5)
               = (a1 + a2 + a3 + a4 + a5) + (b1 + b2 + b3 + b4 + b5)
OBVIOUS

\* Numbers of at most m where the other is 1 and zero elsewhere, and in one more place.
LEMMA OneIsMissing ==
    ASSUME NEW m \in Nat, NEW r \in [Scenarios -> 0..m], NEW b \in [Scenarios -> {0, 1}],
           \A s \in Scenarios : b[s] = 0 => r[s] = 0,
           NEW j \in Scenarios, b[j] = 1, r[j] = 0
    PROVE  SumOf(b) - 1 \in Nat /\ SumOf(r) <= m * (SumOf(b) - 1)
<1>1. /\ 1 \in Scenarios /\ 2 \in Scenarios /\ 3 \in Scenarios /\ 4 \in Scenarios /\ 5 \in Scenarios
      /\ j = 1 \/ j = 2 \/ j = 3 \/ j = 4 \/ j = 5
  BY DEF Scenarios
<1>2. \A s \in Scenarios : r[s] \in Nat /\ r[s] <= m /\ b[s] \in {0, 1}
  OBVIOUS
<1>3. PICK r1 \in Nat, r2 \in Nat, r3 \in Nat, r4 \in Nat, r5 \in Nat :
          r1 = r[1] /\ r2 = r[2] /\ r3 = r[3] /\ r4 = r[4] /\ r5 = r[5]
  BY <1>1, <1>2
<1>4. PICK b1 \in {0, 1}, b2 \in {0, 1}, b3 \in {0, 1}, b4 \in {0, 1}, b5 \in {0, 1} :
          b1 = b[1] /\ b2 = b[2] /\ b3 = b[3] /\ b4 = b[4] /\ b5 = b[5]
  BY <1>1, <1>2
<1>5. /\ r1 <= m /\ r2 <= m /\ r3 <= m /\ r4 <= m /\ r5 <= m
      /\ b1 = 0 => r1 = 0
      /\ b2 = 0 => r2 = 0
      /\ b3 = 0 => r3 = 0
      /\ b4 = 0 => r4 = 0
      /\ b5 = 0 => r5 = 0
      /\ \/ b1 = 1 /\ r1 = 0
         \/ b2 = 1 /\ r2 = 0
         \/ b3 = 1 /\ r3 = 0
         \/ b4 = 1 /\ r4 = 0
         \/ b5 = 1 /\ r5 = 0
  BY <1>1, <1>2, <1>3, <1>4
<1>6. PICK n \in 0..4 : n = b1 + b2 + b3 + b4 + b5 - 1
  BY <1>5
<1>7. m * n = IF n = 0 THEN 0 ELSE IF n = 1 THEN m ELSE IF n = 2 THEN m + m
              ELSE IF n = 3 THEN m + m + m ELSE m + m + m + m
  BY <1>6
<1>8. r1 + r2 + r3 + r4 + r5 <= m * n
  BY <1>5, <1>6, <1>7
<1>9. SumOf(r) = r1 + r2 + r3 + r4 + r5 /\ SumOf(b) = b1 + b2 + b3 + b4 + b5
  BY <1>3, <1>4 DEF SumOf
<1>10. QED
  BY <1>6, <1>8, <1>9

\* Weights are positive together, and a share and its remainder make up the weight.
LEMMA ShareFacts ==
    ASSUME RequestedShares
    PROVE  /\ TotalWeight \in Nat \ {0} /\ Weight \in [Scenarios -> Nat]
           /\ \A s \in Scenarios :
                  /\ Share(s) \in Nat /\ Remainder(s) \in 0..(TotalWeight - 1)
                  /\ Weight[s] * fleetSize = TotalWeight * Share(s) + Remainder(s)
<1>1. Scenarios = {1, 2, 3, 4, 5}
  BY DEF Scenarios
<1>2. Weight \in [Scenarios -> Nat] /\ \E s \in Scenarios : Weight[s] # 0
  <2>1. CASE \A s \in Scenarios : dist[s] = 0
    BY <1>1, <2>1 DEF Weight
  <2>2. CASE ~(\A s \in Scenarios : dist[s] = 0)
    BY <2>2 DEF Weight, RequestedShares
  <2>3. QED
    BY <2>1, <2>2
<1>3. TotalWeight \in Nat \ {0}
  <2>1. PICK w : w = Weight
    OBVIOUS
  <2>2. /\ w[1] \in Nat /\ w[2] \in Nat /\ w[3] \in Nat /\ w[4] \in Nat /\ w[5] \in Nat
        /\ w[1] # 0 \/ w[2] # 0 \/ w[3] # 0 \/ w[4] # 0 \/ w[5] # 0
    BY <1>1, <1>2, <2>1
  <2>3. TotalWeight = w[1] + w[2] + w[3] + w[4] + w[5]
    BY <2>1 DEF TotalWeight, SumOf
  <2>4. QED
    BY <2>2, <2>3, PositiveSum
<1>4. ASSUME NEW s \in Scenarios
      PROVE  /\ Share(s) \in Nat /\ Remainder(s) \in 0..(TotalWeight - 1)
             /\ Weight[s] * fleetSize = TotalWeight * Share(s) + Remainder(s)
  <2>1. Weight[s] * fleetSize \in Nat
    BY <1>2 DEF RequestedShares
  <2>2. QED
    BY <1>3, <2>1, DivMod DEF Share, Remainder
<1>5. QED
  BY <1>2, <1>3, <1>4

\* A set of scenarios has as many members as there are scenarios in it.
LEMMA CountMembers ==
    ASSUME NEW served \in SUBSET Scenarios
    PROVE  /\ IsFiniteSet(served)
           /\ Cardinality(served) = SumOf([s \in Scenarios |-> IF s \in served THEN 1 ELSE 0])
<1> DEFINE upto(k) == served \cap (1..k)
<1>1. upto(0) = {} /\ upto(5) = served
  <2>1. 1..0 = {} /\ served \subseteq 1..5
    BY DEF Scenarios
  <2>2. QED
    BY <2>1
<1>2. ASSUME NEW k \in 0..4, IsFiniteSet(upto(k)), Cardinality(upto(k)) \in Nat
      PROVE  /\ IsFiniteSet(upto(k + 1))
             /\ Cardinality(upto(k + 1)) =
                    Cardinality(upto(k)) + (IF k + 1 \in served THEN 1 ELSE 0)
             /\ Cardinality(upto(k + 1)) \in Nat
  <2>1. CASE k + 1 \in served
    <3>1. upto(k + 1) = upto(k) \cup {k + 1} /\ k + 1 \notin upto(k)
      BY <2>1
    <3> HIDE DEF upto
    <3>2. QED
      BY <1>2, <2>1, <3>1, FS_AddElement
  <2>2. CASE k + 1 \notin served
    <3>1. upto(k + 1) = upto(k)
      BY <2>2
    <3> HIDE DEF upto
    <3>2. QED
      BY <1>2, <2>2, <3>1
  <2>3. QED
    BY <2>1, <2>2
<1> HIDE DEF upto
<1>3. IsFiniteSet(upto(0)) /\ Cardinality(upto(0)) = 0
  BY <1>1, FS_EmptySet
<1>4. IsFiniteSet(upto(1)) /\ Cardinality(upto(1)) = (IF 1 \in served THEN 1 ELSE 0) /\ Cardinality(upto(1)) \in Nat
  BY <1>2, <1>3
<1>5. IsFiniteSet(upto(2)) /\ Cardinality(upto(2)) = Cardinality(upto(1)) + (IF 2 \in served THEN 1 ELSE 0) /\ Cardinality(upto(2)) \in Nat
  BY <1>2, <1>4
<1>6. IsFiniteSet(upto(3)) /\ Cardinality(upto(3)) = Cardinality(upto(2)) + (IF 3 \in served THEN 1 ELSE 0) /\ Cardinality(upto(3)) \in Nat
  BY <1>2, <1>5
<1>7. IsFiniteSet(upto(4)) /\ Cardinality(upto(4)) = Cardinality(upto(3)) + (IF 4 \in served THEN 1 ELSE 0) /\ Cardinality(upto(4)) \in Nat
  BY <1>2, <1>6
<1>8. IsFiniteSet(upto(5)) /\ Cardinality(upto(5)) = Cardinality(upto(4)) + (IF 5 \in served THEN 1 ELSE 0)
  BY <1>2, <1>7
<1>9. QED
  BY <1>1, <1>4, <1>5, <1>6, <1>7, <1>8 DEF SumOf, Scenarios

\* The remainders make up the bots that the shares leave over, fewer than there are
\* scenarios.
LEMMA RemainingFacts ==
    ASSUME RequestedShares
    PROVE  /\ TotalWeight * Remaining = SumOf([s \in Scenarios |-> Remainder(s)])
           /\ Remaining \in 0..4
<1>1. PICK w, t, f, rest : w = Weight /\ t = TotalWeight /\ f = fleetSize /\ rest = Remaining
  OBVIOUS
<1>2. PICK a : a = [s \in Scenarios |-> Share(s)]
  OBVIOUS
<1>3. PICK r : r = [s \in Scenarios |-> Remainder(s)]
  OBVIOUS
<1>4. f \in Nat /\ t \in Nat \ {0} /\ t = w[1] + w[2] + w[3] + w[4] + w[5]
  BY <1>1, ShareFacts DEF TotalWeight, SumOf, RequestedShares
<1>5. \A s \in Scenarios :
          /\ w[s] \in Nat /\ a[s] \in Nat /\ r[s] \in 0..(t - 1)
          /\ w[s] * f = t * a[s] + r[s]
  BY <1>1, <1>2, <1>3, ShareFacts
<1>6. rest = f - (a[1] + a[2] + a[3] + a[4] + a[5]) /\ rest \in Int
  <2>1. rest = f - (a[1] + a[2] + a[3] + a[4] + a[5])
    BY <1>1, <1>2 DEF Remaining, SumOf
  <2>2. a[1] \in Nat /\ a[2] \in Nat /\ a[3] \in Nat /\ a[4] \in Nat /\ a[5] \in Nat
    BY <1>5 DEF Scenarios
  <2>3. QED
    BY <1>4, <2>1, <2>2
<1>7. /\ w[1] * f = t * a[1] + r[1] /\ w[2] * f = t * a[2] + r[2] /\ w[3] * f = t * a[3] + r[3]
      /\ w[4] * f = t * a[4] + r[4] /\ w[5] * f = t * a[5] + r[5]
  BY <1>5 DEF Scenarios
<1>8. /\ w[1] \in Nat /\ w[2] \in Nat /\ w[3] \in Nat /\ w[4] \in Nat /\ w[5] \in Nat
      /\ a[1] \in Nat /\ a[2] \in Nat /\ a[3] \in Nat /\ a[4] \in Nat /\ a[5] \in Nat
  BY <1>5 DEF Scenarios
<1>9. /\ r[1] \in 0..(t - 1) /\ r[2] \in 0..(t - 1) /\ r[3] \in 0..(t - 1)
      /\ r[4] \in 0..(t - 1) /\ r[5] \in 0..(t - 1)
  BY <1>5 DEF Scenarios
<1>10. t * f = w[1] * f + w[2] * f + w[3] * f + w[4] * f + w[5] * f
  BY <1>4, <1>8
<1>11. t * rest = t * f - (t * a[1] + t * a[2] + t * a[3] + t * a[4] + t * a[5])
  BY <1>4, <1>6, <1>8
<1>12. t * rest = r[1] + r[2] + r[3] + r[4] + r[5]
  BY <1>4, <1>7, <1>8, <1>9, <1>10, <1>11
<1>13. t * rest >= 0 /\ t * rest < t * 5
  BY <1>4, <1>9, <1>12
<1>14. rest >= 0 /\ rest < 5
  BY <1>4, <1>6, <1>13
<1>15. QED
  BY <1>1, <1>3, <1>6, <1>12, <1>14 DEF SumOf

\* What is handed out is the fleet, nobody is rounded up who has nothing left over,
\* and those rounded up have left over no less than the others.
LEMMA CountFacts ==
    ASSUME RequestedShares, NEW served \in Served
    PROVE  /\ Count(served) \in [Scenarios -> Nat]
           /\ SumOf(Count(served)) = fleetSize
           /\ \A s \in Scenarios :
                  /\ Count(served)[s] * TotalWeight > Weight[s] * fleetSize - TotalWeight
                  /\ Count(served)[s] * TotalWeight < Weight[s] * fleetSize + TotalWeight
           /\ \A s, t \in Scenarios :
                  Count(served)[s] > Share(s) /\ Count(served)[t] = Share(t) =>
                      LargestRemainderFirst(s, t)
<1>1. PICK w, t, f, rest : w = Weight /\ t = TotalWeight /\ f = fleetSize /\ rest = Remaining
  OBVIOUS
<1>2. PICK a : a = [s \in Scenarios |-> Share(s)]
  OBVIOUS
<1>3. PICK r : r = [s \in Scenarios |-> Remainder(s)]
  OBVIOUS
<1>4. PICK b : b = [s \in Scenarios |-> IF s \in served THEN 1 ELSE 0]
  OBVIOUS
<1>5. PICK c : c = Count(served)
  OBVIOUS
<1>6. /\ served \in SUBSET Scenarios /\ Cardinality(served) = rest
      /\ \A s \in served, u \in Scenarios \ served : r[s] >= r[u]
  BY <1>1, <1>3 DEF Served, kSubset, LargestRemainderFirst
<1>7. f \in Nat /\ t \in Nat \ {0} /\ rest \in 0..4
  BY <1>1, ShareFacts, RemainingFacts DEF RequestedShares
<1>8. \A s \in Scenarios :
          /\ w[s] \in Nat /\ a[s] \in Nat /\ r[s] \in 0..(t - 1) /\ b[s] \in {0, 1}
          /\ c[s] = a[s] + b[s] /\ c[s] \in Nat
          /\ w[s] * f = t * a[s] + r[s]
  <2>1. \A s \in Scenarios : c[s] = IF s \in served THEN a[s] + 1 ELSE a[s]
    BY <1>2, <1>5 DEF Count
  <2>2. \A s \in Scenarios : b[s] = IF s \in served THEN 1 ELSE 0
    BY <1>4
  <2>3. \A s \in Scenarios :
          /\ w[s] \in Nat /\ a[s] \in Nat /\ r[s] \in 0..(t - 1)
          /\ w[s] * f = t * a[s] + r[s]
    BY <1>1, <1>2, <1>3, ShareFacts
  <2>4. QED
    BY <2>1, <2>2, <2>3
<1>9. /\ SumOf(b) = rest /\ rest = f - SumOf(a) /\ t * rest = SumOf(r)
  BY <1>1, <1>2, <1>3, <1>4, <1>6, CountMembers, RemainingFacts DEF Remaining
<1>10. /\ 1 \in Scenarios /\ 2 \in Scenarios /\ 3 \in Scenarios /\ 4 \in Scenarios /\ 5 \in Scenarios
       /\ \A s \in Scenarios : s = 1 \/ s = 2 \/ s = 3 \/ s = 4 \/ s = 5
  BY DEF Scenarios
<1>11. c \in [Scenarios -> Nat]
  BY <1>5, <1>8 DEF Count
<1>12. SumOf(c) = f
  <2>1. /\ c[1] = a[1] + b[1] /\ c[2] = a[2] + b[2] /\ c[3] = a[3] + b[3]
        /\ c[4] = a[4] + b[4] /\ c[5] = a[5] + b[5]
    BY <1>8, <1>10
  <2>2. /\ a[1] \in Nat /\ a[2] \in Nat /\ a[3] \in Nat /\ a[4] \in Nat /\ a[5] \in Nat
        /\ b[1] \in Nat /\ b[2] \in Nat /\ b[3] \in Nat /\ b[4] \in Nat /\ b[5] \in Nat
    BY <1>8, <1>10
  <2>3. c[1] + c[2] + c[3] + c[4] + c[5]
            = (a[1] + a[2] + a[3] + a[4] + a[5]) + (b[1] + b[2] + b[3] + b[4] + b[5])
    BY <2>1, <2>2, PairwiseSum
  <2>4. a[1] + a[2] + a[3] + a[4] + a[5] \in Nat
    BY <2>2
  <2>5. SumOf(c) = SumOf(a) + SumOf(b) /\ SumOf(a) \in Nat
    BY <2>3, <2>4 DEF SumOf
  <2>6. QED
    BY <1>7, <1>9, <2>5
\* Otherwise the others' remainders would be zero, or too small to leave so many over.
<1>13. ASSUME NEW s \in served
       PROVE  r[s] > 0
  <2>1. SUFFICES ASSUME r[s] = 0
                 PROVE  FALSE
    BY <1>6, <1>8
  <2>2. \A u \in Scenarios : b[u] = 0 => r[u] = 0
    <3>1. \A u \in Scenarios \ served : r[u] = 0
      BY <1>6, <1>8, <2>1
    <3>2. \A u \in served : b[u] = 1
      BY <1>4, <1>6
    <3>3. QED
      BY <3>1, <3>2
  <2>3. b[s] = 1 /\ s \in Scenarios
    BY <1>4, <1>6
  <2>4. PICK m \in Nat : m = t - 1
    BY <1>7
  <2>5. r \in [Scenarios -> 0..m] /\ b \in [Scenarios -> {0, 1}]
    BY <1>3, <1>4, <1>7, <1>8, <2>4
  <2>6. rest - 1 \in Nat /\ SumOf(r) <= m * (rest - 1)
    BY <1>9, <2>1, <2>2, <2>3, <2>5, OneIsMissing
  <2>7. PICK n \in Nat : n = rest - 1
    BY <2>6
  <2>8. t * rest <= m * n
    BY <1>9, <2>6, <2>7
  <2>9. rest = n + 1
    BY <1>7, <2>7
  <2>10. t * rest = m * n + m + n + 1
    BY <2>4, <2>7, <2>9, <1>7
  <2>11. m * n \in Nat
    BY <2>4, <2>7
  <2>12. QED
    BY <2>4, <2>7, <2>8, <2>10, <2>11
<1>14. ASSUME NEW s \in Scenarios
       PROVE  c[s] * t > w[s] * f - t /\ c[s] * t < w[s] * f + t
  <2>1. /\ a[s] \in Nat /\ r[s] \in 0..(t - 1) /\ w[s] * f = t * a[s] + r[s]
    BY <1>8
  <2>2. t * a[s] \in Nat
    BY <1>7, <2>1
  <2>3. CASE s \in served
    <3>1. c[s] = a[s] + 1
      BY <1>4, <1>8, <2>3
    <3>2. c[s] * t = t * a[s] + t
      BY <1>7, <2>1, <3>1
    <3>3. r[s] > 0
      BY <1>13, <2>3
    <3>4. QED
      BY <1>7, <2>1, <2>2, <3>2, <3>3
  <2>4. CASE s \notin served
    <3>1. c[s] = a[s]
      BY <1>4, <1>8, <2>4
    <3>2. c[s] * t = t * a[s]
      BY <1>7, <2>1, <3>1
    <3>3. QED
      BY <1>7, <2>1, <2>2, <3>2
  <2>5. QED
    BY <2>3, <2>4
<1>15. ASSUME NEW s \in Scenarios, NEW u \in Scenarios, c[s] > Share(s), c[u] = Share(u)
       PROVE  LargestRemainderFirst(s, u)
  <2>1. c[s] > a[s] /\ c[u] = a[u] /\ a[u] \in Nat /\ a[s] \in Nat
    BY <1>2, <1>8, <1>15
  <2>2. s \in served /\ u \notin served
    BY <1>4, <1>8, <2>1
  <2>3. r[s] >= r[u]
    BY <1>6, <2>2
  <2>4. QED
    BY <1>3, <2>3 DEF LargestRemainderFirst
<1>16. QED
  BY <1>1, <1>5, <1>11, <1>12, <1>14, <1>15

\* How many turns a scenario has had.
Drawings(s) == IF s <= turn % 5 THEN Round + 1 ELSE Round

\* The bots of a scenario so far.
BotsSoFar(s) == Bots(s, Len(scenarios))

\* A turn gave the scenario a bot as long as it had one to come, every bot was given out in
\* a turn, and after each the scenarios were mixed.
Rounds ==
    /\ \E served \in Served : counts = Count(served)
    /\ \A s \in Scenarios :
           BotsSoFar(s) = IF counts[s] <= Drawings(s) THEN counts[s] ELSE Drawings(s)
    /\ Len(scenarios) = SumOf([s \in Scenarios |-> BotsSoFar(s)])
    /\ \A k \in 1..Len(scenarios) : \A s, t \in Scenarios :
           Bots(s, k) > Bots(t, k) + 1 => Bots(t, k) = counts[t]

ScenariosInv ==
    /\ RequestedShares
    /\ turn \in Nat /\ scenarios \in Seq(Scenarios)
    /\ pc \in {"start", "place"} => turn = 0 /\ scenarios = <<>>
    /\ pc # "done" => answer # "ok"
    /\ pc = "interleave" \/ answer = "ok" => Rounds
    /\ answer = "ok" => NoneAdvances

\* One bot more is counted with its scenario.
LEMMA OneBotMore ==
    ASSUME scenarios \in Seq(Scenarios), NEW d \in Scenarios, scenarios' = Append(scenarios, d)
    PROVE  /\ scenarios' \in Seq(Scenarios) /\ Len(scenarios') = Len(scenarios) + 1
           /\ \A s : \A k \in 0..Len(scenarios) : Bots(s, k)' = Bots(s, k) /\ Bots(s, k) \in Nat
           /\ \A s : BotsSoFar(s)' = IF s = d THEN BotsSoFar(s) + 1 ELSE BotsSoFar(s)
<1>1. PICK n \in Nat : n = Len(scenarios)
  OBVIOUS
<1>2. PICK q : q = Append(scenarios, d)
  OBVIOUS
<1>3. q \in Seq(Scenarios) /\ Len(q) = n + 1 /\ q[n + 1] = d /\ \A i \in 1..n : q[i] = scenarios[i]
  BY <1>1, <1>2
<1>4. ASSUME NEW s, NEW k \in 0..n
      PROVE  Bots(s, k)' = Bots(s, k) /\ Bots(s, k) \in Nat
  <2>1. {b \in 1..k : q[b] = s} = {b \in 1..k : scenarios[b] = s}
    BY <1>1, <1>3
  <2>2. IsFiniteSet(1..k) /\ {b \in 1..k : scenarios[b] = s} \subseteq 1..k
    BY FS_Interval
  <2>3. Cardinality({b \in 1..k : scenarios[b] = s}) \in Nat
    BY <2>2, FS_Subset, FS_CardinalityType
  <2>4. QED
    BY <1>2, <2>1, <2>3 DEF Bots
<1>5. ASSUME NEW s
      PROVE  BotsSoFar(s)' = IF s = d THEN BotsSoFar(s) + 1 ELSE BotsSoFar(s)
  <2> DEFINE old == {b \in 1..n : scenarios[b] = s}
             new == {b \in 1..(n + 1) : q[b] = s}
  <2>1. IsFiniteSet(old)
    <3>1. IsFiniteSet(1..n) /\ old \subseteq 1..n
      BY FS_Interval
    <3>2. QED
      BY <3>1, FS_Subset
  <2>2. new = IF s = d THEN old \cup {n + 1} ELSE old
    <3>1. \A b : b \in 1..(n + 1) <=> b \in 1..n \/ b = n + 1
      BY <1>1
    <3>2. \A b : b \in new <=> (b \in old \/ (b = n + 1 /\ s = d))
      BY <1>3, <3>1
    <3>3. QED
      BY <3>2
  <2>3. n + 1 \notin old
    OBVIOUS
  <2>4. BotsSoFar(s) = Cardinality(old)
    BY <1>1 DEF BotsSoFar, Bots
  <2>5. BotsSoFar(s)' = Cardinality(new)
    BY <1>2, <1>3 DEF BotsSoFar, Bots
  <2> HIDE DEF old, new
  <2>6. QED
    BY <2>1, <2>2, <2>3, <2>4, <2>5, FS_AddElement
<1>6. QED
  BY <1>1, <1>2, <1>3, <1>4, <1>5

\* Who gets what depends on the request only.
LEMMA SameShares ==
    ASSUME request' = request
    PROVE  /\ Served' = Served /\ \A served : Count(served)' = Count(served)
           /\ RequestedShares => RequestedShares'
<1>1. fleetSize' = fleetSize /\ dist' = dist
  BY DEF request
<1>2. Weight' = Weight
  BY <1>1 DEF Weight
<1>3. TotalWeight' = TotalWeight
  BY <1>2 DEF TotalWeight
<1>4. \A s : Share(s)' = Share(s) /\ Remainder(s)' = Remainder(s)
  BY <1>1, <1>2, <1>3 DEF Share, Remainder
<1>5. Remaining' = Remaining
  BY <1>1, <1>4 DEF Remaining
<1>6. \A s, t : LargestRemainderFirst(s, t)' = LargestRemainderFirst(s, t)
  BY <1>4 DEF LargestRemainderFirst
<1>7. Served' = Served
  BY <1>5, <1>6 DEF Served
<1>8. ASSUME NEW served
      PROVE  Count(served)' = Count(served)
  BY <1>4 DEF Count
<1>9. QED
  BY <1>1, <1>7, <1>8 DEF RequestedShares

\* Nothing is given out before the counts are known.
LEMMA ScenariosStart ==
    ASSUME ScenariosInv, CountScenarios, request' = request
    PROVE  ScenariosInv'
<1>1. /\ turn = 0 /\ turn' = 0 /\ scenarios = <<>> /\ scenarios' = <<>> /\ pc' = "interleave"
      /\ answer' = answer /\ answer # "ok"
      /\ \E served \in Served : counts' = Count(served)
  BY DEF CountScenarios, ScenariosInv
<1>2. RequestedShares /\ RequestedShares'
  BY SameShares DEF ScenariosInv
<1>3. counts' \in [Scenarios -> Nat] /\ \E served \in Served' : counts' = Count(served)'
  BY <1>1, <1>2, CountFacts, SameShares
<1>4. \A s : BotsSoFar(s)' = 0
  <2>1. Len(scenarios') = 0 /\ 1..0 = {}
    BY <1>1
  <2>2. ASSUME NEW s
        PROVE  {b \in 1..0 : scenarios'[b] = s} = {}
    BY <2>1
  <2>3. QED
    BY <2>1, <2>2, FS_EmptySet DEF BotsSoFar, Bots
<1>5. \A s \in Scenarios : Drawings(s)' = 0
  <2>1. turn' % 5 = 0 /\ turn' \div 5 = 0
    BY <1>1
  <2>2. QED
    BY <2>1 DEF Drawings, Round, Scenarios
<1>6. \A s \in Scenarios :
          BotsSoFar(s)' = IF counts'[s] <= Drawings(s)' THEN counts'[s] ELSE Drawings(s)'
  BY <1>3, <1>4, <1>5
<1>7. Len(scenarios') = SumOf([s \in Scenarios |-> BotsSoFar(s)'])
  BY <1>1, <1>4 DEF SumOf, Scenarios
<1>8. 1..Len(scenarios') = {}
  BY <1>1
<1>9. Rounds'
  BY <1>3, <1>6, <1>7, <1>8 DEF Rounds
<1>10. QED
  BY <1>1, <1>2, <1>9 DEF ScenariosInv

\* The scenario whose turn it is has had a turn more afterwards, and no other has.
LEMMA NextTurn ==
    ASSUME turn \in Nat, turn' = turn + 1
    PROVE  /\ Drawn \in Scenarios /\ Round \in Nat /\ Drawings(Drawn) = Round
           /\ \A s \in Scenarios :
                  /\ Drawings(s) \in {Round, Round + 1}
                  /\ Drawings(s)' = IF s = Drawn THEN Drawings(s) + 1 ELSE Drawings(s)
<1>1. PICK r \in 0..4 : r = turn % 5
  BY DivMod
<1>2. PICK q \in Nat : q = turn \div 5
  BY DivMod
<1>3. turn' % 5 = (IF r = 4 THEN 0 ELSE r + 1) /\ turn' \div 5 = (IF r = 4 THEN q + 1 ELSE q)
  BY <1>1, <1>2, DivModNext
<1>4. Drawn = r + 1 /\ Round = q /\ Drawn \in Scenarios
  BY <1>1, <1>2 DEF Drawn, Round, Scenarios
<1>5. ASSUME NEW s \in 1..5
      PROVE  /\ Drawings(s) = IF s <= r THEN q + 1 ELSE q
             /\ Drawings(s)' = IF r = 4 \/ s <= r + 1 THEN q + 1 ELSE q
  BY <1>1, <1>2, <1>3 DEF Drawings, Round
<1>6. ASSUME NEW s \in 1..5
      PROVE  /\ Drawings(s) \in {q, q + 1}
             /\ Drawings(s)' = IF s = r + 1 THEN Drawings(s) + 1 ELSE Drawings(s)
  BY <1>5
<1>7. Drawings(r + 1) = q
  BY <1>5
<1>8. QED
  BY <1>4, <1>6, <1>7 DEF Scenarios

\* One bot more in all.
LEMMA SumOneMore ==
    ASSUME NEW b \in [Scenarios -> Nat], NEW d \in Scenarios, NEW e,
           \A s \in Scenarios : e[s] = IF s = d THEN b[s] + 1 ELSE b[s]
    PROVE  SumOf(e) = SumOf(b) + 1
<1>1. /\ 1 \in Scenarios /\ 2 \in Scenarios /\ 3 \in Scenarios /\ 4 \in Scenarios /\ 5 \in Scenarios
      /\ d = 1 \/ d = 2 \/ d = 3 \/ d = 4 \/ d = 5
  BY DEF Scenarios
<1>2. PICK b1 \in Nat, b2 \in Nat, b3 \in Nat, b4 \in Nat, b5 \in Nat :
          b1 = b[1] /\ b2 = b[2] /\ b3 = b[3] /\ b4 = b[4] /\ b5 = b[5]
  BY <1>1
<1>3. /\ e[1] = IF d = 1 THEN b1 + 1 ELSE b1
      /\ e[2] = IF d = 2 THEN b2 + 1 ELSE b2
      /\ e[3] = IF d = 3 THEN b3 + 1 ELSE b3
      /\ e[4] = IF d = 4 THEN b4 + 1 ELSE b4
      /\ e[5] = IF d = 5 THEN b5 + 1 ELSE b5
  BY <1>1, <1>2
<1>4. e[1] + e[2] + e[3] + e[4] + e[5] = b1 + b2 + b3 + b4 + b5 + 1
  BY <1>1, <1>3
<1>5. QED
  BY <1>2, <1>4 DEF SumOf

\* A turn gives its scenario a bot, unless that has all of its bots.
LEMMA TakeTurnKeeps ==
    ASSUME ScenariosInv, TakeTurn, request' = request
    PROVE  ScenariosInv'
<1>1. /\ pc = "interleave" /\ pc' = pc /\ counts' = counts /\ answer' = answer
      /\ turn' = turn + 1
      /\ scenarios' = IF Round < counts[Drawn] THEN Append(scenarios, Drawn) ELSE scenarios
  BY DEF TakeTurn
<1>2. /\ RequestedShares /\ RequestedShares' /\ Rounds /\ answer # "ok"
      /\ turn \in Nat /\ turn' \in Nat /\ scenarios \in Seq(Scenarios) /\ Len(scenarios) \in Nat
  BY <1>1, SameShares DEF ScenariosInv
<1>3. counts \in [Scenarios -> Nat] /\ \E served \in Served' : counts' = Count(served)'
  BY <1>1, <1>2, CountFacts, SameShares DEF Rounds
<1>4. PICK b : b = [s \in Scenarios |-> BotsSoFar(s)]
  OBVIOUS
<1>5. PICK d : d = [s \in Scenarios |-> Drawings(s)]
  OBVIOUS
<1>6. PICK e : e = [s \in Scenarios |-> BotsSoFar(s)']
  OBVIOUS
<1>7. PICK f : f = [s \in Scenarios |-> Drawings(s)']
  OBVIOUS
<1>8. PICK q : q = Round
  OBVIOUS
<1>9. /\ q \in Nat /\ Drawn \in Scenarios /\ d[Drawn] = q
      /\ \A s \in Scenarios :
            /\ d[s] \in {q, q + 1}
            /\ f[s] = IF s = Drawn THEN d[s] + 1 ELSE d[s]
            /\ f[s] \in {q, q + 1}
  BY <1>1, <1>2, <1>5, <1>7, <1>8, NextTurn
<1>10. /\ b \in [Scenarios -> Nat] /\ Len(scenarios) = SumOf(b)
       /\ \A s \in Scenarios : b[s] = IF counts[s] <= d[s] THEN counts[s] ELSE d[s]
  <2>1. \A s \in Scenarios : b[s] = IF counts[s] <= d[s] THEN counts[s] ELSE d[s]
    BY <1>2, <1>4, <1>5 DEF Rounds
  <2>2. \A s \in Scenarios : b[s] \in Nat
    BY <1>3, <1>9, <2>1
  <2>3. QED
    BY <1>2, <1>4, <2>1, <2>2 DEF Rounds
<1>11. CASE q < counts[Drawn]
  <2>1. scenarios' = Append(scenarios, Drawn)
    BY <1>1, <1>8, <1>11
  <2>2. /\ scenarios' \in Seq(Scenarios) /\ Len(scenarios') = Len(scenarios) + 1
        /\ \A s : \A k \in 0..Len(scenarios) : Bots(s, k)' = Bots(s, k)
        /\ \A s \in Scenarios : e[s] = IF s = Drawn THEN b[s] + 1 ELSE b[s]
    BY <1>2, <1>4, <1>6, <1>9, <2>1, OneBotMore
  <2>3. Len(scenarios') = SumOf(e)
    <3>1. PICK u \in Scenarios : u = Drawn
      BY <1>9
    <3>2. \A s \in Scenarios : e[s] = IF s = u THEN b[s] + 1 ELSE b[s]
      BY <2>2, <3>1
    <3>3. b \in [Scenarios -> Nat]
      BY <1>10
    <3>4. SumOf(e) = SumOf(b) + 1
      BY <3>1, <3>2, <3>3, SumOneMore
    <3>5. QED
      BY <1>10, <2>2, <3>4
  <2>4. ASSUME NEW s \in Scenarios
        PROVE  e[s] = (IF counts[s] <= f[s] THEN counts[s] ELSE f[s]) /\ e[s] \in Nat
    <3>1. /\ b[s] \in Nat /\ counts[s] \in Nat /\ d[s] \in Nat
          /\ b[s] = IF counts[s] <= d[s] THEN counts[s] ELSE d[s]
          /\ e[s] = IF s = Drawn THEN b[s] + 1 ELSE b[s]
          /\ f[s] = IF s = Drawn THEN d[s] + 1 ELSE d[s]
      <4>1. b[s] \in Nat /\ counts[s] \in Nat
        BY <1>3, <1>10
      <4>2. d[s] \in {q, q + 1} /\ q \in Nat
        BY <1>9
      <4>3. d[s] \in Nat
        BY <4>2
      <4>4. QED
        BY <4>1, <4>3, <1>9, <1>10, <2>2
    <3>2. CASE s = Drawn
      <4>1. d[s] = q /\ q < counts[s]
        BY <1>9, <1>11, <3>2
      <4>2. QED
        BY <3>1, <3>2, <4>1
    <3>3. CASE s # Drawn
      BY <3>1, <3>3
    <3>4. QED
      BY <3>2, <3>3
  <2>5. ASSUME NEW k \in 1..Len(scenarios'), NEW s \in Scenarios, NEW t \in Scenarios,
               Bots(s, k)' > Bots(t, k)' + 1
        PROVE  Bots(t, k)' = counts[t]
    <3>1. CASE k \in 1..Len(scenarios)
      <4>1. Bots(s, k)' = Bots(s, k) /\ Bots(t, k)' = Bots(t, k)
        BY <1>2, <2>2, <3>1
      <4>2. QED
        BY <1>2, <2>5, <3>1, <4>1 DEF Rounds
    <3>2. CASE k \notin 1..Len(scenarios)
      <4>1. k = Len(scenarios')
        BY <1>2, <2>2, <3>2
      <4>2. Bots(s, k)' = e[s] /\ Bots(t, k)' = e[t]
        BY <1>6, <4>1 DEF BotsSoFar
      <4>3. e \in [Scenarios -> Nat] /\ f \in [Scenarios -> Nat]
        BY <1>6, <1>7, <1>9, <2>4
      <4>4. PICK c \in [Scenarios -> Nat] : c = counts
        BY <1>3
      <4>5. e[s] > e[t] + 1
        BY <2>5, <4>2
      <4>6. \A u \in Scenarios : e[u] = IF c[u] <= f[u] THEN c[u] ELSE f[u]
        BY <2>4, <4>4
      <4>7. q \in Nat /\ \A u \in Scenarios : f[u] \in {q, q + 1}
        BY <1>9
      <4>8. e[t] = c[t]
        <5>1. /\ e[s] \in Nat /\ e[t] \in Nat /\ c[s] \in Nat /\ c[t] \in Nat
              /\ f[s] = q \/ f[s] = q + 1
              /\ f[t] = q \/ f[t] = q + 1
          BY <4>3, <4>4, <4>7
        <5>2. /\ e[s] = IF c[s] <= f[s] THEN c[s] ELSE f[s]
              /\ e[t] = IF c[t] <= f[t] THEN c[t] ELSE f[t]
          BY <4>6
        <5>3. e[s] <= q + 1 /\ (e[t] = c[t] \/ e[t] >= q)
          BY <4>7, <5>1, <5>2
        <5>4. QED
          BY <4>5, <4>7, <5>1, <5>3
      <4>9. QED
        BY <4>2, <4>4, <4>8
    <3>3. QED
      BY <3>1, <3>2
  <2>6. Rounds'
    <3>1. \A s \in Scenarios :
              BotsSoFar(s)' = IF counts'[s] <= Drawings(s)' THEN counts'[s] ELSE Drawings(s)'
      BY <1>1, <1>6, <1>7, <2>4
    <3>2. Len(scenarios') = SumOf([s \in Scenarios |-> BotsSoFar(s)'])
      BY <1>6, <2>3
    <3>3. QED
      BY <1>1, <1>3, <2>5, <3>1, <3>2 DEF Rounds
  <2>7. QED
    BY <1>1, <1>2, <2>2, <2>6 DEF ScenariosInv
<1>12. CASE ~(q < counts[Drawn])
  <2>1. scenarios' = scenarios
    BY <1>1, <1>8, <1>12
  <2>2. \A s : \A k : Bots(s, k)' = Bots(s, k)
    BY <2>1 DEF Bots
  <2>3. e = b
    BY <1>4, <1>6, <2>1, <2>2 DEF BotsSoFar
  <2>4. ASSUME NEW s \in Scenarios
        PROVE  e[s] = IF counts[s] <= f[s] THEN counts[s] ELSE f[s]
    <3>1. /\ b[s] \in Nat /\ counts[s] \in Nat /\ d[s] \in Nat
          /\ b[s] = IF counts[s] <= d[s] THEN counts[s] ELSE d[s]
          /\ f[s] = IF s = Drawn THEN d[s] + 1 ELSE d[s]
      BY <1>3, <1>9, <1>10
    <3>2. CASE s = Drawn
      <4>1. d[s] = q /\ counts[s] <= q
        BY <1>9, <1>12, <3>1, <3>2
      <4>2. QED
        BY <2>3, <3>1, <3>2, <4>1
    <3>3. CASE s # Drawn
      BY <2>3, <3>1, <3>3
    <3>4. QED
      BY <3>2, <3>3
  <2>5. Rounds'
    <3>1. \A s \in Scenarios :
              BotsSoFar(s)' = IF counts'[s] <= Drawings(s)' THEN counts'[s] ELSE Drawings(s)'
      BY <1>1, <1>6, <1>7, <2>4
    <3>2. Len(scenarios') = SumOf([s \in Scenarios |-> BotsSoFar(s)'])
      BY <1>6, <1>10, <2>1, <2>3
    <3>3. \A k \in 1..Len(scenarios') : \A s, t \in Scenarios :
              Bots(s, k)' > Bots(t, k)' + 1 => Bots(t, k)' = counts'[t]
      BY <1>1, <1>2, <2>1, <2>2 DEF Rounds
    <3>4. QED
      BY <1>3, <3>1, <3>2, <3>3 DEF Rounds
  <2>6. QED
    BY <1>1, <1>2, <2>1, <2>5 DEF ScenariosInv
<1>13. QED
  BY <1>11, <1>12

\* Nothing is given out in any other step.
LEMMA ScenariosWait ==
    ASSUME ScenariosInv, request' = request, scenarioVars' = scenarioVars,
           \/ pc' = pc /\ answer' = answer
           \/ pc \in {"start", "place"} /\ answer' # "ok" /\ pc' # "interleave"
           \/ pc = "interleave" /\ NoneAdvances /\ pc' = "done"
    PROVE  ScenariosInv'
<1>1. counts' = counts /\ turn' = turn /\ scenarios' = scenarios
  BY DEF scenarioVars
<1>2. RequestedShares'
  BY SameShares DEF ScenariosInv
<1>3. Rounds => Rounds'
  <2>1. SUFFICES ASSUME Rounds
                 PROVE  Rounds'
    OBVIOUS
  <2>2. \E served \in Served' : counts' = Count(served)'
    BY <1>1, <2>1, SameShares DEF Rounds
  <2>3. \A s, k : Bots(s, k)' = Bots(s, k)
    BY <1>1 DEF Bots
  <2>4. \A s : BotsSoFar(s)' = BotsSoFar(s) /\ Drawings(s)' = Drawings(s)
    BY <1>1, <2>3 DEF BotsSoFar, Drawings, Round
  <2>5. QED
    BY <1>1, <2>1, <2>2, <2>3, <2>4 DEF Rounds
<1>4. NoneAdvances' <=> NoneAdvances
  BY <1>1 DEF NoneAdvances, Round
<1>5. QED
  BY <1>1, <1>2, <1>3, <1>4 DEF ScenariosInv

\* The scheduler keeps its books of scenarios.
LEMMA ScenariosInvStep ==
    ASSUME ScenariosInv, [SchedulerNext]_schedulerVars
    PROVE  ScenariosInv'
<1>1. CASE SchedulerNext
  <2>1. request' = request /\ Step
    BY <1>1 DEF SchedulerNext
  <2>2. CASE RefuseNoNodes \/ RefuseTooMany \/ SortNodes \/ SkipFullNode \/ PlaceBot
    <3>1. scenarioVars' = scenarioVars
      BY <2>2 DEF RefuseNoNodes, RefuseTooMany, SortNodes, SkipFullNode, PlaceBot, Answer,
                  scenarioVars
    <3>2. \/ pc' = pc /\ answer' = answer
          \/ pc \in {"start", "place"} /\ answer' # "ok" /\ pc' # "interleave"
      BY <2>2 DEF ScenariosInv, RefuseNoNodes, RefuseTooMany, SortNodes, SkipFullNode, PlaceBot,
                  Answer
    <3>3. QED
      BY <2>1, <3>1, <3>2, ScenariosWait
  <2>3. CASE CountScenarios
    BY <2>1, <2>3, ScenariosStart
  <2>4. CASE TakeTurn
    BY <2>1, <2>4, TakeTurnKeeps
  <2>5. CASE ReturnAssignments
    BY <2>1, <2>5, ScenariosWait DEF ReturnAssignments, scenarioVars
  <2>6. QED
    BY <2>1, <2>2, <2>3, <2>4, <2>5 DEF Step
<1>2. CASE UNCHANGED schedulerVars
  BY <1>2, ScenariosWait DEF schedulerVars
<1>3. QED
  BY <1>1, <1>2

\* When no scenario would advance, all have their bots, and these are the fleet.
LEMMA SharesFollow ==
    ASSUME ScenariosInv
    PROVE  SharesAreExact
<1>1. SUFFICES ASSUME answer = "ok"
               PROVE  /\ scenarios \in Seq(Scenarios) /\ Len(scenarios) = fleetSize
                      /\ \A s, t \in Scenarios :
                            /\ Bots(s, fleetSize) * TotalWeight > Weight[s] * fleetSize - TotalWeight
                            /\ Bots(s, fleetSize) * TotalWeight < Weight[s] * fleetSize + TotalWeight
                            /\ Bots(s, fleetSize) > Share(s) /\ Bots(t, fleetSize) = Share(t) =>
                                   LargestRemainderFirst(s, t)
                            /\ \A k \in 1..fleetSize :
                                  Bots(s, k) > Bots(t, k) + 1 => Bots(t, k) = Bots(t, fleetSize)
  BY DEF SharesAreExact
<1>2. Rounds /\ NoneAdvances /\ RequestedShares /\ turn \in Nat /\ scenarios \in Seq(Scenarios)
  BY <1>1 DEF ScenariosInv
<1>3. PICK served \in Served : counts = Count(served)
  BY <1>2 DEF Rounds
<1>4. counts \in [Scenarios -> Nat] /\ SumOf(counts) = fleetSize
  BY <1>2, <1>3, CountFacts
<1>5. PICK q \in Nat : q = Round
  BY <1>2, DivMod DEF Round
<1>6. \A s \in Scenarios : Drawings(s) = q /\ counts[s] <= q
  <2>1. turn % 5 = 0
    BY <1>2 DEF NoneAdvances
  <2>2. QED
    BY <1>2, <1>5, <2>1 DEF NoneAdvances, Drawings, Scenarios
<1>7. \A s \in Scenarios : BotsSoFar(s) = counts[s]
  BY <1>2, <1>6 DEF Rounds
<1>8. Len(scenarios) = fleetSize
  <2>1. [s \in Scenarios |-> BotsSoFar(s)] = counts
    BY <1>4, <1>7
  <2>2. QED
    BY <1>2, <1>4, <2>1 DEF Rounds
<1>9. \A s \in Scenarios : Bots(s, fleetSize) = counts[s]
  BY <1>7, <1>8 DEF BotsSoFar
<1>10. /\ \A s \in Scenarios :
             /\ counts[s] * TotalWeight > Weight[s] * fleetSize - TotalWeight
             /\ counts[s] * TotalWeight < Weight[s] * fleetSize + TotalWeight
       /\ \A s, t \in Scenarios :
             counts[s] > Share(s) /\ counts[t] = Share(t) => LargestRemainderFirst(s, t)
  BY <1>2, <1>3, CountFacts
<1>11. \A k \in 1..fleetSize : \A s, t \in Scenarios :
           Bots(s, k) > Bots(t, k) + 1 => Bots(t, k) = counts[t]
  BY <1>2, <1>8 DEF Rounds
<1>12. QED
  BY <1>2, <1>8, <1>9, <1>10, <1>11

\* Every bot gets a scenario, and every scenario its exact share of the bots, by the
\* largest remainders and mixed in every prefix (scheduler.go, assignScenarios).
THEOREM SharesAlwaysExact == SchedulerSpec => []SharesAreExact
<1>1. SchedulerInit => ScenariosInv
  <2>1. SUFFICES ASSUME SchedulerInit
                 PROVE  ScenariosInv
    OBVIOUS
  <2>2. RequestedShares
    BY <2>1, SchedulerAssumption DEF SchedulerInit, RequestedShares, Scenarios
  <2>3. QED
    BY <2>1, <2>2 DEF SchedulerInit, ScenariosInv
<1>2. ScenariosInv /\ [SchedulerNext]_schedulerVars => ScenariosInv'
  BY ScenariosInvStep
<1>3. ScenariosInv => SharesAreExact
  BY SharesFollow
<1>4. QED
  BY <1>1, <1>2, <1>3, PTL DEF SchedulerSpec
=============================================================================
