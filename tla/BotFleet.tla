------------------------------- MODULE BotFleet -------------------------------
(***************************************************************************)
(* The bot fleet manager: ProvisionFleet (grpc/server.go and package       *)
(* provisioner), StopFleet, the in-memory store and the pods in            *)
(* Kubernetes.  One step per call to Kubernetes or to the store.           *)
(*                                                                         *)
(* Calls to Kubernetes may fail at any time, a Create with or without      *)
(* effect; a context that has ended makes them fail without effect.        *)
(* Where Schedule (module Scheduler) puts the bots is left out: nothing    *)
(* here looks at a pod's node.                                             *)
(***************************************************************************)
EXTENDS Naturals, Sequences, FiniteSets, SequencesExt

CONSTANTS
    Handlers,       \* the calls of ProvisionFleet, one each,
    Stoppers,       \* and of StopFleet
    Runs,
    FleetSize,      \* of each run,
    Prefix,         \* and the first eight characters of its id
    MaxRestarts,    \* bound on restarts of the manager
    None

\* fmt.Sprintf("bot-%s-%d", runID[:8], a.BotIndex)
PodName(r, i) == <<Prefix[r], i>>
NamesOf(r) == {PodName(r, i) : i \in 1..FleetSize[r]}
PodNames == UNION {NamesOf(r) : r \in Runs}

\* A pod, and a record of the fleet store.  (by and orphan are read by the properties
\* only.)
Pod == [run : Runs, ready : BOOLEAN, leaving : BOOLEAN, by : Handlers, orphan : BOOLEAN]
Phases == {"SCHEDULING", "STARTING", "READY", "TIMEOUT", "TERMINATED", "FAILED"}
Fleet == [phase : Phases, podNames : Seq(PodNames)]

ASSUME BotFleetAssumption ==
    /\ FleetSize \in [Runs -> Nat]
    /\ DOMAIN Prefix = Runs
    /\ MaxRestarts \in Nat
    /\ None \notin Runs /\ None \notin Handlers /\ None \notin Pod /\ None \notin Fleet

VARIABLES
    call,       \* the calls of ProvisionFleet: where each is, its run, the bots
                \* deployed, the pods it has still to delete, and how it ends
    gone,       \* the calls whose client has gone away: their context is cancelled
    stop,       \* the calls of StopFleet
    records,    \* the fleet store: phase and pod names of each run
    pods,       \* the pods by name
    restarts

\* Read by the properties only.
VARIABLES
    alone,      \* calls never under way together with another for their run
    quiet       \* stops since whose start no call for their run was under way

server == <<call, gone, stop, records>>
history == <<alone, quiet>>
vars == <<call, gone, stop, records, pods, restarts, alone, quiet>>

\* The pods a List by the label benchmark-run-id finds, leaving ones included.
PodsOf(r) == {p \in PodNames : pods[p] # None /\ pods[p].run = r}

Active(h) == call[h].pc \notin {"idle", "done"}

At(h, step) == call[h].pc = step

Becomes(h, c) == call' = [call EXCEPT ![h] = c]

Goto(h, step) == Becomes(h, [call[h] EXCEPT !.pc = step])

\* The call returns, after an event that its client may have missed.
Tell(h, phase) ==
    Becomes(h, [call[h] EXCEPT !.pc = "done", !.result = phase, !.deployed = 0])

-----------------------------------------------------------------------------
(* grpc/server.go, ProvisionFleet *)

\* The request arrives, the nodes are listed and the bots scheduled: nothing of
\* this is shared with other calls.  Nodes cannot be listed, the fleet does not
\* fit, or an event cannot be sent: the call ends here.
Receive(h, r) ==
    /\ At(h, "idle")
    /\ \/ Becomes(h, [call[h] EXCEPT !.pc = "create", !.run = r])
       \/ Becomes(h, [call[h] EXCEPT !.pc = "done", !.run = r, !.result = "FAILED"])
    /\ LET others == {g \in Handlers : Active(g) /\ call[g].run = r} IN
         alone' = IF others = {} THEN alone ELSE alone \ (others \cup {h})
    /\ quiet' = {s \in quiet : stop[s].run # r}
    /\ UNCHANGED <<gone, stop, records, pods, restarts>>

-----------------------------------------------------------------------------
(* provisioner.go, ProvisionFleet; store/fleet.go *)

UpdatePhase(r, phase) ==
    records' = IF records[r] = None THEN records
               ELSE [records EXCEPT ![r] = [records[r] EXCEPT !.phase = phase]]

\* Store.Create: a record the run already had is overwritten.
CreateRecord(h) ==
    /\ At(h, "create")
    /\ records' = [records EXCEPT ![call[h].run] = [phase |-> "SCHEDULING", podNames |-> <<>>]]
    /\ Goto(h, "starting")
    /\ UNCHANGED <<gone, stop, pods, restarts, history>>

SetStarting(h) ==
    /\ At(h, "starting")
    /\ UpdatePhase(call[h].run, "STARTING")
    /\ Goto(h, "deploy")
    /\ UNCHANGED <<gone, stop, pods, restarts, history>>

\* The pod to be created next.
NextPod(h) == PodName(call[h].run, call[h].deployed + 1)

MorePods(h) == call[h].deployed < FleetSize[call[h].run]

Deploy(h, orphan) ==
    pods' = [pods EXCEPT ![NextPod(h)] =
                [run |-> call[h].run, ready |-> FALSE, leaving |-> FALSE,
                 by |-> h, orphan |-> orphan]]

\* A Delete: the pod goes when its grace period is over, or earlier.
Leave(p) ==
    pods' = IF pods[p] = None THEN pods
            ELSE [pods EXCEPT ![p] = [pods[p] EXCEPT !.leaving = TRUE, !.orphan = FALSE]]

CreatePod(h) ==
    /\ At(h, "deploy") /\ MorePods(h) /\ h \notin gone
    /\ pods[NextPod(h)] = None
    /\ Deploy(h, FALSE)
    /\ Goto(h, "record")
    /\ UNCHANGED <<gone, stop, records, restarts, history>>

\* Store.AddPod
AddPod(h) ==
    LET r == call[h].run IN
    /\ At(h, "record")
    /\ records' = IF records[r] = None THEN records
                  ELSE [records EXCEPT ![r] =
                           [records[r] EXCEPT !.podNames = Append(records[r].podNames, NextPod(h))]]
    /\ Becomes(h, [call[h] EXCEPT !.pc = "deploy", !.deployed = call[h].deployed + 1])
    /\ UNCHANGED <<gone, stop, pods, restarts, history>>

\* The pod exists already, the call fails, or the deadline has passed: the
\* fleet is released.  What the call did nevertheless, nobody knows.
CreatePodFails(h) ==
    /\ At(h, "deploy") /\ MorePods(h)
    /\ Becomes(h, [call[h] EXCEPT !.pc = "release", !.result = "FAILED"])
    /\ \/ UNCHANGED pods
       \/ pods[NextPod(h)] = None /\ h \notin gone /\ Deploy(h, TRUE)
    /\ UNCHANGED <<gone, stop, records, restarts, history>>

\* A slip: the pods are counted whoever's they are.
FleetReadyOfAny(h) ==
    /\ At(h, "deploy") /\ ~MorePods(h)
    /\ Cardinality({p \in PodNames : pods[p] # None /\ pods[p].ready})
          >= FleetSize[call[h].run]
    /\ Goto(h, "ready")
    /\ UNCHANGED <<gone, stop, records, pods, restarts, history>>

\* waitForReady: a poll finds as many ready pods as the fleet has bots.
FleetReady(h) ==
    /\ At(h, "deploy") /\ ~MorePods(h)
    /\ Cardinality({p \in PodsOf(call[h].run) : pods[p].ready})
          >= FleetSize[call[h].run]
    /\ Goto(h, "ready")
    /\ UNCHANGED <<gone, stop, records, pods, restarts, history>>

SetReady(h) ==
    /\ At(h, "ready")
    /\ UpdatePhase(call[h].run, "READY")
    /\ Tell(h, "READY")
    /\ UNCHANGED <<gone, stop, pods, restarts, history>>

\* A slip: the wait ends with the client's context, the deadline is lost.
WaitEndsWithClient(h) ==
    /\ At(h, "deploy") /\ ~MorePods(h)
    /\ h \in gone
    /\ Becomes(h, [call[h] EXCEPT !.pc = "release", !.result = "TIMEOUT"])
    /\ UpdatePhase(call[h].run, "TIMEOUT")
    /\ UNCHANGED <<gone, stop, pods, restarts, history>>

\* The deadline passes, or the client goes away, before such a poll.
WaitTimesOut(h) ==
    /\ At(h, "deploy") /\ ~MorePods(h)
    /\ Becomes(h, [call[h] EXCEPT !.pc = "release", !.result = "TIMEOUT"])
    /\ UpdatePhase(call[h].run, "TIMEOUT")
    /\ UNCHANGED <<gone, stop, pods, restarts, history>>

\* ReleaseFleet reads the record, if there is one, and deletes the pods it names.
ReadRecord(h) ==
    LET record == records[call[h].run] IN
    /\ At(h, "release")
    /\ Becomes(h, IF record = None THEN [call[h] EXCEPT !.pc = "give up"]
                  ELSE [call[h] EXCEPT !.pc = "delete", !.todo = ToSet(record.podNames)])
    /\ UNCHANGED <<gone, stop, records, pods, restarts, history>>

\* A slip: the client's context, which has ended when it left, in both cases.
MayDeleteForClient(h) == h \notin gone

\* After a failed Create the deletes use the client's context, after a timeout
\* one of their own.
MayDelete(h) == call[h].result = "TIMEOUT" \/ h \notin gone

DeletePod(h, p) ==
    /\ At(h, "delete") /\ p \in call[h].todo
    /\ MayDelete(h)
    /\ Leave(p)
    /\ Becomes(h, [call[h] EXCEPT !.todo = call[h].todo \ {p}])
    /\ UNCHANGED <<gone, stop, records, restarts, history>>

\* Logged; the others are deleted all the same.
DeletePodFails(h, p) ==
    /\ At(h, "delete") /\ p \in call[h].todo
    /\ Becomes(h, [call[h] EXCEPT !.todo = call[h].todo \ {p}])
    /\ pods' = IF MayDelete(h) /\ pods[p] # None /\ pods[p].by = h /\ ~pods[p].leaving
                 THEN [pods EXCEPT ![p] = [pods[p] EXCEPT !.orphan = TRUE]]
                 ELSE pods
    /\ UNCHANGED <<gone, stop, records, restarts, history>>

SetTerminated(h) ==
    /\ At(h, "delete") /\ call[h].todo = {}
    /\ UpdatePhase(call[h].run, "TERMINATED")
    /\ Goto(h, "give up")
    /\ UNCHANGED <<gone, stop, pods, restarts, history>>

\* After a failed Create the phase is FAILED; after a timeout it stays as it is.
GiveUp(h) ==
    /\ At(h, "give up")
    /\ IF call[h].result = "FAILED" THEN UpdatePhase(call[h].run, "FAILED")
                                 ELSE UNCHANGED records
    /\ Tell(h, call[h].result)
    /\ UNCHANGED <<gone, stop, pods, restarts, history>>

ProvisionFleet(h) ==
    \/ CreateRecord(h) \/ SetStarting(h)
    \/ CreatePod(h) \/ AddPod(h) \/ CreatePodFails(h)
    \/ FleetReady(h) \/ SetReady(h) \/ WaitTimesOut(h)
    \/ ReadRecord(h)
    \/ \E p \in PodNames : DeletePod(h, p) \/ DeletePodFails(h, p)
    \/ SetTerminated(h) \/ GiveUp(h)

\* The client closes the stream.  (At other times this only makes a Send fail.)
ClientLeaves(h) ==
    /\ \/ call[h].pc \in {"deploy", "record"}
       \/ call[h].pc \in {"release", "delete"} /\ call[h].result = "FAILED"
    /\ h \notin gone
    /\ gone' = gone \cup {h}
    /\ UNCHANGED <<call, stop, records, pods, restarts, history>>

-----------------------------------------------------------------------------
(* shutdown.go, ShutdownFleet *)

StopBecomes(s, c) == stop' = [stop EXCEPT ![s] = c]

StopReturns(s, result) == StopBecomes(s, [stop[s] EXCEPT !.pc = "done", !.result = result])

\* The pods of the run are listed; without any the fleet is down.  (If the List
\* fails the call has done nothing.)
StopFleet(s, r) ==
    /\ stop[s].pc = "idle"
    /\ StopBecomes(s, [pc |-> IF PodsOf(r) = {} THEN "done" ELSE "sigterm",
                       run |-> r, todo |-> PodsOf(r), result |-> "ok"])
    /\ quiet' = IF \E h \in Handlers : Active(h) /\ call[h].run = r THEN quiet ELSE quiet \cup {s}
    /\ UNCHANGED <<call, gone, records, pods, restarts, alone>>

\* Each is asked to go; an error is logged.
Terminate(s, p) ==
    /\ stop[s].pc = "sigterm" /\ p \in stop[s].todo
    /\ Leave(p) \/ UNCHANGED pods
    /\ StopBecomes(s, [stop[s] EXCEPT !.todo = stop[s].todo \ {p}])
    /\ UNCHANGED <<call, gone, records, restarts, history>>

AllGone(s) ==
    /\ stop[s].pc = "sigterm" /\ stop[s].todo = {}
    /\ PodsOf(stop[s].run) = {}
    /\ StopReturns(s, "ok")
    /\ UNCHANGED <<call, gone, records, pods, restarts, history>>

\* The client goes away while pods are awaited, or the last List fails.
StopFails(s) ==
    /\ stop[s].pc = "sigterm" /\ stop[s].todo = {}
    /\ StopReturns(s, "error")
    /\ UNCHANGED <<call, gone, records, pods, restarts, history>>

\* After 30 seconds those still there are to be killed.
GraceEnds(s) ==
    /\ stop[s].pc = "sigterm" /\ stop[s].todo = {}
    /\ StopBecomes(s, [stop[s] EXCEPT !.pc = "kill", !.todo = PodsOf(stop[s].run)])
    /\ UNCHANGED <<call, gone, records, pods, restarts, history>>

Kill(s, p) ==
    /\ stop[s].pc = "kill" /\ p \in stop[s].todo
    /\ pods[p] # None
    /\ pods' = [pods EXCEPT ![p] = None]
    /\ StopBecomes(s, [stop[s] EXCEPT !.todo = stop[s].todo \ {p}])
    /\ UNCHANGED <<call, gone, records, restarts, history>>

\* Also when the pod has gone in the meantime.
KillFails(s, p) ==
    /\ stop[s].pc = "kill" /\ p \in stop[s].todo
    /\ StopBecomes(s, [stop[s] EXCEPT !.todo = stop[s].todo \ {p}, !.result = "error"])
    /\ UNCHANGED <<call, gone, records, pods, restarts, history>>

\* A slip: the errors of the last Deletes are lost.
AllKilledUnchecked(s) ==
    /\ stop[s].pc = "kill" /\ stop[s].todo = {}
    /\ StopReturns(s, "ok")
    /\ UNCHANGED <<call, gone, records, pods, restarts, history>>

AllKilled(s) ==
    /\ stop[s].pc = "kill" /\ stop[s].todo = {}
    /\ StopReturns(s, stop[s].result)
    /\ UNCHANGED <<call, gone, records, pods, restarts, history>>

ShutdownFleet(s) ==
    \/ AllGone(s) \/ StopFails(s) \/ GraceEnds(s) \/ AllKilled(s)
    \/ \E p \in PodNames : Terminate(s, p) \/ Kill(s, p) \/ KillFails(s, p)

-----------------------------------------------------------------------------
(* Kubernetes, and the manager's process *)

\* A bot's pod becomes ready, or is gone.  (One that ends is never restarted:
\* to a poll it is as good as one that never became ready.)
PodBecomesReady(p) ==
    /\ pods[p] # None /\ ~pods[p].ready
    /\ pods' = [pods EXCEPT ![p] = [pods[p] EXCEPT !.ready = TRUE]]

PodVanishes(p) ==
    /\ pods[p] # None /\ pods[p].leaving
    /\ pods' = [pods EXCEPT ![p] = None]

Kubernetes ==
    /\ \E p \in PodNames : PodBecomesReady(p) \/ PodVanishes(p)
    /\ UNCHANGED <<call, gone, stop, records, restarts, history>>

Dead(h) == [pc |-> "done", run |-> call[h].run, deployed |-> 0, todo |-> {},
            result |-> "none"]

\* The store is in memory: a restart forgets every fleet and ends every call.
Restart ==
    /\ restarts < MaxRestarts
    /\ restarts' = restarts + 1
    /\ records' = [r \in Runs |-> None]
    /\ call' = [h \in Handlers |-> IF Active(h) THEN Dead(h) ELSE call[h]]
    /\ stop' = [s \in Stoppers |-> IF stop[s].pc \in {"sigterm", "kill"}
                                     THEN [stop[s] EXCEPT !.pc = "done", !.todo = {}, !.result = "error"]
                                     ELSE stop[s]]
    /\ UNCHANGED <<gone, pods, history>>

Init ==
    /\ call = [h \in Handlers |-> [pc |-> "idle", run |-> None, deployed |-> 0, todo |-> {},
                                   result |-> "none"]]
    /\ gone = {}
    /\ stop = [s \in Stoppers |-> [pc |-> "idle", run |-> None, todo |-> {}, result |-> "ok"]]
    /\ records = [r \in Runs |-> None]
    /\ pods = [p \in PodNames |-> None]
    /\ restarts = 0
    /\ alone = Handlers
    /\ quiet = {}

Next ==
    \/ \E h \in Handlers :
          (\E r \in Runs : Receive(h, r)) \/ ProvisionFleet(h) \/ ClientLeaves(h)
    \/ \E s \in Stoppers : (\E r \in Runs : StopFleet(s, r)) \/ ShutdownFleet(s)
    \/ Kubernetes
    \/ Restart

\* Both waits have a deadline, and a request to Kubernetes is answered or fails, so
\* each call keeps taking steps.  Pods need not become ready, nor go when deleted,
\* and clients need not leave.
Spec ==
    /\ Init
    /\ [][Next]_vars
    /\ \A h \in Handlers : WF_vars(ProvisionFleet(h))
    /\ \A s \in Stoppers : WF_vars(ShutdownFleet(s))

-----------------------------------------------------------------------------
(* Properties *)

\* Types.  A call has work left to delete only while it deletes, and deployed
\* no more bots than its fleet has.
TypeOK ==
    /\ \A h \in Handlers :
          /\ call[h].pc \in {"idle", "create", "starting", "deploy", "record",
                             "ready", "release", "delete", "give up", "done"}
          /\ call[h].run \in Runs \cup {None}
          /\ call[h].run # None => call[h].deployed <= FleetSize[call[h].run]
          /\ call[h].result \in {"none", "READY", "FAILED", "TIMEOUT"}
    /\ \A s \in Stoppers :
          /\ stop[s].pc \in {"idle", "sigterm", "kill", "done"}
          /\ stop[s].todo # {} => stop[s].pc \in {"sigterm", "kill"}
    /\ \A p \in PodNames : pods[p] # None => p \in {PodName(pods[p].run, i) : i \in 1..FleetSize[pods[p].run]}
    /\ gone \subseteq Handlers

\* A fleet that was given up leaves no pod running, whatever went wrong while
\* it was deployed: only pods whose own Create or Delete failed, or whose client
\* was gone when Create failed, may stay (provisioner.go:83-107).  Not so for two
\* calls for one run at a time: they share one record.
GivenUpLeavesNothing ==
    \A h \in alone : \A p \in PodNames :
        /\ At(h, "done") /\ call[h].result \in {"FAILED", "TIMEOUT"}
        /\ h \notin gone \/ call[h].result = "TIMEOUT"
        /\ pods[p] # None /\ pods[p].by = h /\ ~pods[p].leaving
        => pods[p].orphan

\* Calls and stops for the run r, or for one whose id begins alike.
CallsLike(r) == {h \in Handlers : call[h].run # None /\ Prefix[call[h].run] = Prefix[r]}
StopsLike(r) == {s \in Stoppers : stop[s].run # None /\ Prefix[stop[s].run] = Prefix[r]}

\* A fleet reported READY is complete: each of its pods is there, was ready, and
\* nobody but StopFleet removes it.  (Of runs whose ids begin alike, one that was
\* stopped and then times out deletes the other's pods: they have one name.  So does
\* one with two calls at a time, of which one releases what the other recorded.)
ReadyIsComplete ==
    \A h \in alone :
        /\ At(h, "done") /\ call[h].result = "READY"
        /\ StopsLike(call[h].run) = {} /\ CallsLike(call[h].run) \subseteq alone
        => \A i \in 1..FleetSize[call[h].run] :
              LET p == PodName(call[h].run, i) IN
              pods[p] # None /\ pods[p].by = h /\ pods[p].ready /\ ~pods[p].leaving

\* The phase in the store tells how the last call for the run ended.  A timeout
\* is recorded as TERMINATED: ReleaseFleet overwrites TIMEOUT.
PhaseTellsOutcome ==
    \A h \in alone : \A r \in {call[h].run} \ {None} :
        /\ At(h, "done") /\ records[r] # None
        /\ \A g \in Handlers \ {h} : call[g].run # r
        => records[r].phase = CASE call[h].result = "TIMEOUT" -> "TERMINATED"
                                [] OTHER -> call[h].result

\* The store and the cluster agree with what callers were told.
FleetsConsistent == TypeOK /\ ReadyIsComplete /\ PhaseTellsOutcome

\* A StopFleet that returns without error leaves no pod of its run, known to the
\* store or not: left by a Create that failed, by a release, or by a manager that
\* was restarted (shutdown.go:32-124).  Calls for the run that are under way while
\* it runs, or come later, are none of its business.
StoppedLeavesNothing ==
    \A s \in quiet : stop[s].pc = "done" /\ stop[s].result = "ok" => PodsOf(stop[s].run) = {}

\* Every call returns, so that time and again none is under way: deadlines end the
\* waits, and no release or shutdown hangs on a pod that does not become ready or
\* does not go (provisioner.go:145-152, shutdown.go:68-124).
CallsReturn ==
    []<>(/\ \A h \in Handlers : ~Active(h)
         /\ \A s \in Stoppers : stop[s].pc \in {"idle", "done"})
=============================================================================
