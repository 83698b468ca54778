-------------------------- MODULE SandboxSupervisors --------------------------
(***************************************************************************)
(* What watches over one running sandbox: the pod watcher and the crash    *)
(* handler it leads to, the lifetime enforcer and the health checker.      *)
(* They run side by side and share the sandbox and its context.            *)
(*                                                                         *)
(* External: the container and Kubernetes; the implementations of          *)
(* ContainerStopper, RunStatusUpdater, ResourceReleaser and onExpiry, all  *)
(* of which may fail and the last two of which may hang; the owner, which  *)
(* calls HandleCrash on a CRASHED event and may cancel the context.        *)
(***************************************************************************)
EXTENDS Integers

CONSTANTS None,      \* "no event", "not ended"
          MaxFails   \* consecutive failures that make a sandbox unhealthy (3 in the code)

ASSUME SupervisorsAssumption == MaxFails \in Nat \ {0}

VARIABLES cancelled,   \* the context is done
          end,         \* why the container ended, or None
          watch,       \* WatchPod's next step
          seen,        \* the last state of the pod the watch has delivered
          event,       \* the PodEvent WatchPod is sending
          phase,       \* sandbox.Status.Phase
          crash,       \* HandleCrash's next step
          releaser,    \* the goroutine HandleCrash releases the resources in
          life,        \* EnforceLifetime's next step
          collector,   \* the goroutine onExpiry runs in
          late,        \* collectionTimedOut
          released,    \* who called ReleaseResources
          reported,    \* the statuses passed to UpdateRunStatus
          health,      \* HealthChecker.Run's next step
          fails,       \* ConsecutiveFail
          unhealthy    \* onUnhealthy has been called

watchVars == <<watch, seen, event>>
crashVars == <<phase, crash, releaser>>
lifeVars == <<life, collector, late>>
healthVars == <<health, fails, unhealthy>>
supervisorsVars == <<cancelled, end, watchVars, crashVars, lifeVars, released, reported, healthVars>>

\* "Evicted": the pod failed and no container of it is reported as terminated.
Ends == {"Completed", "Error", "Evicted"}

SupervisorsInit ==
    /\ cancelled = FALSE /\ end = None
    /\ watch = "watching" /\ seen = None /\ event = None
    /\ phase = "RUNNING" /\ crash = "none" /\ releaser = "none"
    /\ life = "armed" /\ collector = "none" /\ late = FALSE
    /\ released = {} /\ reported = {}
    /\ health = "waiting" /\ fails = 0 /\ unhealthy = FALSE

-----------------------------------------------------------------------------
(* The owner and the container: external. *)

Cancel ==
    /\ ~cancelled
    /\ cancelled' = TRUE
    /\ UNCHANGED <<end, watchVars, crashVars, lifeVars, released, reported, healthVars>>

ContainerEnds ==
    /\ end = None
    /\ end' \in Ends
    /\ UNCHANGED <<cancelled, watchVars, crashVars, lifeVars, released, reported, healthVars>>

-----------------------------------------------------------------------------
(* WatchPod. *)

\* A container that ended with a reason other than Completed crashed.
PodEventFromPod ==
    CASE end = None        -> "Running"
      [] end = "Completed" -> "Succeeded"
      [] end = "Evicted"   -> "Failed"
      [] OTHER             -> "CRASHED"

IsTerminalPhase(e) == e \in {"CRASHED", "Succeeded", "Failed"}

\* The watch delivers a state of the pod it has not delivered before.
WatchDelivers ==
    /\ watch = "watching"
    /\ PodEventFromPod # seen
    /\ event' = PodEventFromPod /\ seen' = event'
    /\ watch' = "sending"
    /\ UNCHANGED <<cancelled, end, crashVars, lifeVars, released, reported, healthVars>>

\* The owner receives the event; on a crash it calls HandleCrash, which records it
\* and starts releasing the resources.
SendEvent ==
    /\ watch = "sending"
    /\ watch' = IF IsTerminalPhase(event) THEN "returned" ELSE "watching"
    /\ event' = None
    /\ IF event = "CRASHED"
       THEN /\ phase' = "CRASHED" /\ crash' = "releasing" /\ releaser' = "running"
            /\ released' = released \cup {"crash"}
       ELSE UNCHANGED <<crashVars, released>>
    /\ UNCHANGED <<cancelled, end, seen, lifeVars, reported, healthVars>>

\* The context is done, or the watch breaks: an error event or a closed stream.
WatchReturns ==
    /\ \/ watch \in {"watching", "sending"} /\ cancelled
       \/ watch = "watching"
    /\ watch' = "returned" /\ event' = None
    /\ UNCHANGED <<cancelled, end, seen, crashVars, lifeVars, released, reported, healthVars>>

-----------------------------------------------------------------------------
(* HandleCrash. *)

ReleaserReturns ==
    /\ releaser = "running"
    /\ releaser' = "returned"
    /\ UNCHANGED <<cancelled, end, watchVars, phase, crash, lifeVars, released, reported, healthVars>>

\* The release ends, well or not, or its 30 seconds, or the context, do.
AwaitRelease ==
    /\ crash = "releasing"
    /\ crash' = "updating"
    /\ UNCHANGED <<cancelled, end, watchVars, phase, releaser, lifeVars, released, reported, healthVars>>

\* The control plane is told of the crash whatever became of the release.
ReportCrash ==
    /\ crash = "updating"
    /\ reported' = reported \cup {"SANDBOX_CRASH"}
    /\ crash' = "returned"
    /\ UNCHANGED <<cancelled, end, watchVars, phase, releaser, lifeVars, released, healthVars>>

-----------------------------------------------------------------------------
(* EnforceLifetime. *)

\* The context is done before the lifetime is over.
AbortLifetime ==
    /\ life = "armed" /\ cancelled
    /\ life' = "aborted"
    /\ UNCHANGED <<cancelled, end, watchVars, crashVars, collector, late, released, reported, healthVars>>

Expire ==
    /\ life = "armed"
    /\ life' = "stopping"
    /\ UNCHANGED <<cancelled, end, watchVars, crashVars, collector, late, released, reported, healthVars>>

\* GracefulStop returns, in 35 seconds at the latest: the container has ended
\* (through SIGTERM or SIGKILL, unless it had ended before) or the stop failed.
\* Collection starts, if there is something to collect.
GracefulStop ==
    /\ life = "stopping"
    /\ \/ end = None /\ end' \in {"Completed", "Error"}
       \/ UNCHANGED end
    /\ \/ life' = "collecting" /\ collector' = "running"
       \/ life' = "releasing" /\ UNCHANGED collector
    /\ UNCHANGED <<cancelled, watchVars, crashVars, late, released, reported, healthVars>>

CollectorReturns ==
    /\ collector = "running"
    /\ collector' = "returned"
    /\ UNCHANGED <<cancelled, end, watchVars, crashVars, life, late, released, reported, healthVars>>

\* Mutant of AwaitCollection: the collection is awaited without a deadline.
AwaitCollectionForever ==
    /\ life = "collecting"
    /\ collector = "returned" /\ life' = "releasing" /\ UNCHANGED late
    /\ UNCHANGED <<cancelled, end, watchVars, crashVars, collector, released, reported, healthVars>>

\* The collection ends or its 60 seconds do; select picks either when both have.
AwaitCollection ==
    /\ life = "collecting"
    /\ \/ collector = "returned" /\ life' = "releasing" /\ UNCHANGED late
       \/ life' = "updating" /\ late' = TRUE
    /\ UNCHANGED <<cancelled, end, watchVars, crashVars, collector, released, reported, healthVars>>

ReportTimeout ==
    /\ life = "updating"
    /\ reported' = reported \cup {"COLLECTION_TIMEOUT"}
    /\ life' = "releasing"
    /\ UNCHANGED <<cancelled, end, watchVars, crashVars, collector, late, released, healthVars>>

\* Mutant of ReleaseResources: the resources are released as soon as the stop returns.
ReleaseResourcesEarly ==
    /\ life \in {"collecting", "updating", "releasing"} /\ "lifetime" \notin released
    /\ released' = released \cup {"lifetime"}
    /\ UNCHANGED <<cancelled, end, watchVars, crashVars, lifeVars, reported, healthVars>>

\* The call has no deadline of its own.
ReleaseResources ==
    /\ life = "releasing" /\ "lifetime" \notin released
    /\ released' = released \cup {"lifetime"}
    /\ UNCHANGED <<cancelled, end, watchVars, crashVars, lifeVars, reported, healthVars>>

LifetimeReturns ==
    /\ life = "releasing" /\ "lifetime" \in released
    /\ life' = "returned"
    /\ UNCHANGED <<cancelled, end, watchVars, crashVars, collector, late, released, reported, healthVars>>
-----------------------------------------------------------------------------
(* HealthChecker.Run. *)

Tick ==
    /\ health = "waiting"
    /\ health' = "probing"
    /\ UNCHANGED <<cancelled, end, watchVars, crashVars, lifeVars, released, reported, fails, unhealthy>>

\* A 2xx answer.
ProbeSucceeds ==
    /\ health = "probing" /\ end = None
    /\ fails' = 0 /\ health' = "waiting"
    /\ UNCHANGED <<cancelled, end, watchVars, crashVars, lifeVars, released, reported, unhealthy>>

\* Another answer, no answer, or a context that is done while the probe is under way.
ProbeFails ==
    /\ health = "probing"
    /\ fails' = fails + 1
    /\ IF fails' >= MaxFails
       THEN unhealthy' = TRUE /\ health' = "returned"
       ELSE health' = "waiting" /\ UNCHANGED unhealthy
    /\ UNCHANGED <<cancelled, end, watchVars, crashVars, lifeVars, released, reported>>

HealthReturns ==
    /\ health = "waiting" /\ cancelled
    /\ health' = "returned"
    /\ UNCHANGED <<cancelled, end, watchVars, crashVars, lifeVars, released, reported, fails, unhealthy>>

-----------------------------------------------------------------------------
WatchPod == WatchDelivers \/ SendEvent \/ WatchReturns
HandleCrash == ReleaserReturns \/ AwaitRelease \/ ReportCrash
EnforceLifetime == AbortLifetime \/ Expire \/ GracefulStop \/ CollectorReturns \/ AwaitCollection
                      \/ ReportTimeout \/ ReleaseResources \/ LifetimeReturns
HealthCheck == Tick \/ ProbeSucceeds \/ ProbeFails \/ HealthReturns

SupervisorsNext == Cancel \/ ContainerEnds \/ WatchPod \/ HandleCrash \/ EnforceLifetime \/ HealthCheck

\* Timers fire, a select with something ready goes on, calls with a deadline return,
\* and so does UpdateRunStatus, which has none.  Nothing is assumed of the goroutines
\* that may hang; the enforcer makes its last call but need not return from it.
SupervisorsFairness ==
    /\ WF_supervisorsVars(AwaitRelease) /\ WF_supervisorsVars(ReportCrash)
    /\ WF_supervisorsVars(GracefulStop) /\ WF_supervisorsVars(AwaitCollection)
    /\ WF_supervisorsVars(ReportTimeout) /\ WF_supervisorsVars(ReleaseResources)
    /\ WF_supervisorsVars(Tick \/ HealthReturns) /\ WF_supervisorsVars(ProbeSucceeds \/ ProbeFails)

SupervisorsSpec == SupervisorsInit /\ [][SupervisorsNext]_supervisorsVars /\ SupervisorsFairness

-----------------------------------------------------------------------------
(* Properties. *)

WatchTypes ==
    /\ watch \in {"watching", "sending", "returned"}
    /\ seen \in {None, "Running", "Succeeded", "Failed", "CRASHED"}
    /\ event \in {None, seen}

CrashTypes ==
    /\ phase \in {"RUNNING", "CRASHED"}
    /\ crash \in {"none", "releasing", "updating", "returned"}
    /\ releaser \in {"none", "running", "returned"}

LifeTypes ==
    /\ life \in {"armed", "aborted", "stopping", "collecting", "updating", "releasing", "returned"}
    /\ collector \in {"none", "running", "returned"} /\ late \in BOOLEAN

SharedTypes ==
    /\ cancelled \in BOOLEAN /\ end \in Ends \cup {None}
    /\ released \subseteq {"crash", "lifetime"}
    /\ reported \subseteq {"SANDBOX_CRASH", "COLLECTION_TIMEOUT"}

\* Types, and the threshold: the third failure in a row, and no earlier one, makes
\* the sandbox unhealthy and ends the health check (HealthChecker.Run).
HealthTypes ==
    /\ health \in {"waiting", "probing", "returned"}
    /\ fails \in 0..MaxFails /\ unhealthy \in BOOLEAN
    /\ unhealthy <=> fails = MaxFails
    /\ unhealthy => health = "returned"

SupervisorsTypeOK == WatchTypes /\ CrashTypes /\ LifeTypes /\ SharedTypes /\ HealthTypes

\* The enforcer never takes the resources from under a collection that still has
\* time, and a collection cut short has been reported when it does (EnforceLifetime).
CollectedBeforeRelease ==
    "lifetime" \in released =>
        /\ collector = "running" => late
        /\ late => "COLLECTION_TIMEOUT" \in reported

\* What the supervisors have done to the sandbox fits what they have found.
SupervisionConsistent == SupervisorsTypeOK /\ CollectedBeforeRelease

\* Once a crash is being handled the control plane is told of it, even when the
\* resources are never released (HandleCrash: 30 s, then UpdateRunStatus anyway).
CrashIsReported == crash # "none" ~> "SANDBOX_CRASH" \in reported

\* Once the lifetime is over the resources are released, even when the container
\* cannot be stopped, metric collection hangs, or the context ends (EnforceLifetime).
ExpiryReleases == life = "stopping" ~> "lifetime" \in released

\* A container that ended is found unhealthy unless its context is cancelled, however
\* its earlier probes went (HealthChecker.Run: consecutive failures, reset by success).
DeadIsNoticed == end # None ~> unhealthy \/ cancelled

\* No supervisor is held up for good by what it waits for, by the end of the
\* context, or by what the other two did to the sandbox they share.
SupervisorsAct == CrashIsReported /\ ExpiryReleases /\ DeadIsNoticed

=============================================================================
