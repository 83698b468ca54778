--------------------------- MODULE BenchmarkRuns ---------------------------
(***************************************************************************)
(* The benchmark-run service of the control plane                          *)
(* (control-plane-api/internal/benchmark/service.go) as its database sees  *)
(* it: every gRPC call runs in a handler of its own, a handler issues one  *)
(* SQL statement per step, and the statements of different handlers        *)
(* interleave.  A transaction's writes become visible at its commit; a     *)
(* handler that fails, is cancelled or dies before its commit is rolled    *)
(* back (defer tx.Rollback).                                               *)
(***************************************************************************)
EXTENDS Naturals, Sequences, FiniteSets, RunStatus

CONSTANTS Contestants,         \* the contestants that own runs
          RunIds,              \* the ids gen_random_uuid() may hand out
          Handlers,            \* the calls that may be in flight at once
          MaxConcurrentRuns,   \* maxConcurrentRuns (3 in the code)
          Requested,           \* the statuses callers of TransitionState ask for
          Absent               \* "no such row", "no lock holder", "no argument"

ASSUME MaxAssumption == MaxConcurrentRuns \in Nat \ {0}

ASSUME FiniteAssumption == IsFiniteSet(Handlers) /\ IsFiniteSet(RunIds)

ASSUME RequestedAssumption == Requested \subseteq Statuses

ASSUME AbsentAssumption ==
    Absent \notin Contestants \cup RunIds \cup Handlers \cup Statuses

VARIABLES status,     \* benchmark_runs.status, Absent if there is no such row
          owner,      \* benchmark_runs.contestant_id
          audit,      \* benchmark_run_audit, per run, in id order
          lockedBy,   \* the handler that holds the row lock of a run
          call        \* what each handler is doing

vars == <<status, owner, audit, lockedBy, call>>

-----------------------------------------------------------------------------
(* The calls *)

\* The next statement of a CreateRun and of a TransitionState call.
CreatePcs == {"count", "insertRun", "insertRunAudit", "commitRun"}
LockedPcs == {"validate", "update", "insertAudit", "commit"}
TransitionPcs == {"lock"} \cup LockedPcs

Calls ==
    [pc: {"idle"} \cup CreatePcs \cup TransitionPcs,
     contestant: Contestants \cup {Absent},
     run: RunIds \cup {Absent},
     newState: Statuses \cup {Absent},
     current: Statuses \cup {Absent}]

Idle == [pc |-> "idle", contestant |-> Absent, run |-> Absent,
         newState |-> Absent, current |-> Absent]

AuditRow(prior, new) == [prior |-> prior, new |-> new]
AuditRows == [prior: Statuses \cup {""}, new: Statuses]

Goto(h, pc) == call' = [call EXCEPT ![h].pc = pc]

\* The handler returns: its transaction is over and its row lock released.
Return(h) ==
    /\ call' = [call EXCEPT ![h] = Idle]
    /\ lockedBy' = [r \in RunIds |-> IF lockedBy[r] = h THEN Absent ELSE lockedBy[r]]

-----------------------------------------------------------------------------
(* CreateRun *)

\* The rows countNonTerminalRuns counts.
NonTerminalRuns(c) ==
    {r \in RunIds : status[r] # Absent /\ owner[r] = c /\ ~IsTerminal(status[r])}

countNonTerminalRuns(c) == Cardinality(NonTerminalRuns(c))

\* The id the INSERT will generate is picked here: it is fresh and no other
\* handler will be given it.  (RunIds is the bound on the runs ever created.)
StartCreateRun(h, c, r) ==
    /\ call[h].pc = "idle"
    /\ status[r] = Absent
    /\ \A g \in Handlers : call[g].pc \in CreatePcs => call[g].run # r
    /\ call' = [call EXCEPT ![h] =
                   [Idle EXCEPT !.pc = "count", !.contestant = c, !.run = r]]
    /\ UNCHANGED <<status, owner, audit, lockedBy>>

\* Mutant of CountRuns: <= for <.
CountRunsOffByOne(h) ==
    /\ call[h].pc = "count"
    /\ countNonTerminalRuns(call[h].contestant) <= MaxConcurrentRuns
    /\ Goto(h, "insertRun")
    /\ UNCHANGED <<status, owner, audit, lockedBy>>

\* The count is read outside the transaction that inserts.
CountRuns(h) ==
    /\ call[h].pc = "count"
    /\ countNonTerminalRuns(call[h].contestant) < MaxConcurrentRuns
    /\ Goto(h, "insertRun")
    /\ UNCHANGED <<status, owner, audit, lockedBy>>

\* codes.ResourceExhausted
RefuseCreate(h) ==
    /\ call[h].pc = "count"
    /\ countNonTerminalRuns(call[h].contestant) >= MaxConcurrentRuns
    /\ Return(h)
    /\ UNCHANGED <<status, owner, audit>>

InsertRun(h) ==
    /\ call[h].pc = "insertRun"
    /\ Goto(h, "insertRunAudit")
    /\ UNCHANGED <<status, owner, audit, lockedBy>>

InsertRunAudit(h) ==
    /\ call[h].pc = "insertRunAudit"
    /\ Goto(h, "commitRun")
    /\ UNCHANGED <<status, owner, audit, lockedBy>>

\* Mutant of CommitRun: the creation's audit row has its two statuses swapped.
CommitRunSwapped(h) ==
    LET r == call[h].run IN
    /\ call[h].pc = "commitRun"
    /\ status' = [status EXCEPT ![r] = "QUEUED"]
    /\ owner' = [owner EXCEPT ![r] = call[h].contestant]
    /\ audit' = [audit EXCEPT ![r] = Append(@, AuditRow("QUEUED", ""))]
    /\ Return(h)

\* Both inserts become visible together.
CommitRun(h) ==
    LET r == call[h].run IN
    /\ call[h].pc = "commitRun"
    /\ status' = [status EXCEPT ![r] = "QUEUED"]
    /\ owner' = [owner EXCEPT ![r] = call[h].contestant]
    /\ audit' = [audit EXCEPT ![r] = Append(@, AuditRow("", "QUEUED"))]
    /\ Return(h)

-----------------------------------------------------------------------------
(* TransitionState and CancelRun *)

StartTransition(h, r, s) ==
    /\ call[h].pc = "idle"
    /\ call' = [call EXCEPT ![h] =
                   [Idle EXCEPT !.pc = "lock", !.run = r, !.newState = s]]
    /\ UNCHANGED <<status, owner, audit, lockedBy>>

\* CancelRun is TransitionState to FAILED on behalf of the operator.
CancelRun(h, r) == StartTransition(h, r, "FAILED")

\* Mutant of LockRow: SELECT status without FOR UPDATE.
LockRowUnlocked(h) ==
    /\ call[h].pc = "lock"
    /\ status[call[h].run] # Absent
    /\ call' = [call EXCEPT ![h] =
                   [@ EXCEPT !.pc = "validate", !.current = status[call[h].run]]]
    /\ UNCHANGED <<status, owner, audit, lockedBy>>

\* SELECT status ... FOR UPDATE: waits for the row lock, then reads the last
\* committed status.
LockRow(h) ==
    LET r == call[h].run IN
    /\ call[h].pc = "lock"
    /\ status[r] # Absent
    /\ lockedBy[r] = Absent
    /\ lockedBy' = [lockedBy EXCEPT ![r] = h]
    /\ call' = [call EXCEPT ![h] = [@ EXCEPT !.pc = "validate", !.current = status[r]]]
    /\ UNCHANGED <<status, owner, audit>>

\* ErrNotFound
RunNotFound(h) ==
    /\ call[h].pc = "lock"
    /\ status[call[h].run] = Absent
    /\ Return(h)
    /\ UNCHANGED <<status, owner, audit>>

\* The test TransitionState makes on the status it read under the lock.
Acceptable(h) ==
    /\ ~IsTerminal(call[h].current)
    /\ Allowed(call[h].current, call[h].newState)

AcceptTransition(h) ==
    /\ call[h].pc = "validate"
    /\ Acceptable(h)
    /\ Goto(h, "update")
    /\ UNCHANGED <<status, owner, audit, lockedBy>>

\* Mutant of RejectTransition: the transaction is left open.
RejectTransitionLeaky(h) ==
    /\ call[h].pc = "validate"
    /\ ~Acceptable(h)
    /\ call' = [call EXCEPT ![h] = Idle]
    /\ UNCHANGED <<status, owner, audit, lockedBy>>

RejectTransition(h) ==
    /\ call[h].pc = "validate"
    /\ ~Acceptable(h)
    /\ Return(h)
    /\ UNCHANGED <<status, owner, audit>>

UpdateStatus(h) ==
    /\ call[h].pc = "update"
    /\ Goto(h, "insertAudit")
    /\ UNCHANGED <<status, owner, audit, lockedBy>>

InsertAudit(h) ==
    /\ call[h].pc = "insertAudit"
    /\ Goto(h, "commit")
    /\ UNCHANGED <<status, owner, audit, lockedBy>>

\* Mutant of CommitTransition: the audit row is lost.
CommitTransitionUnaudited(h) ==
    /\ call[h].pc = "commit"
    /\ status' = [status EXCEPT ![call[h].run] = call[h].newState]
    /\ Return(h)
    /\ UNCHANGED <<owner, audit>>

\* The new status and its audit row become visible together, and the lock is
\* released.
CommitTransition(h) ==
    LET r == call[h].run IN
    /\ call[h].pc = "commit"
    /\ status' = [status EXCEPT ![r] = call[h].newState]
    /\ audit' = [audit EXCEPT ![r] = Append(@, AuditRow(call[h].current, call[h].newState))]
    /\ Return(h)
    /\ UNCHANGED owner

\* A statement fails, the caller's context ends or the process dies before
\* the commit: the transaction is rolled back.
Abort(h) ==
    /\ call[h].pc # "idle"
    /\ Return(h)
    /\ UNCHANGED <<status, owner, audit>>

-----------------------------------------------------------------------------
Init ==
    /\ status = [r \in RunIds |-> Absent]
    /\ owner = [r \in RunIds |-> Absent]
    /\ audit = [r \in RunIds |-> <<>>]
    /\ lockedBy = [r \in RunIds |-> Absent]
    /\ call = [h \in Handlers |-> Idle]

\* A call arrives.
Arrive(h) ==
    \E r \in RunIds :
        \/ \E c \in Contestants : StartCreateRun(h, c, r)
        \/ \E s \in Requested : StartTransition(h, r, s)
        \/ CancelRun(h, r)

\* The next statement of the call that h serves.
Step(h) ==
    \/ CountRuns(h) \/ RefuseCreate(h) \/ InsertRun(h) \/ InsertRunAudit(h)
    \/ CommitRun(h)
    \/ LockRow(h) \/ RunNotFound(h) \/ AcceptTransition(h) \/ RejectTransition(h)
    \/ UpdateStatus(h) \/ InsertAudit(h) \/ CommitTransition(h)

Next == \E h \in Handlers : Arrive(h) \/ Step(h) \/ Abort(h)

Spec == Init /\ [][Next]_vars

\* PostgreSQL answers every statement and serves the waiters of a row lock in
\* order, so no handler is passed over for ever.
FairSpec == Spec /\ \A h \in Handlers : SF_vars(Step(h))

-----------------------------------------------------------------------------
(* Properties *)

\* Types of the tables, the row locks and the calls.
TypeOK ==
    /\ status \in [RunIds -> Statuses \cup {Absent}]
    /\ owner \in [RunIds -> Contestants \cup {Absent}]
    /\ audit \in [RunIds -> Seq(AuditRows)]
    /\ lockedBy \in [RunIds -> Handlers \cup {Absent}]
    /\ call \in [Handlers -> Calls]

\* A complete path of the transition table to status s: it starts with the
\* creation, every row continues where the one before it ended, every hop is
\* allowed, and it ends in s.
Explains(trail, s) ==
    /\ trail # <<>>
    /\ trail[1] = AuditRow("", "QUEUED")
    /\ trail[Len(trail)].new = s
    /\ \A i \in 2..Len(trail) :
          /\ trail[i].prior = trail[i - 1].new
          /\ Allowed(trail[i].prior, trail[i].new)

\* The audit trail of every run explains its status.  (Two concurrent
\* TransitionState calls must not both leave the same status, and neither an
\* update without its audit row nor the reverse may survive a failure.)
AuditExplainsStatus ==
    \A r \in RunIds :
        IF status[r] = Absent THEN audit[r] = <<>> ELSE Explains(audit[r], status[r])

\* A run in a terminal status never changes again, neither its row nor its
\* audit trail, whatever calls are in flight (IsTerminal under FOR UPDATE).
TerminalIsFinal ==
    [][\A r \in RunIds :
          status[r] # Absent /\ IsTerminal(status[r])
              => status'[r] = status[r] /\ audit'[r] = audit[r]]_vars

\* The calls that have passed the limit check and not yet committed.
Admitted(c) ==
    {h \in Handlers : /\ call[h].pc \in CreatePcs \ {"count"}
                      /\ call[h].contestant = c}

\* How far the check-then-insert of CreateRun can overshoot: the runs that are
\* live or about to be inserted exceed the limit by at most one per handler
\* other than the one that was entitled to the last slot.
OvershootBounded ==
    \A c \in Contestants :
        countNonTerminalRuns(c) + Cardinality(Admitted(c))
            <= MaxConcurrentRuns - 1 + Cardinality(Handlers)

\* Every call that arrives is answered: no handler waits for ever for a row
\* lock that another handler failed to give back.
EveryCallReturns ==
    \A h \in Handlers : call[h].pc # "idle" ~> call[h].pc = "idle"

\* The service implements the atomic life cycle.
Lifecycle == INSTANCE RunLifecycle
ImplementsLifecycle == Lifecycle!Spec
=============================================================================
