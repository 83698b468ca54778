---------------------------- MODULE RunLifecycle ----------------------------
(***************************************************************************)
(* What the control plane promises about benchmark runs, with no           *)
(* transactions, row locks or concurrent calls in it: a run is born QUEUED,*)
(* moves only along allowedTransitions, and each move writes its status    *)
(* and its audit row in one indivisible step.  BenchmarkRuns is shown to   *)
(* implement this module.                                                  *)
(***************************************************************************)
EXTENDS Sequences, RunStatus

CONSTANTS RunIds, Absent

VARIABLES status,   \* status[r]: the status of run r, Absent before it exists
          audit     \* audit[r]: the audit rows of r, oldest first

vars == <<status, audit>>

\* The audit row of a move from prior to new ("" is the prior of a creation).
AuditRow(prior, new) == [prior |-> prior, new |-> new]

Init ==
    /\ status = [r \in RunIds |-> Absent]
    /\ audit = [r \in RunIds |-> <<>>]

Create(r) ==
    /\ status[r] = Absent
    /\ status' = [status EXCEPT ![r] = "QUEUED"]
    /\ audit' = [audit EXCEPT ![r] = <<AuditRow("", "QUEUED")>>]

Advance(r, s) ==
    /\ status[r] # Absent
    /\ Allowed(status[r], s)
    /\ status' = [status EXCEPT ![r] = s]
    /\ audit' = [audit EXCEPT ![r] = Append(@, AuditRow(status[r], s))]

Next == \E r \in RunIds : Create(r) \/ \E s \in Statuses : Advance(r, s)

Spec == Init /\ [][Next]_vars
=============================================================================
