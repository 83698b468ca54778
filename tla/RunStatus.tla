------------------------------ MODULE RunStatus ------------------------------
(***************************************************************************)
(* The statuses of a benchmark run (libs/shared-go/types/status.go) and    *)
(* the transition table the control plane enforces                         *)
(* (control-plane-api/internal/benchmark/service.go, allowedTransitions).  *)
(***************************************************************************)

\* The successful terminal status and the terminal failures.
TerminalFailures ==
    {"BUILD_FAILED", "BUILD_TIMEOUT", "SANDBOX_CRASH", "NETWORK_SETUP_FAILED",
     "NO_ENDPOINTS", "PROVISIONING_TIMEOUT", "INSUFFICIENT_CAPACITY",
     "COLLECTION_TIMEOUT", "FAILED"}

TerminalBenchmarkRunStatuses == {"COMPLETE"} \cup TerminalFailures

IsTerminal(s) == s \in TerminalBenchmarkRunStatuses

\* The statuses on the forward path, in order, before COMPLETE.
ProgressStatuses ==
    {"QUEUED", "BUILDING", "DEPLOYING", "RUNNING", "COLLECTING", "SCORING"}

Statuses == ProgressStatuses \cup TerminalBenchmarkRunStatuses

\* The table maps a status to the statuses it may be left for; a status the
\* table has no row for may not be left at all.
allowedTransitions ==
    [QUEUED     |-> {"BUILDING", "FAILED", "BUILD_FAILED"},
     BUILDING   |-> {"DEPLOYING", "BUILD_FAILED", "BUILD_TIMEOUT", "FAILED"},
     DEPLOYING  |-> {"RUNNING", "SANDBOX_CRASH", "NETWORK_SETUP_FAILED",
                     "NO_ENDPOINTS", "FAILED"},
     RUNNING    |-> {"COLLECTING", "SANDBOX_CRASH", "INSUFFICIENT_CAPACITY",
                     "FAILED"},
     COLLECTING |-> {"SCORING", "COLLECTION_TIMEOUT", "FAILED"},
     SCORING    |-> {"COMPLETE", "FAILED"}]

Allowed(s, t) == s \in DOMAIN allowedTransitions /\ t \in allowedTransitions[s]
=============================================================================
