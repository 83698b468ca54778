--------------------------- MODULE MCBenchmarkRuns ---------------------------
(* BenchmarkRuns with the values the configurations give its constants. *)
EXTENDS BenchmarkRuns

\* Cancellation only: for the runs about the number of live runs.
OnlyFailed == {"FAILED"}

\* Enough to walk a run to a terminal status, and to fail it on the way.
ShortLife == {"BUILDING", "BUILD_FAILED", "BUILD_TIMEOUT"}
=============================================================================
