------------------------------ MODULE MCTelemetry ------------------------------
(* Telemetry with two events: one slow, one failed and with skewed clocks. *)
EXTENDS Telemetry

CONSTANTS slow, skewed

MCSamples == {slow, skewed}
MCFailed == {skewed}
MCDelay == (slow :> 3) @@ (skewed :> -1)
=============================================================================
