----------------------------- MODULE MCBotFleet -----------------------------
(* BotFleet with two runs whose ids begin alike; the second call is for the   *)
(* smaller fleet, the first for either.                                       *)
EXTENDS BotFleet

CONSTANTS h2, r1, r2

MCFleetSize == [r \in Runs |-> IF r = r1 THEN 2 ELSE 1]
MCPrefix == [r \in Runs |-> "p"]

MCNext == Next /\ call'[h2].run # r1

MCSpec ==
    /\ Init
    /\ [][MCNext]_vars
    /\ \A h \in Handlers : WF_vars(ProvisionFleet(h))
    /\ \A s \in Stoppers : WF_vars(ShutdownFleet(s))
=============================================================================
