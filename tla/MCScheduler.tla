---------------------------- MODULE MCScheduler ----------------------------
(* Scheduler with weights that leave remainders, ties and empty shares. *)
EXTENDS Scheduler

MCDistributions ==
    {<<0, 0, 0, 0, 0>>, <<0, 3, 1, 0, 0>>, <<5, 3, 1, 1, 0>>, <<2, 2, 2, 1, 0>>}
=============================================================================
