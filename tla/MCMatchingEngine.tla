--------------------------- MODULE MCMatchingEngine ---------------------------
(***************************************************************************)
(* MatchingEngine with orders numbered as they are submitted: the engine   *)
(* only compares ids for equality, so which id comes first does not matter.*)
(***************************************************************************)
EXTENDS MatchingEngine

MCIds == 1..4

\* Ids are used in order, and only the first order may have quantity 0.
MCNext ==
    /\ Next
    /\ \A id \in Ids :
          placed'[id] # Nil =>
              /\ placed'[id].qty = 0 => id = 1
              /\ \A j \in 1..id : placed'[j] # Nil

MCSpec == Init /\ [][MCNext]_vars /\ WF_vars(Step)
=============================================================================
