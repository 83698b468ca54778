---------------------------- MODULE PriceTimeBook ----------------------------
(***************************************************************************)
(* What the reference matching engine promises, with no price levels,      *)
(* queues, inverted keys or cancel index: a set of resting orders, and an  *)
(* aggressor that always trades next with the resting order no other order *)
(* has priority over.  MatchingEngine is shown to implement this module.   *)
(***************************************************************************)
EXTENDS Orders

VARIABLES resting,    \* resting[id]: the order on the book, or Nil
          incoming,   \* the order being matched, or Nil
          clock,      \* the number of orders that have arrived
          time,       \* time[id]: the clock when the order arrived
          output      \* what the last step answered

vars == <<resting, incoming, clock, time, output>>

Live == {id \in Ids : resting[id] # Nil}

\* a has priority over b, an order of the same side: a better price, or the
\* same price and an earlier arrival.
HasPriority(a, b) ==
    LET p == resting[a].price
        q == resting[b].price
    IN \/ IF resting[a].side = "Buy" THEN p > q ELSE p < q
       \/ p = q /\ time[a] < time[b]

\* The orders the incoming order may trade with.
Counterparties ==
    {id \in Live : /\ resting[id].side = Opposite(incoming.side)
                   /\ Crosses(incoming, resting[id].price)}

Init ==
    /\ resting = [id \in Ids |-> Nil]
    /\ incoming = Nil
    /\ clock = 0
    /\ time = [id \in Ids |-> 0]
    /\ output = Silence

Submit(o) ==
    /\ incoming = Nil
    /\ time[o.id] = 0
    /\ incoming' = o
    /\ clock' = clock + 1
    /\ time' = [time EXCEPT ![o.id] = clock + 1]
    /\ output' = Silence
    /\ UNCHANGED resting

Trade(x) ==
    LET left == resting[x].qty - incoming.qty
        q == IF left <= 0 THEN resting[x].qty ELSE incoming.qty
    IN /\ incoming # Nil
       /\ incoming.qty > 0
       /\ x \in Counterparties
       /\ \A y \in Counterparties \ {x} : HasPriority(x, y)
       /\ incoming' = [incoming EXCEPT !.qty = @ - q]
       /\ resting' = [resting EXCEPT ![x] = IF left <= 0 THEN Nil ELSE [@ EXCEPT !.qty = left]]
       /\ output' = Fill(incoming, x, resting[x].price, q)
       /\ UNCHANGED <<clock, time>>

\* The incoming order is exhausted, or nothing on the book can trade with it:
\* what is left of a limit order rests, what is left of a market order is
\* rejected.
Conclude ==
    /\ incoming # Nil
    /\ incoming.qty > 0 => Counterparties = {}
    /\ resting' = IF incoming.qty > 0 /\ incoming.price # Nil
                    THEN [resting EXCEPT ![incoming.id] = incoming]
                    ELSE resting
    /\ output' = IF incoming.qty > 0 /\ incoming.price = Nil
                   THEN Reject(incoming.id, "NoLiquidity")
                   ELSE Silence
    /\ incoming' = Nil
    /\ UNCHANGED <<clock, time>>

Cancel(id) ==
    /\ incoming = Nil
    /\ resting' = [resting EXCEPT ![id] = Nil]
    /\ output' = IF id \in Live THEN Silence ELSE Reject(id, "UnknownOrderId")
    /\ UNCHANGED <<incoming, clock, time>>

Next ==
    \/ \E o \in OrderEvents : Submit(o)
    \/ \E id \in Ids : Trade(id) \/ Cancel(id)
    \/ Conclude

Spec == Init /\ [][Next]_vars
=============================================================================
