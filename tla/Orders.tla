-------------------------------- MODULE Orders --------------------------------
(***************************************************************************)
(* Orders, fills and rejections of the reference matching engine           *)
(* (libs/rme/src/lib.rs).                                                  *)
(***************************************************************************)
EXTENDS Integers

CONSTANTS Ids,        \* OrderId: unique within a benchmark run
          MaxPrice,   \* stands for u64::MAX
          MaxQty,     \* bound on the quantity of an order
          Nil         \* "none"

ASSUME BoundsAssumption == MaxPrice \in Nat /\ MaxQty \in Nat

Sides == {"Buy", "Sell"}

Opposite(side) == IF side = "Buy" THEN "Sell" ELSE "Buy"

Prices == 0..MaxPrice

\* A LimitOrder event, or a MarketOrder event when price is Nil.  seq_num is
\* left out: no matching code reads it.
OrderEvents == [id: Ids, side: Sides, price: Prices \cup {Nil}, qty: 0..MaxQty]

\* Option::None is no value of the types it is used with.
ASSUME NilAssumption ==
    Nil \notin Ids \cup Prices \cup OrderEvents \cup (Sides \X Prices)

\* Mutant of Crosses: an equal price does not cross.
CrossesStrictly(o, p) ==
    o.price # Nil => IF o.side = "Buy" THEN p < o.price ELSE p > o.price

\* May order o trade at price p?
Crosses(o, p) ==
    o.price # Nil => IF o.side = "Buy" THEN p <= o.price ELSE p >= o.price

\* What the engine answers: a FillEvent, a RejectEvent, or nothing.
Fill(o, resting, p, q) ==
    [type |-> "fill", aggressor_id |-> o.id, aggressor_side |-> o.side,
     resting_id |-> resting, price |-> p, qty |-> q]

Reject(id, reason) == [type |-> "reject", order_id |-> id, reason |-> reason]

Silence == [type |-> "none"]
=============================================================================
