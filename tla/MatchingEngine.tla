---------------------------- MODULE MatchingEngine ----------------------------
(***************************************************************************)
(* The reference matching engine (libs/rme/src): a two-sided limit order   *)
(* book of sorted price levels with a FIFO queue each, a cancel index, and *)
(* match_order, which processes one order event at a time.  One step is    *)
(* one iteration of the matching loops.                                    *)
(***************************************************************************)
EXTENDS Orders, Sequences, FiniteSetsExt, SequencesExt

VARIABLES levels,     \* levels[side]: BookSide.levels, price key -> queue of orders
          index,      \* cancel_index: order id -> <<side, price>>, or Nil
          incoming,   \* the order in match_order, qty being `remaining`, or Nil
          output,     \* the fill or rejection emitted by the last step
          placed,     \* history: the event that submitted an order, or Nil
          filled,     \* history: the sum of the fills that name an order
          clock,      \* history: the number of orders submitted
          time        \* history: the clock when an order was submitted

vars == <<levels, index, incoming, output, placed, filled, clock, time>>

-----------------------------------------------------------------------------
(* The book *)

\* Bids are filed under u64::MAX - price, so that the first key of either side
\* is its best price.  The map is its own inverse.
Key(side, price) == IF side = "Buy" THEN MaxPrice - price ELSE price
PriceOf(side, key) == Key(side, key)

\* The first key of a side's map, when it has one.
BestKey(side) == CHOOSE k \in DOMAIN levels[side] : \A j \in DOMAIN levels[side] : k <= j

\* Mutant of WithQueue: the emptied level is left in the map.
WithQueueKeepsEmpty(side, key, queue) ==
    [k \in DOMAIN levels[side] \cup {key} |-> IF k = key THEN queue ELSE levels[side][k]]

\* A side's map with the queue at key replaced; an empty queue leaves the map.
WithQueue(side, key, queue) ==
    IF queue = <<>>
      THEN [k \in DOMAIN levels[side] \ {key} |-> levels[side][k]]
      ELSE [k \in DOMAIN levels[side] \cup {key} |->
               IF k = key THEN queue ELSE levels[side][k]]

QueueAt(side, key) == IF key \in DOMAIN levels[side] THEN levels[side][key] ELSE <<>>

\* Where order id is in the queue at key: a set of at most one position.
Positions(side, key, id) ==
    {i \in DOMAIN QueueAt(side, key) : QueueAt(side, key)[i].id = id}

-----------------------------------------------------------------------------
(* Limit and market orders *)

Submit(o) ==
    /\ incoming = Nil
    /\ placed[o.id] = Nil
    /\ incoming' = o
    /\ placed' = [placed EXCEPT ![o.id] = o]
    /\ clock' = clock + 1
    /\ time' = [time EXCEPT ![o.id] = clock + 1]
    /\ output' = Silence
    /\ UNCHANGED <<levels, index, filled>>

\* The side the incoming order trades against, its best level and the price there.
Against == Opposite(incoming.side)
TopKey == BestKey(Against)
TopPrice == PriceOf(Against, TopKey)

\* The loop condition: quantity remains, and the best opposite price, if there
\* is one, is within the limit.
MayTrade ==
    /\ incoming # Nil
    /\ incoming.qty > 0
    /\ DOMAIN levels[Against] # {}
    /\ Crosses(incoming, TopPrice)

\* The fill of q with the resting order x is emitted and accounted for.
Emit(x, q) ==
    /\ output' = Fill(incoming, x, TopPrice, q)
    /\ incoming' = [incoming EXCEPT !.qty = @ - q]
    /\ filled' = [filled EXCEPT ![incoming.id] = @ + q, ![x] = @ + q]

\* The order at the front of the best level is filled whole: it leaves its
\* queue and the cancel index, and an empty level leaves the map.
FillWhole ==
    LET front == Head(levels[Against][TopKey]) IN
    /\ MayTrade
    /\ levels[Against][TopKey] # <<>>
    /\ front.qty <= incoming.qty
    /\ Emit(front.id, front.qty)
    /\ levels' = [levels EXCEPT ![Against] =
                     WithQueue(Against, TopKey, Tail(levels[Against][TopKey]))]
    /\ index' = [index EXCEPT ![front.id] = Nil]
    /\ UNCHANGED <<placed, clock, time>>

\* It is larger than what remains: its quantity is reduced in place.
FillPart ==
    LET queue == levels[Against][TopKey]
        front == Head(queue)
        left == [front EXCEPT !.qty = @ - incoming.qty]
    IN
    /\ MayTrade
    /\ queue # <<>>
    /\ front.qty > incoming.qty
    /\ Emit(front.id, incoming.qty)
    /\ levels' = [levels EXCEPT ![Against] =
                     WithQueue(Against, TopKey, [queue EXCEPT ![1] = left])]
    /\ UNCHANGED <<index, placed, clock, time>>

\* Mutant of Rest: the order is put at the front of its queue.
RestAtFront ==
    LET side == incoming.side
        key == Key(side, incoming.price)
        order == [id |-> incoming.id, qty |-> incoming.qty]
    IN /\ incoming # Nil
       /\ incoming.qty > 0
       /\ incoming.price # Nil
       /\ ~MayTrade
       /\ levels' = [levels EXCEPT ![side] =
                        WithQueue(side, key, <<order>> \o QueueAt(side, key))]
       /\ index' = [index EXCEPT ![incoming.id] = <<side, incoming.price>>]
       /\ incoming' = Nil
       /\ output' = Silence
       /\ UNCHANGED <<placed, filled, clock, time>>

\* process_limit with quantity left over and nothing to cross: add_limit.
Rest ==
    LET side == incoming.side
        key == Key(side, incoming.price)
        order == [id |-> incoming.id, qty |-> incoming.qty]
    IN /\ incoming # Nil
       /\ incoming.qty > 0
       /\ incoming.price # Nil
       /\ ~MayTrade
       /\ levels' = [levels EXCEPT ![side] =
                        WithQueue(side, key, Append(QueueAt(side, key), order))]
       /\ index' = [index EXCEPT ![incoming.id] = <<side, incoming.price>>]
       /\ incoming' = Nil
       /\ output' = Silence
       /\ UNCHANGED <<placed, filled, clock, time>>

\* process_market with quantity left over: it cannot rest.
RejectRemainder ==
    /\ incoming # Nil
    /\ incoming.qty > 0
    /\ incoming.price = Nil
    /\ ~MayTrade
    /\ output' = Reject(incoming.id, "NoLiquidity")
    /\ incoming' = Nil
    /\ UNCHANGED <<levels, index, placed, filled, clock, time>>

\* Nothing remains: match_order returns.
Finish ==
    /\ incoming # Nil
    /\ incoming.qty = 0
    /\ incoming' = Nil
    /\ output' = Silence
    /\ UNCHANGED <<levels, index, placed, filled, clock, time>>

-----------------------------------------------------------------------------
(* Cancellation *)

\* The order is taken out of the index and then searched for in its queue.
CancelOrder(id) ==
    LET side == index[id][1]
        key == Key(side, index[id][2])
        found == index[id] # Nil /\ Positions(side, key, id) # {}
    IN /\ incoming = Nil
       /\ index' = [index EXCEPT ![id] = Nil]
       /\ levels' = IF found
                      THEN [levels EXCEPT ![side] =
                               WithQueue(side, key,
                                   RemoveAt(QueueAt(side, key), Min(Positions(side, key, id))))]
                      ELSE levels
       /\ output' = IF found THEN Silence ELSE Reject(id, "UnknownOrderId")
       /\ UNCHANGED <<incoming, placed, filled, clock, time>>

-----------------------------------------------------------------------------
Init ==
    /\ levels = [side \in Sides |-> <<>>]
    /\ index = [id \in Ids |-> Nil]
    /\ incoming = Nil
    /\ output = Silence
    /\ placed = [id \in Ids |-> Nil]
    /\ filled = [id \in Ids |-> 0]
    /\ clock = 0
    /\ time = [id \in Ids |-> 0]

\* What match_order does next with the event it is processing.
Step == FillWhole \/ FillPart \/ Rest \/ RejectRemainder \/ Finish

Next ==
    \/ \E o \in OrderEvents : Submit(o)
    \/ \E id \in Ids : CancelOrder(id)
    \/ Step

Spec == Init /\ [][Next]_vars

\* match_order runs to its end before the next event is looked at.
FairSpec == Spec /\ WF_vars(Step)

\* Mutant of build_snapshot: the bid keys are not inverted back.
build_snapshot_raw(side) ==
    [k \in DOMAIN levels[side] |->
        LET queue == levels[side][k]
        IN SumFunction([i \in DOMAIN queue |-> queue[i].qty])]

\* build_snapshot: the total quantity at every price of a side.
build_snapshot(side) ==
    [p \in {PriceOf(side, k) : k \in DOMAIN levels[side]} |->
        LET queue == levels[side][Key(side, p)]
        IN SumFunction([i \in DOMAIN queue |-> queue[i].qty])]

-----------------------------------------------------------------------------
(* Properties *)

\* Types of the book, the index and the order being matched.  Every level has
\* an order in it and no resting order is empty: best_bid and best_ask take the
\* first key for a price at which something can be traded.
TypeOK ==
    /\ DOMAIN levels = Sides
    /\ \A side \in Sides :
          /\ DOMAIN levels[side] \subseteq Prices
          /\ \A k \in DOMAIN levels[side] :
                /\ levels[side][k] \in Seq([id: Ids, qty: 1..MaxQty])
                /\ levels[side][k] # <<>>
    /\ index \in [Ids -> {Nil} \cup (Sides \X Prices)]
    /\ incoming \in {Nil} \cup OrderEvents
    /\ placed \in [Ids -> {Nil} \cup OrderEvents]
    /\ filled \in [Ids -> 0..MaxQty]
    /\ clock \in Nat
    /\ time \in [Ids -> 0..clock]

\* The cancel index and the queues never disagree: every resting order is
\* indexed at its side and price, and every indexed order rests there, once.
\* (Else a cancellation would be refused, or would remove the wrong order.)
IndexMatchesBook ==
    /\ \A side \in Sides : \A k \in DOMAIN levels[side] :
          \A i \in DOMAIN levels[side][k] :
             index[levels[side][k][i].id] = <<side, PriceOf(side, k)>>
    /\ \A id \in Ids :
          index[id] # Nil =>
             \E i \in Positions(index[id][1], Key(index[id][1], index[id][2]), id) :
                Positions(index[id][1], Key(index[id][1], index[id][2]), id) = {i}

\* The book is never crossed: whatever orders, partial fills and cancellations
\* came before, the best bid is below the best ask.
NotCrossed ==
    \A b \in DOMAIN levels["Buy"], a \in DOMAIN levels["Sell"] :
        PriceOf("Buy", b) < PriceOf("Sell", a)

\* No quantity is created or lost: what remains of an order and what its fills
\* add up to make the quantity it was submitted with.
QuantityConserved ==
    /\ \A side \in Sides : \A k \in DOMAIN levels[side] :
          \A i \in DOMAIN levels[side][k] :
             LET o == levels[side][k][i]
             IN placed[o.id] # Nil /\ o.qty + filled[o.id] = placed[o.id].qty
    /\ incoming # Nil =>
          incoming.qty + filled[incoming.id] = placed[incoming.id].qty

\* What every event leaves behind: levels, queues and index that fit together,
\* with no order that could still trade, and a book that tells the same of
\* every order as its fills do.
BookConsistent == TypeOK /\ IndexMatchesBook /\ NotCrossed /\ QuantityConserved

\* The final snapshot is what the submitted orders, less their fills and less
\* the cancelled ones, add up to at every price.
SnapshotMatchesLedger ==
    \A side \in Sides :
        LET open == {id \in Ids : index[id] # Nil /\ placed[id].side = side}
        IN build_snapshot(side) =
             [p \in {placed[id].price : id \in open} |->
                 LET held == {id \in open : placed[id].price = p}
                 IN SumFunction([id \in held |-> placed[id].qty - filled[id]])]

\* Matching always ends: no level is left that the loops would look at for ever.
EventCompletes == incoming # Nil ~> incoming = Nil

\* The order on the book with this id, put together from its level and the
\* event that submitted it.
RestingOrder(id) ==
    LET side == index[id][1]
        key == Key(side, index[id][2])
    IN IF index[id] = Nil
         THEN Nil
         ELSE [id |-> id, side |-> side, price |-> index[id][2],
               qty |-> levels[side][key][CHOOSE i \in Positions(side, key, id) : TRUE].qty]

\* The levels, queues and index implement price-time priority.
RestingOrders == [id \in Ids |-> RestingOrder(id)]
Book == INSTANCE PriceTimeBook WITH resting <- RestingOrders
ImplementsPriceTimeBook == Book!Spec
=============================================================================
