---------------------------- MODULE StlOrderBook ----------------------------
(***************************************************************************)
(* Engine A, the STL baseline (src/stl_order_book.cpp): price levels that  *)
(* are FIFO lists of orders and an index from order id to location.  It is *)
(* the oracle of tests/test_differential.cpp, and here the specification   *)
(* of price-time priority that PoolOrderBook is shown to implement.        *)
(*                                                                         *)
(* submit_order is a loop.  It is modelled as the call (SubmitReject or    *)
(* SubmitAccept), one MatchStep per iteration of the inner matching loop,  *)
(* and FinishSubmit; no other operation can run in between, because every  *)
(* caller is the single matching thread.  match_buy and match_sell are the *)
(* same code mirrored and are one definition over the side.                *)
(***************************************************************************)
EXTENDS OrderTypes, SequencesExt

VARIABLES
    queues,       \* bids_ and asks_: side -> price -> list of orders
    order_index,  \* order id -> OrderLocation; list_it is the order's node
    taker,        \* the order submit_order is working on, or NoOrder
    trades,       \* out_trades of the last submit_order
    ret           \* what the last completed call returned

vars == <<queues, order_index, taker, trades, ret>>

Init ==
    /\ queues = [s \in Sides |-> <<>>]
    /\ order_index = <<>>
    /\ taker = NoOrder
    /\ trades = <<>>
    /\ ret = FALSE

-----------------------------------------------------------------------------
(* The lists of a side                                                     *)

\* Faulty variant: an emptied level stays in its map.
StoreQueueFaulty(level, p, queue) == MapPut(level, p, queue)

\* A level after its list has lost an order; an emptied one is erased.
StoreQueue(level, p, queue) ==
    IF queue = <<>> THEN MapErase(level, p) ELSE MapPut(level, p, queue)

\* Faulty variant: a new order goes to the front.
EnqueueFaulty(queue, order) == <<order>> \o queue

\* Faulty variant: the order rests with the quantity it came with.
EnqueueWhole(queue, order) == Append(queue, [order EXCEPT !.remaining = order.initial])

\* push_back
Enqueue(queue, order) == Append(queue, order)

\* The node of the order with this id: what its stored iterator denotes.
list_it(queue, id) == CHOOSE i \in DOMAIN queue : queue[i].id = id

-----------------------------------------------------------------------------
(* submit_order                                                            *)

Rejected(o) ==
    \/ o.initial = 0
    \/ o.type = "Limit" /\ o.price = 0
    \/ o.id \in DOMAIN order_index

SubmitReject(o) ==
    /\ taker = NoOrder
    /\ Rejected(o)
    /\ trades' = <<>>
    /\ ret' = FALSE
    /\ UNCHANGED <<queues, order_index, taker>>

SubmitAccept(o) ==
    /\ taker = NoOrder
    /\ ~Rejected(o)
    /\ taker' = [o EXCEPT !.remaining = IF @ = 0 THEN o.initial ELSE @]
    /\ trades' = <<>>
    /\ UNCHANGED <<queues, order_index, ret>>

\* The conditions of the two matching loops and the spread check.
CanMatch ==
    LET opp == Opposite(taker.side)
    IN  /\ DOMAIN queues[opp] # {}
        /\ taker.remaining > 0
        /\ Crosses(taker, BestPrice(opp, DOMAIN queues[opp]))

MatchStep ==
    /\ taker # NoOrder
    /\ CanMatch
    /\ LET opp   == Opposite(taker.side)
           p     == BestPrice(opp, DOMAIN queues[opp])
           queue == queues[opp][p]
           maker == Head(queue)
           qty   == Lesser(taker.remaining, maker.remaining)
       IN  /\ taker' = [taker EXCEPT !.remaining = @ - qty]
           /\ trades' = Append(trades,
                  [maker |-> maker.id, taker |-> taker.id, price |-> maker.price,
                   quantity |-> qty, aggressor |-> taker.side])
           /\ IF qty = maker.remaining
              THEN /\ order_index' = MapErase(order_index, maker.id)
                   /\ queues' = [queues EXCEPT ![opp] = StoreQueue(@, p, Tail(queue))]
              ELSE /\ queues' = [queues EXCEPT ![opp][p][1].remaining = @ - qty]
                   /\ UNCHANGED order_index
    /\ UNCHANGED ret

\* Leftover of a limit order rests at the back of its level.
FinishSubmit ==
    /\ taker # NoOrder
    /\ ~CanMatch
    /\ IF taker.remaining > 0 /\ taker.type = "Limit"
       THEN LET level == queues[taker.side]
                queue == IF taker.price \in DOMAIN level
                         THEN level[taker.price] ELSE <<>>
            IN  /\ queues' = [queues EXCEPT ![taker.side] =
                                 MapPut(@, taker.price, Enqueue(queue, taker))]
                /\ order_index' = MapPut(order_index, taker.id,
                                 [side |-> taker.side, price |-> taker.price])
       ELSE UNCHANGED <<queues, order_index>>
    /\ taker' = NoOrder
    /\ ret' = TRUE
    /\ UNCHANGED trades

-----------------------------------------------------------------------------
(* cancel_order and clear                                                  *)

CancelMiss(id) ==
    /\ taker = NoOrder
    /\ id \notin DOMAIN order_index
    /\ ret' = FALSE
    /\ UNCHANGED <<queues, order_index, taker, trades>>

CancelHit(id) ==
    /\ taker = NoOrder
    /\ id \in DOMAIN order_index
    /\ LET loc   == order_index[id]
           queue == queues[loc.side][loc.price]
       IN  queues' = [queues EXCEPT ![loc.side] =
                         StoreQueue(@, loc.price, RemoveAt(queue, list_it(queue, id)))]
    /\ order_index' = MapErase(order_index, id)
    /\ ret' = TRUE
    /\ UNCHANGED <<taker, trades>>

Clear ==
    /\ taker = NoOrder
    /\ queues' = [s \in Sides |-> <<>>]
    /\ order_index' = <<>>
    /\ UNCHANGED <<taker, trades, ret>>

-----------------------------------------------------------------------------
(* Queries                                                                 *)

total_orders == Cardinality(DOMAIN order_index)

\* *list_it, for an id the index has
get_order(id) ==
    LET queue == queues[order_index[id].side][order_index[id].price]
    IN  queue[list_it(queue, id)]

\* volume_at_price: the loop over the level's orders, summing a uint32_t
VolumeAtPrice(s, p) ==
    IF p \notin DOMAIN queues[s] THEN 0
    ELSE LET queue == queues[s][p]
             total[i \in 0 .. Len(queue)] ==
                 IF i = 0 THEN 0 ELSE (total[i - 1] + queue[i].remaining) % QuantityMod
         IN  total[Len(queue)]

Next ==
    \/ \E o \in Submittable : SubmitReject(o) \/ SubmitAccept(o)
    \/ MatchStep
    \/ FinishSubmit
    \/ \E id \in OrderIds : CancelMiss(id) \/ CancelHit(id)
    \/ Clear

Spec == Init /\ [][Next]_vars

-----------------------------------------------------------------------------
(* Correctness                                                             *)

TypeOK ==
    /\ DOMAIN queues = Sides
    /\ \A s \in Sides : /\ DOMAIN queues[s] \subseteq Prices
                        /\ \A p \in DOMAIN queues[s] : queues[s][p] \in Seq(Order)
    /\ DOMAIN order_index \subseteq OrderIds
    /\ \A id \in DOMAIN order_index :
          order_index[id] \in [side : Sides, price : Prices]
    /\ taker \in Order \cup {NoOrder}
    /\ trades \in Seq(Trade)
    /\ ret \in BOOLEAN

\* The index finds every id it has in a list (so list_it never dangles), each
\* order of a list is found where it is and no other has its id, no emptied level
\* is left in a map (begin() is a level with a maker), and only an unfilled
\* limit order rests, at its own side and price.
IndexMatchesQueues ==
    /\ \A id \in DOMAIN order_index :
          LET loc == order_index[id]
          IN  /\ loc.price \in DOMAIN queues[loc.side]
              /\ \E i \in DOMAIN queues[loc.side][loc.price] :
                    queues[loc.side][loc.price][i].id = id
    /\ \A s \in Sides : \A p \in DOMAIN queues[s] :
          LET queue == queues[s][p]
          IN  /\ queue # <<>>
              /\ \A i, j \in DOMAIN queue : queue[i].id = queue[j].id => i = j
              /\ \A i \in DOMAIN queue :
                    /\ queue[i].id \in DOMAIN order_index
                    /\ order_index[queue[i].id] = [side |-> s, price |-> p]
                    /\ queue[i].side = s /\ queue[i].price = p /\ queue[i].type = "Limit"
                    /\ queue[i].remaining \in 1 .. queue[i].initial

\* Between calls the book is never locked or crossed: whatever could trade
\* has traded before submit_order returns.
NeverCrossed ==
    taker = NoOrder =>
        \A bid \in DOMAIN queues["Buy"], ask \in DOMAIN queues["Sell"] : bid < ask

=============================================================================
