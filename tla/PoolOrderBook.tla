--------------------------- MODULE PoolOrderBook ---------------------------
(***************************************************************************)
(* Engine B, the pooled book (src/pool_order_book.cpp): orders live in     *)
(* slots of one growing vector and are linked by slot number, into a       *)
(* doubly linked list per price level while they rest and into a LIFO free *)
(* list while they do not.  The grain of the steps is StlOrderBook's, so   *)
(* that each step of this book can be compared with one of that book.      *)
(***************************************************************************)
EXTENDS OrderTypes, Sequences, FiniteSets

CONSTANTS InitialCapacity,  \* constructor argument, 1000000 by default
          FirstCapacity     \* size an empty pool grows to, 1024 in the code

ASSUME PoolAssumption ==
    InitialCapacity \in Nat /\ FirstCapacity \in Nat \ {0}

VARIABLES
    nodes,        \* nodes_: slot -> [order, prev, next]; free slots keep theirs
    free_head,    \* free_head_: first slot of the free list
    order_index,  \* order id -> slot
    levels,       \* bids_ and asks_: side -> price -> PriceLevel
    taker, trades, ret  \* as in StlOrderBook

vars == <<nodes, free_head, order_index, levels, taker, trades, ret>>

\* The largest uint32_t in the code; no slot has this number.
INVALID_IDX == -1

\* A default PriceLevel, what operator[] makes.  level.price always is the key.
EmptyLevel == [total_volume |-> 0, order_count |-> 0,
               head |-> INVALID_IDX, tail |-> INVALID_IDX]

-----------------------------------------------------------------------------
(* The pool                                                                *)

\* nodes_.resize(size), for a size that is not smaller
Resized(ns, size) ==
    [i \in 0 .. size - 1 |-> IF i \in DOMAIN ns THEN ns[i] ELSE
        [order |-> NoOrder, prev |-> INVALID_IDX, next |-> INVALID_IDX]]

\* Faulty variant: the last slot of the chain is left out.
RelinkedFaulty(ns, first) ==
    [i \in DOMAIN ns |-> IF i < first THEN ns[i] ELSE
        [ns[i] EXCEPT !.prev = INVALID_IDX,
                      !.next = IF i + 2 \in DOMAIN ns THEN i + 1 ELSE INVALID_IDX]]

\* The loop that chains the slots from first on into a free list.
Relinked(ns, first) ==
    [i \in DOMAIN ns |-> IF i < first THEN ns[i] ELSE
        [ns[i] EXCEPT !.prev = INVALID_IDX,
                      !.next = IF i + 1 \in DOMAIN ns THEN i + 1 ELSE INVALID_IDX]]

\* The pool with a slot taken for the order, growing it when none is free.
allocate_node(order) ==
    LET size == Cardinality(DOMAIN nodes)
        grow == free_head = INVALID_IDX
        pool == IF grow
                THEN Relinked(Resized(nodes, IF size = 0 THEN FirstCapacity
                                                         ELSE 2 * size), size)
                ELSE nodes
        idx  == IF grow THEN size ELSE free_head
    IN  [idx       |-> idx,
         free_head |-> pool[idx].next,
         nodes     |-> [pool EXCEPT ![idx] = [order |-> order,
                           prev |-> INVALID_IDX, next |-> INVALID_IDX]]]

\* Faulty variant: the slots that were free before are forgotten.
free_node_faulty(ns, idx) ==
    [ns EXCEPT ![idx].prev = INVALID_IDX, ![idx].next = INVALID_IDX]

\* The slots with idx put in front of the free list; free_head becomes idx.
free_node(ns, idx) ==
    [ns EXCEPT ![idx].prev = INVALID_IDX, ![idx].next = free_head]

-----------------------------------------------------------------------------
(* A level's list.  Quantity arithmetic is modulo QuantityMod.             *)

append_to_level(ns, level, idx) ==
    LET last   == level.tail
        linked == [ns EXCEPT ![idx].prev = last, ![idx].next = INVALID_IDX]
    IN  [nodes |-> IF last = INVALID_IDX THEN linked
                   ELSE [linked EXCEPT ![last].next = idx],
         level |-> [total_volume |->
                        (level.total_volume + ns[idx].order.remaining) % QuantityMod,
                    order_count  |-> level.order_count + 1,
                    head |-> IF last = INVALID_IDX THEN idx ELSE level.head,
                    tail |-> idx]]

\* Faulty variant: the predecessor is not relinked.
UnlinkFaulty(ns, p, n) == [i \in DOMAIN ns |-> [ns[i] EXCEPT !.prev = IF i = n THEN p ELSE @]]

\* The neighbours p and n of a removed node, linked to each other.
Unlink(ns, p, n) ==
    [i \in DOMAIN ns |-> [ns[i] EXCEPT !.next = IF i = p THEN n ELSE @,
                                      !.prev = IF i = n THEN p ELSE @]]

remove_from_level(ns, level, idx) ==
    LET p == ns[idx].prev
        n == ns[idx].next
    IN  [nodes |-> Unlink(ns, p, n),
         level |-> [total_volume |->
                        (level.total_volume - ns[idx].order.remaining) % QuantityMod,
                    order_count  |-> level.order_count - 1,
                    head |-> IF p = INVALID_IDX THEN n ELSE level.head,
                    tail |-> IF n = INVALID_IDX THEN p ELSE level.tail]]

\* Faulty variant: an emptied level stays in its map.
StoreLevelFaulty(side, p, level) ==
    [levels EXCEPT ![side] = MapPut(@, p, level)]

\* Write a level back into its map; an emptied level is erased.
StoreLevel(side, p, level) ==
    [levels EXCEPT ![side] = IF level.head = INVALID_IDX
                             THEN MapErase(@, p) ELSE MapPut(@, p, level)]

-----------------------------------------------------------------------------
Init ==
    /\ nodes = Relinked(Resized(<<>>, InitialCapacity), 0)
    /\ free_head = IF InitialCapacity > 0 THEN 0 ELSE INVALID_IDX
    /\ order_index = <<>>
    /\ levels = [s \in Sides |-> <<>>]
    /\ taker = NoOrder
    /\ trades = <<>>
    /\ ret = FALSE

(* submit_order                                                            *)

Rejected(o) ==
    \/ o.initial = 0
    \/ o.type = "Limit" /\ o.price = 0
    \/ o.id \in DOMAIN order_index

SubmitReject(o) ==
    /\ taker = NoOrder
    /\ Rejected(o)
    /\ trades' = <<>>
    /\ ret' = FALSE
    /\ UNCHANGED <<nodes, free_head, order_index, levels, taker>>

SubmitAccept(o) ==
    /\ taker = NoOrder
    /\ ~Rejected(o)
    /\ taker' = [o EXCEPT !.remaining = IF @ = 0 THEN o.initial ELSE @]
    /\ trades' = <<>>
    /\ UNCHANGED <<nodes, free_head, order_index, levels, ret>>

CanMatch ==
    LET opp == Opposite(taker.side)
    IN  /\ DOMAIN levels[opp] # {}
        /\ taker.remaining > 0
        /\ Crosses(taker, BestPrice(opp, DOMAIN levels[opp]))

\* One trade with the head of the best level.
MatchStep ==
    /\ taker # NoOrder
    /\ CanMatch
    /\ LET opp    == Opposite(taker.side)
           p      == BestPrice(opp, DOMAIN levels[opp])
           level  == levels[opp][p]
           idx    == level.head
           maker  == nodes[idx].order
           qty    == Lesser(taker.remaining, maker.remaining)
           filled == [nodes EXCEPT ![idx].order.remaining = @ - qty]
           rest   == remove_from_level(filled, level, idx)
       IN  /\ taker' = [taker EXCEPT !.remaining = @ - qty]
           /\ trades' = Append(trades,
                  [maker |-> maker.id, taker |-> taker.id, price |-> maker.price,
                   quantity |-> qty, aggressor |-> taker.side])
           /\ IF filled[idx].order.remaining = 0
              THEN /\ order_index' = MapErase(order_index, maker.id)
                   /\ nodes' = free_node(rest.nodes, idx)
                   /\ free_head' = idx
                   /\ levels' = StoreLevel(opp, p, rest.level)
              ELSE /\ nodes' = filled
                   /\ UNCHANGED <<free_head, order_index, levels>>
    /\ UNCHANGED ret

FinishSubmit ==
    /\ taker # NoOrder
    /\ ~CanMatch
    /\ IF taker.remaining > 0 /\ taker.type = "Limit"
       THEN LET side  == levels[taker.side]
                level == IF taker.price \in DOMAIN side
                         THEN side[taker.price] ELSE EmptyLevel
                slot  == allocate_node(taker)
                rest  == append_to_level(slot.nodes, level, slot.idx)
            IN  /\ nodes' = rest.nodes
                /\ free_head' = slot.free_head
                /\ order_index' = MapPut(order_index, taker.id, slot.idx)
                /\ levels' = StoreLevel(taker.side, taker.price, rest.level)
       ELSE UNCHANGED <<nodes, free_head, order_index, levels>>
    /\ taker' = NoOrder
    /\ ret' = TRUE
    /\ UNCHANGED trades

(* cancel_order and clear                                                  *)

CancelMiss(id) ==
    /\ taker = NoOrder
    /\ id \notin DOMAIN order_index
    /\ ret' = FALSE
    /\ UNCHANGED <<nodes, free_head, order_index, levels, taker, trades>>

CancelHit(id) ==
    /\ taker = NoOrder
    /\ id \in DOMAIN order_index
    /\ LET idx  == order_index[id]
           ord  == nodes[idx].order
           rest == remove_from_level(nodes, levels[ord.side][ord.price], idx)
       IN  /\ nodes' = free_node(rest.nodes, idx)
           /\ free_head' = idx
           /\ levels' = StoreLevel(ord.side, ord.price, rest.level)
    /\ order_index' = MapErase(order_index, id)
    /\ ret' = TRUE
    /\ UNCHANGED <<taker, trades>>

Clear ==
    /\ taker = NoOrder
    /\ levels' = [s \in Sides |-> <<>>]
    /\ order_index' = <<>>
    /\ nodes' = Relinked(nodes, 0)
    /\ free_head' = IF DOMAIN nodes # {} THEN 0 ELSE INVALID_IDX
    /\ UNCHANGED <<taker, trades, ret>>

(* Queries                                                                 *)

total_orders == Cardinality(DOMAIN order_index)

pool_capacity == Cardinality(DOMAIN nodes)

\* for an id the index has
get_order(id) == nodes[order_index[id]].order

Next ==
    \/ \E o \in Submittable : SubmitReject(o) \/ SubmitAccept(o)
    \/ MatchStep
    \/ FinishSubmit
    \/ \E id \in OrderIds : CancelMiss(id) \/ CancelHit(id)
    \/ Clear

Spec == Init /\ [][Next]_vars

=============================================================================
