------------------------- MODULE PoolImplementsStl -------------------------
(***************************************************************************)
(* Correctness of the pooled book: its links are sound, no slot is lost,   *)
(* and what a caller sees is what the STL book would have done.            *)
(***************************************************************************)
EXTENDS PoolOrderBook, SequencesExt, FiniteSetsExt

PoolTypeOK ==
    LET slots == DOMAIN nodes
        links == slots \cup {INVALID_IDX}
    IN  /\ slots = 0 .. Cardinality(slots) - 1
        /\ nodes \in [slots -> [order : Order \cup {NoOrder},
                                prev : links, next : links]]
        /\ free_head \in links
        /\ DOMAIN order_index \subseteq OrderIds
        /\ Range(order_index) \subseteq slots
        /\ DOMAIN levels = Sides
        /\ \A s \in Sides : /\ DOMAIN levels[s] \subseteq Prices \ {0}
                            /\ Range(levels[s]) \subseteq
                                  [total_volume : 0 .. QuantityMod - 1,
                                   order_count  : 1 .. Cardinality(slots),
                                   head : slots, tail : slots]
        /\ taker \in Order \cup {NoOrder}
        /\ trades \in Seq(Trade)
        /\ ret \in BOOLEAN

-----------------------------------------------------------------------------
\* The links of the slots, one way and the other.
Forward  == [i \in DOMAIN nodes |-> nodes[i].next]
Backward == [i \in DOMAIN nodes |-> nodes[i].prev]

\* The slots met from first on, following the links.  A walk that does not end
\* comes back one longer than the pool.
Chain(links, first) ==
    LET size == Cardinality(DOMAIN links)
        hop[k \in 0 .. size] ==
            IF k = 0 THEN first
            ELSE LET at == hop[k - 1]
                 IN  IF at = INVALID_IDX THEN INVALID_IDX ELSE links[at]
    IN  [k \in 1 .. Cardinality({j \in 0 .. size : hop[j] # INVALID_IDX}) |-> hop[k - 1]]

FreeSlots == Chain(Forward, free_head)

\* Both ways through a level's list agree and order_count is its length, so a
\* removal at any position relinks the right neighbours.
ListsWellFormed ==
    \A s \in Sides : \A p \in DOMAIN levels[s] :
        LET level == levels[s][p]
            slots == Chain(Forward, level.head)
        IN  /\ slots = Reverse(Chain(Backward, level.tail))
            /\ level.order_count = Len(slots)
            /\ \A i \in DOMAIN slots : LET o == nodes[slots[i]].order
                                       IN  o.side = s /\ o.price = p

\* No slot is leaked, shared or freed twice, whatever mixture of fills, cancels,
\* growth and clear came before: the free list holds each slot that no resting
\* order occupies, once, and the index finds every other slot under its id.
PoolPartition ==
    /\ IsInjective(FreeSlots)
    /\ Range(FreeSlots) \cap Range(order_index) = {}
    /\ Range(FreeSlots) \cup Range(order_index) = DOMAIN nodes
    /\ Range(order_index) = UNION {UNION {Range(Chain(Forward, levels[s][p].head)) :
                                             p \in DOMAIN levels[s]} : s \in Sides}
    /\ \A id \in DOMAIN order_index : get_order(id).id = id

\* allocate_node grows the pool only when every slot rests an order.  Hence the
\* pool is never more than twice what the fullest book needed.
GrowsOnlyWhenFull ==
    [][pool_capacity' # pool_capacity => total_orders = pool_capacity]_vars

-----------------------------------------------------------------------------
(* tests/test_differential.cpp drives both books with one command stream   *)
(* and compares them after every command.                                  *)

RestingQueues ==
    [s \in Sides |-> [p \in DOMAIN levels[s] |->
        LET slots == Chain(Forward, levels[s][p].head)
        IN  [i \in DOMAIN slots |-> nodes[slots[i]].order]]]

OrderLocations ==
    [id \in DOMAIN order_index |->
        [side |-> get_order(id).side, price |-> get_order(id).price]]

Stl == INSTANCE StlOrderBook
           WITH queues <- RestingQueues, order_index <- OrderLocations

\* Every call returns and trades exactly as the STL book does, and leaves the
\* same orders resting in the same sequence.
ImplementsStl == Stl!Spec

\* volume_at_price of the two books
VolumeAtPrice(s, p) ==
    IF p \in DOMAIN levels[s] THEN levels[s][p].total_volume ELSE 0

\* The total_volume that volume_at_price reports is the quantity resting at that
\* price, as the STL book computes it and its tests assert.
VolumeIsRestingQuantity ==
    taker = NoOrder =>
        \A s \in Sides, p \in Prices : VolumeAtPrice(s, p) = Stl!VolumeAtPrice(s, p)

=============================================================================
