-------------------------- MODULE MCPoolOrderBook --------------------------
(* Model checking of the pooled book.                                      *)
EXTENDS PoolImplementsStl

\* Order ids are only compared for equality, so they are interchangeable.
IdSymmetry == Permutations(OrderIds)

\* States that differ only in data no step branches on count as one: the order
\* left behind in a free slot, total_volume, and what the last call returned.
\* Not for a run that checks volumes.
ReadableState ==
    LET free == Range(FreeSlots)
    IN  <<[i \in DOMAIN nodes |-> IF i \in free THEN nodes[i].next ELSE nodes[i]],
          free_head, order_index,
          [s \in Sides |-> [p \in DOMAIN levels[s] |->
              [levels[s][p] EXCEPT !.total_volume = 0]]],
          taker, IF taker = NoOrder THEN <<>> ELSE trades>>

=============================================================================
