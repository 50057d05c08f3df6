----------------------------- MODULE MCWorkload -----------------------------
(* Model checking of generated workloads on the STL book.                  *)
EXTENDS Workload

\* Below, at and above the middle; the lowest would be a price of zero.
SmallOffsets == -1 .. 1

\* What the last call returned is looked at in the step that returns it.
ReadableState ==
    <<queues, order_index, taker, IF taker = NoOrder THEN <<>> ELSE trades,
      pass, i, generator, placed, cancelled, traded>>

=============================================================================
