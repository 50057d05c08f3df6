------------------------- MODULE MCCommandExecution -------------------------
(* Model checking of the STL book and of the commands executed on it.      *)
EXTENDS CommandExecution

\* Order ids are only compared for equality, so they are interchangeable.
IdSymmetry == Permutations(OrderIds)

\* Between commands what the last one returned and replied is not read again;
\* the properties about it look at the step that ends it.
ReadableState ==
    <<queues, order_index, before, taker,
      IF taker = NoOrder THEN <<>> ELSE <<trades, command>>>>

=============================================================================
