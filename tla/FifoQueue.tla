----------------------------- MODULE FifoQueue -----------------------------
(***************************************************************************)
(* What a queue of include/spsc_queue.hpp promises its two threads: items  *)
(* come out once each, in the order they went in, at most Capacity wait in *)
(* between, and neither thread starves while the other keeps calling.      *)
(***************************************************************************)
EXTENDS Naturals, Sequences

CONSTANTS Items, Capacity

VARIABLES waiting,  \* items pushed and not yet popped, oldest first
          batch     \* items the last successful pop or pop_batch delivered

Init == waiting = <<>> /\ batch = <<>>

Put(item) ==
    /\ Len(waiting) < Capacity
    /\ waiting' = Append(waiting, item)
    /\ UNCHANGED batch

Take(n) ==
    /\ batch' = SubSeq(waiting, 1, n)
    /\ waiting' = SubSeq(waiting, n + 1, Len(waiting))

PutSome  == \E item \in Items : Put(item)
TakeSome == \E n \in 1 .. Len(waiting) : Take(n)

Next == PutSome \/ TakeSome

Spec == Init /\ [][Next]_<<waiting, batch>>

FairSpec == Spec /\ WF_<<waiting, batch>>(PutSome) /\ WF_<<waiting, batch>>(TakeSome)

=============================================================================
