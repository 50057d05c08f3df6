------------------------------ MODULE Pipeline ------------------------------
(***************************************************************************)
(* The two-thread pipelines of benchmarks/benchmark_spsc.cpp: an ingest    *)
(* thread pushes the actions of a workload, a matching thread executes     *)
(* them.  In the closed loop completions come back through a second queue  *)
(* and at most `window` commands are unacknowledged; in the open loop the  *)
(* ingest thread never waits for anything but room in the ring.            *)
(*                                                                         *)
(* Unlike the gateway, the ingest thread drains the second queue while it  *)
(* waits for room in the first.  The queues are FifoQueues, as in Gateway; *)
(* an action is its position in the workload.                              *)
(***************************************************************************)
EXTENDS Naturals, Sequences

CONSTANTS Count,     \* actions.size()
          Capacity,  \* of each queue, 65536 in the code
          MaxBatch,  \* batch_size of the matching thread
          MaxAcks,   \* largest batch of completions, 64 in the code
          Windows    \* the windows main() measures

ASSUME PipelineAssumption ==
    /\ Count \in Nat
    /\ Capacity \in Nat \ {0} /\ MaxBatch \in Nat \ {0} /\ MaxAcks \in Nat \ {0}
    /\ Windows \subseteq Nat \ {0}

VARIABLES
    closed,         \* run_closed_loop_e2e or run_open_loop_throughput
    window,         \* its parameter
    ingest,         \* where the ingest thread is
    i,              \* actions it has pushed
    in_flight,      \* and those of them it takes for unacknowledged
    producer_done,
    match,          \* where the matching thread is
    batch,          \* commands popped and not completed
    acks,           \* ack_batch
    ingress, completions,
    executed        \* history: commands applied to the book

ingestVars == <<ingest, i, in_flight, producer_done>>
matchVars  == <<match, executed>>
vars == <<closed, window, ingestVars, matchVars, ingress, batch, completions, acks>>

Ingress     == INSTANCE FifoQueue WITH waiting <- ingress, Items <- {}
Completions == INSTANCE FifoQueue WITH waiting <- completions, batch <- acks, Items <- {}

\* Faulty variant: one turn too many.
ContinueFaulty(pushed) == IF pushed <= Count THEN "credit" ELSE "rest"

\* The for loop goes on with the next action, or ends.
Continue(pushed) == IF pushed < Count THEN "credit" ELSE "rest"

Init ==
    /\ closed \in BOOLEAN /\ window \in Windows
    /\ ingest = Continue(0) /\ i = 0 /\ in_flight = 0 /\ producer_done = FALSE
    /\ match = "test" /\ batch = <<>> /\ executed = <<>>
    /\ ingress = <<>> /\ completions = <<>> /\ acks = <<>>

-----------------------------------------------------------------------------
(* The ingest thread                                                       *)

\* Faulty variant: the result of the drain is not taken off the credit.
drain_completions_faulty == \E n \in 1 .. MaxAcks :
    /\ n <= Len(completions)
    /\ Completions!Take(n)
    /\ UNCHANGED in_flight

\* pop_batch of at least one completion, and in_flight -= got, an unsigned
\* subtraction; a drain that gets nothing changes nothing.
drain_completions == \E n \in 1 .. MaxAcks :
    /\ n <= Len(completions)
    /\ Completions!Take(n)
    /\ in_flight' = in_flight - n

\* Faulty variant: one command too many.
HasCreditFaulty == closed => in_flight <= window

HasCredit == closed => in_flight < window

wait_for_credit ==
    /\ ingest = "credit"
    /\ ~HasCredit
    /\ drain_completions
    /\ UNCHANGED <<closed, window, ingest, i, producer_done, matchVars, ingress, batch>>

CreditGranted ==
    /\ ingest = "credit"
    /\ HasCredit
    /\ ingest' = "push"
    /\ UNCHANGED <<closed, window, i, in_flight, producer_done, matchVars,
                   ingress, batch, completions, acks>>

Push ==
    /\ ingest = "push"
    /\ Ingress!Put(i + 1)
    /\ i' = i + 1
    /\ in_flight' = IF closed THEN in_flight + 1 ELSE in_flight
    /\ ingest' = Continue(i + 1)
    /\ UNCHANGED <<closed, window, producer_done, matchVars, completions, acks>>

\* Faulty variant: the retry loop only yields.
PushRetryFaulty == ingest = "push" /\ UNCHANGED vars

\* A push that fails, because the ring is full or because the head_ it loaded
\* is stale, drains completions and is tried again.
PushRetry ==
    /\ ingest = "push"
    /\ closed
    /\ drain_completions
    /\ UNCHANGED <<closed, window, ingest, i, producer_done, matchVars, ingress, batch>>

LastAcks ==
    /\ ingest = "rest"
    /\ closed /\ in_flight > 0
    /\ drain_completions
    /\ UNCHANGED <<closed, window, ingest, i, producer_done, matchVars, ingress, batch>>

ProducerDone ==
    /\ ingest = "rest"
    /\ closed => in_flight = 0
    /\ producer_done' = TRUE
    /\ ingest' = "ended"
    /\ UNCHANGED <<closed, window, i, in_flight, matchVars, ingress, batch, completions, acks>>

-----------------------------------------------------------------------------
(* The matching thread                                                     *)

\* Faulty variant: the second half of the loop condition is missing.
TestDoneFaulty ==
    /\ match = "test"
    /\ match' = IF producer_done THEN "ended" ELSE "pop"
    /\ UNCHANGED <<closed, window, ingestVars, executed, ingress, batch, completions, acks>>

\* producer_done is stored after the last push and loaded first, so empty()
\* is exact when it is called at all.
TestDone ==
    /\ match = "test"
    /\ match' = IF producer_done /\ ingress = <<>> THEN "ended" ELSE "pop"
    /\ UNCHANGED <<closed, window, ingestVars, executed, ingress, batch, completions, acks>>

PopCommands ==
    /\ match = "pop"
    /\ \E n \in 0 .. MaxBatch :
          /\ n <= Len(ingress)
          /\ Ingress!Take(n)
          /\ match' = IF n = 0 THEN "test" ELSE "execute"
    /\ UNCHANGED <<closed, window, ingestVars, executed, completions, acks>>

\* execute_command and, in the closed loop, the push of its completion,
\* spinning while the queue is full.
Execute ==
    /\ match = "execute"
    /\ IF closed THEN Completions!Put(Head(batch)) ELSE UNCHANGED <<completions, acks>>
    /\ executed' = Append(executed, Head(batch))
    /\ batch' = Tail(batch)
    /\ match' = IF Len(batch) = 1 THEN "test" ELSE "execute"
    /\ UNCHANGED <<closed, window, ingestVars, ingress>>

-----------------------------------------------------------------------------
Ingest ==
    \/ wait_for_credit \/ CreditGranted \/ Push \/ PushRetry
    \/ LastAcks \/ ProducerDone

Matching == TestDone \/ PopCommands \/ Execute

\* join() on both threads has returned.
Joined == ingest = "ended" /\ match = "ended" /\ UNCHANGED vars

Next == Ingest \/ Matching \/ Joined

Spec == Init /\ [][Next]_vars

\* Both threads keep running, and the matching thread, which polls a queue
\* again and again, sees the items that are there some time.
FairSpec ==
    /\ Spec
    /\ WF_vars(Ingest) /\ WF_vars(Matching)
    /\ SF_vars(PopCommands /\ batch' # <<>>)

-----------------------------------------------------------------------------
(* Correctness                                                             *)

TypeOK ==
    /\ closed \in BOOLEAN /\ window \in Windows
    /\ ingest \in {"credit", "push", "rest", "ended"}
    /\ match \in {"test", "pop", "execute", "ended"}
    /\ i \in 0 .. Count /\ in_flight \in Nat /\ producer_done \in BOOLEAN
    /\ \A q \in {ingress, batch, completions, acks, executed} : q \in Seq(1 .. Count)

\* "ingest thread may have at most `window` unacked commands": those in the two
\* queues and in the batch between them.  The thread's own count of them is
\* exact, so in_flight -= got never wraps below zero and the last drain ends
\* with nothing under way.
UnackedWithinWindow ==
    closed => /\ in_flight = Len(ingress) + Len(batch) + Len(completions)
              /\ in_flight <= window

\* When both threads have ended the book has seen every action of the workload
\* once and in order: the loop condition of the matching thread misses nothing
\* pushed before producer_done was stored.
AllExecutedInOrder ==
    match = "ended" => ingest = "ended" /\ executed = [k \in 1 .. Count |-> k]

\* A window that fits the ring, as all of main()'s do, never meets a full queue.
NeverFull ==
    closed /\ window <= Capacity => /\ ingest = "push" => Len(ingress) < Capacity
                                    /\ match = "execute" => Len(completions) < Capacity

\* Whatever the window and the capacity, the pipeline does not seize up:
\* because a failed push drains completions, the benchmark ends.
BenchmarkEnds == <>(ingest = "ended" /\ match = "ended")

=============================================================================
