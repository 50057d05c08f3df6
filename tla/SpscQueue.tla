----------------------------- MODULE SpscQueue -----------------------------
(***************************************************************************)
(* The lock-free ring between the network and the matching thread          *)
(* (include/spsc_queue.hpp).  One producer calls push, one consumer calls  *)
(* pop, pop_batch and empty; each call takes a step per shared access.     *)
(*                                                                         *)
(* tail_ and head_ are free-running size_t counters that wrap.  An atomic  *)
(* load need not return the newest store of the other thread: it may       *)
(* return any store not older than the one last seen.  headView holds what *)
(* the producer may load from head_, tailView what the consumer may load   *)
(* from tail_.  A thread always loads its own counter exactly.  The slots  *)
(* are plain memory; NoSlotRace is what makes one value per slot enough.   *)
(***************************************************************************)
EXTENDS Integers, Sequences

CONSTANTS Items,     \* what is passed through the queue
          Capacity,  \* capacity_, a power of two in the code
          Laps,      \* size_t has 2^64 values: Laps times the capacity
          MaxBatch,  \* largest max_items a consumer asks for
          NoItem     \* a default-constructed or moved-from slot

ASSUME SpscAssumption ==
    /\ Capacity \in Nat \ {0}
    /\ Laps \in Nat \ {0, 1}
    /\ MaxBatch \in Nat \ {0}
    /\ NoItem \notin Items

VARIABLES
    buffer,    \* buffer_: slot -> item
    tail,      \* tail_: number of pushes, modulo the word size
    head,      \* head_: number of items popped, modulo the word size
    headView,  \* stores to head_ that push may still load
    tailView,  \* stores to tail_ that the consumer may still load
    pPc,       \* what push does next: "idle" | "write" | "publish"
    pItem,     \* its argument
    pushed,    \* what the last push returned
    cPc,       \* what pop or pop_batch does next: "idle" | "read"
    cCount,    \* its count
    cGot,      \* the items it has moved out so far
    batch,     \* the items the last successful call delivered
    sawItem    \* empty() returned false and no pop has run since

producer == <<pPc, pItem, pushed>>
consumer == <<cPc, cCount, cGot, batch, sawItem>>
vars     == <<buffer, tail, head, headView, tailView, producer, consumer>>

-----------------------------------------------------------------------------
(* size_t arithmetic                                                       *)

WordMod == Capacity * Laps

Words == 0 .. WordMod - 1

\* Faulty variant: a counter that does not wrap.
AddFaulty(a, n) == a + n

\* The unsigned sum a + n of two words.
Add(a, n) == IF a + n < WordMod THEN a + n ELSE a + n - WordMod

\* The unsigned difference b - a of two words.
Dist(a, b) == IF a <= b THEN b - a ELSE b - a + WordMod

\* counter & mask_
Slot(c) == c % Capacity

\* The stores in a view, of which newest is the last, not older than v.
Since(view, v, newest) == {u \in view : Dist(u, newest) <= Dist(v, newest)}

Init ==
    /\ buffer = [s \in 0 .. Capacity - 1 |-> NoItem]
    /\ tail = 0 /\ head = 0
    /\ headView = {0} /\ tailView = {0}
    /\ pPc = "idle" /\ pItem = NoItem /\ pushed = FALSE
    /\ cPc = "idle" /\ cCount = 0 /\ cGot = <<>> /\ batch = <<>>
    /\ sawItem = FALSE

-----------------------------------------------------------------------------
(* The producer: push.  The argument is moved from only by a push that     *)
(* succeeds, so the caller may retry with the same item.                   *)

\* Faulty variant: the test is off by one.
HasRoomFaulty(v) == Dist(v, tail) <= Capacity

\* The ring has room if v is head_.
HasRoom(v) == Dist(v, tail) < Capacity

PushFull(v) ==
    /\ pPc = "idle"
    /\ ~HasRoom(v)
    /\ headView' = Since(headView, v, head)
    /\ pushed' = FALSE
    /\ UNCHANGED <<buffer, tail, head, tailView, pPc, pItem, consumer>>

PushStart(item, v) ==
    /\ pPc = "idle"
    /\ HasRoom(v)
    /\ headView' = Since(headView, v, head)
    /\ pPc' = "write"
    /\ pItem' = item
    /\ UNCHANGED <<buffer, tail, head, tailView, pushed, consumer>>

PushWrite ==
    /\ pPc = "write"
    /\ buffer' = [buffer EXCEPT ![Slot(tail)] = pItem]
    /\ pPc' = "publish"
    /\ pItem' = NoItem
    /\ UNCHANGED <<tail, head, headView, tailView, pushed, consumer>>

\* Faulty variant: the store to tail_ is missing.
NewTailFaulty == tail

\* What push stores to tail_.
NewTail == Add(tail, 1)

PushPublish ==
    /\ pPc = "publish"
    /\ tail' = NewTail
    /\ tailView' = tailView \cup {NewTail}
    /\ pPc' = "idle"
    /\ pushed' = TRUE
    /\ UNCHANGED <<buffer, head, headView, pItem, consumer>>

-----------------------------------------------------------------------------
(* The consumer: pop_batch, pop (a batch of one) and empty                 *)

PopEmpty(v) ==
    /\ cPc = "idle"
    /\ v = head
    /\ tailView' = Since(tailView, v, tail)
    /\ sawItem' = FALSE
    /\ UNCHANGED <<buffer, tail, head, headView, producer, cPc, cCount, cGot, batch>>

\* Faulty variant: as many items as asked for, available or not.
BatchSizeFaulty(v, max_items) == max_items

\* std::min of what is available if v is tail_ and what is asked for.
BatchSize(v, max_items) == IF Dist(head, v) < max_items THEN Dist(head, v) ELSE max_items

PopStart(v, max_items) ==
    /\ cPc = "idle"
    /\ v # head
    /\ tailView' = Since(tailView, v, tail)
    /\ cPc' = "read"
    /\ cCount' = BatchSize(v, max_items)
    /\ cGot' = <<>>
    /\ sawItem' = FALSE
    /\ UNCHANGED <<buffer, tail, head, headView, producer, batch>>

\* Faulty variant: the offset into the batch is forgotten.
ReadSlotFaulty == Slot(head)

\* The slot of the next item to move out.
ReadSlot == Slot(Add(head, Len(cGot)))

PopRead ==
    /\ cPc = "read"
    /\ Len(cGot) < cCount
    /\ cGot' = Append(cGot, buffer[ReadSlot])
    /\ buffer' = [buffer EXCEPT ![ReadSlot] = NoItem]
    /\ UNCHANGED <<tail, head, headView, tailView, producer, cPc, cCount, batch, sawItem>>

PopPublish ==
    /\ cPc = "read"
    /\ Len(cGot) = cCount
    /\ head' = Add(head, cCount)
    /\ headView' = headView \cup {Add(head, cCount)}
    /\ cPc' = "idle"
    /\ cGot' = <<>>
    /\ batch' = cGot
    /\ UNCHANGED <<buffer, tail, tailView, producer, cCount, sawItem>>

\* Faulty variant: the answer is inverted.
SeesItemFaulty(v) == v = head

SeesItem(v) == v # head

Empty(v) ==
    /\ cPc = "idle"
    /\ tailView' = Since(tailView, v, tail)
    /\ sawItem' = SeesItem(v)
    /\ UNCHANGED <<buffer, tail, head, headView, producer, cPc, cCount, cGot, batch>>

Next ==
    \/ \E v \in headView : PushFull(v)
    \/ \E v \in headView, item \in Items : PushStart(item, v)
    \/ PushWrite
    \/ PushPublish
    \/ \E v \in tailView : PopEmpty(v)
    \/ \E v \in tailView, max_items \in 1 .. MaxBatch : PopStart(v, max_items)
    \/ PopRead
    \/ PopPublish
    \/ \E v \in tailView : Empty(v)

Spec == Init /\ [][Next]_vars

\* Both threads keep calling in a loop (the matching loop polls, a producer
\* retries a failed push), every call runs on, and a store becomes visible to
\* the other thread's loads after a finite time.
Fairness ==
    /\ WF_vars(\E item \in Items : PushStart(item, head))
    /\ WF_vars(PushWrite \/ PushPublish)
    /\ WF_vars(\E max_items \in 1 .. MaxBatch : PopStart(tail, max_items))
    /\ WF_vars(PopRead \/ PopPublish)

FairSpec == Spec /\ Fairness

-----------------------------------------------------------------------------
(* Correctness                                                             *)

TypeOK ==
    /\ buffer \in [0 .. Capacity - 1 -> Items \cup {NoItem}]
    /\ tail \in Words /\ head \in Words
    /\ headView \subseteq Words /\ tailView \subseteq Words
    /\ pPc \in {"idle", "write", "publish"}
    /\ pItem \in Items \cup {NoItem}
    /\ pushed \in BOOLEAN
    /\ cPc \in {"idle", "read"}
    /\ cCount \in 0 .. MaxBatch
    /\ cGot \in Seq(Items \cup {NoItem})
    /\ batch \in Seq(Items \cup {NoItem})
    /\ sawItem \in BOOLEAN

\* However stale the counters the threads compare, and across wrap-around of
\* size_t, no more than Capacity items are between head_ and tail_, and push
\* has room for the item it is about to publish.
Bounded ==
    /\ Dist(head, tail) <= Capacity
    /\ pPc # "idle" => Dist(head, tail) < Capacity

\* While push writes a slot and the consumer moves an item out of one, the two
\* slots differ: the plain accesses to buffer_ never race.
NoSlotRace ==
    pPc = "write" /\ cPc = "read" /\ Len(cGot) < cCount => Slot(tail) # ReadSlot

\* Whatever a thread may load of the other's counter is in the window of the
\* ring: push never sees a head_ that makes a full ring look free, a pop never
\* sees a tail_ beyond the items published or behind the items it has taken.
ViewsInWindow ==
    /\ head \in headView /\ tail \in tailView
    /\ \A v \in headView :
          /\ Dist(v, head) + Dist(head, tail) <= Capacity
          /\ pPc # "idle" => Dist(v, head) + Dist(head, tail) < Capacity
    /\ \A v \in tailView : Dist(head, v) + Dist(v, tail) <= Capacity
    /\ IF cPc = "read"
       THEN /\ 1 <= cCount /\ Len(cGot) <= cCount
            /\ \A v \in tailView : cCount <= Dist(head, v)
       ELSE cGot = <<>>

\* When empty() told the consumer that there is an item, the next pop finds
\* one: no store it may still load says otherwise.
EmptyIsReliable == sawItem => cPc = "idle" /\ head \notin tailView

\* The items pushed and not popped: those moved out by the call in progress,
\* then the slots between head_ and tail_ it has not reached.
Unread == [i \in 1 .. Dist(head, tail) - Len(cGot) |->
               buffer[Slot(Add(head, Len(cGot) + i - 1))]]

Contents == cGot \o Unread

\* The inductive invariant behind these properties.  The last two conjuncts say
\* that what is about to be published is the item given to push.
IndInv ==
    /\ TypeOK
    /\ Bounded
    /\ ViewsInWindow
    /\ EmptyIsReliable
    /\ pPc = "write" => pItem \in Items
    /\ pPc = "publish" => buffer[Slot(tail)] \in Items

Fifo == INSTANCE FifoQueue WITH waiting <- Contents

\* push takes effect at its store to tail_, a pop at its store to head_; what
\* the threads see is a bounded first-in first-out queue that loses,
\* duplicates and reorders nothing.
ImplementsFifo == Fifo!Spec

\* A producer that keeps retrying gets its item in, and a consumer that keeps
\* polling gets every item.
NobodyStarves == Fifo!FairSpec

=============================================================================
