-------------------------- MODULE SpscQueueProofs --------------------------
(***************************************************************************)
(* Proofs about the ring: ring arithmetic, the inductive invariant, the    *)
(* safety properties, and that the ring implements FifoQueue.              *)
(***************************************************************************)
EXTENDS SpscQueue, TLAPS

\* size_t counts at least two laps of the ring.
LEMMA WordModFacts == /\ WordMod \in Nat
                      /\ 2 * Capacity <= WordMod
  <1>1. Capacity \in Nat /\ Laps \in Nat /\ Laps >= 2
    BY SpscAssumption
  <1>2. Capacity * Laps \in Nat /\ Capacity * Laps >= Capacity * 2
    BY <1>1
  <1> QED BY <1>1, <1>2 DEF WordMod

\* counter & mask_ is the remainder of the counter by the capacity, so it is a
\* slot number.
LEMMA DivMod == ASSUME NEW a \in Nat
                PROVE  \E q \in Nat : /\ a = Capacity * q + Slot(a)
                                      /\ Slot(a) \in 0 .. Capacity - 1
  <1>1. Capacity \in Nat \ {0} BY SpscAssumption
  <1>2. a \div Capacity \in Nat BY <1>1
  <1>3. a = Capacity * (a \div Capacity) + (a % Capacity) BY <1>1
  <1>4. a % Capacity \in 0 .. Capacity - 1 BY <1>1
  <1> QED BY <1>2, <1>3, <1>4 DEF Slot

\* No multiple of the capacity lies strictly between zero and the capacity.
LEMMA SmallMultiple == ASSUME NEW m \in Int, 0 < Capacity * m, Capacity * m < Capacity
                       PROVE FALSE
  <1>1. Capacity \in Nat \ {0} BY SpscAssumption
  <1>2. CASE m <= 0
     <2>1. Capacity * m <= 0 BY <1>1, <1>2
     <2> QED BY <2>1, <1>1
  <1>3. CASE m >= 1
     <2>1. Capacity * m >= Capacity BY <1>1, <1>3
     <2> QED BY <2>1, <1>1
  <1> QED BY <1>2, <1>3

\* Every counter value selects a slot of buffer_.
LEMMA SlotType == ASSUME NEW c \in Words PROVE Slot(c) \in 0 .. Capacity - 1
  <1>1. c \in Nat BY WordModFacts DEF Words
  <1> QED BY <1>1, DivMod

\* Counters less than a capacity apart select different slots, also when the
\* later one has wrapped: the capacity divides the word size.
LEMMA SlotsDiffer ==
  ASSUME NEW a \in Words, NEW b \in Words,
         0 < Dist(a, b), Dist(a, b) < Capacity
  PROVE  Slot(a) # Slot(b)
  <1> SUFFICES ASSUME Slot(a) = Slot(b) PROVE FALSE
    OBVIOUS
  <1>1. a \in Nat /\ b \in Nat /\ Capacity \in Nat /\ Laps \in Nat
    BY WordModFacts, SpscAssumption DEF Words
  <1>2. PICK q \in Nat : a = Capacity * q + Slot(a)
    BY <1>1, DivMod
  <1>3. PICK r \in Nat : b = Capacity * r + Slot(b)
    BY <1>1, DivMod
  <1>4. Slot(a) \in Int
    BY <1>1, DivMod
  <1>5. CASE a <= b
    <2>1. Dist(a, b) = Capacity * (r - q)
      BY <1>1, <1>2, <1>3, <1>4, <1>5 DEF Dist
    <2> QED BY <2>1, SmallMultiple
  <1>6. CASE a > b
    <2>1. Dist(a, b) = Capacity * (r - q + Laps)
      BY <1>1, <1>2, <1>3, <1>4, <1>6 DEF Dist, WordMod
    <2>2. r - q + Laps \in Int
      BY <1>1
    <2> QED BY <2>1, <2>2, SmallMultiple
  <1> QED BY <1>1, <1>5, <1>6

-----------------------------------------------------------------------------
\* Advancing a counter by at most a capacity can be undone by subtraction.
LEMMA RingArithmetic ==
  ASSUME NEW a \in Words, NEW n \in 0 .. Capacity
  PROVE  /\ Add(a, n) \in Words
         /\ Dist(a, Add(a, n)) = n
  BY WordModFacts, SpscAssumption DEF Words, Add, Dist

\* The constructor establishes the inductive invariant.
LEMMA InitInv == Init => IndInv
  <1> SUFFICES ASSUME Init PROVE IndInv
    OBVIOUS
  <1>1. 0 \in Words /\ Dist(0, 0) = 0
    BY WordModFacts, SpscAssumption DEF Words, Dist
  <1>2. TypeOK
    <2>1. pushed \in BOOLEAN /\ sawItem \in BOOLEAN
      BY DEF Init
    <2>2. cGot \in Seq(Items \cup {NoItem}) /\ batch \in Seq(Items \cup {NoItem})
      BY DEF Init
    <2>3. buffer \in [0 .. Capacity - 1 -> Items \cup {NoItem}]
      BY DEF Init
    <2> QED BY <1>1, <2>1, <2>2, <2>3, SpscAssumption DEF Init, TypeOK
  <1>3. Bounded /\ ViewsInWindow /\ EmptyIsReliable
    BY <1>1, SpscAssumption DEF Init, Bounded, ViewsInWindow, EmptyIsReliable
  <1> QED BY <1>2, <1>3 DEF Init, IndInv

\* The unsigned difference is a word, zero only between equal counters.
LEMMA DistType ==
  ASSUME NEW a \in Words, NEW b \in Words
  PROVE  /\ Dist(a, b) \in Words
         /\ Dist(a, b) = 0 <=> a = b
  BY WordModFacts DEF Words, Dist

\* Differences inside one window add up, with no wrap-around between.
LEMMA DistSplit ==
  ASSUME NEW a \in Words, NEW b \in Words, NEW c \in Words,
         Dist(a, b) + Dist(b, c) <= Capacity
  PROVE  Dist(a, c) = Dist(a, b) + Dist(b, c)
  BY WordModFacts, SpscAssumption DEF Words, Dist

\* How the distance to a counter changes when push or pop advances it, or
\* advances the counter it is measured from.
LEMMA DistAdd ==
  ASSUME NEW a \in Words, NEW b \in Words, NEW n \in Nat
  PROVE  /\ Dist(a, b) + n <= Capacity => Dist(a, Add(b, n)) = Dist(a, b) + n
         /\ n <= Dist(a, b) /\ Dist(a, b) <= Capacity =>
                /\ Add(a, n) \in Words
                /\ Dist(a, Add(a, n)) = n
                /\ Dist(Add(a, n), b) = Dist(a, b) - n
  BY WordModFacts, SpscAssumption DEF Words, Dist, Add

\* A load leaves the newest store loadable, and nothing older than what it saw.
LEMMA SinceKeeps ==
  ASSUME NEW view \in SUBSET Words, NEW v \in view, NEW newest \in view
  PROVE  /\ Since(view, v, newest) \subseteq view
         /\ newest \in Since(view, v, newest)
         /\ \A u \in Since(view, v, newest) : Dist(u, newest) <= Dist(v, newest)
  <1>1. Dist(newest, newest) = 0 /\ Dist(v, newest) >= 0
    BY WordModFacts, DistType DEF Words
  <1> QED BY <1>1 DEF Since

\* The slot a pop moves an item out of is not the slot push is filling.
LEMMA ReadBehindTail ==
  ASSUME IndInv, cPc = "read", Len(cGot) < cCount, pPc # "idle"
  PROVE  Slot(tail) # ReadSlot
  <1> DEFINE k == Len(cGot)
  <1>1. /\ head \in Words /\ tail \in Words /\ tail \in tailView
        /\ k \in Nat /\ cCount \in Nat
        /\ Dist(head, tail) < Capacity /\ cCount <= Dist(head, tail)
    BY DEF IndInv, TypeOK, Bounded, ViewsInWindow
  <1>2. Dist(head, tail) \in Nat /\ Capacity \in Nat
    BY <1>1, DistType, WordModFacts, SpscAssumption DEF Words
  <1>3. /\ Add(head, k) \in Words
        /\ Dist(Add(head, k), tail) = Dist(head, tail) - k
    BY <1>1, <1>2, DistAdd
  <1>4. Slot(Add(head, k)) # Slot(tail)
    BY <1>1, <1>2, <1>3, SlotsDiffer
  <1> QED BY <1>4 DEF ReadSlot

-----------------------------------------------------------------------------
\* Every step of push, pop, pop_batch and empty keeps the inductive invariant.
LEMMA StepInv == IndInv /\ [Next]_vars => IndInv'
  <1> SUFFICES ASSUME IndInv, [Next]_vars PROVE IndInv'
    OBVIOUS
  <1> USE DEF producer, consumer
  <1>w. /\ Words \subseteq Nat /\ Capacity \in Nat \ {0} /\ MaxBatch \in Nat \ {0}
        /\ head \in Words /\ tail \in Words
        /\ headView \subseteq Words /\ tailView \subseteq Words
        /\ head \in headView /\ tail \in tailView
        /\ cGot \in Seq(Items \cup {NoItem}) /\ Len(cGot) \in Nat
        /\ cCount \in Nat
    BY WordModFacts, SpscAssumption DEF Words, IndInv, TypeOK, ViewsInWindow
  <1>d. \A a, b \in Words : Dist(a, b) \in Nat
    BY <1>w, DistType
  <1>t. \A v \in tailView : Dist(head, tail) = Dist(head, v) + Dist(v, tail)
    BY <1>w, DistSplit DEF IndInv, ViewsInWindow
  <1>1. ASSUME NEW v \in headView, PushFull(v) PROVE IndInv'
    <2>1. /\ headView' \subseteq headView /\ head \in headView'
      BY <1>1, <1>w, SinceKeeps DEF PushFull, HasRoom
    <2>2. TypeOK'
      BY <1>1, <2>1 DEF PushFull, HasRoom, IndInv, TypeOK
    <2>3. Bounded' /\ ViewsInWindow' /\ EmptyIsReliable'
      BY <1>1, <2>1 DEF PushFull, HasRoom, IndInv, Bounded, ViewsInWindow, EmptyIsReliable
    <2> QED BY <1>1, <2>2, <2>3 DEF PushFull, HasRoom, IndInv
  <1>2. ASSUME NEW v \in headView, NEW item \in Items, PushStart(item, v)
        PROVE  IndInv'
    <2>1. /\ headView' \subseteq headView /\ head \in headView'
          /\ \A u \in headView' : Dist(u, head) <= Dist(v, head)
      BY <1>2, <1>w, SinceKeeps DEF PushStart, HasRoom
    <2>2. Dist(v, head) + Dist(head, tail) < Capacity
      BY <1>2, <1>w, DistSplit DEF PushStart, HasRoom, IndInv, ViewsInWindow
    <2>3. ASSUME NEW u \in headView'
          PROVE  Dist(u, head) + Dist(head, tail) < Capacity
      <3>1. /\ Dist(u, head) \in Nat /\ Dist(v, head) \in Nat
            /\ Dist(head, tail) \in Nat
        BY <1>w, <1>d, <2>1
      <3>2. Dist(u, head) <= Dist(v, head)
        BY <2>1
      <3> QED BY <1>w, <2>2, <3>1, <3>2
    <2>4. TypeOK'
      BY <1>2, <2>1 DEF PushStart, HasRoom, IndInv, TypeOK
    <2>5. Bounded'
      BY <1>2, <1>w, <1>d, <2>2 DEF PushStart, HasRoom, IndInv, Bounded
    <2>6. ViewsInWindow' /\ EmptyIsReliable'
      BY <1>2, <2>1, <2>3 DEF PushStart, HasRoom, IndInv, ViewsInWindow, EmptyIsReliable
    <2> QED BY <1>2, <2>4, <2>5, <2>6 DEF PushStart, HasRoom, IndInv
  <1>3. CASE PushWrite
    <2>1. Slot(tail) \in 0 .. Capacity - 1
      BY <1>w, SlotType
    <2>2. TypeOK' /\ buffer'[Slot(tail)] \in Items
      BY <1>3, <2>1 DEF PushWrite, IndInv, TypeOK
    <2>3. Bounded' /\ ViewsInWindow' /\ EmptyIsReliable'
      BY <1>3 DEF PushWrite, IndInv, Bounded, ViewsInWindow, EmptyIsReliable
    <2> QED BY <1>3, <2>2, <2>3 DEF PushWrite, IndInv
  <1>4. CASE PushPublish
    <2>1. Dist(head, tail) < Capacity
      BY <1>4 DEF PushPublish, NewTail, IndInv, Bounded
    <2>2. /\ tail' \in Words
          /\ Dist(head, tail') = Dist(head, tail) + 1
          /\ Dist(tail', tail') = 0
      <3>1. 1 \in 0 .. Capacity /\ Dist(head, tail) + 1 <= Capacity
        BY <1>w, <1>d, <2>1
      <3>2. Add(tail, 1) \in Words
        BY <1>w, <3>1, RingArithmetic
      <3>3. Dist(head, Add(tail, 1)) = Dist(head, tail) + 1
        BY <1>w, <3>1, DistAdd
      <3>4. tail' = Add(tail, 1)
        BY <1>4 DEF PushPublish, NewTail
      <3> QED BY <3>2, <3>3, <3>4, DistType
    <2>3. \A v \in tailView : Dist(v, tail') = Dist(v, tail) + 1
      BY SMTT(30), <1>4, <1>w, <1>d, <1>t, <2>1, DistAdd DEF PushPublish, NewTail
    <2>4. TypeOK'
      BY <1>4, <2>2 DEF PushPublish, NewTail, IndInv, TypeOK
    <2>5. Bounded'
      BY <1>4, <1>w, <1>d, <2>1, <2>2 DEF PushPublish, NewTail, Bounded
    <2>6. ASSUME NEW v \in headView'
          PROVE  Dist(v, head') + Dist(head', tail') <= Capacity
      <3>1. v \in headView /\ head' = head
        BY <1>4 DEF PushPublish, NewTail
      <3>2. Dist(v, head) + Dist(head, tail) < Capacity
        BY <1>4, <3>1 DEF PushPublish, NewTail, IndInv, ViewsInWindow
      <3>3. Dist(v, head) \in Nat /\ Dist(head, tail) \in Nat
        BY <1>w, <1>d, <3>1
      <3> QED BY <1>w, <2>2, <3>1, <3>2, <3>3
    <2>7. ASSUME NEW v \in tailView'
          PROVE  /\ Dist(head', v) + Dist(v, tail') <= Capacity
                 /\ cPc = "read" => cCount <= Dist(head', v)
      <3>1. head' = head /\ Dist(head, tail) \in Nat
        BY <1>4, <1>w, <1>d DEF PushPublish, NewTail
      <3>2. CASE v \in tailView
        <4>1. Dist(head, v) \in Nat /\ Dist(v, tail) \in Nat
          BY <1>w, <1>d, <3>2
        <4>2. Dist(head, v) + Dist(v, tail') <= Capacity
          BY <1>w, <1>t, <2>1, <2>3, <3>1, <3>2, <4>1
        <4> QED BY <3>1, <3>2, <4>2 DEF IndInv, ViewsInWindow
      <3>3. CASE v = tail'
        <4>1. cPc = "read" => cCount <= Dist(head, tail)
          BY <1>w DEF IndInv, ViewsInWindow
        <4> QED BY <1>w, <2>1, <2>2, <3>1, <3>3, <4>1
      <3> QED BY <1>4, <3>2, <3>3 DEF PushPublish, NewTail
    <2>8. ViewsInWindow'
      BY <1>4, <2>6, <2>7 DEF PushPublish, NewTail, IndInv, ViewsInWindow
    <2>9. EmptyIsReliable'
      <3>1. head # tail'
        BY <1>w, <1>d, <2>2, DistType
      <3> QED BY <1>4, <3>1 DEF PushPublish, NewTail, IndInv, EmptyIsReliable
    <2> QED BY <1>4, <2>4, <2>5, <2>8, <2>9 DEF PushPublish, NewTail, IndInv
  <1>5. ASSUME NEW v \in tailView, PopEmpty(v) PROVE IndInv'
    <2>1. /\ tailView' \subseteq tailView /\ tail \in tailView'
      BY <1>5, <1>w, SinceKeeps DEF PopEmpty
    <2>2. TypeOK'
      BY <1>5, <2>1 DEF PopEmpty, IndInv, TypeOK
    <2>3. Bounded' /\ ViewsInWindow' /\ EmptyIsReliable'
      BY <1>5, <2>1 DEF PopEmpty, IndInv, Bounded, ViewsInWindow, EmptyIsReliable
    <2> QED BY <1>5, <2>2, <2>3 DEF PopEmpty, IndInv
  <1>6. ASSUME NEW v \in tailView, NEW max_items \in 1 .. MaxBatch,
               PopStart(v, max_items)
        PROVE  IndInv'
    <2>1. /\ tailView' \subseteq tailView /\ tail \in tailView'
          /\ \A u \in tailView' : Dist(u, tail) <= Dist(v, tail)
      BY <1>6, <1>w, SinceKeeps DEF PopStart, BatchSize
    <2>2. /\ cCount' \in 0 .. MaxBatch /\ 1 <= cCount'
          /\ cCount' <= Dist(head, v)
      <3>1. Dist(head, v) \in Nat \ {0}
        BY <1>6, <1>w, <1>d, DistType DEF PopStart, BatchSize
      <3> QED BY <1>6, <1>w, <3>1 DEF PopStart, BatchSize
    <2>3. ASSUME NEW u \in tailView' PROVE cCount' <= Dist(head, u)
      <3>1. /\ Dist(head, u) \in Nat /\ Dist(u, tail) \in Nat
            /\ Dist(head, v) \in Nat /\ Dist(v, tail) \in Nat
        BY <1>w, <1>d, <2>1
      <3>2. Dist(head, u) + Dist(u, tail) = Dist(head, v) + Dist(v, tail)
        BY <1>t, <2>1
      <3>3. Dist(u, tail) <= Dist(v, tail)
        BY <2>1
      <3> QED BY <1>w, <2>2, <3>1, <3>2, <3>3
    <2>4. cGot' = <<>> /\ Len(cGot') = 0 /\ cGot' \in Seq(Items \cup {NoItem})
      BY <1>6 DEF PopStart, BatchSize
    <2>5. TypeOK'
      BY <1>6, <2>1, <2>2, <2>4 DEF PopStart, BatchSize, IndInv, TypeOK
    <2>6. Bounded' /\ EmptyIsReliable'
      BY <1>6 DEF PopStart, BatchSize, IndInv, Bounded, EmptyIsReliable
    <2>7. ViewsInWindow'
      BY <1>6, <2>1, <2>2, <2>3, <2>4 DEF PopStart, BatchSize, IndInv, ViewsInWindow
    <2> QED BY <1>6, <2>5, <2>6, <2>7 DEF PopStart, BatchSize, IndInv
  <1>7. CASE PopRead
    <2>1. ReadSlot \in 0 .. Capacity - 1
      <3>1. Len(cGot) <= Dist(head, tail) /\ Dist(head, tail) <= Capacity
        BY <1>7, <1>w, <1>d DEF PopRead, IndInv, Bounded, ViewsInWindow
      <3>2. Add(head, Len(cGot)) \in Words
        BY <1>w, <3>1, DistAdd
      <3> QED BY <3>2, SlotType DEF ReadSlot
    <2>2. cGot' \in Seq(Items \cup {NoItem}) /\ Len(cGot') = Len(cGot) + 1
      BY <1>7, <1>w, <2>1 DEF PopRead, IndInv, TypeOK
    <2>3. TypeOK'
      BY <1>7, <2>1, <2>2 DEF PopRead, IndInv, TypeOK
    <2>4. Bounded' /\ EmptyIsReliable'
      BY <1>7 DEF PopRead, IndInv, Bounded, EmptyIsReliable
    <2>5. ViewsInWindow'
      BY <1>7, <1>w, <2>2 DEF PopRead, IndInv, ViewsInWindow
    <2>6. pPc' = "publish" => buffer'[Slot(tail')] \in Items
      <3> SUFFICES ASSUME pPc = "publish" PROVE buffer'[Slot(tail)] \in Items
        BY <1>7 DEF PopRead
      <3>1. Slot(tail) # ReadSlot
        BY <1>7, ReadBehindTail DEF PopRead
      <3>2. Slot(tail) \in 0 .. Capacity - 1
        BY <1>w, SlotType
      <3> QED BY <1>7, <3>1, <3>2 DEF PopRead, IndInv, TypeOK
    <2> QED BY <1>7, <2>3, <2>4, <2>5, <2>6 DEF PopRead, IndInv
  <1>8. CASE PopPublish
    <2>1. /\ cCount <= Dist(head, tail) /\ Dist(head, tail) <= Capacity
          /\ \A v \in tailView : /\ cCount <= Dist(head, v)
                                 /\ Dist(head, v) <= Capacity
      <3>1. ASSUME NEW v \in tailView
            PROVE  cCount <= Dist(head, v) /\ Dist(head, v) <= Capacity
        <4>1. Dist(head, v) \in Nat /\ Dist(v, tail) \in Nat
          BY <1>w, <1>d
        <4>2. Dist(head, v) + Dist(v, tail) <= Capacity /\ cCount <= Dist(head, v)
          BY <1>8 DEF PopPublish, IndInv, ViewsInWindow
        <4> QED BY <1>w, <4>1, <4>2
      <3> QED BY <1>w, <3>1
    <2>2. /\ head' \in Words
          /\ Dist(head', tail) = Dist(head, tail) - cCount
          /\ Dist(head', head') = 0
          /\ \A v \in tailView : Dist(head', v) = Dist(head, v) - cCount
      <3>1. head' = Add(head, cCount)
        BY <1>8 DEF PopPublish
      <3>2. Add(head, cCount) \in Words
        BY <1>w, <2>1, DistAdd
      <3>3. ASSUME NEW v \in tailView
            PROVE  Dist(Add(head, cCount), v) = Dist(head, v) - cCount
        BY <1>w, <2>1, DistAdd
      <3> QED BY <1>w, <3>1, <3>2, <3>3, DistType
    <2>3. ASSUME NEW v \in headView
          PROVE  /\ Dist(v, head') = Dist(v, head) + cCount
                 /\ Dist(v, head) \in Nat /\ Dist(head, tail) \in Nat
      <3>1. Dist(v, head) \in Nat /\ Dist(head, tail) \in Nat
        BY <1>w, <1>d
      <3>2. Dist(v, head) + Dist(head, tail) <= Capacity
        BY DEF IndInv, ViewsInWindow
      <3>3. Dist(v, head) + cCount <= Capacity
        BY <1>w, <2>1, <3>1, <3>2
      <3> QED BY <1>8, <1>w, <3>1, <3>3, DistAdd DEF PopPublish
    <2>4. TypeOK'
      <3>1. cGot' \in Seq(Items \cup {NoItem}) /\ batch' \in Seq(Items \cup {NoItem})
        BY <1>8, <1>w DEF PopPublish
      <3> QED BY <1>8, <2>2, <3>1 DEF PopPublish, IndInv, TypeOK
    <2>5. Bounded'
      BY <1>8, <1>w, <1>d, <2>1, <2>2 DEF PopPublish, IndInv, Bounded
    <2>6. ASSUME NEW v \in headView'
          PROVE  /\ Dist(v, head') + Dist(head', tail') <= Capacity
                 /\ pPc' # "idle" => Dist(v, head') + Dist(head', tail') < Capacity
      <3>1. tail' = tail /\ pPc' = pPc /\ Dist(head, tail) \in Nat
        BY <1>8, <1>w, <1>d DEF PopPublish
      <3>2. CASE v \in headView
        <4>1. Dist(v, head') + Dist(head', tail) = Dist(v, head) + Dist(head, tail)
          BY <1>w, <2>2, <2>3, <3>2
        <4> QED BY <3>1, <3>2, <4>1 DEF IndInv, ViewsInWindow
      <3>3. CASE v = head'
        <4>1. pPc # "idle" => Dist(head, tail) < Capacity
          BY DEF IndInv, Bounded
        <4> QED BY <1>w, <2>1, <2>2, <3>1, <3>3, <4>1
      <3> QED BY <1>8, <3>2, <3>3 DEF PopPublish
    <2>7. ASSUME NEW v \in tailView'
          PROVE  Dist(head', v) + Dist(v, tail') <= Capacity
      <3>1. v \in tailView /\ tail' = tail
        BY <1>8 DEF PopPublish
      <3>2. Dist(head, v) + Dist(v, tail) <= Capacity
        BY <3>1 DEF IndInv, ViewsInWindow
      <3>3. Dist(head, v) \in Nat /\ Dist(v, tail) \in Nat
        BY <1>w, <1>d, <3>1
      <3> QED BY <1>w, <2>2, <3>1, <3>2, <3>3
    <2>8. ViewsInWindow'
      BY <1>8, <1>w, <2>6, <2>7 DEF PopPublish, ViewsInWindow
    <2>9. EmptyIsReliable'
      BY <1>8 DEF PopPublish, IndInv, EmptyIsReliable
    <2> QED BY <1>8, <2>4, <2>5, <2>8, <2>9 DEF PopPublish, IndInv
  <1>9. ASSUME NEW v \in tailView, Empty(v) PROVE IndInv'
    <2>1. /\ tailView' \subseteq tailView /\ tail \in tailView'
          /\ \A u \in tailView' : Dist(u, tail) <= Dist(v, tail)
      BY <1>9, <1>w, SinceKeeps DEF Empty, SeesItem
    <2>2. TypeOK'
      BY <1>9, <2>1 DEF Empty, SeesItem, IndInv, TypeOK
    <2>3. Bounded' /\ ViewsInWindow'
      BY <1>9, <2>1 DEF Empty, SeesItem, IndInv, Bounded, ViewsInWindow
    <2>4. EmptyIsReliable'
      <3> SUFFICES ASSUME v # head, head \in tailView' PROVE FALSE
        BY <1>9 DEF Empty, SeesItem, EmptyIsReliable
      <3>1. Dist(head, v) > 0
        BY <1>w, <1>d, DistType
      <3>2. Dist(head, tail) <= Dist(v, tail)
        BY <2>1
      <3> QED BY <1>w, <1>d, <1>t, <3>1, <3>2
    <2> QED BY <1>9, <2>2, <2>3, <2>4 DEF Empty, SeesItem, IndInv
  <1>10. CASE UNCHANGED vars
    BY <1>10 DEF vars, IndInv, TypeOK, Bounded, ViewsInWindow, EmptyIsReliable
  <1> QED
    BY <1>1, <1>2, <1>3, <1>4, <1>5, <1>6, <1>7, <1>8, <1>9, <1>10 DEF Next

-----------------------------------------------------------------------------
\* The inductive invariant holds throughout, for every capacity, word size,
\* batch limit and set of items.
THEOREM Invariance == Spec => []IndInv
  <1>1. Init => IndInv
    BY InitInv
  <1>2. IndInv /\ [Next]_vars => IndInv'
    BY StepInv
  <1> QED BY <1>1, <1>2, PTL DEF Spec

\* Every variable keeps its type: counters stay words, slots hold items.
THEOREM TypeCorrect == Spec => []TypeOK
  <1>1. IndInv => TypeOK
    BY DEF IndInv
  <1> QED BY <1>1, Invariance, PTL

\* push never lets more than Capacity items be outstanding, however stale the
\* head_ it compared with.
THEOREM BoundedOccupancy == Spec => []Bounded
  <1>1. IndInv => Bounded
    BY DEF IndInv
  <1> QED BY <1>1, Invariance, PTL

\* No thread ever loads a counter value outside the window of the ring.
THEOREM LoadsInWindow == Spec => []ViewsInWindow
  <1>1. IndInv => ViewsInWindow
    BY DEF IndInv
  <1> QED BY <1>1, Invariance, PTL

\* The plain accesses of push and pop to buffer_ are never to the same slot at
\* the same time.
THEOREM RaceFreedom == Spec => []NoSlotRace
  <1>1. IndInv => NoSlotRace
    <2> SUFFICES ASSUME IndInv, pPc = "write", cPc = "read", Len(cGot) < cCount
                 PROVE  Slot(tail) # ReadSlot
      BY DEF NoSlotRace
    <2> QED BY ReadBehindTail
  <1> QED BY <1>1, Invariance, PTL

\* An item that empty() reported is there for the next pop.  Nothing is said of
\* the answer "empty", which a push may make stale at any time.
THEOREM EmptyReliable == Spec => []EmptyIsReliable
  <1>1. IndInv => EmptyIsReliable
    BY DEF IndInv
  <1> QED BY <1>1, Invariance, PTL

-----------------------------------------------------------------------------
\* Adding the unsigned difference leads back to the counter.
LEMMA AddDist ==
  ASSUME NEW a \in Words, NEW b \in Words, Dist(a, b) <= Capacity
  PROVE  Add(a, Dist(a, b)) = b
  BY WordModFacts, SpscAssumption DEF Words, Dist, Add

\* Two advances inside one window are one advance.
LEMMA AddAdd ==
  ASSUME NEW a \in Words, NEW m \in Nat, NEW n \in Nat, m + n <= Capacity
  PROVE  Add(Add(a, m), n) = Add(a, m + n)
  BY WordModFacts, SpscAssumption DEF Words, Add

\* The elements of Contents, position by position.
ContentsShape ==
  /\ head \in Words /\ tail \in Words
  /\ Capacity \in Nat /\ Dist(head, tail) \in Nat
  /\ Dist(head, tail) <= Capacity
  /\ Len(cGot) \in Nat /\ Len(cGot) <= Dist(head, tail)
  /\ cGot \in Seq(Items \cup {NoItem})
  /\ Contents \in Seq(Items \cup {NoItem})
  /\ Len(Contents) = Dist(head, tail)
  /\ \A i \in 1 .. Dist(head, tail) :
        Contents[i] = IF i <= Len(cGot) THEN cGot[i]
                      ELSE buffer[Slot(Add(head, i - 1))]

\* The inductive invariant fixes the length and every element of Contents.
LEMMA ContentsFacts == IndInv => ContentsShape
  <1> SUFFICES ASSUME IndInv PROVE ContentsShape
    OBVIOUS
  <1> DEFINE d == Dist(head, tail)
             k == Len(cGot)
  <1>1. /\ head \in Words /\ tail \in Words /\ tail \in tailView
        /\ Capacity \in Nat /\ d \in Nat /\ d <= Capacity
        /\ k \in Nat /\ cGot \in Seq(Items \cup {NoItem})
    BY DistType, WordModFacts, SpscAssumption DEF IndInv, TypeOK, Bounded, ViewsInWindow, Words
  <1>2. k <= d
    <2>1. CASE cPc = "read"
      <3>1. k <= cCount /\ cCount <= d /\ cCount \in Nat
        BY <1>1, <2>1, SpscAssumption DEF IndInv, TypeOK, ViewsInWindow
      <3> QED BY <1>1, <3>1
    <2>2. CASE cPc # "read"
      <3>1. cGot = <<>>
        BY <2>2 DEF IndInv, ViewsInWindow
      <3> QED BY <1>1, <3>1
    <2> QED BY <2>1, <2>2
  <1>3. ASSUME NEW i \in 1 .. d - k
        PROVE  buffer[Slot(Add(head, k + i - 1))] \in Items \cup {NoItem}
    <2>1. k + i - 1 \in Nat /\ k + i - 1 <= d
      BY <1>1, <1>2
    <2>2. Add(head, k + i - 1) \in Words
      BY <1>1, <2>1, DistAdd
    <2>3. Slot(Add(head, k + i - 1)) \in 0 .. Capacity - 1
      BY <2>2, SlotType
    <2> QED BY <2>3 DEF IndInv, TypeOK
  <1>4. Unread \in Seq(Items \cup {NoItem}) /\ Len(Unread) = d - k
    BY <1>1, <1>2, <1>3 DEF Unread
  <1>5. Contents \in Seq(Items \cup {NoItem}) /\ Len(Contents) = d
    BY <1>1, <1>4 DEF Contents
  <1>6. ASSUME NEW i \in 1 .. d
        PROVE  Contents[i] = IF i <= k THEN cGot[i] ELSE buffer[Slot(Add(head, i - 1))]
    <2>1. CASE i <= k
      BY <1>1, <1>4, <2>1 DEF Contents
    <2>2. CASE i > k
      <3>1. Contents[i] = Unread[i - k]
        BY <1>1, <1>2, <1>4, <2>2 DEF Contents
      <3>2. i - k \in 1 .. d - k /\ k + (i - k) - 1 = i - 1
        BY <1>1, <1>2, <2>2
      <3>3. Unread[i - k] = buffer[Slot(Add(head, k + (i - k) - 1))]
        BY <3>2 DEF Unread
      <3> QED BY <1>1, <2>2, <3>1, <3>2, <3>3
    <2> QED BY <1>1, <2>1, <2>2
  <1> QED BY <1>1, <1>2, <1>5, <1>6 DEF ContentsShape

\* Sequences that agree in length and at every position are equal.
LEMMA SameSequence ==
  ASSUME NEW S, NEW s \in Seq(S), NEW t \in Seq(S), Len(s) = Len(t),
         \A i \in 1 .. Len(s) : s[i] = t[i]
  PROVE  s = t
  OBVIOUS

\* The slots of two counters less than Capacity apart in the window differ.
LEMMA WindowSlots ==
  ASSUME NEW a \in Words, NEW m \in Nat, NEW n \in Nat,
         m < n, n - m < Capacity, n <= Capacity
  PROVE  Slot(Add(a, m)) # Slot(Add(a, n))
  <1>1. /\ Add(a, m) \in Words /\ Add(a, n) \in Words
        /\ Dist(Add(a, m), Add(a, n)) = n - m
    BY WordModFacts, SpscAssumption DEF Words, Dist, Add
  <1>2. 0 < n - m
    OBVIOUS
  <1> QED BY <1>1, <1>2, SlotsDiffer

\* push filling its slot changes no item that is waiting.
LEMMA WriteKeepsContents ==
  ASSUME ContentsShape, ContentsShape', IndInv, PushWrite PROVE Contents' = Contents
  <1> DEFINE d == Dist(head, tail)
  <1>1. /\ head' = head /\ tail' = tail /\ cGot' = cGot
        /\ d < Capacity
    BY DEF PushWrite, consumer, IndInv, Bounded
  <1>2. ASSUME NEW i \in 1 .. d
        PROVE  buffer'[Slot(Add(head, i - 1))] = buffer[Slot(Add(head, i - 1))]
    <2>1. /\ i - 1 \in Nat /\ d \in Nat /\ i - 1 < d /\ d - (i - 1) < Capacity
          /\ head \in Words /\ tail \in Words /\ d <= Capacity
      BY <1>1 DEF ContentsShape
    <2>2. Slot(Add(head, i - 1)) # Slot(Add(head, d))
      BY <2>1, WindowSlots
    <2>3. Add(head, d) = tail
      BY <2>1, AddDist
    <2> QED BY <2>2, <2>3 DEF PushWrite, IndInv, TypeOK
  <1>3. \A i \in 1 .. d : Contents'[i] = Contents[i]
    BY <1>1, <1>2 DEF ContentsShape
  <1>4. Len(Contents') = d /\ Len(Contents) = d
    BY <1>1 DEF ContentsShape
  <1>5. Contents \in Seq(Items \cup {NoItem}) /\ Contents' \in Seq(Items \cup {NoItem})
    BY DEF ContentsShape
  <1> QED BY <1>3, <1>4, <1>5, SameSequence

\* The store to tail_ puts the item written before it at the back.
LEMMA PublishAppends ==
  ASSUME ContentsShape, ContentsShape', IndInv, PushPublish
  PROVE  Contents' = Append(Contents, buffer[Slot(tail)])
  <1> DEFINE d    == Dist(head, tail)
             item == buffer[Slot(tail)]
             new  == Append(Contents, item)
  <1>1. /\ head' = head /\ cGot' = cGot /\ buffer' = buffer
        /\ tail' = Add(tail, 1) /\ d < Capacity /\ item \in Items
    BY DEF PushPublish, NewTail, consumer, IndInv, Bounded
  <1>2. d \in Nat /\ Capacity \in Nat /\ head \in Words /\ tail \in Words
    BY DEF ContentsShape
  <1>3. Dist(head, tail') = d + 1
    BY <1>1, <1>2, DistAdd
  <1>4. /\ Contents \in Seq(Items \cup {NoItem}) /\ new \in Seq(Items \cup {NoItem})
        /\ Len(new) = d + 1 /\ new[d + 1] = item
        /\ \A i \in 1 .. d : new[i] = Contents[i]
    BY <1>1, <1>2 DEF ContentsShape
  <1>5. Contents' \in Seq(Items \cup {NoItem}) /\ Len(Contents') = d + 1
    BY <1>1, <1>3 DEF ContentsShape
  <1>6. \A i \in 1 .. d : Contents'[i] = Contents[i]
    BY SMTT(30), <1>1, <1>2, <1>3 DEF ContentsShape
  <1>7. Contents'[d + 1] = item
    <2>1. Contents'[d + 1] = buffer[Slot(Add(head, d + 1 - 1))]
      BY <1>1, <1>2, <1>3 DEF ContentsShape
    <2>2. d + 1 - 1 = d
      BY <1>2
    <2>3. Add(head, d) = tail
      BY <1>1, <1>2, AddDist
    <2> QED BY <2>1, <2>2, <2>3
  <1>8. \A i \in 1 .. d + 1 : Contents'[i] = new[i]
    BY <1>2, <1>4, <1>6, <1>7
  <1> QED BY <1>4, <1>5, <1>8, SameSequence

\* Moving an item out of its slot into the batch leaves the queue as it was.
LEMMA ReadKeepsContents ==
  ASSUME ContentsShape, ContentsShape', IndInv, PopRead
  PROVE  Contents' = Contents
  <1> DEFINE d == Dist(head, tail)
             k == Len(cGot)
  <1>1. /\ head' = head /\ tail' = tail
        /\ cGot' = Append(cGot, buffer[ReadSlot])
        /\ buffer' = [buffer EXCEPT ![ReadSlot] = NoItem]
    BY DEF PopRead
  <1>2. /\ d \in Nat /\ Capacity \in Nat /\ head \in Words /\ d <= Capacity
        /\ k \in Nat /\ cGot \in Seq(Items \cup {NoItem})
        /\ ReadSlot = Slot(Add(head, k))
    BY DEF ContentsShape, ReadSlot
  <1>3. Add(head, k) \in Words /\ ReadSlot \in 0 .. Capacity - 1
    BY <1>2, DistAdd, SlotType DEF ContentsShape
  <1>4. buffer[ReadSlot] \in Items \cup {NoItem}
    BY <1>3 DEF IndInv, TypeOK
  <1>5. /\ Len(cGot') = k + 1 /\ cGot'[k + 1] = buffer[ReadSlot]
        /\ \A i \in 1 .. k : cGot'[i] = cGot[i]
    BY <1>1, <1>2, <1>4
  <1>6. ASSUME NEW i \in 1 .. d, i > k + 1
        PROVE  buffer'[Slot(Add(head, i - 1))] = buffer[Slot(Add(head, i - 1))]
    <2>1. /\ i - 1 \in Nat /\ k < i - 1 /\ i - 1 - k < Capacity /\ i - 1 <= Capacity
      BY <1>2, <1>6
    <2>2. Slot(Add(head, i - 1)) # ReadSlot
      BY <1>2, <2>1, WindowSlots
    <2> QED BY <1>1, <2>2 DEF IndInv, TypeOK
  <1>7. ASSUME NEW i \in 1 .. d PROVE Contents'[i] = Contents[i]
    <2>1. Contents'[i] = IF i <= k + 1 THEN cGot'[i] ELSE buffer'[Slot(Add(head, i - 1))]
      BY <1>1, <1>5 DEF ContentsShape
    <2>2. Contents[i] = IF i <= k THEN cGot[i] ELSE buffer[Slot(Add(head, i - 1))]
      BY DEF ContentsShape
    <2>3. CASE i <= k
      BY <1>2, <1>5, <2>1, <2>2, <2>3
    <2>4. CASE i = k + 1
      BY <1>2, <1>5, <2>1, <2>2, <2>4
    <2>5. CASE i > k + 1
      BY <1>2, <1>6, <2>1, <2>2, <2>5
    <2> QED BY <1>2, <2>3, <2>4, <2>5
  <1>8. Len(Contents') = d /\ Len(Contents) = d
    BY <1>1 DEF ContentsShape
  <1>9. Contents \in Seq(Items \cup {NoItem}) /\ Contents' \in Seq(Items \cup {NoItem})
    BY DEF ContentsShape
  <1> QED BY <1>7, <1>8, <1>9, SameSequence

\* The store to head_ takes exactly the batch, from the front.
LEMMA PublishTakes ==
  ASSUME ContentsShape, ContentsShape', IndInv, PopPublish
  PROVE  /\ cCount \in 1 .. Len(Contents)
         /\ batch' = SubSeq(Contents, 1, cCount)
         /\ Contents' = SubSeq(Contents, cCount + 1, Len(Contents))
  <1> DEFINE d     == Dist(head, tail)
             taken == SubSeq(Contents, 1, cCount)
             left  == SubSeq(Contents, cCount + 1, Len(Contents))
  <1>1. /\ cPc = "read" /\ Len(cGot) = cCount /\ 1 <= cCount
        /\ head' = Add(head, cCount) /\ tail' = tail
        /\ buffer' = buffer /\ batch' = cGot /\ cGot' = <<>>
    BY DEF PopPublish, IndInv, ViewsInWindow
  <1>2. /\ d \in Nat /\ Capacity \in Nat /\ head \in Words /\ tail \in Words
        /\ d <= Capacity /\ cCount \in Nat /\ cCount <= d /\ Len(Contents) = d
        /\ Contents \in Seq(Items \cup {NoItem}) /\ cGot \in Seq(Items \cup {NoItem})
        /\ Contents' \in Seq(Items \cup {NoItem})
    BY <1>1 DEF ContentsShape
  <1>3. cGot = taken
    <2>1. /\ taken \in Seq(Items \cup {NoItem}) /\ Len(taken) = cCount
          /\ \A i \in 1 .. cCount : taken[i] = Contents[i]
      BY <1>1, <1>2
    <2>2. \A i \in 1 .. cCount : Contents[i] = cGot[i]
      BY <1>1, <1>2 DEF ContentsShape
    <2> QED BY <1>1, <1>2, <2>1, <2>2, SameSequence
  <1>4. Contents' = left
    <2>1. /\ left \in Seq(Items \cup {NoItem}) /\ Len(left) = d - cCount
          /\ \A i \in 1 .. d - cCount : left[i] = Contents[cCount + i]
      BY <1>1, <1>2
    <2>2. Dist(head', tail') = d - cCount /\ Len(cGot') = 0
      BY <1>1, <1>2, DistAdd
    <2>3. Len(Contents') = d - cCount
      BY <2>2 DEF ContentsShape
    <2>4. ASSUME NEW i \in 1 .. d - cCount PROVE Contents'[i] = Contents[cCount + i]
      <3>1. /\ i - 1 \in Nat /\ cCount + (i - 1) <= Capacity
            /\ cCount + i \in 1 .. d /\ cCount + (i - 1) = cCount + i - 1
            /\ ~(cCount + i <= cCount) /\ ~(i <= 0)
        BY <1>2
      <3>2. Contents'[i] = buffer[Slot(Add(Add(head, cCount), i - 1))]
        BY <1>1, <2>2, <3>1 DEF ContentsShape
      <3>3. Contents[cCount + i] = buffer[Slot(Add(head, cCount + i - 1))]
        BY <1>1, <3>1 DEF ContentsShape
      <3>4. Add(Add(head, cCount), i - 1) = Add(head, cCount + (i - 1))
        BY <1>2, <3>1, AddAdd
      <3> QED BY <3>1, <3>2, <3>3, <3>4
    <2> QED BY <1>2, <2>1, <2>3, <2>4, SameSequence
  <1> QED BY <1>1, <1>2, <1>3, <1>4

\* A new ring is an empty queue.
LEMMA InitRefines == Init => Fifo!Init
  <1> SUFFICES ASSUME Init PROVE Fifo!Init
    OBVIOUS
  <1>1. IndInv
    BY InitInv
  <1>2. ContentsShape /\ Dist(head, tail) = 0
    BY <1>1, ContentsFacts, DistType DEF Init, ContentsShape
  <1>3. Contents = <<>>
    BY <1>2 DEF ContentsShape
  <1> QED BY <1>3 DEF Init, Fifo!Init

\* Every step of the ring is a step of the first-in first-out queue or none.
LEMMA StepRefines ==
  ASSUME ContentsShape, ContentsShape', IndInv, [Next]_vars
  PROVE  [Fifo!Next]_<<Contents, batch>>
  <1> USE DEF producer, consumer
  <1>1. ASSUME UNCHANGED <<buffer, head, tail, cGot, batch>>
        PROVE  UNCHANGED <<Contents, batch>>
    BY <1>1 DEF Contents, Unread
  <1>2. CASE \E v \in headView : PushFull(v)
    BY <1>1, <1>2 DEF PushFull, HasRoom
  <1>3. CASE \E v \in headView, item \in Items : PushStart(item, v)
    BY <1>1, <1>3 DEF PushStart, HasRoom
  <1>4. CASE PushWrite
    BY <1>4, WriteKeepsContents DEF PushWrite
  <1>5. CASE PushPublish
    <2>1. Len(Contents) < Capacity /\ batch' = batch /\ buffer[Slot(tail)] \in Items
      BY <1>5 DEF PushPublish, NewTail, IndInv, Bounded, ContentsShape
    <2>2. Fifo!Put(buffer[Slot(tail)])
      BY <1>5, <2>1, PublishAppends DEF Fifo!Put
    <2> QED BY <2>1, <2>2 DEF Fifo!Next, Fifo!PutSome
  <1>6. CASE \E v \in tailView : PopEmpty(v)
    BY <1>1, <1>6 DEF PopEmpty
  <1>7. CASE \E v \in tailView, max_items \in 1 .. MaxBatch : PopStart(v, max_items)
    <2>1. cGot = <<>> /\ cGot' = <<>>
      BY <1>7 DEF PopStart, BatchSize, IndInv, ViewsInWindow
    <2> QED BY <1>1, <1>7, <2>1 DEF PopStart, BatchSize
  <1>8. CASE PopRead
    BY <1>8, ReadKeepsContents DEF PopRead
  <1>9. CASE PopPublish
    <2>1. Fifo!Take(cCount) /\ cCount \in 1 .. Len(Contents)
      BY <1>9, PublishTakes DEF Fifo!Take
    <2> QED BY <2>1 DEF Fifo!Next, Fifo!TakeSome
  <1>10. CASE \E v \in tailView : Empty(v)
    BY <1>1, <1>10 DEF Empty, SeesItem
  <1>11. CASE UNCHANGED vars
    BY <1>1, <1>11 DEF vars
  <1> QED
    BY <1>2, <1>3, <1>4, <1>5, <1>6, <1>7, <1>8, <1>9, <1>10, <1>11 DEF Next

\* The ring implements the bounded first-in first-out queue: nothing pushed is
\* lost, duplicated, reordered or delivered half-written.
THEOREM FifoRefinement == Spec => ImplementsFifo
  <1>1. Init => Fifo!Init
    BY InitRefines
  <1>2. IndInv => ContentsShape
    BY ContentsFacts
  <1>3. ContentsShape /\ ContentsShape' /\ IndInv /\ [Next]_vars
           => [Fifo!Next]_<<Contents, batch>>
    BY StepRefines
  <1> QED BY <1>1, <1>2, <1>3, Invariance, PTL DEF Spec, ImplementsFifo, Fifo!Spec

=============================================================================
