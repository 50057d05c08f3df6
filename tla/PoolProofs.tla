----------------------------- MODULE PoolProofs -----------------------------
(***************************************************************************)
(* Proofs about the pooled book, for every pool capacity, set of ids,      *)
(* prices and quantities: its links are lists, each slot is free or rests  *)
(* one order, and every step is a step of the STL book.                    *)
(*                                                                         *)
(* The links say nothing by themselves, so the invariant says that there   *)
(* are lists which they spell: one of the free slots and one per level.    *)
(* What each helper of the code does to those lists is proved over plain   *)
(* parameters (ns for nodes_, lv for bids_ and asks_, ix for order_index_),*)
(* and only then of the actions.  That an order is in the list of its own  *)
(* side and price, which a removal relies on, is not proved again: it      *)
(* comes from the STL book's invariant, read through the refinement.       *)
(***************************************************************************)
EXTENDS PoolImplementsStl, FiniteSetTheorems, FunctionTheorems, TLAPS

-----------------------------------------------------------------------------
(* Walks along links                                                       *)

\* Entry k of a list of slots; there is no slot before the first and after the last.
At(list, k) == IF k \in DOMAIN list THEN list[k] ELSE INVALID_IDX

\* A set of numbers up to n has a least one.
LEMMA FirstExists == ASSUME NEW n \in Nat, NEW S \in SUBSET (0 .. n), S # {}
                     PROVE  \E x \in S : \A y \in S : x <= y
  <1> DEFINE Below == {0 .. x : x \in S}
  <1>1. \A x \in S : x \in Nat
    OBVIOUS
  <1>2. Below \subseteq FiniteSubsetsOf(Nat)
    <2>1. ASSUME NEW x \in S PROVE 0 .. x \in SUBSET Nat /\ IsFiniteSet(0 .. x)
      <3>1. 0 \in Int /\ x \in Int
        BY <1>1
      <3> QED BY <3>1, FS_Interval
    <2> QED BY <2>1 DEF FiniteSubsetsOf
  <1>3. IsWellFoundedOn(StrictSubsetOrdering(Nat), FiniteSubsetsOf(Nat))
    BY FS_StrictSubsetOrderingWellFounded
  <1>4. Below # {}
    OBVIOUS
  <1> HIDE DEF Below
  <1>5. PICK U \in Below : \A V \in Below : <<V, U>> \notin StrictSubsetOrdering(Nat)
    BY <1>2, <1>3, <1>4, WFMin
  <1>6. PICK x \in S : U = 0 .. x
    BY <1>5 DEF Below
  <1>7. ASSUME NEW y \in S, y < x PROVE FALSE
    <2>1. 0 .. y \in Below
      BY DEF Below
    <2>2. 0 .. y \subseteq 0 .. x /\ x \notin 0 .. y /\ x \in 0 .. x
      BY <1>1, <1>7
    <2>3. (0 .. y) \in SUBSET Nat /\ (0 .. x) \in SUBSET Nat
      BY <1>1
    <2>4. <<0 .. y, 0 .. x>> \in StrictSubsetOrdering(Nat)
      BY <2>2, <2>3 DEF StrictSubsetOrdering
    <2> QED BY <1>5, <1>6, <2>1, <2>4
  <1> QED BY <1>1, <1>7

\* What Chain finds: a list whose entries are linked one to the next.
LEMMA ChainOf ==
    ASSUME NEW size \in Nat, NEW links, DOMAIN links = 0 .. size - 1,
           NEW list \in Seq(0 .. size - 1), Len(list) <= size,
           \A k \in DOMAIN list : links[list[k]] = At(list, k + 1)
    PROVE  Chain(links, At(list, 1)) = list
  <1> DEFINE h == [k \in 0 .. size |-> At(list, k + 1)]
             body(f) == [k \in 0 .. size |->
                            IF k = 0 THEN At(list, 1)
                            ELSE IF f[k - 1] = INVALID_IDX THEN INVALID_IDX
                                 ELSE links[f[k - 1]]]
             hop == CHOOSE f : f = [k \in 0 .. Cardinality(DOMAIN links) |->
                                       IF k = 0 THEN At(list, 1)
                                       ELSE IF f[k - 1] = INVALID_IDX THEN INVALID_IDX
                                            ELSE links[f[k - 1]]]
  <1>1. Len(list) \in Nat /\ DOMAIN list = 1 .. Len(list) /\ \A k \in DOMAIN list : list[k] # INVALID_IDX
    BY DEF INVALID_IDX
  <1>2. Cardinality(DOMAIN links) = size
    BY FS_Interval
  <1>3. h = body(h)
    <2>1. ASSUME NEW k \in 0 .. size PROVE h[k] = body(h)[k]
      <3>1. CASE k = 0
        BY <3>1
      <3>2. CASE k # 0 /\ k \in DOMAIN list
        <4>1. k - 1 \in 0 .. size /\ k \in Int /\ h[k - 1] = list[k]
          BY <1>1, <3>2 DEF At
        <4> QED BY <1>1, <3>2, <4>1 DEF At
      <3>3. CASE k # 0 /\ k \notin DOMAIN list
        <4>1. k - 1 \in 0 .. size /\ k \in Int /\ h[k - 1] = INVALID_IDX
          BY <1>1, <3>3 DEF At
        <4> QED BY <1>1, <3>3, <4>1 DEF At
      <3> QED BY <3>1, <3>2, <3>3
    <2> QED BY <2>1
  <1>4. hop = body(hop)
    BY <1>2, <1>3
  <1> HIDE DEF hop
  <1>5. hop = h
    <2> DEFINE Bad == {k \in 0 .. size : hop[k] # h[k]}
    <2>1. ASSUME Bad # {} PROVE FALSE
      <3>1. PICK k \in Bad : \A j \in Bad : k <= j
        BY <2>1, FirstExists
      <3>2. k \in 0 .. size /\ hop[k] # h[k]
        OBVIOUS
      <3>3. CASE k = 0
        BY <1>3, <1>4, <3>2, <3>3
      <3>4. CASE k # 0
        <4>1. k - 1 \in 0 .. size /\ ~(k <= k - 1)
          BY <3>2, <3>4
        <4>2. hop[k - 1] = h[k - 1]
          BY <3>1, <4>1
        <4>3. hop[k] = body(hop)[k] /\ h[k] = body(h)[k]
          BY <1>3, <1>4
        <4> QED BY <3>2, <4>2, <4>3
      <3> QED BY <3>3, <3>4
    <2>2. \A k \in 0 .. size : hop[k] = h[k]
      BY <2>1
    <2> QED BY <1>4, <2>2
  <1>6. {j \in 0 .. size : hop[j] # INVALID_IDX} = 0 .. Len(list) - 1
    <2>1. \A j \in 0 .. size : hop[j] # INVALID_IDX <=> j + 1 \in DOMAIN list
      BY <1>1, <1>5 DEF At
    <2> QED BY <1>1, <2>1
  <1>7. Cardinality({j \in 0 .. size : hop[j] # INVALID_IDX}) = Len(list)
    <2>1. \A n \in Nat : Cardinality(0 .. n - 1) = n
      BY FS_Interval
    <2> QED BY <1>1, <1>6, <2>1
  <1>8. Chain(links, At(list, 1))
            = [k \in 1 .. Cardinality({j \in 0 .. Cardinality(DOMAIN links) : hop[j] # INVALID_IDX})
                  |-> hop[k - 1]]
    BY Zenon DEF Chain, hop
  <1>9. \A k \in 1 .. Len(list) : k - 1 \in 0 .. size /\ hop[k - 1] = list[k]
    BY <1>1, <1>5 DEF At
  <1>10. Chain(links, At(list, 1)) = [k \in 1 .. Len(list) |-> hop[k - 1]]
    BY <1>2, <1>7, <1>8
  <1>11. list = [k \in 1 .. Len(list) |-> list[k]]
    OBVIOUS
  <1> QED BY <1>9, <1>10, <1>11

-----------------------------------------------------------------------------
(* The invariant: ghost lists of the free slots and of the slots of each   *)
(* level.                                                                  *)

Node(slots) == [order : Order \cup {NoOrder},
                prev : slots \cup {INVALID_IDX}, next : slots \cup {INVALID_IDX}]

Shape(ns) == \E size \in Nat : ns \in [0 .. size - 1 -> Node(0 .. size - 1)]

FreeList(ns, first, free) ==
    /\ free \in Seq(DOMAIN ns) /\ IsInjective(free)
    /\ first = At(free, 1)
    /\ \A k \in DOMAIN free : ns[free[k]].next = At(free, k + 1)

LevelList(ns, level, list) ==
    /\ list \in Seq(DOMAIN ns) /\ list # <<>> /\ IsInjective(list)
    /\ \A k \in DOMAIN list : /\ ns[list[k]].next = At(list, k + 1)
                              /\ ns[list[k]].prev = At(list, k - 1)
    /\ level \in [total_volume : 0 .. QuantityMod - 1, order_count : Nat,
                  head : DOMAIN ns, tail : DOMAIN ns]
    /\ level.order_count = Len(list)
    /\ level.head = list[1] /\ level.tail = list[Len(list)]

LevelLists(ns, lv, lists) ==
    /\ DOMAIN lv = Sides /\ DOMAIN lists = Sides
    /\ \A s \in Sides : DOMAIN lv[s] \subseteq Prices \ {0} /\ DOMAIN lists[s] = DOMAIN lv[s]
    /\ \A s \in Sides : \A p \in DOMAIN lv[s] : LevelList(ns, lv[s][p], lists[s][p])

\* The index finds a slot under the id of its order, and every slot of a list.
Indexed(ns, ix, lists) ==
    /\ DOMAIN ix \subseteq OrderIds
    /\ \A id \in DOMAIN ix : /\ ix[id] \in DOMAIN ns
                             /\ ns[ix[id]].order \in Order
                             /\ ns[ix[id]].order.id = id
    /\ \A s \in Sides : \A p \in DOMAIN lists[s] : \A k \in DOMAIN lists[s][p] :
          \E id \in DOMAIN ix : ix[id] = lists[s][p][k]

\* A slot is free or in use.
Divided(ns, ix, free) ==
    \A i \in DOMAIN ns : i \in Range(free) <=> i \notin Range(ix)

Structure(ns, first, lv, ix, free, lists) ==
    /\ Shape(ns)
    /\ FreeList(ns, first, free)
    /\ LevelLists(ns, lv, lists)
    /\ Indexed(ns, ix, lists)
    /\ Divided(ns, ix, free)

\* What the book's own invariant says of the lists: a resting order is in the
\* list of its side and price.
Settled(ns, ix, lists) ==
    /\ \A s \in Sides : \A p \in DOMAIN lists[s] : \A k \in DOMAIN lists[s][p] :
          LET o == ns[lists[s][p][k]].order
          IN  /\ o \in Order /\ o.side = s /\ o.price = p
              /\ o.type = "Limit" /\ o.remaining \in 1 .. o.initial
    /\ \A id \in DOMAIN ix :
          LET o == ns[ix[id]].order
          IN  /\ o.price \in DOMAIN lists[o.side]
              /\ \E k \in DOMAIN lists[o.side][o.price] : lists[o.side][o.price][k] = ix[id]

\* The orders in the slots of a list, and the state of the book they make.
Orders(ns, list) == [k \in DOMAIN list |-> ns[list[k]].order]

QueuesOf(ns, lists) == [s \in Sides |-> [p \in DOMAIN lists[s] |-> Orders(ns, lists[s][p])]]

LocationsOf(ns, ix) ==
    [id \in DOMAIN ix |-> [side |-> ns[ix[id]].order.side, price |-> ns[ix[id]].order.price]]

\* The two halves of Settled, for one place and for one id.
SettledAt(o, s, p) ==
    /\ o \in Order /\ o.side = s /\ o.price = p
    /\ o.type = "Limit" /\ o.remaining \in 1 .. o.initial

FoundIn(lists, o, slot) ==
    /\ o.price \in DOMAIN lists[o.side]
    /\ \E k \in DOMAIN lists[o.side][o.price] : lists[o.side][o.price][k] = slot

LEMMA ListedSettled ==
    ASSUME NEW ns, NEW ix, NEW lists, Settled(ns, ix, lists),
           NEW s \in Sides, NEW p \in DOMAIN lists[s], NEW k \in DOMAIN lists[s][p]
    PROVE  SettledAt(ns[lists[s][p][k]].order, s, p)
  BY DEF Settled, SettledAt

LEMMA IndexedSettled ==
    ASSUME NEW ns, NEW ix, NEW lists, Settled(ns, ix, lists), NEW id \in DOMAIN ix
    PROVE  FoundIn(lists, ns[ix[id]].order, ix[id])
  BY DEF Settled, FoundIn

-----------------------------------------------------------------------------
(* What the walks of PoolImplementsStl find                                *)

\* The slots are numbered from 0.
LEMMA ShapeFacts ==
    ASSUME NEW ns, Shape(ns)
    PROVE  \E size \in Nat : /\ DOMAIN ns = 0 .. size - 1 /\ Cardinality(DOMAIN ns) = size
                             /\ IsFiniteSet(DOMAIN ns) /\ ns \in [DOMAIN ns -> Node(DOMAIN ns)]
                             /\ INVALID_IDX \notin DOMAIN ns
  <1>1. PICK size \in Nat : ns \in [0 .. size - 1 -> Node(0 .. size - 1)]
    BY DEF Shape
  <1>2. DOMAIN ns = 0 .. size - 1
    BY <1>1
  <1>3. IsFiniteSet(0 .. size - 1) /\ Cardinality(0 .. size - 1) = size
    BY FS_Interval
  <1>4. INVALID_IDX \notin 0 .. size - 1
    BY DEF INVALID_IDX
  <1> QED BY <1>1, <1>2, <1>3, <1>4

\* A list that names each slot once is not longer than the pool.
LEMMA ListFits ==
    ASSUME NEW n \in Nat, NEW list \in Seq(0 .. n - 1), IsInjective(list)
    PROVE  Len(list) <= n
  <1>1. PICK m \in Nat : m = Len(list)
    OBVIOUS
  <1>2. list \in Injection(1 .. m, 0 .. n - 1)
    BY <1>1 DEF IsInjective, Injection
  <1>3. IsFiniteSet(0 .. n - 1) /\ Cardinality(0 .. n - 1) = n
    BY FS_Interval
  <1>4. Cardinality(1 .. m) = m
    BY FS_Interval
  <1>5. Cardinality(1 .. m) <= Cardinality(0 .. n - 1)
    BY <1>2, <1>3, FS_Injection
  <1> QED BY <1>1, <1>3, <1>4, <1>5

\* FreeSlots is the list of the free slots.
LEMMA FreeChain ==
    ASSUME NEW ns, NEW first, NEW free, Shape(ns), FreeList(ns, first, free)
    PROVE  Chain([i \in DOMAIN ns |-> ns[i].next], first) = free
  <1> DEFINE links == [i \in DOMAIN ns |-> ns[i].next]
  <1>1. PICK size \in Nat : DOMAIN ns = 0 .. size - 1
    BY ShapeFacts
  <1>2. /\ free \in Seq(0 .. size - 1) /\ IsInjective(free) /\ first = At(free, 1)
        /\ \A k \in DOMAIN free : ns[free[k]].next = At(free, k + 1)
    BY <1>1 DEF FreeList
  <1>3. DOMAIN links = 0 .. size - 1 /\ \A k \in DOMAIN free : links[free[k]] = At(free, k + 1)
    BY <1>1, <1>2
  <1>4. Len(free) <= size
    BY <1>2, ListFits
  <1> HIDE DEF links
  <1>5. Chain(links, At(free, 1)) = free
    BY <1>2, <1>3, <1>4, ChainOf
  <1> QED BY <1>2, <1>5 DEF links

\* Walking a level's links either way finds its list; order_count fits the pool.
LEMMA LevelChain ==
    ASSUME NEW ns, NEW level, NEW list, Shape(ns), LevelList(ns, level, list)
    PROVE  /\ Chain([i \in DOMAIN ns |-> ns[i].next], level.head) = list
           /\ Chain([i \in DOMAIN ns |-> ns[i].prev], level.tail) = Reverse(list)
           /\ Len(list) \in 1 .. Cardinality(DOMAIN ns)
  <1> DEFINE nexts == [i \in DOMAIN ns |-> ns[i].next]
             prevs == [i \in DOMAIN ns |-> ns[i].prev]
  <1>1. PICK size \in Nat : DOMAIN ns = 0 .. size - 1 /\ Cardinality(DOMAIN ns) = size
    BY ShapeFacts
  <1>2. PICK n \in Nat \ {0} : n = Len(list)
    BY DEF LevelList
  <1>3. /\ list \in Seq(0 .. size - 1) /\ IsInjective(list) /\ DOMAIN list = 1 .. n
        /\ level.head = list[1] /\ level.tail = list[n]
        /\ \A k \in DOMAIN list : /\ ns[list[k]].next = At(list, k + 1)
                                  /\ ns[list[k]].prev = At(list, k - 1)
    BY <1>1, <1>2 DEF LevelList
  <1>4. n <= size /\ Len(list) <= size
    BY <1>2, <1>3, ListFits
  <1>5. Chain(nexts, level.head) = list
    <2>1. DOMAIN nexts = 0 .. size - 1 /\ \A k \in DOMAIN list : nexts[list[k]] = At(list, k + 1)
      BY <1>1, <1>3
    <2>2. level.head = At(list, 1)
      BY <1>3 DEF At
    <2> HIDE DEF nexts
    <2>3. Chain(nexts, At(list, 1)) = list
      BY <1>3, <1>4, <2>1, ChainOf
    <2> QED BY <2>2, <2>3
  <1>6. Chain(prevs, level.tail) = Reverse(list)
    <2> DEFINE back == Reverse(list)
    <2>1. /\ DOMAIN back = 1 .. n /\ back = [k \in 1 .. n |-> list[(n - k) + 1]]
          /\ \A k \in 1 .. n : (n - k) + 1 \in 1 .. n
      BY <1>2 DEF Reverse
    <2>2. back \in Seq(0 .. size - 1) /\ Len(back) = n
      BY <1>3, <2>1
    <2>3. ASSUME NEW k \in 1 .. n PROVE ns[back[k]].prev = At(back, k + 1)
      <3>0. PICK j \in 1 .. n : j = (n - k) + 1
        BY <2>1
      <3>1. ns[back[k]].prev = At(list, j - 1)
        BY <1>3, <2>1, <3>0
      <3>2. CASE k = n
        BY <1>3, <2>1, <3>0, <3>1, <3>2 DEF At
      <3>3. CASE k # n
        <4>1. k + 1 \in 1 .. n /\ j - 1 \in 1 .. n /\ j - 1 = (n - (k + 1)) + 1
          BY <3>0, <3>3
        <4> QED BY <1>3, <2>1, <3>1, <4>1 DEF At
      <3> QED BY <3>2, <3>3
    <2>4. DOMAIN prevs = 0 .. size - 1 /\ \A k \in DOMAIN back : prevs[back[k]] = At(back, k + 1)
      <3>1. \A k \in 1 .. n : back[k] \in 0 .. size - 1
        BY <1>3, <2>1
      <3> QED BY <1>1, <2>1, <2>3, <3>1
    <2>5. level.tail = At(back, 1)
      BY <1>3, <2>1 DEF At
    <2> HIDE DEF prevs, back
    <2>6. Chain(prevs, At(back, 1)) = back
      BY <1>4, <2>2, <2>4, ChainOf
    <2> QED BY <2>5, <2>6 DEF back
  <1> QED BY <1>1, <1>2, <1>4, <1>5, <1>6

-----------------------------------------------------------------------------
(* A slot leaves its list                                                  *)

Drop(list, i) == [k \in 1 .. Len(list) - 1 |-> list[IF k < i THEN k ELSE k + 1]]

\* The list without one entry.
LEMMA DropFacts ==
    ASSUME NEW S, NEW list \in Seq(S), IsInjective(list), NEW i \in DOMAIN list
    PROVE  /\ Drop(list, i) \in Seq(S) /\ Len(Drop(list, i)) = Len(list) - 1
           /\ DOMAIN Drop(list, i) = 1 .. Len(list) - 1
           /\ \A k \in DOMAIN Drop(list, i) :
                 /\ (IF k < i THEN k ELSE k + 1) \in DOMAIN list
                 /\ Drop(list, i)[k] = list[IF k < i THEN k ELSE k + 1]
                 /\ Drop(list, i)[k] # list[i]
           /\ IsInjective(Drop(list, i))
  <1>1. PICK n \in Nat \ {0} : n = Len(list) /\ DOMAIN list = 1 .. n
    OBVIOUS
  <1> DEFINE rest == Drop(list, i)
  <1>2. DOMAIN rest = 1 .. n - 1 /\ \A k \in 1 .. n - 1 : rest[k] = list[IF k < i THEN k ELSE k + 1]
    BY <1>1 DEF Drop
  <1>3. \A k \in 1 .. n - 1 : (IF k < i THEN k ELSE k + 1) \in 1 .. n
    BY <1>1
  <1>4. rest \in [1 .. n - 1 -> S]
    <2>1. \A k \in 1 .. n - 1 : rest[k] \in S
      BY <1>1, <1>2, <1>3
    <2>2. rest = [k \in 1 .. n - 1 |-> rest[k]]
      BY <1>1 DEF Drop
    <2> QED BY <2>1, <2>2
  <1>5. rest \in Seq(S) /\ Len(rest) = n - 1
    BY <1>4
  <1>6. IsInjective(rest) /\ \A k \in 1 .. n - 1 : rest[k] # list[i]
    <2>1. \A j, k \in 1 .. n : list[j] = list[k] => j = k
      BY <1>1 DEF IsInjective
    <2>2. ASSUME NEW k \in 1 .. n - 1 PROVE rest[k] # list[i]
      <3>1. (IF k < i THEN k ELSE k + 1) # i
        BY <1>1
      <3> QED BY <1>1, <1>2, <1>3, <2>1, <3>1
    <2>3. ASSUME NEW j \in 1 .. n - 1, NEW k \in 1 .. n - 1, rest[j] = rest[k] PROVE j = k
      <3>1. (IF j < i THEN j ELSE j + 1) = (IF k < i THEN k ELSE k + 1)
        BY <1>2, <1>3, <2>1, <2>3
      <3> QED BY <1>1, <3>1
    <2> QED BY <1>2, <2>2, <2>3 DEF IsInjective
  <1> QED BY <1>1, <1>2, <1>3, <1>5, <1>6

\* Lists do not change with links and slots they do not name.
LEMMA LevelFrame ==
    ASSUME NEW ns, NEW after, NEW level, NEW list, LevelList(ns, level, list),
           DOMAIN ns \subseteq DOMAIN after,
           \A k \in DOMAIN list : /\ after[list[k]].next = ns[list[k]].next
                                  /\ after[list[k]].prev = ns[list[k]].prev
    PROVE  LevelList(after, level, list)
  <1>1. list \in Seq(DOMAIN after)
    BY DEF LevelList
  <1>2. level \in [total_volume : 0 .. QuantityMod - 1, order_count : Nat,
                   head : DOMAIN after, tail : DOMAIN after]
    BY DEF LevelList
  <1> QED BY <1>1, <1>2 DEF LevelList

LEMMA FreeFrame ==
    ASSUME NEW ns, NEW after, NEW first, NEW free, FreeList(ns, first, free),
           DOMAIN ns \subseteq DOMAIN after,
           \A k \in DOMAIN free : after[free[k]].next = ns[free[k]].next
    PROVE  FreeList(after, first, free)
  <1>1. free \in Seq(DOMAIN after)
    BY DEF FreeList
  <1> QED BY <1>1 DEF FreeList

\* remove_from_level: the neighbours are linked to each other and the level's
\* ends and count fit the list without the slot.
LEMMA SlotRemoved ==
    ASSUME NEW ns, NEW level, NEW list, NEW i \in DOMAIN list,
           ns \in [DOMAIN ns -> Node(DOMAIN ns)], INVALID_IDX \notin DOMAIN ns,
           LevelList(ns, level, list), ns[list[i]].order \in Order,
           NEW rest, rest = remove_from_level(ns, level, list[i])
    PROVE  /\ rest.nodes \in [DOMAIN ns -> Node(DOMAIN ns)]
           /\ \A j \in DOMAIN ns : rest.nodes[j].order = ns[j].order
           /\ \A j \in DOMAIN ns : (\A k \in DOMAIN list : list[k] # j) => rest.nodes[j] = ns[j]
           /\ IF Len(list) = 1 THEN rest.level.head = INVALID_IDX
              ELSE LevelList(rest.nodes, rest.level, Drop(list, i))
  <1> DEFINE idx == list[i]
             p == ns[idx].prev
             n == ns[idx].next
             left == Drop(list, i)
  <1>1. PICK m \in Nat \ {0} : m = Len(list) /\ DOMAIN list = 1 .. m
    BY DEF LevelList
  <1>2. /\ list \in Seq(DOMAIN ns)
        /\ \A k \in 1 .. m : /\ list[k] \in DOMAIN ns
                             /\ ns[list[k]].next = At(list, k + 1)
                             /\ ns[list[k]].prev = At(list, k - 1)
        /\ \A j, k \in 1 .. m : list[j] = list[k] => j = k
    BY <1>1 DEF LevelList, IsInjective
  <1>3. /\ p = At(list, i - 1) /\ n = At(list, i + 1) /\ i \in 1 .. m
        /\ rest.nodes = Unlink(ns, p, n)
        /\ rest.level = [total_volume |-> (level.total_volume - ns[idx].order.remaining) % QuantityMod,
                         order_count  |-> level.order_count - 1,
                         head |-> IF p = INVALID_IDX THEN n ELSE level.head,
                         tail |-> IF n = INVALID_IDX THEN p ELSE level.tail]
    BY <1>1, <1>2 DEF remove_from_level
  <1>4. \A j \in DOMAIN ns : ns[j] \in Node(DOMAIN ns)
    OBVIOUS
  <1>5. p \in DOMAIN ns \cup {INVALID_IDX} /\ n \in DOMAIN ns \cup {INVALID_IDX}
    BY <1>1, <1>2, <1>4 DEF Node
  <1>6. DOMAIN rest.nodes = DOMAIN ns
    BY <1>3 DEF Unlink
  <1>7. ASSUME NEW j \in DOMAIN ns
        PROVE  /\ rest.nodes[j] \in Node(DOMAIN ns) /\ rest.nodes[j].order = ns[j].order
               /\ rest.nodes[j].next = (IF j = p THEN n ELSE ns[j].next)
               /\ rest.nodes[j].prev = (IF j = n THEN p ELSE ns[j].prev)
               /\ j # p /\ j # n => rest.nodes[j] = ns[j]
    <2>1. rest.nodes[j] = [ns[j] EXCEPT !.next = IF j = p THEN n ELSE ns[j].next,
                                        !.prev = IF j = n THEN p ELSE ns[j].prev]
      BY <1>3 DEF Unlink
    <2>2. ns[j] \in Node(DOMAIN ns)
      BY <1>4
    <2>3. rest.nodes[j] = [order |-> ns[j].order, prev |-> IF j = n THEN p ELSE ns[j].prev,
                           next |-> IF j = p THEN n ELSE ns[j].next]
      BY <2>1, <2>2 DEF Node
    <2>4. ns[j] = [order |-> ns[j].order, prev |-> ns[j].prev, next |-> ns[j].next]
      BY <2>2 DEF Node
    <2> QED BY <1>5, <2>2, <2>3, <2>4 DEF Node
  <1>8. rest.nodes \in [DOMAIN ns -> Node(DOMAIN ns)]
    <2>1. rest.nodes = [j \in DOMAIN ns |-> rest.nodes[j]]
      BY <1>3 DEF Unlink
    <2> QED BY <1>7, <2>1
  <1>9. ASSUME NEW j \in DOMAIN ns, \A k \in DOMAIN list : list[k] # j
        PROVE  rest.nodes[j] = ns[j]
    <2>1. j # p /\ j # n
      BY <1>1, <1>3, <1>9 DEF At
    <2> QED BY <1>7, <2>1
  <1>10. CASE m = 1
    <2>1. p = INVALID_IDX /\ n = INVALID_IDX
      BY <1>1, <1>3, <1>10 DEF At
    <2> QED BY <1>1, <1>3, <1>7, <1>8, <1>9, <1>10, <2>1
  <1>11. CASE m # 1
    <2>1. /\ left \in Seq(DOMAIN ns) /\ Len(left) = m - 1 /\ DOMAIN left = 1 .. m - 1
          /\ IsInjective(left)
          /\ \A k \in 1 .. m - 1 : left[k] = list[IF k < i THEN k ELSE k + 1] /\ left[k] # idx
      <3>1. i \in DOMAIN list /\ list \in Seq(DOMAIN ns) /\ IsInjective(list)
        BY <1>2 DEF LevelList
      <3> HIDE DEF left
      <3>2. left = Drop(list, i)
        BY DEF left
      <3>3. /\ left \in Seq(DOMAIN ns) /\ Len(left) = Len(list) - 1
            /\ DOMAIN left = 1 .. Len(list) - 1 /\ IsInjective(left)
            /\ \A k \in DOMAIN left : left[k] = list[IF k < i THEN k ELSE k + 1] /\ left[k] # idx
        <4>1. /\ Drop(list, i) \in Seq(DOMAIN ns) /\ Len(Drop(list, i)) = Len(list) - 1
              /\ DOMAIN Drop(list, i) = 1 .. Len(list) - 1
              /\ \A k \in DOMAIN Drop(list, i) :
                    Drop(list, i)[k] = list[IF k < i THEN k ELSE k + 1]
              /\ IsInjective(Drop(list, i))
              /\ \A k \in DOMAIN Drop(list, i) : Drop(list, i)[k] # list[i]
          BY <3>1, DropFacts
        <4> QED BY <3>2, <4>1
      <3> QED BY <1>1, <3>3
    <2>2. m - 1 \in Nat \ {0} /\ left # <<>>
      BY <1>1, <1>11, <2>1
    <2> HIDE DEF left
    <2>3. ASSUME NEW k \in 1 .. m - 1
          PROVE  /\ rest.nodes[left[k]].next = At(left, k + 1)
                 /\ rest.nodes[left[k]].prev = At(left, k - 1)
      <3>1. PICK j \in 1 .. m : j = IF k < i THEN k ELSE k + 1
        BY <1>3
      <3>2. left[k] = list[j] /\ j # i
        BY <2>1, <3>1, <1>3
      <3>3. /\ rest.nodes[list[j]].next = (IF list[j] = p THEN n ELSE At(list, j + 1))
            /\ rest.nodes[list[j]].prev = (IF list[j] = n THEN p ELSE At(list, j - 1))
        BY <1>2, <1>7
      <3>4. list[j] = p <=> j = i - 1
        BY <1>1, <1>2, <1>3 DEF At
      <3>5. list[j] = n <=> j = i + 1
        BY <1>1, <1>2, <1>3 DEF At
      <3>6. rest.nodes[left[k]].next = At(left, k + 1)
        <4>1. CASE j = i - 1
          <5>1. k = i - 1
            BY <1>3, <3>1, <4>1
          <5>2. CASE i = m
            BY <1>1, <1>3, <2>1, <3>2, <3>3, <3>4, <4>1, <5>1, <5>2 DEF At
          <5>3. CASE i # m
            <6>1. k + 1 \in 1 .. m - 1 /\ i + 1 \in 1 .. m /\ ~(k + 1 < i) /\ k + 1 + 1 = i + 1
              BY <1>3, <5>1, <5>3
            <6>2. left[k + 1] = list[i + 1]
              BY <2>1, <6>1
            <6> QED BY <1>1, <1>3, <2>1, <3>2, <3>3, <3>4, <4>1, <6>1, <6>2 DEF At
          <5> QED BY <5>2, <5>3
        <4>2. CASE j # i - 1
          <5>1. rest.nodes[left[k]].next = At(list, j + 1)
            BY <3>2, <3>3, <3>4, <4>2
          <5>2. CASE j = m
            <6>1. k = m - 1
              BY <1>3, <3>1, <3>2, <5>2
            <6> QED BY <1>1, <2>1, <5>1, <5>2, <6>1 DEF At
          <5>3. CASE j # m
            <6>1. k + 1 \in 1 .. m - 1 /\ j + 1 \in 1 .. m
                  /\ j + 1 = (IF k + 1 < i THEN k + 1 ELSE k + 1 + 1)
              BY <1>3, <3>1, <3>2, <4>2, <5>3
            <6>2. left[k + 1] = list[j + 1]
              BY <2>1, <6>1
            <6> QED BY <1>1, <2>1, <5>1, <6>1, <6>2 DEF At
          <5> QED BY <5>2, <5>3
        <4> QED BY <4>1, <4>2
      <3>7. rest.nodes[left[k]].prev = At(left, k - 1)
        <4>1. CASE j = i + 1
          <5>1. k = i
            BY <1>3, <3>1, <4>1
          <5>2. CASE i = 1
            BY <1>1, <1>3, <2>1, <3>2, <3>3, <3>5, <4>1, <5>1, <5>2 DEF At
          <5>3. CASE i # 1
            <6>1. k - 1 \in 1 .. m - 1 /\ i - 1 \in 1 .. m /\ k - 1 < i /\ k - 1 = i - 1
              BY <1>3, <5>1, <5>3
            <6>2. left[k - 1] = list[i - 1]
              BY <2>1, <6>1
            <6> QED BY <1>1, <1>3, <2>1, <3>2, <3>3, <3>5, <4>1, <6>1, <6>2 DEF At
          <5> QED BY <5>2, <5>3
        <4>2. CASE j # i + 1
          <5>1. rest.nodes[left[k]].prev = At(list, j - 1)
            BY <3>2, <3>3, <3>5, <4>2
          <5>2. CASE j = 1
            <6>1. k = 1
              BY <1>3, <3>1, <3>2, <5>2
            <6> QED BY <1>1, <2>1, <5>1, <5>2, <6>1 DEF At
          <5>3. CASE j # 1
            <6>1. k - 1 \in 1 .. m - 1 /\ j - 1 \in 1 .. m
                  /\ j - 1 = (IF k - 1 < i THEN k - 1 ELSE k - 1 + 1)
              BY <1>3, <3>1, <3>2, <4>2, <5>3
            <6>2. left[k - 1] = list[j - 1]
              BY <2>1, <6>1
            <6> QED BY <1>1, <2>1, <5>1, <6>1, <6>2 DEF At
          <5> QED BY <5>2, <5>3
        <4> QED BY <4>1, <4>2
      <3> QED BY <3>6, <3>7
    <2>4. rest.level.head = left[1] /\ rest.level.tail = left[m - 1]
      <3>1. level.head = list[1] /\ level.tail = list[m]
        BY <1>1 DEF LevelList
      <3>2. p = INVALID_IDX <=> i = 1
        BY <1>1, <1>2, <1>3 DEF At
      <3>3. n = INVALID_IDX <=> i = m
        BY <1>1, <1>2, <1>3 DEF At
      <3>4. left[1] = list[IF 1 < i THEN 1 ELSE 2]
        BY <2>1, <2>2
      <3>5. left[m - 1] = list[IF m - 1 < i THEN m - 1 ELSE m]
        BY <2>1, <2>2
      <3>6. i = 1 => n = list[2]
        BY <1>1, <1>3, <1>11 DEF At
      <3>7. i = m => p = list[m - 1]
        BY <1>1, <1>3, <1>11 DEF At
      <3>8. rest.level.head = left[1]
        BY <1>3, <3>1, <3>2, <3>4, <3>6
      <3>9. rest.level.tail = left[m - 1]
        BY <1>3, <3>1, <3>3, <3>5, <3>7
      <3> QED BY <3>8, <3>9
    <2>5. /\ rest.level.order_count = m - 1
          /\ rest.level \in [total_volume : 0 .. QuantityMod - 1, order_count : Nat,
                             head : DOMAIN ns, tail : DOMAIN ns]
      <3>1. level.order_count = m /\ level.total_volume \in Int
        BY <1>1 DEF LevelList
      <3>2. ns[idx].order.remaining \in Int
        BY DEF Order, Quantities
      <3>3. (level.total_volume - ns[idx].order.remaining) % QuantityMod \in 0 .. QuantityMod - 1
        BY <3>1, <3>2, OrderTypesAssumption
      <3>4. left[1] \in DOMAIN ns /\ left[m - 1] \in DOMAIN ns
        BY <2>1, <2>2
      <3> QED BY <1>3, <2>2, <2>4, <3>1, <3>3, <3>4
    <2>6. LevelList(rest.nodes, rest.level, left)
      BY <1>6, <2>1, <2>2, <2>3, <2>4, <2>5 DEF LevelList
    <2> QED BY <1>1, <1>7, <1>8, <1>9, <1>11, <2>6 DEF left
  <1> QED BY <1>10, <1>11

-----------------------------------------------------------------------------
(* The books after one level changed                                       *)

\* A side's map with another value for one level, or without the level when the
\* level's list is empty.
PutOrErase(map, s, key, value, list) ==
    [map EXCEPT ![s] = IF list = <<>> THEN MapErase(map[s], key) ELSE MapPut(map[s], key, value)]

\* One key of one side changes.
LEMMA SideStored ==
    ASSUME NEW map, DOMAIN map = Sides, NEW s \in Sides, NEW p, NEW value,
           NEW list, NEW after, after = PutOrErase(map, s, p, value, list)
    PROVE  /\ DOMAIN after = Sides /\ \A t \in Sides : t # s => after[t] = map[t]
           /\ list = <<>> => DOMAIN after[s] = DOMAIN map[s] \ {p}
           /\ list # <<>> => DOMAIN after[s] = DOMAIN map[s] \cup {p}
           /\ list # <<>> => after[s][p] = value
           /\ \A q \in DOMAIN map[s] : q # p => after[s][q] = map[s][q]
  <1>1. DOMAIN after = Sides /\ \A t \in Sides : t # s => after[t] = map[t]
    BY DEF PutOrErase
  <1>2. after[s] = IF list = <<>> THEN MapErase(map[s], p) ELSE MapPut(map[s], p, value)
    BY DEF PutOrErase
  <1>3. CASE list = <<>>
    BY <1>1, <1>2, <1>3 DEF MapErase
  <1>4. CASE list # <<>>
    BY <1>1, <1>2, <1>4 DEF MapPut
  <1> QED BY <1>3, <1>4

\* The list of another side or price.
Other(t, q, s, p) == t # s \/ q # p

\* Levels whose slots are untouched keep their lists when another is written.
LEMMA LevelStored ==
    ASSUME NEW ns, NEW after, NEW lv, NEW lists, LevelLists(ns, lv, lists),
           DOMAIN ns \subseteq DOMAIN after,
           NEW s \in Sides, NEW p \in Prices \ {0}, NEW level, NEW list,
           list # <<>> => LevelList(after, level, list),
           \A t \in Sides : \A q \in DOMAIN lists[t] : Other(t, q, s, p) =>
              \A k \in DOMAIN lists[t][q] :
                 /\ after[lists[t][q][k]].next = ns[lists[t][q][k]].next
                 /\ after[lists[t][q][k]].prev = ns[lists[t][q][k]].prev
    PROVE  LevelLists(after, PutOrErase(lv, s, p, level, list), PutOrErase(lists, s, p, list, list))
  <1> DEFINE lv2    == PutOrErase(lv, s, p, level, list)
             lists2 == PutOrErase(lists, s, p, list, list)
  <1>1. /\ DOMAIN lv = Sides /\ DOMAIN lists = Sides
        /\ \A t \in Sides : DOMAIN lv[t] \subseteq Prices \ {0} /\ DOMAIN lists[t] = DOMAIN lv[t]
        /\ \A t \in Sides : \A q \in DOMAIN lv[t] : LevelList(ns, lv[t][q], lists[t][q])
    BY DEF LevelLists
  <1>2. /\ DOMAIN lv2 = Sides /\ \A t \in Sides : t # s => lv2[t] = lv[t]
        /\ list = <<>> => DOMAIN lv2[s] = DOMAIN lv[s] \ {p}
        /\ list # <<>> => DOMAIN lv2[s] = DOMAIN lv[s] \cup {p}
        /\ list # <<>> => lv2[s][p] = level
        /\ \A q \in DOMAIN lv[s] : q # p => lv2[s][q] = lv[s][q]
    BY <1>1, SideStored
  <1>3. /\ DOMAIN lists2 = Sides /\ \A t \in Sides : t # s => lists2[t] = lists[t]
        /\ list = <<>> => DOMAIN lists2[s] = DOMAIN lists[s] \ {p}
        /\ list # <<>> => DOMAIN lists2[s] = DOMAIN lists[s] \cup {p}
        /\ list # <<>> => lists2[s][p] = list
        /\ \A q \in DOMAIN lists[s] : q # p => lists2[s][q] = lists[s][q]
    BY <1>1, SideStored
  <1> HIDE DEF lv2, lists2
  <1>4. \A t \in Sides : DOMAIN lv2[t] \subseteq Prices \ {0} /\ DOMAIN lists2[t] = DOMAIN lv2[t]
    BY <1>1, <1>2, <1>3
  <1>5. ASSUME NEW t \in Sides, NEW q \in DOMAIN lv2[t] PROVE LevelList(after, lv2[t][q], lists2[t][q])
    <2>1. CASE Other(t, q, s, p)
      <3>1. q \in DOMAIN lv[t] /\ q \in DOMAIN lists[t] /\ lv2[t][q] = lv[t][q] /\ lists2[t][q] = lists[t][q]
        <4>1. CASE t = s
          BY <1>1, <1>2, <1>3, <1>4, <1>5, <2>1, <4>1 DEF Other
        <4>2. CASE t # s
          BY <1>1, <1>2, <1>3, <1>5, <4>2
        <4> QED BY <4>1, <4>2
      <3>2. LevelList(ns, lv[t][q], lists[t][q])
        BY <1>1, <3>1
      <3>3. \A k \in DOMAIN lists[t][q] : /\ after[lists[t][q][k]].next = ns[lists[t][q][k]].next
                                          /\ after[lists[t][q][k]].prev = ns[lists[t][q][k]].prev
        BY <2>1, <3>1
      <3>4. LevelList(after, lv[t][q], lists[t][q])
        BY <3>2, <3>3, LevelFrame
      <3> QED BY <3>1, <3>4
    <2>2. CASE ~Other(t, q, s, p)
      <3>1. t = s /\ q = p
        BY <2>2 DEF Other
      <3>2. list # <<>> /\ lv2[t][q] = level /\ lists2[t][q] = list
        BY <1>2, <1>3, <1>4, <1>5, <3>1
      <3> QED BY <3>2
    <2> QED BY <2>1, <2>2
  <1>6. LevelLists(after, lv2, lists2)
    BY <1>2, <1>3, <1>4, <1>5 DEF LevelLists
  <1> QED BY <1>6 DEF lv2, lists2

\* The orders of the other lists are the same.
OthersKept(after, ns, lists, s, p) ==
    \A t \in Sides : \A q \in DOMAIN lists[t] : Other(t, q, s, p) =>
       \A k \in DOMAIN lists[t][q] : after[lists[t][q][k]].order = ns[lists[t][q][k]].order

\* So do the orders in them.
LEMMA QueuesStored ==
    ASSUME NEW ns, NEW after, NEW lists, DOMAIN lists = Sides,
           NEW s \in Sides, NEW p, NEW list,
           OthersKept(after, ns, lists, s, p)
    PROVE  QueuesOf(after, PutOrErase(lists, s, p, list, list))
              = PutOrErase(QueuesOf(ns, lists), s, p, Orders(after, list), list)
  <1> DEFINE lists2 == PutOrErase(lists, s, p, list, list)
             old    == QueuesOf(ns, lists)
             new    == PutOrErase(old, s, p, Orders(after, list), list)
  <1>1. /\ DOMAIN lists2 = Sides /\ \A t \in Sides : t # s => lists2[t] = lists[t]
        /\ list = <<>> => DOMAIN lists2[s] = DOMAIN lists[s] \ {p}
        /\ list # <<>> => DOMAIN lists2[s] = DOMAIN lists[s] \cup {p}
        /\ list # <<>> => lists2[s][p] = list
        /\ \A q \in DOMAIN lists[s] : q # p => lists2[s][q] = lists[s][q]
    BY SideStored
  <1>2. /\ DOMAIN old = Sides
        /\ \A t \in Sides : /\ DOMAIN old[t] = DOMAIN lists[t]
                            /\ old[t] = [q \in DOMAIN lists[t] |-> Orders(ns, lists[t][q])]
                            /\ \A q \in DOMAIN lists[t] : old[t][q] = Orders(ns, lists[t][q])
    BY DEF QueuesOf
  <1> HIDE DEF old, lists2
  <1>3. /\ DOMAIN new = Sides /\ \A t \in Sides : t # s => new[t] = old[t]
        /\ list = <<>> => DOMAIN new[s] = DOMAIN old[s] \ {p}
        /\ list # <<>> => DOMAIN new[s] = DOMAIN old[s] \cup {p}
        /\ list # <<>> => new[s][p] = Orders(after, list)
        /\ \A q \in DOMAIN old[s] : q # p => new[s][q] = old[s][q]
    BY <1>2, SideStored
  <1>4. new[s] = IF list = <<>> THEN MapErase(old[s], p) ELSE MapPut(old[s], p, Orders(after, list))
    BY <1>2 DEF PutOrErase
  <1>5. new = [t \in Sides |-> new[t]]
    BY <1>2 DEF PutOrErase
  <1> HIDE DEF new
  <1>6. ASSUME NEW t \in Sides, NEW q \in DOMAIN lists[t], Other(t, q, s, p)
        PROVE  Orders(after, lists[t][q]) = Orders(ns, lists[t][q])
    BY <1>6 DEF Orders, OthersKept
  <1>7. ASSUME NEW t \in Sides
        PROVE  new[t] = [q \in DOMAIN lists2[t] |-> Orders(after, lists2[t][q])]
    <2>1. CASE t # s
      <3>1. new[t] = [q \in DOMAIN lists[t] |-> Orders(ns, lists[t][q])] /\ lists2[t] = lists[t]
        BY <1>1, <1>2, <1>3, <2>1
      <3>2. \A q \in DOMAIN lists[t] : Orders(after, lists[t][q]) = Orders(ns, lists[t][q])
        BY <1>6, <2>1 DEF Other
      <3> QED BY <3>1, <3>2
    <2>2. CASE t = s
      <3>1. DOMAIN new[s] = DOMAIN lists2[s]
        BY <1>1, <1>2, <1>3
      <3>2. new[s] = [q \in DOMAIN new[s] |-> new[s][q]]
        BY <1>4 DEF MapErase, MapPut
      <3>3. ASSUME NEW q \in DOMAIN lists2[s] PROVE new[s][q] = Orders(after, lists2[s][q])
        <4>1. CASE q = p
          BY <1>1, <1>3, <3>1, <4>1
        <4>2. CASE q # p
          <5>1. q \in DOMAIN lists[s] /\ new[s][q] = old[s][q] /\ lists2[s][q] = lists[s][q]
            BY <1>1, <1>3, <3>1, <3>3, <4>2
          <5>2. Other(s, q, s, p)
            BY <4>2 DEF Other
          <5> QED BY <1>2, <1>6, <5>1, <5>2
        <4> QED BY <4>1, <4>2
      <3> QED BY <2>2, <3>1, <3>2, <3>3
    <2> QED BY <2>1, <2>2
  <1>8. new = QueuesOf(after, lists2)
    BY <1>1, <1>5, <1>7 DEF QueuesOf
  <1> QED BY <1>8 DEF new, old, lists2

-----------------------------------------------------------------------------
(* A resting order leaves the book                                         *)

\* No slot is in two lists, and none is both listed and free.
LEMMA ListsApart ==
    ASSUME NEW ns, NEW first, NEW lv, NEW ix, NEW free, NEW lists,
           Structure(ns, first, lv, ix, free, lists), Settled(ns, ix, lists),
           NEW s \in Sides, NEW p \in DOMAIN lists[s], NEW i \in DOMAIN lists[s][p]
    PROVE  /\ \A t \in Sides : \A q \in DOMAIN lists[t] : Other(t, q, s, p) =>
                 \A k \in DOMAIN lists[t][q] : lists[t][q][k] # lists[s][p][i]
           /\ lists[s][p][i] \in DOMAIN ns
           /\ \E id \in DOMAIN ix : ix[id] = lists[s][p][i] /\ id = ns[ix[id]].order.id
           /\ \A k \in DOMAIN free : free[k] # lists[s][p][i] /\ free[k] \in DOMAIN ns
  <1>1. \A t \in Sides : \A q \in DOMAIN lists[t] : \A k \in DOMAIN lists[t][q] :
           ns[lists[t][q][k]].order.side = t /\ ns[lists[t][q][k]].order.price = q
    BY DEF Settled
  <1>2. PICK id \in DOMAIN ix : ix[id] = lists[s][p][i]
    BY DEF Structure, Indexed
  <1>3. ix[id] \in DOMAIN ns /\ ns[ix[id]].order.id = id
    BY DEF Structure, Indexed
  <1>4. free \in Seq(DOMAIN ns) /\ \A k \in DOMAIN free : free[k] \in DOMAIN ns
    BY DEF Structure, FreeList
  <1>5. \A k \in DOMAIN free : free[k] # ix[id]
    BY <1>3, <1>4 DEF Structure, Divided, Range
  <1> QED BY <1>1, <1>2, <1>3, <1>4, <1>5 DEF Other

\* free_node: a slot in front of the free list.
LEMMA FreePushed ==
    ASSUME NEW ns, NEW after, NEW first, NEW free, FreeList(ns, first, free),
           DOMAIN after = DOMAIN ns, NEW idx \in DOMAIN ns,
           \A k \in DOMAIN free : free[k] # idx /\ after[free[k]].next = ns[free[k]].next,
           after[idx].next = first
    PROVE  /\ FreeList(after, idx, <<idx>> \o free)
           /\ Range(<<idx>> \o free) = Range(free) \cup {idx}
  <1> DEFINE more == <<idx>> \o free
  <1>1. PICK n \in Nat : n = Len(free) /\ DOMAIN free = 1 .. n /\ free \in Seq(DOMAIN ns)
    BY DEF FreeList
  <1>2. /\ more \in Seq(DOMAIN ns) /\ DOMAIN more = 1 .. n + 1 /\ more[1] = idx
        /\ \A k \in 1 .. n : more[k + 1] = free[k]
    BY <1>1
  <1>3. /\ \A j, k \in 1 .. n : free[j] = free[k] => j = k
        /\ first = At(free, 1)
        /\ \A k \in 1 .. n : ns[free[k]].next = At(free, k + 1)
    BY <1>1 DEF FreeList, IsInjective
  <1> HIDE DEF more
  <1>4. \A k \in 2 .. n + 1 : k - 1 \in 1 .. n /\ more[k] = free[k - 1]
    <2>1. ASSUME NEW k \in 2 .. n + 1 PROVE k - 1 \in 1 .. n /\ more[k] = free[k - 1]
      <3>1. PICK j \in 1 .. n : j = k - 1 /\ k = j + 1
        BY <1>1
      <3> QED BY <1>2, <3>1
    <2> QED BY <2>1
  <1>5. IsInjective(more)
    <2>1. ASSUME NEW j \in 1 .. n + 1, NEW k \in 1 .. n + 1, more[j] = more[k] PROVE j = k
      <3>0. \A m \in 2 .. n + 1 : more[m] # idx
        BY <1>1, <1>4
      <3>1. CASE j = 1
        <4>1. more[k] = idx
          BY <1>2, <2>1, <3>1
        <4>2. k \notin 2 .. n + 1
          BY <3>0, <4>1
        <4> QED BY <1>1, <3>1, <4>2
      <3>2. CASE j # 1
        <4>1. j \in 2 .. n + 1
          BY <1>1, <3>2
        <4>2. k # 1
          BY <1>2, <2>1, <3>0, <4>1
        <4>3. k \in 2 .. n + 1
          BY <1>1, <4>2
        <4>4. PICK x \in 1 .. n : x = j - 1 /\ more[j] = free[x]
          BY <1>4, <4>1
        <4>5. PICK y \in 1 .. n : y = k - 1 /\ more[k] = free[y]
          BY <1>4, <4>3
        <4>6. x = y
          BY <1>3, <2>1, <4>4, <4>5
        <4> QED BY <1>1, <4>4, <4>5, <4>6
      <3> QED BY <3>1, <3>2
    <2> QED BY <1>2, <2>1 DEF IsInjective
  <1>6. \A k \in 0 .. n : At(more, k + 2) = At(free, k + 1)
    <2>1. ASSUME NEW k \in 0 .. n PROVE At(more, k + 2) = At(free, k + 1)
      <3>1. CASE k = n
        BY <1>1, <1>2, <3>1 DEF At
      <3>2. CASE k # n
        <4>1. k + 1 \in 1 .. n /\ k + 2 = (k + 1) + 1 /\ k + 2 \in 1 .. n + 1
          BY <1>1, <3>2
        <4> QED BY <1>1, <1>2, <4>1 DEF At
      <3> QED BY <3>1, <3>2
    <2> QED BY <2>1
  <1>7. ASSUME NEW k \in 1 .. n + 1 PROVE after[more[k]].next = At(more, k + 1)
    <2>1. CASE k = 1
      <3>1. At(more, 2) = At(free, 1)
        BY <1>1, <1>6
      <3> QED BY <1>2, <1>3, <2>1, <3>1
    <2>2. CASE k # 1
      <3>1. PICK j \in 1 .. n : j = k - 1 /\ k + 1 = j + 2 /\ k \in 2 .. n + 1
        BY <1>1, <2>2
      <3>2. more[k] = free[j]
        BY <1>4, <3>1
      <3>3. after[more[k]].next = At(free, j + 1)
        BY <1>1, <1>3, <3>2
      <3> QED BY <1>1, <1>6, <3>1, <3>3
    <2> QED BY <2>1, <2>2
  <1>8. idx = At(more, 1)
    BY <1>1, <1>2 DEF At
  <1>9. FreeList(after, idx, more)
    BY <1>2, <1>5, <1>7, <1>8 DEF FreeList
  <1>10. Range(more) = Range(free) \cup {idx}
    <2>1. \A x \in Range(more) : x \in Range(free) \cup {idx}
      <3>1. ASSUME NEW k \in 1 .. n + 1 PROVE more[k] \in Range(free) \cup {idx}
        <4>1. CASE k = 1
          BY <1>2, <4>1
        <4>2. CASE k # 1
          <5>1. k \in 2 .. n + 1
            BY <1>1, <4>2
          <5> QED BY <1>1, <1>4, <5>1 DEF Range
        <4> QED BY <4>1, <4>2
      <3> QED BY <1>2, <3>1 DEF Range
    <2>2. idx \in Range(more)
      BY <1>1, <1>2 DEF Range
    <2>3. \A k \in 1 .. n : free[k] \in Range(more)
      <3>1. \A k \in 1 .. n : k + 1 \in 1 .. n + 1
        BY <1>1
      <3> QED BY <1>2, <3>1 DEF Range
    <2> QED BY <1>1, <2>1, <2>2, <2>3 DEF Range
  <1> QED BY <1>9, <1>10 DEF more

\* free_node, for any free list
Freed(ns, idx, first) == [ns EXCEPT ![idx].prev = INVALID_IDX, ![idx].next = first]

OneFreed(after, ns, D, idx, first) ==
    /\ DOMAIN after = D /\ after \in [D -> Node(D)]
    /\ after[idx].next = first /\ after[idx].order = ns[idx].order
    /\ \A j \in D : j # idx => after[j] = ns[j]

\* A node with both links set.
LEMMA NodeRelinked ==
    ASSUME NEW D, NEW node \in Node(D), NEW p, NEW n
    PROVE  [node EXCEPT !.prev = p, !.next = n] = [order |-> node.order, prev |-> p, next |-> n]
  <1>1. node = [order |-> node.order, prev |-> node.prev, next |-> node.next]
    BY DEF Node
  <1>2. PICK new : new = [node EXCEPT !.prev = p, !.next = n]
    OBVIOUS
  <1>3. new = [order |-> node.order, prev |-> p, next |-> n]
    BY <1>1, <1>2
  <1> QED BY <1>2, <1>3

\* free_node changes one slot.
LEMMA NodeFreed ==
    ASSUME NEW D, NEW ns \in [D -> Node(D)], NEW idx \in D, NEW first \in D \cup {INVALID_IDX}
    PROVE  OneFreed(Freed(ns, idx, first), ns, D, idx, first)
  <1> DEFINE new == [order |-> ns[idx].order, prev |-> INVALID_IDX, next |-> first]
  <1>1. ns[idx] \in Node(D)
    OBVIOUS
  <1>2. [ns[idx] EXCEPT !.prev = INVALID_IDX, !.next = first] = new
    BY <1>1, NodeRelinked
  <1>3. Freed(ns, idx, first) = [ns EXCEPT ![idx] = new]
    BY <1>2 DEF Freed
  <1>4. new \in Node(D) /\ new.next = first /\ new.order = ns[idx].order
    BY <1>1 DEF Node
  <1> HIDE DEF new
  <1> QED BY <1>3, <1>4 DEF OneFreed

\* No entry is lost but the one that is dropped.
LEMMA DropEntries ==
    ASSUME NEW S, NEW list \in Seq(S), IsInjective(list), NEW i \in DOMAIN list
    PROVE  /\ Drop(list, i) \in Seq(S) /\ Len(Drop(list, i)) = Len(list) - 1
           /\ \A k \in DOMAIN Drop(list, i) : /\ Drop(list, i)[k] # list[i]
                                              /\ \E j \in DOMAIN list : Drop(list, i)[k] = list[j]
  <1>1. Drop(list, i) \in Seq(S) /\ Len(Drop(list, i)) = Len(list) - 1
    BY DropFacts
  <1>2. ASSUME NEW k \in DOMAIN Drop(list, i)
        PROVE  /\ Drop(list, i)[k] # list[i]
               /\ \E j \in DOMAIN list : Drop(list, i)[k] = list[j]
    <2>1. PICK j : j = IF k < i THEN k ELSE k + 1
      OBVIOUS
    <2>2. j \in DOMAIN list /\ Drop(list, i)[k] = list[j] /\ Drop(list, i)[k] # list[i]
      BY <2>1, DropFacts
    <2> QED BY <2>2
  <1> QED BY <1>1, <1>2

\* The orders of the shorter list.
LEMMA OrdersDropped ==
    ASSUME NEW D, NEW ns, NEW after, NEW list \in Seq(D), IsInjective(list), NEW i \in DOMAIN list,
           \A j \in D : j # list[i] => after[j].order = ns[j].order
    PROVE  Orders(after, Drop(list, i)) = Drop(Orders(ns, list), i)
  <1> DEFINE old(k) == IF k < i THEN k ELSE k + 1
  <1>1. PICK n \in Nat : n = Len(list) /\ DOMAIN list = 1 .. n
    OBVIOUS
  <1>2. /\ DOMAIN Drop(list, i) = 1 .. n - 1
        /\ \A k \in 1 .. n - 1 : /\ old(k) \in 1 .. n /\ Drop(list, i)[k] = list[old(k)]
                                 /\ list[old(k)] # list[i] /\ list[old(k)] \in D
    <2>1. /\ DOMAIN Drop(list, i) = 1 .. Len(list) - 1
          /\ \A k \in DOMAIN Drop(list, i) :
                /\ (IF k < i THEN k ELSE k + 1) \in DOMAIN list
                /\ Drop(list, i)[k] = list[IF k < i THEN k ELSE k + 1]
                /\ Drop(list, i)[k] # list[i]
      BY DropFacts
    <2> QED BY <1>1, <2>1
  <1>3. \A k \in 1 .. n - 1 : after[Drop(list, i)[k]].order = ns[list[old(k)]].order
    BY <1>2
  <1>4. Orders(after, Drop(list, i)) = [k \in 1 .. n - 1 |-> ns[list[old(k)]].order]
    <2>1. Orders(after, Drop(list, i)) = [k \in 1 .. n - 1 |-> after[Drop(list, i)[k]].order]
      BY <1>2 DEF Orders
    <2> QED BY <1>3, <2>1
  <1>5. Drop(Orders(ns, list), i) = [k \in 1 .. n - 1 |-> ns[list[old(k)]].order]
    <2>1. /\ DOMAIN Orders(ns, list) = 1 .. n /\ Len(Orders(ns, list)) = n
          /\ \A k \in 1 .. n : Orders(ns, list)[k] = ns[list[k]].order
      BY <1>1 DEF Orders
    <2>2. Drop(Orders(ns, list), i) = [k \in 1 .. n - 1 |-> Orders(ns, list)[old(k)]]
      BY <2>1 DEF Drop
    <2>3. \A k \in 1 .. n - 1 : Orders(ns, list)[old(k)] = ns[list[old(k)]].order
      BY <1>2, <2>1
    <2> QED BY <2>2, <2>3
  <1> QED BY <1>4, <1>5

\* The list and the level without a slot.
Unlinked(linked, shorter, ns, D, list, i) ==
    /\ linked \in [D -> Node(D)]
    /\ \A j \in D : linked[j].order = ns[j].order
    /\ \A j \in D : (\A k \in DOMAIN list : list[k] # j) => linked[j] = ns[j]
    /\ Len(list) = 1 => shorter.head = INVALID_IDX
    /\ Len(list) # 1 => LevelList(linked, shorter, Drop(list, i))

\* What is left of the list when a slot is unlinked and freed.
LEMMA SlotFreed ==
    ASSUME NEW D, NEW ns \in [D -> Node(D)], INVALID_IDX \notin D,
           NEW list \in Seq(D), IsInjective(list), NEW i \in DOMAIN list,
           NEW linked, NEW shorter, Unlinked(linked, shorter, ns, D, list, i),
           NEW first, NEW after, OneFreed(after, linked, D, list[i], first)
    PROVE  /\ DOMAIN after = D /\ after \in [D -> Node(D)]
           /\ after[list[i]].next = first
           /\ \A j \in D : after[j].order = ns[j].order
           /\ \A j \in D : (\A k \in DOMAIN list : list[k] # j) => after[j] = ns[j]
           /\ shorter.head = INVALID_IDX <=> Drop(list, i) = <<>>
           /\ Drop(list, i) # <<>> => LevelList(after, shorter, Drop(list, i))
  <1>1. /\ linked \in [D -> Node(D)]
        /\ \A j \in D : linked[j].order = ns[j].order
        /\ \A j \in D : (\A k \in DOMAIN list : list[k] # j) => linked[j] = ns[j]
        /\ Len(list) = 1 => shorter.head = INVALID_IDX
        /\ Len(list) # 1 => LevelList(linked, shorter, Drop(list, i))
    BY DEF Unlinked
  <1>2. /\ DOMAIN after = D /\ after \in [D -> Node(D)]
        /\ after[list[i]].next = first /\ after[list[i]].order = linked[list[i]].order
        /\ \A j \in D : j # list[i] => after[j] = linked[j]
    BY DEF OneFreed
  <1>3. \A j \in D : after[j].order = ns[j].order
    BY <1>1, <1>2
  <1>4. \A j \in D : (\A k \in DOMAIN list : list[k] # j) => after[j] = ns[j]
    BY <1>1, <1>2
  <1>5. /\ Drop(list, i) \in Seq(D) /\ Len(Drop(list, i)) = Len(list) - 1
        /\ \A k \in DOMAIN Drop(list, i) : Drop(list, i)[k] # list[i]
    BY DropEntries
  <1>6. CASE Len(list) = 1
    <2>1. Drop(list, i) = <<>>
      BY <1>5, <1>6
    <2> QED BY <1>1, <1>2, <1>3, <1>4, <1>6, <2>1
  <1>7. CASE Len(list) # 1
    <2> DEFINE left == Drop(list, i)
    <2> HIDE DEF left
    <2>1. left \in Seq(D) /\ \A k \in DOMAIN left : left[k] \in D /\ left[k] # list[i]
      BY <1>5 DEF left
    <2>2. LevelList(linked, shorter, left) /\ DOMAIN linked = D
      BY <1>1, <1>7 DEF left
    <2>3. shorter.head \in DOMAIN linked /\ left # <<>>
      BY <2>2 DEF LevelList
    <2>4. \A k \in DOMAIN left : /\ after[left[k]].next = linked[left[k]].next
                                 /\ after[left[k]].prev = linked[left[k]].prev
      BY <1>2, <2>1
    <2>5. DOMAIN linked \subseteq DOMAIN after
      BY <1>2, <2>2
    <2>6. LevelList(after, shorter, left)
      BY <2>2, <2>4, <2>5, LevelFrame
    <2>7. shorter.head # INVALID_IDX
      BY <2>2, <2>3
    <2> QED BY <1>2, <1>3, <1>4, <2>3, <2>6, <2>7 DEF left
  <1> QED BY <1>6, <1>7

\* The orders of all slots but one are the same.
SameButOne(after, ns, idx) == \A j \in DOMAIN ns : j # idx => after[j].order = ns[j].order

\* The index has the slots of the lists, and one that is in none of them.
IndexHas(ix, idx, lists) ==
    \A t \in Sides : \A q \in DOMAIN lists[t] : \A k \in DOMAIN lists[t][q] :
       lists[t][q][k] # idx /\ \E key \in DOMAIN ix : ix[key] = lists[t][q][k]

\* The index without an id.
IndexWithout(after, ns, ix, id, rest) ==
    /\ Indexed(after, MapErase(ix, id), rest)
    /\ Range(MapErase(ix, id)) = Range(ix) \ {ix[id]}
    /\ LocationsOf(after, MapErase(ix, id)) = MapErase(LocationsOf(ns, ix), id)

\* order_index_.erase leaves every other order to be found.
LEMMA IndexShrunk ==
    ASSUME NEW ns, NEW after, NEW ix, NEW lists, NEW rest, Indexed(ns, ix, lists),
           DOMAIN after = DOMAIN ns, NEW id \in DOMAIN ix,
           SameButOne(after, ns, ix[id]), IndexHas(ix, ix[id], rest)
    PROVE  IndexWithout(after, ns, ix, id, rest)
  <1> DEFINE ix2 == MapErase(ix, id)
  <1>1. DOMAIN ix2 = DOMAIN ix \ {id} /\ \A key \in DOMAIN ix2 : ix2[key] = ix[key]
    BY DEF MapErase
  <1> HIDE DEF ix2
  <1>2. \A key \in DOMAIN ix : /\ ix[key] \in DOMAIN ns /\ ns[ix[key]].order \in Order
                               /\ ns[ix[key]].order.id = key /\ key \in OrderIds
    BY DEF Indexed
  <1>3. \A key \in DOMAIN ix2 : ix[key] # ix[id]
    BY <1>1, <1>2
  <1>4. \A key \in DOMAIN ix2 : after[ix2[key]].order = ns[ix[key]].order
    BY <1>1, <1>2, <1>3 DEF SameButOne
  <1>5. Indexed(after, ix2, rest)
    <2>1. DOMAIN ix2 \subseteq OrderIds
      BY <1>1, <1>2
    <2>2. \A key \in DOMAIN ix2 : /\ ix2[key] \in DOMAIN after
                                  /\ after[ix2[key]].order \in Order
                                  /\ after[ix2[key]].order.id = key
      BY <1>1, <1>2, <1>4
    <2>3. ASSUME NEW t \in Sides, NEW q \in DOMAIN rest[t], NEW k \in DOMAIN rest[t][q]
          PROVE  \E key \in DOMAIN ix2 : ix2[key] = rest[t][q][k]
      BY <1>1 DEF IndexHas
    <2> QED BY <2>1, <2>2, <2>3 DEF Indexed
  <1>6. Range(ix2) = Range(ix) \ {ix[id]}
    BY <1>1, <1>3 DEF Range
  <1>7. LocationsOf(after, ix2) = MapErase(LocationsOf(ns, ix), id)
    <2>1. LocationsOf(after, ix2)
             = [key \in DOMAIN ix \ {id} |-> [side |-> ns[ix[key]].order.side, price |-> ns[ix[key]].order.price]]
      BY <1>1, <1>4 DEF LocationsOf
    <2>2. /\ DOMAIN LocationsOf(ns, ix) = DOMAIN ix
          /\ \A key \in DOMAIN ix : LocationsOf(ns, ix)[key]
                = [side |-> ns[ix[key]].order.side, price |-> ns[ix[key]].order.price]
      BY DEF LocationsOf
    <2>3. MapErase(LocationsOf(ns, ix), id) = [key \in DOMAIN ix \ {id} |-> LocationsOf(ns, ix)[key]]
      BY <2>2 DEF MapErase
    <2> QED BY <2>1, <2>2, <2>3
  <1> QED BY <1>5, <1>6, <1>7 DEF ix2, IndexWithout

\* Only the order in slot idx may differ.
LinksKept(filled, ns, idx) ==
    \A j \in DOMAIN ns : /\ filled[j].next = ns[j].next /\ filled[j].prev = ns[j].prev
                         /\ j # idx => filled[j] = ns[j]

\* The pool and the book without the slot at place i of a list.
Released(after, shorter, ns, lv, ix, free, lists, s, p, i, id) ==
    LET left == Drop(lists[s][p], i)
    IN  /\ shorter.head = INVALID_IDX <=> left = <<>>
        /\ Structure(after, ix[id], PutOrErase(lv, s, p, shorter, left), MapErase(ix, id),
                     <<ix[id]>> \o free, PutOrErase(lists, s, p, left, left))
        /\ QueuesOf(after, PutOrErase(lists, s, p, left, left))
              = PutOrErase(QueuesOf(ns, lists), s, p, Drop(Orders(ns, lists[s][p]), i), left)
        /\ LocationsOf(after, MapErase(ix, id)) = MapErase(LocationsOf(ns, ix), id)

\* An order of a list leaves the book: its slot, whose order may have been filled
\* first, is unlinked and freed.
LEMMA NodeReleased ==
    ASSUME NEW ns, NEW first, NEW lv, NEW ix, NEW free, NEW lists,
           Structure(ns, first, lv, ix, free, lists), Settled(ns, ix, lists),
           NEW s \in Sides, NEW p \in DOMAIN lists[s], NEW i \in DOMAIN lists[s][p],
           NEW id \in DOMAIN ix, ix[id] = lists[s][p][i],
           NEW filled \in [DOMAIN ns -> Node(DOMAIN ns)], LinksKept(filled, ns, ix[id]),
           NEW linked, NEW shorter,
           Unlinked(linked, shorter, filled, DOMAIN ns, lists[s][p], i),
           NEW after, OneFreed(after, linked, DOMAIN ns, ix[id], first)
    PROVE  Released(after, shorter, ns, lv, ix, free, lists, s, p, i, id)
  <1> DEFINE D    == DOMAIN ns
             left == Drop(lists[s][p], i)
             rest == PutOrErase(lists, s, p, left, left)
  <1>1. /\ Shape(ns) /\ INVALID_IDX \notin D
        /\ \E size \in Nat : D = 0 .. size - 1
    BY ShapeFacts DEF Structure
  <1>2. /\ DOMAIN lv = Sides /\ DOMAIN lists = Sides /\ p \in Prices \ {0}
        /\ lists[s][p] \in Seq(D) /\ IsInjective(lists[s][p])
        /\ \A t \in Sides : \A q \in DOMAIN lists[t] : \A k \in DOMAIN lists[t][q] : lists[t][q][k] \in D
    BY DEF Structure, LevelLists, LevelList
  <1>3. /\ \A t \in Sides : \A q \in DOMAIN lists[t] : Other(t, q, s, p) =>
              \A k \in DOMAIN lists[t][q], j \in DOMAIN lists[s][p] : lists[t][q][k] # lists[s][p][j]
        /\ \A k \in DOMAIN free : free[k] \in D /\ \A j \in DOMAIN lists[s][p] : free[k] # lists[s][p][j]
        /\ ix[id] \in D
    <2>1. ASSUME NEW j \in DOMAIN lists[s][p]
          PROVE  /\ \A t \in Sides : \A q \in DOMAIN lists[t] : Other(t, q, s, p) =>
                       \A k \in DOMAIN lists[t][q] : lists[t][q][k] # lists[s][p][j]
                 /\ \A k \in DOMAIN free : free[k] # lists[s][p][j] /\ free[k] \in DOMAIN ns
      BY ListsApart
    <2>2. ix[id] \in D
      BY DEF Structure, Indexed
    <2> QED BY <2>1, <2>2
  <1>4. /\ DOMAIN after = D /\ after \in [D -> Node(D)]
        /\ after[lists[s][p][i]].next = first
        /\ \A j \in D : after[j].order = filled[j].order
        /\ \A j \in D : (\A k \in DOMAIN lists[s][p] : lists[s][p][k] # j) => after[j] = filled[j]
        /\ shorter.head = INVALID_IDX <=> left = <<>>
        /\ left # <<>> => LevelList(after, shorter, left)
    <2>1. OneFreed(after, linked, D, lists[s][p][i], first)
      OBVIOUS
    <2> QED BY <1>1, <1>2, <2>1, SlotFreed
  <1>5. /\ left \in Seq(D)
        /\ \A k \in DOMAIN left : left[k] # ix[id] /\ \E j \in DOMAIN lists[s][p] : left[k] = lists[s][p][j]
    BY <1>2, DropEntries
  <1>6. \A j \in D : (\A k \in DOMAIN lists[s][p] : lists[s][p][k] # j) => after[j] = ns[j]
    BY <1>4 DEF LinksKept
  <1>7. \A j \in D : j # ix[id] => after[j].order = ns[j].order
    BY <1>4 DEF LinksKept
  <1> HIDE DEF left
  <1>8. Shape(after)
    BY <1>1, <1>4 DEF Shape
  <1>9. /\ FreeList(after, ix[id], <<ix[id]>> \o free)
        /\ Range(<<ix[id]>> \o free) = Range(free) \cup {ix[id]}
    <2>1. \A k \in DOMAIN free : free[k] # ix[id] /\ after[free[k]].next = ns[free[k]].next
      BY <1>3, <1>6
    <2>2. FreeList(ns, first, free) /\ after[ix[id]].next = first /\ DOMAIN after = DOMAIN ns
      BY <1>4 DEF Structure
    <2> QED BY <1>3, <2>1, <2>2, FreePushed
  <1>10. LevelLists(after, PutOrErase(lv, s, p, shorter, left), rest)
    <2>1. \A t \in Sides : \A q \in DOMAIN lists[t] : Other(t, q, s, p) =>
              \A k \in DOMAIN lists[t][q] :
                 /\ after[lists[t][q][k]].next = ns[lists[t][q][k]].next
                 /\ after[lists[t][q][k]].prev = ns[lists[t][q][k]].prev
      BY <1>2, <1>3, <1>6
    <2>2. LevelLists(ns, lv, lists) /\ DOMAIN ns \subseteq DOMAIN after
      BY <1>4 DEF Structure
    <2>3. left # <<>> => LevelList(after, shorter, left)
      BY <1>4
    <2> QED BY <1>2, <2>1, <2>2, <2>3, LevelStored
  <1>11. /\ Indexed(after, MapErase(ix, id), rest)
         /\ Range(MapErase(ix, id)) = Range(ix) \ {ix[id]}
         /\ LocationsOf(after, MapErase(ix, id)) = MapErase(LocationsOf(ns, ix), id)
    <2>1. /\ DOMAIN rest = Sides /\ \A t \in Sides : t # s => rest[t] = lists[t]
          /\ left = <<>> => DOMAIN rest[s] = DOMAIN lists[s] \ {p}
          /\ left # <<>> => DOMAIN rest[s] = DOMAIN lists[s] \cup {p}
          /\ left # <<>> => rest[s][p] = left
          /\ \A q \in DOMAIN lists[s] : q # p => rest[s][q] = lists[s][q]
      BY <1>2, SideStored
    <2> HIDE DEF rest
    <2>2. \A t \in Sides : \A q \in DOMAIN lists[t] : \A k \in DOMAIN lists[t][q] :
             \E key \in DOMAIN ix : ix[key] = lists[t][q][k]
      BY DEF Structure, Indexed
    <2>3. ASSUME NEW t \in Sides, NEW q \in DOMAIN rest[t], NEW k \in DOMAIN rest[t][q]
          PROVE  rest[t][q][k] # ix[id] /\ \E key \in DOMAIN ix : ix[key] = rest[t][q][k]
      <3>1. CASE Other(t, q, s, p)
        <4>1. q \in DOMAIN lists[t] /\ rest[t][q] = lists[t][q]
          <5>1. CASE t = s
            BY <2>1, <2>3, <3>1, <5>1 DEF Other
          <5>2. CASE t # s
            BY <2>1, <2>3, <5>2
          <5> QED BY <5>1, <5>2
        <4> QED BY <1>3, <2>2, <2>3, <3>1, <4>1
      <3>2. CASE ~Other(t, q, s, p)
        <4>1. t = s /\ q = p /\ rest[t][q] = left
          BY <2>1, <2>3, <3>2 DEF Other
        <4>2. PICK j \in DOMAIN lists[s][p] : left[k] = lists[s][p][j]
          BY <1>5, <2>3, <4>1
        <4> QED BY <1>5, <2>2, <2>3, <4>1, <4>2
      <3> QED BY <3>1, <3>2
    <2>4. Indexed(ns, ix, lists)
      BY DEF Structure
    <2>5. DOMAIN after = DOMAIN ns /\ SameButOne(after, ns, ix[id]) /\ IndexHas(ix, ix[id], rest)
      BY <1>4, <1>7, <2>3 DEF SameButOne, IndexHas
    <2>6. IndexWithout(after, ns, ix, id, rest)
      BY <2>4, <2>5, IndexShrunk
    <2> QED BY <2>6 DEF IndexWithout
  <1>12. Divided(after, MapErase(ix, id), <<ix[id]>> \o free)
    <2>1. \A j \in DOMAIN ns : j \in Range(free) <=> j \notin Range(ix)
      BY DEF Structure, Divided
    <2>2. \A j \in DOMAIN ns : j \in Range(free) \cup {ix[id]} <=> j \notin Range(ix) \ {ix[id]}
      BY <2>1
    <2> QED BY <1>4, <1>9, <1>11, <2>2 DEF Divided
  <1>13. Structure(after, ix[id], PutOrErase(lv, s, p, shorter, left), MapErase(ix, id),
                   <<ix[id]>> \o free, rest)
    BY <1>8, <1>9, <1>10, <1>11, <1>12 DEF Structure
  <1>14. QueuesOf(after, rest) = PutOrErase(QueuesOf(ns, lists), s, p, Drop(Orders(ns, lists[s][p]), i), left)
    <2>1. OthersKept(after, ns, lists, s, p)
      BY <1>2, <1>3, <1>6 DEF OthersKept
    <2>2. QueuesOf(after, rest) = PutOrErase(QueuesOf(ns, lists), s, p, Orders(after, left), left)
      <3> HIDE DEF rest
      <3>1. DOMAIN lists = Sides
        BY <1>2
      <3>2. QueuesOf(after, PutOrErase(lists, s, p, left, left))
               = PutOrErase(QueuesOf(ns, lists), s, p, Orders(after, left), left)
        BY <2>1, <3>1, QueuesStored
      <3> QED BY <3>2 DEF rest
    <2>3. Orders(after, left) = Drop(Orders(ns, lists[s][p]), i)
      <3>1. \A j \in D : j # lists[s][p][i] => after[j].order = ns[j].order
        BY <1>7
      <3>2. Orders(after, Drop(lists[s][p], i)) = Drop(Orders(ns, lists[s][p]), i)
        BY <1>2, <3>1, OrdersDropped
      <3> QED BY <3>2 DEF left
    <2> QED BY <2>2, <2>3
  <1> QED BY <1>4, <1>11, <1>13, <1>14 DEF left, Released

-----------------------------------------------------------------------------
(* A slot is taken from the pool                                           *)

\* The slots from m on, in the order in which the loop chains them.
Fresh(m, n) == [k \in 1 .. n - m |-> m + k - 1]

\* The slots from m on, below n.
LEMMA FreshSlots ==
    ASSUME NEW n \in Nat, NEW m \in 0 .. n
    PROVE  /\ Fresh(m, n) \in Seq(0 .. n - 1) /\ IsInjective(Fresh(m, n))
           /\ Range(Fresh(m, n)) = m .. n - 1
           /\ \A k \in 1 .. n - m : Fresh(m, n)[k] = m + k - 1
           /\ DOMAIN Fresh(m, n) = 1 .. n - m
  <1>1. PICK c \in Nat : c = n - m /\ n = m + c
    OBVIOUS
  <1>2. DOMAIN Fresh(m, n) = 1 .. c /\ \A k \in 1 .. c : Fresh(m, n)[k] = m + k - 1
    BY <1>1 DEF Fresh
  <1>3. \A k \in 1 .. c : m + k - 1 \in 0 .. n - 1 /\ m + k - 1 \in m .. n - 1
    BY <1>1
  <1>4. Fresh(m, n) \in [1 .. c -> 0 .. n - 1]
    BY <1>1, <1>3 DEF Fresh
  <1>5. IsInjective(Fresh(m, n))
    BY <1>1, <1>2 DEF IsInjective
  <1>6. Range(Fresh(m, n)) = m .. n - 1
    <2>1. ASSUME NEW x \in m .. n - 1 PROVE \E k \in 1 .. c : Fresh(m, n)[k] = x
      <3>1. x - m + 1 \in 1 .. c /\ m + (x - m + 1) - 1 = x
        BY <1>1
      <3> QED BY <1>2, <3>1
    <2>2. \A k \in DOMAIN Fresh(m, n) : Fresh(m, n)[k] \in m .. n - 1
      BY <1>2, <1>3
    <2>3. \A x \in m .. n - 1 : \E k \in DOMAIN Fresh(m, n) : Fresh(m, n)[k] = x
      BY <1>2, <2>1
    <2> HIDE DEF Fresh
    <2> QED BY <2>2, <2>3, Zenon DEF Range
  <1> QED BY <1>1, <1>2, <1>4, <1>5, <1>6

\* The loop that chains slots, for a pool of n slots.
LEMMA SlotsRelinked ==
    ASSUME NEW n \in Nat, NEW m \in 0 .. n, NEW ns \in [0 .. n - 1 -> Node(0 .. n - 1)],
           NEW after, after = Relinked(ns, m)
    PROVE  /\ after \in [0 .. n - 1 -> Node(0 .. n - 1)]
           /\ \A i \in 0 .. n - 1 : after[i].order = ns[i].order
           /\ \A i \in 0 .. m - 1 : after[i] = ns[i]
           /\ FreeList(after, IF m < n THEN m ELSE INVALID_IDX, Fresh(m, n))
  <1> DEFINE D == 0 .. n - 1
             follows(i) == IF i + 1 \in D THEN i + 1 ELSE INVALID_IDX
  <1>1. DOMAIN ns = D /\ DOMAIN after = D
    BY DEF Relinked
  <1>2. ASSUME NEW i \in D
        PROVE  /\ after[i] \in Node(D) /\ after[i].order = ns[i].order
               /\ i < m => after[i] = ns[i]
               /\ ~(i < m) => after[i].next = follows(i)
    <2>1. ns[i] \in Node(D)
      OBVIOUS
    <2>2. after[i] = IF i < m THEN ns[i]
                     ELSE [ns[i] EXCEPT !.prev = INVALID_IDX, !.next = follows(i)]
      BY <1>1 DEF Relinked
    <2>3. [ns[i] EXCEPT !.prev = INVALID_IDX, !.next = follows(i)]
             = [order |-> ns[i].order, prev |-> INVALID_IDX, next |-> follows(i)]
      BY <2>1, NodeRelinked
    <2>4. follows(i) \in D \cup {INVALID_IDX}
      OBVIOUS
    <2> HIDE DEF follows
    <2>5. [order |-> ns[i].order, prev |-> INVALID_IDX, next |-> follows(i)] \in Node(D)
      BY <2>1, <2>4 DEF Node
    <2> QED BY <2>1, <2>2, <2>3, <2>5
  <1>3. after \in [D -> Node(D)]
    <2>1. after = [i \in D |-> after[i]]
      BY <1>1 DEF Relinked
    <2> QED BY <1>2, <2>1
  <1>4. \A i \in 0 .. m - 1 : i \in D /\ i < m
    OBVIOUS
  <1>5. FreeList(after, IF m < n THEN m ELSE INVALID_IDX, Fresh(m, n))
    <2>1. PICK c \in Nat : c = n - m /\ n = m + c
      OBVIOUS
    <2>2. PICK free : free = Fresh(m, n)
      OBVIOUS
    <2>3. /\ free \in Seq(D) /\ IsInjective(free) /\ DOMAIN free = 1 .. c
          /\ \A k \in 1 .. c : free[k] = m + k - 1
      BY <2>1, <2>2, FreshSlots
    <2>4. At(free, 1) = IF m < n THEN m ELSE INVALID_IDX
      BY <2>1, <2>3 DEF At
    <2>5. ASSUME NEW k \in 1 .. c PROVE after[free[k]].next = At(free, k + 1)
      <3>1. PICK i \in D : i = m + k - 1 /\ ~(i < m)
        BY <2>1
      <3>2. after[free[k]].next = follows(i)
        BY <1>2, <2>3, <3>1
      <3>3. i + 1 \in D <=> k + 1 \in 1 .. c
        BY <2>1, <3>1
      <3>4. k + 1 \in 1 .. c => free[k + 1] = i + 1
        BY <2>3, <3>1
      <3> QED BY <2>3, <3>2, <3>3, <3>4 DEF At
    <2>6. DOMAIN after = D
      BY <1>1
    <2> QED BY <2>2, <2>3, <2>4, <2>5, <2>6 DEF FreeList
  <1> QED BY <1>2, <1>3, <1>4, <1>5

\* A pool without a free slot grows: the new slots are free.
LEMMA PoolGrown ==
    ASSUME NEW ns, NEW lv, NEW ix, NEW free, NEW lists,
           Structure(ns, INVALID_IDX, lv, ix, free, lists), Settled(ns, ix, lists),
           NEW size, size = Cardinality(DOMAIN ns), NEW n \in Nat, size < n,
           NEW after, after = Relinked(Resized(ns, n), size)
    PROVE  /\ size \in Nat /\ DOMAIN after = 0 .. n - 1
           /\ Structure(after, size, lv, ix, Fresh(size, n), lists)
           /\ Settled(after, ix, lists)
           /\ QueuesOf(after, lists) = QueuesOf(ns, lists)
           /\ LocationsOf(after, ix) = LocationsOf(ns, ix)
  <1> DEFINE mid == Resized(ns, n)
             E   == 0 .. n - 1
  <1>1. /\ size \in Nat /\ DOMAIN ns = 0 .. size - 1 /\ ns \in [DOMAIN ns -> Node(DOMAIN ns)]
        /\ INVALID_IDX \notin DOMAIN ns
    BY ShapeFacts DEF Structure
  <1>2. DOMAIN ns \subseteq E /\ size \in 0 .. n /\ Node(DOMAIN ns) \subseteq Node(E)
    <2>1. DOMAIN ns \subseteq E /\ size \in 0 .. n
      BY <1>1
    <2> QED BY <2>1 DEF Node
  <1>3. /\ mid \in [E -> Node(E)]
        /\ \A i \in DOMAIN ns : mid[i] = ns[i]
    <2>1. [order |-> NoOrder, prev |-> INVALID_IDX, next |-> INVALID_IDX] \in Node(E)
      BY DEF Node
    <2>2. \A i \in DOMAIN ns : ns[i] \in Node(E)
      BY <1>1, <1>2
    <2> QED BY <1>2, <2>1, <2>2 DEF Resized
  <1> HIDE DEF mid
  <1>4. /\ after \in [E -> Node(E)]
        /\ \A i \in 0 .. size - 1 : after[i] = mid[i]
        /\ FreeList(after, IF size < n THEN size ELSE INVALID_IDX, Fresh(size, n))
    <2>1. after = Relinked(mid, size)
      BY DEF mid
    <2> HIDE DEF E
    <2> QED BY <1>2, <1>3, <2>1, SlotsRelinked DEF E
  <1>5. DOMAIN after = E /\ \A i \in DOMAIN ns : after[i] = ns[i]
    BY <1>1, <1>3, <1>4
  <1>6. Range(ix) = DOMAIN ns
    <2>1. free = <<>>
      <3>1. INVALID_IDX = At(free, 1) /\ free \in Seq(DOMAIN ns)
        BY DEF Structure, FreeList
      <3>2. ASSUME free # <<>> PROVE FALSE
        <4>1. 1 \in DOMAIN free /\ free[1] \in DOMAIN ns
          BY <3>1, <3>2
        <4> QED BY <1>1, <3>1, <4>1 DEF At
      <3> QED BY <3>2
    <2>2. Range(free) = {}
      BY <2>1 DEF Range
    <2>3. \A i \in DOMAIN ns : i \in Range(ix)
      BY <2>2 DEF Structure, Divided
    <2>4. \A id \in DOMAIN ix : ix[id] \in DOMAIN ns
      BY DEF Structure, Indexed
    <2> QED BY <2>3, <2>4 DEF Range
  <1>7. Divided(after, ix, Fresh(size, n))
    <2>1. Range(Fresh(size, n)) = size .. n - 1
      BY <1>2, FreshSlots
    <2> QED BY <1>1, <1>5, <1>6, <2>1 DEF Divided
  <1>8. \A t \in Sides : \A q \in DOMAIN lists[t] : \A k \in DOMAIN lists[t][q] : lists[t][q][k] \in DOMAIN ns
    BY DEF Structure, LevelLists, LevelList
  <1>9. LevelLists(after, lv, lists)
    <2>1. /\ DOMAIN lv = Sides /\ DOMAIN lists = Sides
          /\ \A t \in Sides : DOMAIN lv[t] \subseteq Prices \ {0} /\ DOMAIN lists[t] = DOMAIN lv[t]
          /\ \A t \in Sides : \A q \in DOMAIN lv[t] : LevelList(ns, lv[t][q], lists[t][q])
      BY DEF Structure, LevelLists
    <2>2. ASSUME NEW t \in Sides, NEW q \in DOMAIN lv[t] PROVE LevelList(after, lv[t][q], lists[t][q])
      <3>1. \A k \in DOMAIN lists[t][q] : /\ after[lists[t][q][k]].next = ns[lists[t][q][k]].next
                                          /\ after[lists[t][q][k]].prev = ns[lists[t][q][k]].prev
        BY <1>5, <1>8, <2>1
      <3>2. DOMAIN ns \subseteq DOMAIN after /\ LevelList(ns, lv[t][q], lists[t][q])
        BY <1>2, <1>5, <2>1
      <3> QED BY <3>1, <3>2, LevelFrame
    <2> QED BY <2>1, <2>2 DEF LevelLists
  <1>10. \A id \in DOMAIN ix : ix[id] \in DOMAIN ns /\ after[ix[id]] = ns[ix[id]]
    BY <1>5 DEF Structure, Indexed
  <1>11. Indexed(after, ix, lists)
    <2>1. Indexed(ns, ix, lists)
      BY DEF Structure
    <2> QED BY <1>2, <1>5, <1>10, <2>1 DEF Indexed
  <1>12. Shape(after)
    BY <1>4 DEF Shape
  <1>13. Structure(after, size, lv, ix, Fresh(size, n), lists)
    BY <1>4, <1>7, <1>9, <1>11, <1>12 DEF Structure
  <1>14. \A t \in Sides : \A q \in DOMAIN lists[t] : \A k \in DOMAIN lists[t][q] :
            after[lists[t][q][k]] = ns[lists[t][q][k]]
    BY <1>5, <1>8
  <1>15. Settled(after, ix, lists)
    <2>1. ASSUME NEW t \in Sides, NEW q \in DOMAIN lists[t], NEW k \in DOMAIN lists[t][q]
          PROVE  SettledAt(after[lists[t][q][k]].order, t, q)
      <3>1. SettledAt(ns[lists[t][q][k]].order, t, q)
        BY ListedSettled
      <3> QED BY <1>14, <3>1
    <2>2. ASSUME NEW id \in DOMAIN ix
          PROVE  FoundIn(lists, after[ix[id]].order, ix[id])
      <3>1. FoundIn(lists, ns[ix[id]].order, ix[id])
        BY IndexedSettled
      <3> QED BY <1>10, <3>1
    <2> QED BY <2>1, <2>2 DEF Settled, SettledAt, FoundIn
  <1>16. QueuesOf(after, lists) = QueuesOf(ns, lists)
    <2>1. \A t \in Sides : \A q \in DOMAIN lists[t] : Orders(after, lists[t][q]) = Orders(ns, lists[t][q])
      BY <1>14 DEF Orders
    <2> QED BY <2>1 DEF QueuesOf
  <1>17. LocationsOf(after, ix) = LocationsOf(ns, ix)
    BY <1>10 DEF LocationsOf
  <1> QED BY <1>1, <1>5, <1>13, <1>15, <1>16, <1>17

-----------------------------------------------------------------------------
(* An order comes to rest in a free slot                                   *)

\* The slots after the order of a taken slot is put at the back of a list.
Appended(after, longer, ns, D, list, idx, order) ==
    /\ after \in [D -> Node(D)]
    /\ after[idx].order = order
    /\ \A j \in D : j # idx => after[j].order = ns[j].order
    /\ \A j \in D : j # idx /\ (\A k \in DOMAIN list : list[k] # j) => after[j] = ns[j]
    /\ LevelList(after, longer, Append(list, idx))

\* The list of a price, empty for a price that has no level.
ListAt(lists, p) == IF p \in DOMAIN lists THEN lists[p] ELSE <<>>

Taken(ns, idx, order) ==
    [ns EXCEPT ![idx] = [order |-> order, prev |-> INVALID_IDX, next |-> INVALID_IDX]]

\* append_to_level without the level
LinkLast(ns, last, idx) ==
    IF last = INVALID_IDX THEN [ns EXCEPT ![idx].prev = last, ![idx].next = INVALID_IDX]
    ELSE [[ns EXCEPT ![idx].prev = last, ![idx].next = INVALID_IDX] EXCEPT ![last].next = idx]

\* append_to_level's effect on nodes_
LinkedLast(after, ns, D, last, idx, order) ==
    /\ after \in [D -> Node(D)]
    /\ after[idx] = [order |-> order, prev |-> last, next |-> INVALID_IDX]
    /\ last # INVALID_IDX =>
          after[last] = [order |-> ns[last].order, prev |-> ns[last].prev, next |-> idx]
    /\ \A j \in D : j # idx /\ j # last => after[j] = ns[j]

\* Only the new slot and the last one before it change.
LEMMA NodeLinkedLast ==
    ASSUME NEW D, INVALID_IDX \notin D, NEW ns \in [D -> Node(D)], NEW idx \in D,
           NEW last \in D \cup {INVALID_IDX}, last # idx, NEW order \in Order,
           NEW after, after = LinkLast(Taken(ns, idx, order), last, idx)
    PROVE  LinkedLast(after, ns, D, last, idx, order)
  <1> DEFINE taken == Taken(ns, idx, order)
             new   == [order |-> order, prev |-> last, next |-> INVALID_IDX]
             mid   == [ns EXCEPT ![idx] = new]
  <1>1. new \in Node(D)
    BY DEF Node
  <1>2. [taken EXCEPT ![idx].prev = last, ![idx].next = INVALID_IDX] = mid
    <2>1. taken \in [D -> [order : {order} \cup Order \cup {NoOrder}, prev : D \cup {INVALID_IDX},
                           next : D \cup {INVALID_IDX}]]
          /\ taken[idx] = [order |-> order, prev |-> INVALID_IDX, next |-> INVALID_IDX]
          /\ \A j \in D : j # idx => taken[j] = ns[j]
      BY DEF Taken, Node
    <2>2. taken[idx] \in Node(D)
      BY <2>1 DEF Node
    <2>3. [taken[idx] EXCEPT !.prev = last, !.next = INVALID_IDX] = new
      <3>1. PICK node \in Node(D) : node = taken[idx] /\ node.order = order
        BY <2>1, <2>2
      <3>2. [node EXCEPT !.prev = last, !.next = INVALID_IDX] = new
        BY <3>1, NodeRelinked
      <3> QED BY <3>1, <3>2
    <2> HIDE DEF taken
    <2>4. [taken EXCEPT ![idx].prev = last, ![idx].next = INVALID_IDX]
             = [taken EXCEPT ![idx] = [taken[idx] EXCEPT !.prev = last, !.next = INVALID_IDX]]
      BY <2>1
    <2>5. [taken EXCEPT ![idx] = new] = mid
      BY <2>1
    <2> QED BY <2>3, <2>4, <2>5
  <1>3. after = IF last = INVALID_IDX THEN mid ELSE [mid EXCEPT ![last].next = idx]
    BY <1>2 DEF LinkLast
  <1> HIDE DEF new
  <1>4. /\ mid \in [D -> Node(D)] /\ mid[idx] = new
        /\ \A j \in D : j # idx => mid[j] = ns[j]
    BY <1>1
  <1> HIDE DEF mid
  <1>5. CASE last = INVALID_IDX
    BY <1>3, <1>4, <1>5 DEF new, LinkedLast
  <1>6. CASE last # INVALID_IDX
    <2>1. last \in D /\ mid[last] = ns[last] /\ ns[last] \in Node(D)
      BY <1>4, <1>6
    <2>2. [ns[last] EXCEPT !.next = idx]
             = [order |-> ns[last].order, prev |-> ns[last].prev, next |-> idx]
      BY <2>1 DEF Node
    <2>3. after = [mid EXCEPT ![last] = [order |-> ns[last].order, prev |-> ns[last].prev, next |-> idx]]
      BY <1>3, <1>6, <2>1, <2>2
    <2>4. [order |-> ns[last].order, prev |-> ns[last].prev, next |-> idx] \in Node(D)
      BY <2>1 DEF Node
    <2>5. after \in [D -> Node(D)]
      BY <1>4, <2>1, <2>3, <2>4
    <2>6. after[last] = [order |-> ns[last].order, prev |-> ns[last].prev, next |-> idx]
          /\ \A j \in D : j # last => after[j] = mid[j]
      BY <1>4, <2>1, <2>3
    <2> QED BY <1>4, <2>5, <2>6 DEF new, LinkedLast
  <1> QED BY <1>5, <1>6

\* append_to_level: the slot follows the last one, or is alone in a new level.
LEMMA SlotAppended ==
    ASSUME NEW D, INVALID_IDX \notin D, NEW ns \in [D -> Node(D)],
           NEW list \in Seq(D), IsInjective(list), NEW idx \in D,
           \A k \in DOMAIN list : list[k] # idx,
           NEW level, IF list = <<>> THEN level = EmptyLevel ELSE LevelList(ns, level, list),
           NEW order \in Order
    PROVE  Appended(append_to_level(Taken(ns, idx, order), level, idx).nodes,
                    append_to_level(Taken(ns, idx, order), level, idx).level,
                    ns, D, list, idx, order)
  <1>1. PICK m \in Nat : m = Len(list) /\ DOMAIN list = 1 .. m
    OBVIOUS
  <1>2. PICK last : last = level.tail
    OBVIOUS
  <1>3. DOMAIN ns = D
    OBVIOUS
  <1>4. /\ last = At(list, m) /\ last \in D \cup {INVALID_IDX} /\ last # idx
        /\ last = INVALID_IDX <=> m = 0
        /\ level.order_count = m /\ level.total_volume \in Int
        /\ m # 0 => level.head = list[1] /\ level.head \in D
    <2>1. CASE list = <<>>
      <3>1. m = 0 /\ level = EmptyLevel
        BY <1>1, <2>1
      <3>2. INVALID_IDX # idx
        OBVIOUS
      <3> QED BY <1>1, <1>2, <3>1, <3>2 DEF EmptyLevel, At
    <2>2. CASE list # <<>>
      <3>1. m # 0 /\ LevelList(ns, level, list)
        BY <1>1, <2>2
      <3>2. level.tail = list[m] /\ level.order_count = m /\ level.head = list[1] /\ level.total_volume \in Int
        BY <1>1, <3>1 DEF LevelList
      <3>3. m \in DOMAIN list /\ list[m] \in D /\ list[1] \in D
        BY <1>1, <3>1
      <3> QED BY <1>1, <1>2, <3>1, <3>2, <3>3 DEF At
    <2> QED BY <2>1, <2>2
  <1>5. PICK after : after = LinkLast(Taken(ns, idx, order), last, idx)
    OBVIOUS
  <1>6. /\ after \in [D -> Node(D)]
        /\ after[idx] = [order |-> order, prev |-> last, next |-> INVALID_IDX]
        /\ last # INVALID_IDX =>
              after[last] = [order |-> ns[last].order, prev |-> ns[last].prev, next |-> idx]
        /\ \A j \in D : j # idx /\ j # last => after[j] = ns[j]
    <2>1. LinkedLast(after, ns, D, last, idx, order)
      BY <1>4, <1>5, NodeLinkedLast
    <2> QED BY <2>1 DEF LinkedLast
  <1>7. PICK volume : volume = (level.total_volume + Taken(ns, idx, order)[idx].order.remaining) % QuantityMod
    OBVIOUS
  <1>8. volume \in 0 .. QuantityMod - 1
    <2>1. Taken(ns, idx, order)[idx].order = order
      BY DEF Taken
    <2>2. order.remaining \in Int
      BY DEF Order, Quantities
    <2> QED BY <1>4, <1>7, <2>1, <2>2, OrderTypesAssumption
  <1>9. PICK longer : longer = [total_volume |-> volume, order_count |-> level.order_count + 1,
                                head |-> IF last = INVALID_IDX THEN idx ELSE level.head, tail |-> idx]
    OBVIOUS
  <1>10. /\ append_to_level(Taken(ns, idx, order), level, idx).nodes = after
         /\ append_to_level(Taken(ns, idx, order), level, idx).level = longer
    BY <1>2, <1>5, <1>7, <1>9 DEF append_to_level, LinkLast
  <1>11. PICK new : new = Append(list, idx)
    OBVIOUS
  <1>12. /\ new \in Seq(D) /\ DOMAIN new = 1 .. m + 1 /\ Len(new) = m + 1 /\ new[m + 1] = idx
         /\ \A k \in 1 .. m : new[k] = list[k]
    BY <1>1, <1>11
  <1>13. IsInjective(new)
    <2>1. \A j, k \in 1 .. m : list[j] = list[k] => j = k
      BY <1>1 DEF IsInjective
    <2>2. \A j, k \in 1 .. m + 1 : new[j] = new[k] => j = k
      BY <1>1, <1>12, <2>1
    <2> QED BY <1>12, <2>2 DEF IsInjective
  <1>14. ASSUME NEW k \in 1 .. m + 1
         PROVE  after[new[k]].next = At(new, k + 1) /\ after[new[k]].prev = At(new, k - 1)
    <2>1. CASE k = m + 1
      <3>1. after[new[k]].next = INVALID_IDX /\ after[new[k]].prev = last
        BY <1>6, <1>12, <2>1
      <3>2. At(new, k + 1) = INVALID_IDX
        BY <1>12, <2>1 DEF At
      <3>3. At(new, k - 1) = At(list, m)
        BY <1>1, <1>12, <2>1 DEF At
      <3> QED BY <1>4, <3>1, <3>2, <3>3
    <2>2. CASE k # m + 1
      <3>1. k \in 1 .. m /\ new[k] = list[k] /\ list[k] \in D /\ list[k] # idx /\ m # 0
        BY <1>1, <1>12, <2>2
      <3>2. LevelList(ns, level, list)
        BY <1>1, <3>1
      <3>3. ns[list[k]].next = At(list, k + 1) /\ ns[list[k]].prev = At(list, k - 1)
        BY <1>1, <3>1, <3>2 DEF LevelList
      <3>4. last = list[m] /\ last # INVALID_IDX
        BY <1>1, <1>4, <3>1 DEF At
      <3>5. list[k] = last <=> k = m
        BY <1>1, <3>1, <3>4 DEF IsInjective
      <3>6. after[list[k]].prev = ns[list[k]].prev
        BY <1>6, <3>1, <3>4
      <3>7. after[list[k]].next = IF k = m THEN idx ELSE ns[list[k]].next
        BY <1>6, <3>1, <3>4, <3>5
      <3>8. At(list, k - 1) = At(new, k - 1)
        BY <1>1, <1>12, <3>1 DEF At
      <3>9. At(new, k + 1) = IF k = m THEN idx ELSE At(list, k + 1)
        BY <1>1, <1>12, <3>1 DEF At
      <3> QED BY <3>1, <3>3, <3>6, <3>7, <3>8, <3>9
    <2> QED BY <2>1, <2>2
  <1>15. LevelList(after, longer, new)
    <2>1. DOMAIN after = D
      BY <1>6
    <2>2. new[1] = IF last = INVALID_IDX THEN idx ELSE level.head
      BY <1>1, <1>4, <1>12
    <2>3. longer \in [total_volume : 0 .. QuantityMod - 1, order_count : Nat, head : D, tail : D]
      <3>1. level.order_count + 1 \in Nat
        BY <1>4
      <3>2. (IF last = INVALID_IDX THEN idx ELSE level.head) \in D
        BY <1>4
      <3> QED BY <1>8, <1>9, <3>1, <3>2
    <2>4. longer.order_count = Len(new) /\ longer.head = new[1] /\ longer.tail = new[Len(new)]
      BY <1>4, <1>9, <1>12, <2>2
    <2>5. new # <<>>
      BY <1>11
    <2> QED BY <1>12, <1>13, <1>14, <2>1, <2>3, <2>4, <2>5 DEF LevelList
  <1>16. \A j \in D : j # idx => after[j].order = ns[j].order
    BY <1>6
  <1>17. \A j \in D : j # idx /\ (\A k \in DOMAIN list : list[k] # j) => after[j] = ns[j]
    <2>1. last = INVALID_IDX \/ \E k \in DOMAIN list : list[k] = last
      BY <1>4 DEF At
    <2> QED BY <1>6, <2>1
  <1>18. Appended(after, longer, ns, D, list, idx, order)
    BY <1>6, <1>11, <1>15, <1>16, <1>17 DEF Appended
  <1> QED BY <1>10, <1>18
\* allocate_node: the first slot leaves the free list.
LEMMA FreePopped ==
    ASSUME NEW ns, NEW after, NEW free, NEW idx \in DOMAIN ns, FreeList(ns, idx, free),
           DOMAIN after = DOMAIN ns, INVALID_IDX \notin DOMAIN ns,
           \A j \in DOMAIN ns : j # idx /\ j \in Range(free) => after[j] = ns[j]
    PROVE  /\ FreeList(after, ns[idx].next, Tail(free))
           /\ Range(Tail(free)) = Range(free) \ {idx}
           /\ idx \in Range(free)
  <1>1. /\ free \in Seq(DOMAIN ns) /\ IsInjective(free) /\ idx = At(free, 1)
        /\ \A k \in DOMAIN free : ns[free[k]].next = At(free, k + 1)
    BY DEF FreeList
  <1>2. PICK m \in Nat : Len(free) = m + 1 /\ DOMAIN free = 1 .. m + 1 /\ free[1] = idx
    <2>1. PICK n \in Nat : n = Len(free) /\ DOMAIN free = 1 .. n
      BY <1>1
    <2>2. n # 0 /\ free[1] = idx
      BY <1>1, <2>1 DEF At
    <2>3. n - 1 \in Nat /\ n = (n - 1) + 1
      BY <2>1, <2>2
    <2> QED BY <2>1, <2>2, <2>3
  <1>3. PICK rest : rest = Tail(free)
    OBVIOUS
  <1>4. /\ rest \in Seq(DOMAIN ns) /\ DOMAIN rest = 1 .. m
        /\ \A k \in 1 .. m : rest[k] = free[k + 1]
    BY <1>1, <1>2, <1>3
  <1>5. \A j, k \in 1 .. m + 1 : free[j] = free[k] => j = k
    BY <1>1, <1>2 DEF IsInjective
  <1>6. IsInjective(rest)
    <2>1. \A j, k \in 1 .. m : rest[j] = rest[k] => j + 1 = k + 1
      BY <1>2, <1>4, <1>5
    <2> QED BY <1>4, <2>1 DEF IsInjective
  <1>7. \A k \in 1 .. m : rest[k] # idx /\ rest[k] \in Range(free) /\ rest[k] \in DOMAIN ns
    <2>1. ASSUME NEW k \in 1 .. m PROVE rest[k] # idx /\ rest[k] \in Range(free) /\ rest[k] \in DOMAIN ns
      <3>1. k + 1 \in 1 .. m + 1 /\ k + 1 # 1 /\ 1 \in 1 .. m + 1
        BY <1>2
      <3>2. free[k + 1] # idx
        BY <1>2, <1>5, <3>1
      <3>3. free[k + 1] \in Range(free) /\ free[k + 1] \in DOMAIN ns
        BY <1>1, <1>2, <3>1 DEF Range
      <3>4. rest[k] = free[k + 1]
        BY <1>4
      <3> QED BY <3>2, <3>3, <3>4
    <2> QED BY <2>1
  <1>8. \A k \in 1 .. m + 1 : At(rest, k) = At(free, k + 1)
    BY <1>2, <1>4 DEF At
  <1>9. ns[idx].next = At(rest, 1)
    BY <1>1, <1>2, <1>8
  <1>10. \A k \in 1 .. m : after[rest[k]].next = At(rest, k + 1)
    <2>1. ASSUME NEW k \in 1 .. m PROVE after[rest[k]].next = At(rest, k + 1)
      <3>1. PICK j \in 1 .. m + 1 : j = k + 1
        BY <1>2
      <3>2. ns[free[j]].next = At(free, j + 1)
        BY <1>1, <1>2
      <3>3. after[rest[k]] = ns[rest[k]]
        BY <1>7
      <3> QED BY <1>4, <1>8, <3>1, <3>2, <3>3
    <2> QED BY <2>1
  <1>11. FreeList(after, ns[idx].next, rest)
    BY <1>4, <1>6, <1>9, <1>10 DEF FreeList
  <1>12. idx \in Range(free)
    BY <1>2 DEF Range
  <1>13. Range(rest) = Range(free) \ {idx}
    <2>1. ASSUME NEW k \in 1 .. m + 1, free[k] # idx PROVE \E j \in 1 .. m : rest[j] = free[k]
      <3>1. k # 1
        BY <1>2, <2>1
      <3>2. PICK j \in 1 .. m : k = j + 1
        <4>1. k - 1 \in 1 .. m /\ k = (k - 1) + 1
          BY <1>2, <3>1
        <4> QED BY <4>1
      <3> QED BY <1>4, <3>2
    <2>2. \A x \in Range(free) \ {idx} : x \in Range(rest)
      <3>1. ASSUME NEW x \in Range(free) \ {idx} PROVE x \in Range(rest)
        <4>1. PICK k \in 1 .. m + 1 : free[k] = x
          BY <1>2 DEF Range
        <4>2. PICK j \in 1 .. m : rest[j] = x
          BY <2>1, <4>1
        <4> QED BY <1>4, <4>2 DEF Range
      <3> QED BY <3>1
    <2>3. \A x \in Range(rest) : x \in Range(free) \ {idx}
      BY <1>4, <1>7 DEF Range
    <2> QED BY <2>2, <2>3
  <1> QED BY <1>3, <1>11, <1>12, <1>13

\* The index with one more id.
IndexWith(after, ns, ix, order, idx, rest) ==
    /\ Indexed(after, MapPut(ix, order.id, idx), rest)
    /\ Range(MapPut(ix, order.id, idx)) = Range(ix) \cup {idx}
    /\ LocationsOf(after, MapPut(ix, order.id, idx))
          = MapPut(LocationsOf(ns, ix), order.id, [side |-> order.side, price |-> order.price])

\* An id of no order is added to the index.
LEMMA IndexGrown ==
    ASSUME NEW ns, NEW after, NEW ix, NEW lists, NEW rest, Indexed(ns, ix, lists),
           DOMAIN after = DOMAIN ns, NEW idx \in DOMAIN ns, idx \notin Range(ix),
           NEW order \in Order, order.id \notin DOMAIN ix,
           after[idx].order = order, SameButOne(after, ns, idx),
           \A t \in Sides : \A q \in DOMAIN rest[t] : \A k \in DOMAIN rest[t][q] :
              rest[t][q][k] \in Range(ix) \cup {idx}
    PROVE  IndexWith(after, ns, ix, order, idx, rest)
  <1> DEFINE id  == order.id
             ix2 == MapPut(ix, id, idx)
  <1>1. /\ DOMAIN ix2 = DOMAIN ix \cup {id} /\ ix2[id] = idx
        /\ \A key \in DOMAIN ix : ix2[key] = ix[key]
    BY DEF MapPut
  <1> HIDE DEF ix2
  <1>2. \A key \in DOMAIN ix : /\ ix[key] \in DOMAIN ns /\ ns[ix[key]].order \in Order
                               /\ ns[ix[key]].order.id = key /\ key \in OrderIds
    BY DEF Indexed
  <1>3. \A key \in DOMAIN ix : ix[key] # idx
    BY DEF Range
  <1>4. \A key \in DOMAIN ix : after[ix[key]].order = ns[ix[key]].order
    BY <1>2, <1>3 DEF SameButOne
  <1>5. Range(ix2) = Range(ix) \cup {idx}
    BY <1>1 DEF Range
  <1>6. Indexed(after, ix2, rest)
    <2>1. id \in OrderIds
      BY DEF Order
    <2>2. DOMAIN ix2 \subseteq OrderIds
      BY <1>1, <1>2, <2>1
    <2>3. \A key \in DOMAIN ix2 : /\ ix2[key] \in DOMAIN after
                                  /\ after[ix2[key]].order \in Order
                                  /\ after[ix2[key]].order.id = key
      BY <1>1, <1>2, <1>4
    <2>4. ASSUME NEW t \in Sides, NEW q \in DOMAIN rest[t], NEW k \in DOMAIN rest[t][q]
          PROVE  \E key \in DOMAIN ix2 : ix2[key] = rest[t][q][k]
      <3>1. rest[t][q][k] \in Range(ix2)
        BY <1>5
      <3> QED BY <3>1 DEF Range
    <2> QED BY <2>2, <2>3, <2>4 DEF Indexed
  <1>7. LocationsOf(after, ix2)
           = MapPut(LocationsOf(ns, ix), id, [side |-> order.side, price |-> order.price])
    <2>1. \A key \in DOMAIN ix2 : after[ix2[key]].order
                                     = IF key = id THEN order ELSE ns[ix[key]].order
      BY <1>1, <1>4
    <2>2. LocationsOf(after, ix2)
             = [key \in DOMAIN ix \cup {id} |->
                   IF key = id THEN [side |-> order.side, price |-> order.price]
                   ELSE [side |-> ns[ix[key]].order.side, price |-> ns[ix[key]].order.price]]
      BY <1>1, <2>1 DEF LocationsOf
    <2>3. /\ DOMAIN LocationsOf(ns, ix) = DOMAIN ix
          /\ \A key \in DOMAIN ix : LocationsOf(ns, ix)[key]
                = [side |-> ns[ix[key]].order.side, price |-> ns[ix[key]].order.price]
      BY DEF LocationsOf
    <2>4. MapPut(LocationsOf(ns, ix), id, [side |-> order.side, price |-> order.price])
             = [key \in DOMAIN ix \cup {id} |->
                   IF key = id THEN [side |-> order.side, price |-> order.price]
                   ELSE LocationsOf(ns, ix)[key]]
      BY <2>3 DEF MapPut
    <2> QED BY <2>2, <2>3, <2>4
  <1> QED BY <1>5, <1>6, <1>7 DEF ix2, IndexWith

\* The pool and the book with an order put at the back of a list, in slot idx.
Rested(after, longer, ns, idx, lv, ix, free, lists, s, p, order) ==
    LET new == Append(ListAt(lists[s], p), idx)
    IN  /\ new # <<>> /\ longer.head # INVALID_IDX
        /\ Structure(after, ns[idx].next, PutOrErase(lv, s, p, longer, new),
                     MapPut(ix, order.id, idx), Tail(free), PutOrErase(lists, s, p, new, new))
        /\ QueuesOf(after, PutOrErase(lists, s, p, new, new))
              = PutOrErase(QueuesOf(ns, lists), s, p,
                           Append(Orders(ns, ListAt(lists[s], p)), order), new)
        /\ LocationsOf(after, MapPut(ix, order.id, idx))
              = MapPut(LocationsOf(ns, ix), order.id, [side |-> order.side, price |-> order.price])

\* An order comes to rest: it takes the first free slot and the last place of the
\* list of its side and price.
LEMMA NodeStored ==
    ASSUME NEW ns, NEW idx, NEW lv, NEW ix, NEW free, NEW lists,
           Structure(ns, idx, lv, ix, free, lists), Settled(ns, ix, lists), idx \in DOMAIN ns,
           NEW s \in Sides, NEW p \in Prices \ {0},
           NEW order \in Order, order.id \notin DOMAIN ix,
           NEW after, NEW longer,
           Appended(after, longer, ns, DOMAIN ns, ListAt(lists[s], p), idx, order)
    PROVE  Rested(after, longer, ns, idx, lv, ix, free, lists, s, p, order)
  <1> DEFINE D    == DOMAIN ns
             list == ListAt(lists[s], p)
             new  == Append(list, idx)
             rest == PutOrErase(lists, s, p, new, new)
  <1>1. Shape(ns) /\ INVALID_IDX \notin D /\ \E size \in Nat : D = 0 .. size - 1
    BY ShapeFacts DEF Structure
  <1>2. /\ DOMAIN lv = Sides /\ DOMAIN lists = Sides
        /\ \A t \in Sides : \A q \in DOMAIN lists[t] : /\ lists[t][q] \in Seq(D)
                                                       /\ \A k \in DOMAIN lists[t][q] : lists[t][q][k] \in D
    BY DEF Structure, LevelLists, LevelList
  <1>3. /\ \A t \in Sides : \A q \in DOMAIN lists[t] : \A k \in DOMAIN lists[t][q] :
              lists[t][q][k] \in Range(ix)
        /\ Indexed(ns, ix, lists)
    BY DEF Structure, Indexed, Range
  <1>4. list \in Seq(D) /\ \A k \in DOMAIN list : list[k] \in Range(ix) /\ list[k] \in D
    <2>1. CASE p \in DOMAIN lists[s]
      BY <1>2, <1>3, <2>1 DEF ListAt
    <2>2. CASE p \notin DOMAIN lists[s]
      BY <2>2 DEF ListAt
    <2> QED BY <2>1, <2>2
  <1>5. /\ after \in [D -> Node(D)] /\ DOMAIN after = D
        /\ after[idx].order = order
        /\ \A j \in D : j # idx => after[j].order = ns[j].order
        /\ \A j \in D : j # idx /\ (\A k \in DOMAIN list : list[k] # j) => after[j] = ns[j]
        /\ LevelList(after, longer, new)
    BY DEF Appended
  <1>6. \A j \in D : j \in Range(free) <=> j \notin Range(ix)
    BY DEF Structure, Divided
  <1>7. \A t \in Sides : \A q \in DOMAIN lists[t] : Other(t, q, s, p) =>
           \A k \in DOMAIN lists[t][q], j \in DOMAIN list : lists[t][q][k] # list[j]
    <2>1. CASE p \in DOMAIN lists[s]
      <3>1. list = lists[s][p]
        BY <2>1 DEF ListAt
      <3>2. ASSUME NEW j \in DOMAIN lists[s][p]
            PROVE  \A t \in Sides : \A q \in DOMAIN lists[t] : Other(t, q, s, p) =>
                      \A k \in DOMAIN lists[t][q] : lists[t][q][k] # lists[s][p][j]
        BY <2>1, ListsApart
      <3> QED BY <3>1, <3>2
    <2>2. CASE p \notin DOMAIN lists[s]
      <3>1. DOMAIN list = {}
        BY <2>2 DEF ListAt
      <3> QED BY <3>1
    <2> QED BY <2>1, <2>2
  <1> HIDE DEF list
  <1>8. new \in Seq(D) /\ new # <<>> /\ \A k \in DOMAIN new : new[k] \in Range(ix) \cup {idx}
    <2>1. PICK m \in Nat : m = Len(list) /\ DOMAIN list = 1 .. m
      BY <1>4
    <2>2. /\ new \in Seq(D) /\ DOMAIN new = 1 .. m + 1 /\ new[m + 1] = idx
          /\ \A k \in 1 .. m : new[k] = list[k]
      BY <1>4, <2>1
    <2> QED BY <1>4, <2>1, <2>2
  <1>9. longer.head # INVALID_IDX
    BY <1>1, <1>5 DEF LevelList
  <1>10. Shape(after)
    BY <1>1, <1>5 DEF Shape
  <1>11. /\ FreeList(after, ns[idx].next, Tail(free))
         /\ Range(Tail(free)) = Range(free) \ {idx}
         /\ idx \in Range(free)
    <2>1. \A j \in DOMAIN ns : j # idx /\ j \in Range(free) => after[j] = ns[j]
      BY <1>4, <1>5, <1>6
    <2>2. FreeList(ns, idx, free)
      BY DEF Structure
    <2> QED BY <1>1, <1>5, <2>1, <2>2, FreePopped
  <1>12. idx \notin Range(ix)
    BY <1>6, <1>11
  <1>13. \A t \in Sides : \A q \in DOMAIN lists[t] : Other(t, q, s, p) =>
            \A k \in DOMAIN lists[t][q] : after[lists[t][q][k]] = ns[lists[t][q][k]]
    <2>1. ASSUME NEW t \in Sides, NEW q \in DOMAIN lists[t], Other(t, q, s, p),
                 NEW k \in DOMAIN lists[t][q]
          PROVE  after[lists[t][q][k]] = ns[lists[t][q][k]]
      <3>1. lists[t][q][k] \in D /\ lists[t][q][k] # idx
        BY <1>2, <1>3, <1>12
      <3>2. \A j \in DOMAIN list : list[j] # lists[t][q][k]
        BY <1>7, <2>1
      <3> QED BY <1>5, <3>1, <3>2
    <2> QED BY <2>1
  <1> HIDE DEF new
  <1>14. LevelLists(after, PutOrErase(lv, s, p, longer, new), rest)
    <2>1. \A t \in Sides : \A q \in DOMAIN lists[t] : Other(t, q, s, p) =>
              \A k \in DOMAIN lists[t][q] :
                 /\ after[lists[t][q][k]].next = ns[lists[t][q][k]].next
                 /\ after[lists[t][q][k]].prev = ns[lists[t][q][k]].prev
      BY <1>13
    <2>2. LevelLists(ns, lv, lists) /\ DOMAIN ns \subseteq DOMAIN after
      BY <1>5 DEF Structure
    <2>3. new # <<>> => LevelList(after, longer, new)
      BY <1>5
    <2> QED BY <2>1, <2>2, <2>3, LevelStored
  <1>15. IndexWith(after, ns, ix, order, idx, rest)
    <2>1. /\ DOMAIN rest = Sides /\ \A t \in Sides : t # s => rest[t] = lists[t]
          /\ new = <<>> => DOMAIN rest[s] = DOMAIN lists[s] \ {p}
          /\ new # <<>> => DOMAIN rest[s] = DOMAIN lists[s] \cup {p}
          /\ new # <<>> => rest[s][p] = new
          /\ \A q \in DOMAIN lists[s] : q # p => rest[s][q] = lists[s][q]
      BY <1>2, SideStored
    <2> HIDE DEF rest
    <2>2. ASSUME NEW t \in Sides, NEW q \in DOMAIN rest[t], NEW k \in DOMAIN rest[t][q]
          PROVE  rest[t][q][k] \in Range(ix) \cup {idx}
      <3>1. CASE Other(t, q, s, p)
        <4>1. q \in DOMAIN lists[t] /\ rest[t][q] = lists[t][q]
          <5>1. CASE t = s
            BY <1>8, <2>1, <2>2, <3>1, <5>1 DEF Other
          <5>2. CASE t # s
            BY <2>1, <2>2, <5>2
          <5> QED BY <5>1, <5>2
        <4> QED BY <1>3, <2>2, <4>1
      <3>2. CASE ~Other(t, q, s, p)
        <4>1. t = s /\ q = p /\ rest[t][q] = new
          BY <1>8, <2>1, <3>2 DEF Other
        <4> QED BY <1>8, <2>2, <4>1
      <3> QED BY <3>1, <3>2
    <2>3. Indexed(ns, ix, lists) /\ SameButOne(after, ns, idx)
      BY <1>3, <1>5 DEF SameButOne
    <2> QED BY <1>5, <1>12, <2>2, <2>3, IndexGrown
  <1>16. Divided(after, MapPut(ix, order.id, idx), Tail(free))
    <2>1. Range(MapPut(ix, order.id, idx)) = Range(ix) \cup {idx}
      BY <1>15 DEF IndexWith
    <2> QED BY <1>5, <1>6, <1>11, <2>1 DEF Divided
  <1>17. Structure(after, ns[idx].next, PutOrErase(lv, s, p, longer, new),
                   MapPut(ix, order.id, idx), Tail(free), rest)
    BY <1>10, <1>11, <1>14, <1>15, <1>16 DEF Structure, IndexWith
  <1>18. QueuesOf(after, rest) = PutOrErase(QueuesOf(ns, lists), s, p, Append(Orders(ns, list), order), new)
    <2>1. OthersKept(after, ns, lists, s, p) /\ DOMAIN lists = Sides
      BY <1>2, <1>13 DEF OthersKept
    <2>2. QueuesOf(after, rest) = PutOrErase(QueuesOf(ns, lists), s, p, Orders(after, new), new)
      BY <2>1, QueuesStored
    <2>3. Orders(after, new) = Append(Orders(ns, list), order)
      <3>1. PICK m \in Nat : m = Len(list) /\ DOMAIN list = 1 .. m
        BY <1>4
      <3>2. /\ DOMAIN new = 1 .. m + 1 /\ new[m + 1] = idx
            /\ \A k \in 1 .. m : new[k] = list[k]
        BY <1>4, <3>1 DEF new
      <3>3. \A k \in 1 .. m : after[list[k]].order = ns[list[k]].order
        BY <1>4, <1>5, <1>12, <3>1
      <3>4. Orders(after, new) = [k \in 1 .. m + 1 |-> IF k = m + 1 THEN order ELSE ns[list[k]].order]
        <4>1. \A k \in 1 .. m + 1 : after[new[k]].order = IF k = m + 1 THEN order ELSE ns[list[k]].order
          BY <1>5, <3>1, <3>2, <3>3
        <4> QED BY <3>2, <4>1 DEF Orders
      <3>5. Orders(ns, list) = [k \in 1 .. m |-> ns[list[k]].order]
        BY <3>1 DEF Orders
      <3>6. Append([k \in 1 .. m |-> ns[list[k]].order], order)
               = [k \in 1 .. m + 1 |-> IF k = m + 1 THEN order ELSE ns[list[k]].order]
        BY <3>1
      <3> QED BY <3>4, <3>5, <3>6
    <2> QED BY <2>2, <2>3
  <1> QED BY <1>8, <1>9, <1>15, <1>17, <1>18 DEF new, list, IndexWith, Rested

-----------------------------------------------------------------------------
(* An order in place, and the empty book                                   *)

\* The head of a level is filled in part: only its quantity changes.
FrontPut(queues, s, p, order) ==
    [queues EXCEPT ![s] = [queues[s] EXCEPT ![p] = [queues[s][p] EXCEPT ![1] = order]]]

InPlace(filled, ns, first, lv, ix, free, lists, s, p, order) ==
    /\ Structure(filled, first, lv, ix, free, lists)
    /\ QueuesOf(filled, lists) = FrontPut(QueuesOf(ns, lists), s, p, order)
    /\ LocationsOf(filled, ix) = LocationsOf(ns, ix)

\* Only the quantity is another.
SamePlace(order, other) ==
    order.id = other.id /\ order.side = other.side /\ order.price = other.price

LEMMA NodeReduced ==
    ASSUME NEW ns, NEW first, NEW lv, NEW ix, NEW free, NEW lists,
           Structure(ns, first, lv, ix, free, lists), Settled(ns, ix, lists),
           NEW s \in Sides, NEW p \in DOMAIN lists[s],
           NEW filled \in [DOMAIN ns -> Node(DOMAIN ns)],
           LinksKept(filled, ns, lists[s][p][1]),
           filled[lists[s][p][1]].order \in Order,
           SamePlace(filled[lists[s][p][1]].order, ns[lists[s][p][1]].order)
    PROVE  InPlace(filled, ns, first, lv, ix, free, lists, s, p, filled[lists[s][p][1]].order)
  <1>0. PICK order \in Order : order = filled[lists[s][p][1]].order
    OBVIOUS
  <1> DEFINE D == DOMAIN ns
  <1>1. /\ Shape(ns) /\ DOMAIN filled = D /\ \E size \in Nat : D = 0 .. size - 1
    BY ShapeFacts DEF Structure
  <1>2. /\ DOMAIN lv = Sides /\ DOMAIN lists = Sides
        /\ \A t \in Sides : DOMAIN lv[t] \subseteq Prices \ {0} /\ DOMAIN lists[t] = DOMAIN lv[t]
        /\ \A t \in Sides : \A q \in DOMAIN lv[t] : LevelList(ns, lv[t][q], lists[t][q])
        /\ \A t \in Sides : \A q \in DOMAIN lists[t] : /\ lists[t][q] \in Seq(D) /\ lists[t][q] # <<>>
                                                       /\ IsInjective(lists[t][q])
                                                       /\ \A k \in DOMAIN lists[t][q] : lists[t][q][k] \in D
    BY DEF Structure, LevelLists, LevelList
  <1>3. 1 \in DOMAIN lists[s][p] /\ lists[s][p][1] \in D
    BY <1>2
  <1>4. /\ \A j \in D : /\ filled[j].order.id = ns[j].order.id
                        /\ filled[j].order.side = ns[j].order.side
                        /\ filled[j].order.price = ns[j].order.price
                        /\ ns[j].order \in Order => filled[j].order \in Order
    BY <1>3 DEF LinksKept, SamePlace
  <1>5. Shape(filled)
    BY <1>1 DEF Shape
  <1>6. FreeList(filled, first, free)
    <2>1. FreeList(ns, first, free) /\ \A k \in DOMAIN free : free[k] \in D
      BY DEF Structure, FreeList
    <2>2. \A k \in DOMAIN free : filled[free[k]].next = ns[free[k]].next
      BY <2>1 DEF LinksKept
    <2>3. DOMAIN ns \subseteq DOMAIN filled
      BY <1>1
    <2> QED BY <2>1, <2>2, <2>3, FreeFrame
  <1>7. LevelLists(filled, lv, lists)
    <2>1. ASSUME NEW t \in Sides, NEW q \in DOMAIN lv[t] PROVE LevelList(filled, lv[t][q], lists[t][q])
      <3>1. LevelList(ns, lv[t][q], lists[t][q]) /\ DOMAIN ns \subseteq DOMAIN filled
        BY <1>1, <1>2
      <3>2. \A k \in DOMAIN lists[t][q] : /\ filled[lists[t][q][k]].next = ns[lists[t][q][k]].next
                                          /\ filled[lists[t][q][k]].prev = ns[lists[t][q][k]].prev
        BY <1>2 DEF LinksKept
      <3> QED BY <3>1, <3>2, LevelFrame
    <2> QED BY <1>2, <2>1 DEF LevelLists
  <1>8. \A id \in DOMAIN ix : ix[id] \in D
    BY DEF Structure, Indexed
  <1>9. Indexed(filled, ix, lists)
    <2>1. Indexed(ns, ix, lists)
      BY DEF Structure
    <2> QED BY <1>1, <1>4, <1>8, <2>1 DEF Indexed
  <1>10. Divided(filled, ix, free)
    BY <1>1 DEF Structure, Divided
  <1>11. Structure(filled, first, lv, ix, free, lists)
    BY <1>5, <1>6, <1>7, <1>9, <1>10 DEF Structure
  <1>12. LocationsOf(filled, ix) = LocationsOf(ns, ix)
    BY <1>4, <1>8 DEF LocationsOf
  <1>13. Orders(filled, lists[s][p]) = [Orders(ns, lists[s][p]) EXCEPT ![1] = order]
    <2>1. ASSUME NEW k \in DOMAIN lists[s][p]
          PROVE  filled[lists[s][p][k]].order = IF k = 1 THEN order ELSE ns[lists[s][p][k]].order
      <3>1. CASE k = 1
        BY <1>0, <3>1
      <3>2. CASE k # 1
        <4>1. lists[s][p][k] # lists[s][p][1] /\ lists[s][p][k] \in D
          BY <1>2, <1>3, <3>2 DEF IsInjective
        <4> QED BY <3>2, <4>1 DEF LinksKept
      <3> QED BY <3>1, <3>2
    <2> QED BY <2>1 DEF Orders
  <1>14. \A t \in Sides : \A q \in DOMAIN lists[t] : Other(t, q, s, p) =>
            Orders(filled, lists[t][q]) = Orders(ns, lists[t][q])
    <2>1. ASSUME NEW t \in Sides, NEW q \in DOMAIN lists[t], Other(t, q, s, p), NEW k \in DOMAIN lists[t][q]
          PROVE  filled[lists[t][q][k]].order = ns[lists[t][q][k]].order
      <3>1. lists[t][q][k] # lists[s][p][1]
        BY <1>3, <2>1, ListsApart
      <3> QED BY <1>2, <3>1 DEF LinksKept
    <2> QED BY <2>1 DEF Orders
  <1>15. QueuesOf(filled, lists) = FrontPut(QueuesOf(ns, lists), s, p, order)
    <2>1. PICK queue : queue = [QueuesOf(ns, lists)[s][p] EXCEPT ![1] = order]
      OBVIOUS
    <2>2. Orders(filled, lists[s][p]) = queue
      BY <1>13, <2>1 DEF QueuesOf
    <2>3. FrontPut(QueuesOf(ns, lists), s, p, order)
             = [t \in Sides |-> [q \in DOMAIN lists[t] |->
                   IF t = s /\ q = p THEN queue ELSE Orders(ns, lists[t][q])]]
      BY <2>1 DEF QueuesOf, FrontPut
    <2>4. \A t \in Sides : \A q \in DOMAIN lists[t] :
             Orders(filled, lists[t][q]) = IF t = s /\ q = p THEN queue ELSE Orders(ns, lists[t][q])
      BY <1>14, <2>2 DEF Other
    <2>5. QueuesOf(filled, lists)
             = [t \in Sides |-> [q \in DOMAIN lists[t] |->
                   IF t = s /\ q = p THEN queue ELSE Orders(ns, lists[t][q])]]
      BY <2>4 DEF QueuesOf
    <2> QED BY <2>3, <2>5
  <1> QED BY <1>0, <1>11, <1>12, <1>15 DEF InPlace

NoLevels == [s \in Sides |-> <<>>]

\* A pool whose slots are all chained, as the constructor and clear leave it.
LEMMA EmptyPool ==
    ASSUME NEW n \in Nat, NEW ns \in [0 .. n - 1 -> Node(0 .. n - 1)],
           NEW after, after = Relinked(ns, 0)
    PROVE  /\ Structure(after, IF 0 < n THEN 0 ELSE INVALID_IDX, NoLevels, <<>>, Fresh(0, n), NoLevels)
           /\ QueuesOf(after, NoLevels) = NoLevels
           /\ LocationsOf(after, <<>>) = <<>>
  <1>1. DOMAIN <<>> = {} /\ Range(<<>>) = {}
    BY DEF Range
  <1>2. 0 \in 0 .. n
    OBVIOUS
  <1>3. /\ after \in [0 .. n - 1 -> Node(0 .. n - 1)]
        /\ FreeList(after, IF 0 < n THEN 0 ELSE INVALID_IDX, Fresh(0, n))
    BY <1>2, SlotsRelinked
  <1>4. Range(Fresh(0, n)) = 0 .. n - 1
    BY <1>2, FreshSlots
  <1>5. Shape(after)
    BY <1>3 DEF Shape
  <1>6. DOMAIN NoLevels = Sides /\ \A s \in Sides : DOMAIN NoLevels[s] = {}
    BY <1>1 DEF NoLevels
  <1>7. LevelLists(after, NoLevels, NoLevels) /\ Indexed(after, <<>>, NoLevels)
    BY <1>1, <1>6 DEF LevelLists, Indexed
  <1>8. Divided(after, <<>>, Fresh(0, n))
    BY <1>1, <1>3, <1>4 DEF Divided
  <1>9. QueuesOf(after, NoLevels) = NoLevels
    BY <1>1 DEF QueuesOf, NoLevels
  <1>10. LocationsOf(after, <<>>) = <<>>
    BY <1>1 DEF LocationsOf
  <1> QED BY <1>3, <1>5, <1>7, <1>8, <1>9, <1>10 DEF Structure

-----------------------------------------------------------------------------
(* The book that the lists make                                            *)

Book == INSTANCE StlOrderBookProofs
            WITH queues <- RestingQueues, order_index <- OrderLocations

\* The assumptions on the constants, as that book names them.
LEMMA BookAssumptions == Book!OrderTypesAssumption /\ Book!NoOrderAssumption
  <1>1. Book!IsFiniteSet(Prices) <=> IsFiniteSet(Prices)
    BY Zenon DEF IsFiniteSet, Book!IsFiniteSet
  <1>2. Book!Order = Order
    BY DEF Book!Order, Order, Sides, Book!Sides, Quantities, Book!Quantities
  <1> QED BY <1>1, <1>2, OrderTypesAssumption, NoOrderAssumption
          DEF Book!OrderTypesAssumption, Book!NoOrderAssumption

\* Where the STL book finds an order, its slot is listed.
LEMMA SettledLists ==
    ASSUME NEW ns, NEW first, NEW lv, NEW ix, NEW free, NEW lists,
           Structure(ns, first, lv, ix, free, lists),
           Book!BookOK(QueuesOf(ns, lists), LocationsOf(ns, ix))
    PROVE  Settled(ns, ix, lists)
  <1> DEFINE queues == QueuesOf(ns, lists)
             index  == LocationsOf(ns, ix)
  <1>1. Book!Order = Order /\ Book!Sides = Sides
    BY DEF Book!Order, Order, Sides, Book!Sides, Quantities, Book!Quantities
  <1>2. \A s \in Sides : /\ DOMAIN queues[s] = DOMAIN lists[s]
                         /\ \A p \in DOMAIN lists[s] :
                               /\ DOMAIN queues[s][p] = DOMAIN lists[s][p]
                               /\ \A k \in DOMAIN lists[s][p] : queues[s][p][k] = ns[lists[s][p][k]].order
    BY DEF QueuesOf, Orders
  <1>3. \A id \in DOMAIN ix : index[id].side = ns[ix[id]].order.side /\ index[id].price = ns[ix[id]].order.price
    BY DEF LocationsOf
  <1>4. DOMAIN index = DOMAIN ix
    BY DEF LocationsOf
  <1> HIDE DEF queues, index
  <1>5. /\ \A s \in Sides : \A p \in DOMAIN queues[s] : Book!Listed(queues[s][p], s, p, index)
        /\ \A id \in DOMAIN index : Book!Located(id, queues, index)
    BY <1>1 DEF Book!BookOK, queues, index
  <1>6. ASSUME NEW s \in Sides, NEW p \in DOMAIN lists[s], NEW k \in DOMAIN lists[s][p]
        PROVE  LET o == ns[lists[s][p][k]].order
               IN  /\ o \in Order /\ o.side = s /\ o.price = p
                   /\ o.type = "Limit" /\ o.remaining \in 1 .. o.initial
    <2>1. Book!Listed(queues[s][p], s, p, index) /\ k \in DOMAIN queues[s][p]
      BY <1>2, <1>5
    <2>2. queues[s][p][k] \in Order /\ Book!Fits(queues[s][p][k], s, p)
      BY <1>1, <2>1 DEF Book!Listed
    <2> QED BY <1>2, <2>2 DEF Book!Fits
  <1>7. ASSUME NEW id \in DOMAIN ix
        PROVE  LET o == ns[ix[id]].order
               IN  /\ o.price \in DOMAIN lists[o.side]
                   /\ \E k \in DOMAIN lists[o.side][o.price] : lists[o.side][o.price][k] = ix[id]
    <2>1. PICK s, p : s = ns[ix[id]].order.side /\ p = ns[ix[id]].order.price
      OBVIOUS
    <2>2. Book!Located(id, queues, index)
      BY <1>4, <1>5
    <2>3. s \in Sides /\ p \in DOMAIN queues[s] /\ \E k \in DOMAIN queues[s][p] : queues[s][p][k].id = id
      BY <1>1, <1>3, <2>1, <2>2 DEF Book!Located
    <2>4. PICK k \in DOMAIN lists[s][p] : ns[lists[s][p][k]].order.id = id /\ p \in DOMAIN lists[s]
      BY <1>2, <2>3
    <2>5. PICK key \in DOMAIN ix : ix[key] = lists[s][p][k]
      BY <2>3, <2>4 DEF Structure, Indexed
    <2>6. ns[ix[key]].order.id = key
      BY DEF Structure, Indexed
    <2> QED BY <2>1, <2>4, <2>5, <2>6
  <1> QED BY <1>6, <1>7 DEF Settled

\* What RestingQueues evaluates to.
QueuesRead(ns, lv) ==
    [s \in Sides |-> [p \in DOMAIN lv[s] |->
        Orders(ns, Chain([i \in DOMAIN ns |-> ns[i].next], lv[s][p].head))]]

LEMMA QueuesFound ==
    ASSUME NEW ns, NEW first, NEW lv, NEW ix, NEW free, NEW lists,
           Structure(ns, first, lv, ix, free, lists)
    PROVE  QueuesRead(ns, lv) = QueuesOf(ns, lists)
  <1>1. \A s \in Sides : DOMAIN lists[s] = DOMAIN lv[s]
    BY DEF Structure, LevelLists
  <1>2. ASSUME NEW s \in Sides, NEW p \in DOMAIN lv[s]
        PROVE  Chain([i \in DOMAIN ns |-> ns[i].next], lv[s][p].head) = lists[s][p]
    <2>1. Shape(ns) /\ LevelList(ns, lv[s][p], lists[s][p])
      BY DEF Structure, LevelLists
    <2> QED BY <2>1, LevelChain
  <1> QED BY <1>1, <1>2 DEF QueuesOf, QueuesRead

\* A list of one is left empty.
LEMMA DropEmpty ==
    ASSUME NEW list, NEW i, NEW n \in Nat \ {0}, DOMAIN Drop(list, i) = 1 .. n - 1
    PROVE  Drop(list, i) = <<>> <=> n = 1
  <1>1. DOMAIN <<>> = {}
    OBVIOUS
  <1>2. CASE n = 1
    <2>1. DOMAIN Drop(list, i) = {}
      BY <1>2
    <2>2. Drop(list, i) = [k \in DOMAIN Drop(list, i) |-> Drop(list, i)[k]]
      BY DEF Drop
    <2>3. <<>> = [k \in {} |-> Drop(list, i)[k]]
      OBVIOUS
    <2> QED BY <1>2, <2>1, <2>2, <2>3
  <1>3. CASE n # 1
    <2>1. 1 \in DOMAIN Drop(list, i)
      BY <1>3
    <2> QED BY <1>1, <1>3, <2>1
  <1> QED BY <1>2, <1>3

\* What remove_from_level and free_node do, and StoreLevel after them.
LEMMA SlotUnlinked ==
    ASSUME NEW D, NEW ns \in [D -> Node(D)], INVALID_IDX \notin D,
           NEW level, NEW list, LevelList(ns, level, list), NEW i \in DOMAIN list,
           ns[list[i]].order \in Order
    PROVE  Unlinked(remove_from_level(ns, level, list[i]).nodes,
                    remove_from_level(ns, level, list[i]).level, ns, D, list, i)
  <1>1. DOMAIN ns = D
    OBVIOUS
  <1>2. PICK rest : rest = remove_from_level(ns, level, list[i])
    OBVIOUS
  <1>3. /\ rest.nodes \in [DOMAIN ns -> Node(DOMAIN ns)]
        /\ \A j \in DOMAIN ns : rest.nodes[j].order = ns[j].order
        /\ \A j \in DOMAIN ns : (\A k \in DOMAIN list : list[k] # j) => rest.nodes[j] = ns[j]
        /\ IF Len(list) = 1 THEN rest.level.head = INVALID_IDX
           ELSE LevelList(rest.nodes, rest.level, Drop(list, i))
    BY <1>1, <1>2, SlotRemoved
  <1> QED BY <1>1, <1>2, <1>3 DEF Unlinked

\* A side's map after StoreLevel, and after StoreQueue of the STL book.
LevelKept(lv, s, p, level) ==
    [lv EXCEPT ![s] = IF level.head = INVALID_IDX THEN MapErase(@, p) ELSE MapPut(@, p, level)]

QueueKept(queues, s, p, queue) ==
    [queues EXCEPT ![s] = IF queue = <<>> THEN MapErase(@, p) ELSE MapPut(@, p, queue)]

\* The pool and the book without the order that was at place i of a list.
LEMMA OrderLeaves ==
    ASSUME NEW ns, NEW first, NEW lv, NEW ix, NEW free, NEW lists,
           Structure(ns, first, lv, ix, free, lists), Settled(ns, ix, lists),
           NEW s \in Sides, NEW p \in DOMAIN lists[s], NEW i \in DOMAIN lists[s][p],
           NEW id \in DOMAIN ix, ix[id] = lists[s][p][i],
           NEW filled \in [DOMAIN ns -> Node(DOMAIN ns)], filled[ix[id]].order \in Order,
           LinksKept(filled, ns, ix[id]), NEW rest, rest = remove_from_level(filled, lv[s][p], ix[id])
    PROVE  \E free2, lists2 :
              /\ Structure(Freed(rest.nodes, ix[id], first), ix[id], LevelKept(lv, s, p, rest.level),
                           MapErase(ix, id), free2, lists2)
              /\ QueuesOf(Freed(rest.nodes, ix[id], first), lists2)
                    = QueueKept(QueuesOf(ns, lists), s, p, Drop(Orders(ns, lists[s][p]), i))
              /\ LocationsOf(Freed(rest.nodes, ix[id], first), MapErase(ix, id))
                    = MapErase(LocationsOf(ns, ix), id)
  <1> DEFINE D    == DOMAIN ns
             left == Drop(lists[s][p], i)
  <1>1. INVALID_IDX \notin D /\ DOMAIN filled = D
    BY ShapeFacts DEF Structure
  <1>2. /\ s \in DOMAIN lv /\ LevelList(ns, lv[s][p], lists[s][p])
        /\ \A k \in DOMAIN lists[s][p] : lists[s][p][k] \in D
        /\ lists[s][p] \in Seq(D) /\ IsInjective(lists[s][p])
    BY DEF Structure, LevelLists, LevelList
  <1>3. LevelList(filled, lv[s][p], lists[s][p])
    <2>1. \A k \in DOMAIN lists[s][p] : /\ filled[lists[s][p][k]].next = ns[lists[s][p][k]].next
                                        /\ filled[lists[s][p][k]].prev = ns[lists[s][p][k]].prev
      BY <1>2 DEF LinksKept
    <2>2. DOMAIN ns \subseteq DOMAIN filled
      BY <1>1
    <2> QED BY <1>2, <2>1, <2>2, LevelFrame
  <1>4. PICK linked, shorter : linked = rest.nodes /\ shorter = rest.level
    OBVIOUS
  <1>5. Unlinked(linked, shorter, filled, D, lists[s][p], i)
    <2>1. Unlinked(remove_from_level(filled, lv[s][p], lists[s][p][i]).nodes,
                   remove_from_level(filled, lv[s][p], lists[s][p][i]).level, filled, D, lists[s][p], i)
      <3>1. filled[lists[s][p][i]].order \in Order
        OBVIOUS
      <3> QED BY <1>1, <1>3, <3>1, SlotUnlinked
    <2> QED BY <1>4, <2>1
  <1>6. linked \in [D -> Node(D)] /\ first \in D \cup {INVALID_IDX} /\ ix[id] \in D
    <2>1. first \in D \cup {INVALID_IDX}
      BY DEF Structure, FreeList, At
    <2> QED BY <1>2, <1>5, <2>1 DEF Unlinked
  <1>7. PICK after : after = Freed(linked, ix[id], first)
    OBVIOUS
  <1>8. OneFreed(after, linked, D, ix[id], first)
    <2>1. OneFreed(Freed(linked, ix[id], first), linked, D, ix[id], first)
      BY <1>6, NodeFreed
    <2> QED BY <1>7, <2>1
  <1>9. Released(after, shorter, ns, lv, ix, free, lists, s, p, i, id)
    BY <1>5, <1>8, NodeReleased
  <1>10. PutOrErase(lv, s, p, shorter, left) = LevelKept(lv, s, p, shorter)
    BY <1>9 DEF PutOrErase, LevelKept, Released
  <1>11. Drop(Orders(ns, lists[s][p]), i) = <<>> <=> left = <<>>
    <2>1. PICK n \in Nat \ {0} : n = Len(lists[s][p]) /\ DOMAIN lists[s][p] = 1 .. n
      BY <1>2
    <2>2. Len(Orders(ns, lists[s][p])) = n
      BY <2>1 DEF Orders
    <2>3. DOMAIN Drop(Orders(ns, lists[s][p]), i) = 1 .. n - 1 /\ DOMAIN left = 1 .. n - 1
      BY <2>1, <2>2 DEF Drop
    <2>4. Drop(Orders(ns, lists[s][p]), i) = <<>> <=> n = 1
      BY <2>2, <2>3, DropEmpty
    <2>5. left = <<>> <=> n = 1
      BY <2>1, <2>3, DropEmpty
    <2> QED BY <2>4, <2>5
  <1>12. PutOrErase(QueuesOf(ns, lists), s, p, Drop(Orders(ns, lists[s][p]), i), left)
            = QueueKept(QueuesOf(ns, lists), s, p, Drop(Orders(ns, lists[s][p]), i))
    BY <1>11 DEF PutOrErase, QueueKept
  <1> QED
    <2>1. PICK free2, lists2 : free2 = <<ix[id]>> \o free /\ lists2 = PutOrErase(lists, s, p, left, left)
      OBVIOUS
    <2> HIDE DEF left
    <2>2. Structure(after, ix[id], LevelKept(lv, s, p, shorter), MapErase(ix, id), free2, lists2)
      BY <1>9, <1>10, <2>1 DEF Released, left
    <2>3. QueuesOf(after, lists2) = QueueKept(QueuesOf(ns, lists), s, p, Drop(Orders(ns, lists[s][p]), i))
      BY <1>9, <1>12, <2>1 DEF Released, left
    <2>4. LocationsOf(after, MapErase(ix, id)) = MapErase(LocationsOf(ns, ix), id)
      BY <1>9 DEF Released
    <2> QED BY <1>4, <1>7, <2>2, <2>3, <2>4

\* pop_front, entry by entry.
LEMMA TailOf ==
    ASSUME NEW queue \in Seq(Order), NEW n \in Nat \ {0}, n = Len(queue)
    PROVE  Tail(queue) = [k \in 1 .. n - 1 |-> queue[k + 1]]
  <1>1. queue # <<>>
    OBVIOUS
  <1>2. Tail(queue) \in Seq(Order) /\ Len(Tail(queue)) = n - 1
    BY <1>1
  <1>3. DOMAIN Tail(queue) = 1 .. n - 1
    BY <1>2
  <1>4. \A k \in 1 .. n - 1 : Tail(queue)[k] = queue[k + 1]
    BY <1>1
  <1>5. Tail(queue) = [k \in 1 .. n - 1 |-> Tail(queue)[k]]
    <2>1. PICK rest \in Seq(Order) : rest = Tail(queue) /\ Len(rest) = n - 1
      BY <1>2
    <2>2. rest = [k \in 1 .. Len(rest) |-> rest[k]]
      OBVIOUS
    <2> QED BY <2>1, <2>2
  <1> QED BY <1>4, <1>5

\* list::erase and pop_front of the STL book.
LEMMA ErasedAt ==
    ASSUME NEW queue \in Seq(Order), NEW i \in DOMAIN queue
    PROVE  /\ Stl!RemoveAt(queue, i) = Drop(queue, i)
           /\ Tail(queue) = Drop(queue, 1)
  <1>1. PICK n \in Nat \ {0} : n = Len(queue) /\ DOMAIN queue = 1 .. n /\ i \in 1 .. n
    OBVIOUS
  <1>2. Tail(queue) = Drop(queue, 1)
    <2>1. Tail(queue) = [k \in 1 .. n - 1 |-> queue[k + 1]]
      BY <1>1, TailOf
    <2>2. Drop(queue, 1) = [k \in 1 .. n - 1 |-> queue[k + 1]]
      <3>1. \A k \in 1 .. n - 1 : (IF k < 1 THEN k ELSE k + 1) = k + 1
        OBVIOUS
      <3> QED BY <1>1, <3>1 DEF Drop
    <2> QED BY <2>1, <2>2
  <1>3. Book!Order = Order
    BY DEF Book!Order, Order, Sides, Book!Sides, Quantities, Book!Quantities
  <1>4. Book!Without(Book!RemoveAt(queue, i), queue, i)
    BY <1>3, Book!RemoveAtWithout, BookAssumptions
  <1>5. Stl!RemoveAt(queue, i) = Book!RemoveAt(queue, i)
    BY Zenon DEF Stl!RemoveAt, Book!RemoveAt
  <1>6. Book!RemoveAt(queue, i) = Drop(queue, i)
    BY <1>1, <1>3, <1>4 DEF Book!Without, Drop
  <1> QED BY <1>2, <1>5, <1>6

-----------------------------------------------------------------------------
(* The inductive invariant                                                 *)

\* The links form lists.
Linked == \E free, lists : Structure(nodes, free_head, levels, order_index, free, lists)

\* A price of 0 marks a market order; submit_order turns a limit order with it away.
TakerPriced == taker # NoOrder /\ taker.type = "Limit" => taker.price # 0

\* The lists and, of the book that they make, the invariant of the STL book.
PoolInv == Linked /\ TakerPriced /\ Book!IndInv

\* The lists of the free slots and of the levels, and what a reader of the book sees.
Viewed(free, lists) ==
    /\ Structure(nodes, free_head, levels, order_index, free, lists)
    /\ Settled(nodes, order_index, lists)
    /\ RestingQueues = QueuesOf(nodes, lists)
    /\ OrderLocations = LocationsOf(nodes, order_index)

\* What a reader of the book sees, in terms of the lists.
LEMMA Seen ==
    ASSUME NEW free, NEW lists, Structure(nodes, free_head, levels, order_index, free, lists)
    PROVE  /\ RestingQueues = QueuesOf(nodes, lists)
           /\ OrderLocations = LocationsOf(nodes, order_index)
  <1>1. RestingQueues = QueuesOf(nodes, lists)
    BY QueuesFound DEF RestingQueues, Forward, QueuesRead, Orders
  <1>2. OrderLocations = LocationsOf(nodes, order_index)
    BY DEF OrderLocations, LocationsOf, get_order
  <1> QED BY <1>1, <1>2

\* And after a step.
LEMMA SeenNext ==
    ASSUME NEW free, NEW lists, Structure(nodes', free_head', levels', order_index', free, lists)
    PROVE  /\ Linked'
           /\ RestingQueues' = QueuesOf(nodes', lists)
           /\ OrderLocations' = LocationsOf(nodes', order_index')
  <1>1. RestingQueues' = QueuesOf(nodes', lists)
    <2>1. RestingQueues' = QueuesRead(nodes', levels')
      BY DEF RestingQueues, Forward, QueuesRead, Orders
    <2> QED BY <2>1, QueuesFound
  <1>2. OrderLocations' = LocationsOf(nodes', order_index')
    BY DEF OrderLocations, LocationsOf, get_order
  <1>3. Linked'
    BY DEF Linked
  <1> QED BY <1>1, <1>2, <1>3

\* The invariant, with the lists it speaks of named.
LEMMA Opened == ASSUME PoolInv PROVE \E free, lists : Viewed(free, lists)
  <1>1. PICK free, lists : Structure(nodes, free_head, levels, order_index, free, lists)
    BY DEF PoolInv, Linked
  <1>2. RestingQueues = QueuesOf(nodes, lists) /\ OrderLocations = LocationsOf(nodes, order_index)
    BY <1>1, Seen
  <1>3. Book!BookOK(RestingQueues, OrderLocations)
    BY DEF PoolInv, Book!IndInv
  <1>4. Settled(nodes, order_index, lists)
    BY <1>1, <1>2, <1>3, SettledLists
  <1> QED BY <1>1, <1>2, <1>4 DEF Viewed

-----------------------------------------------------------------------------
(* StlOrderBook and StlOrderBookProofs are two instances of one book.      *)

\* The best price of the two.
LEMMA SameBest ==
    ASSUME NEW s, NEW T
    PROVE  Stl!BestPrice(s, T) = Book!BestPrice(s, T) /\ BestPrice(s, T) = Book!BestPrice(s, T)
  BY Zenon DEF Stl!BestPrice, Book!BestPrice, BestPrice, Stl!Better, Book!Better, Better

\* Their steps of accepting and rejecting a call.
LEMMA SameSubmit ==
    /\ Stl!Submittable = Book!Submittable /\ Stl!Submittable = Submittable
    /\ \A o : Stl!SubmitAccept(o) <=> Book!SubmitAccept(o)
    /\ \A o : Stl!SubmitReject(o) <=> Book!SubmitReject(o)
  <1>1. Stl!Submittable = Book!Submittable /\ Stl!Submittable = Submittable
    BY DEF Stl!Submittable, Book!Submittable, Submittable, Stl!Order, Book!Order, Order,
           Stl!Sides, Book!Sides, Sides, Stl!Quantities, Book!Quantities, Quantities
  <1>2. ASSUME NEW o PROVE Stl!SubmitAccept(o) <=> Book!SubmitAccept(o)
    BY DEF Stl!SubmitAccept, Book!SubmitAccept, Stl!Rejected, Book!Rejected
  <1>3. ASSUME NEW o PROVE Stl!SubmitReject(o) <=> Book!SubmitReject(o)
    BY DEF Stl!SubmitReject, Book!SubmitReject, Stl!Rejected, Book!Rejected
  <1> QED BY <1>1, <1>2, <1>3

\* Of cancel_order and clear.
LEMMA SameCancel ==
    /\ \A id : Stl!CancelMiss(id) <=> Book!CancelMiss(id)
    /\ \A id : Stl!CancelHit(id) <=> Book!CancelHit(id)
    /\ Stl!Clear <=> Book!Clear
  <1>1. ASSUME NEW id PROVE Stl!CancelMiss(id) <=> Book!CancelMiss(id)
    BY DEF Stl!CancelMiss, Book!CancelMiss
  <1>2. ASSUME NEW id PROVE Stl!CancelHit(id) <=> Book!CancelHit(id)
    BY Zenon DEF Stl!CancelHit, Book!CancelHit, Stl!StoreQueue, Book!StoreQueue,
       Stl!MapErase, Book!MapErase, Stl!MapPut, Book!MapPut, Stl!list_it, Book!list_it,
       Stl!RemoveAt, Book!RemoveAt
  <1>3. Stl!Clear <=> Book!Clear
    BY DEF Stl!Clear, Book!Clear, Stl!Sides, Book!Sides
  <1> QED BY <1>1, <1>2, <1>3

\* Of the loop of submit_order.
LEMMA SameMatch ==
    /\ Stl!MatchStep <=> Book!MatchStep
    /\ Stl!FinishSubmit <=> Book!FinishSubmit
  <1>1. Stl!CanMatch <=> Book!CanMatch
    BY Zenon DEF Stl!CanMatch, Book!CanMatch, Stl!Opposite, Book!Opposite, Stl!Crosses,
       Book!Crosses, Stl!BestPrice, Book!BestPrice, Stl!Better, Book!Better
  <1>2. Stl!MatchStep <=> Book!MatchStep
    BY <1>1, Zenon DEF Stl!MatchStep, Book!MatchStep, Stl!StoreQueue, Book!StoreQueue,
       Stl!MapErase, Book!MapErase, Stl!MapPut, Book!MapPut, Stl!Opposite, Book!Opposite,
       Stl!BestPrice, Book!BestPrice, Stl!Better, Book!Better, Stl!Lesser, Book!Lesser
  <1>3. Stl!FinishSubmit <=> Book!FinishSubmit
    BY <1>1, Zenon DEF Stl!FinishSubmit, Book!FinishSubmit, Stl!Enqueue, Book!Enqueue,
       Stl!MapPut, Book!MapPut
  <1> QED BY <1>2, <1>3

\* Of the whole book.
LEMMA SameBook == /\ Stl!Init <=> Book!Init
                  /\ [Stl!Next]_(Stl!vars) <=> [Book!Next]_(Book!vars)
  <1>1. Stl!Next <=> Book!Next
    BY SameSubmit, SameCancel, SameMatch DEF Stl!Next, Book!Next
  <1>2. Stl!Init <=> Book!Init
    BY DEF Stl!Init, Book!Init, Stl!Sides, Book!Sides
  <1> QED BY <1>1, <1>2 DEF Stl!vars, Book!vars

-----------------------------------------------------------------------------
(* Each step is one of the STL book and leaves the links sound.            *)

\* A step that leaves the pool alone leaves the book alone.
LEMMA BookKept ==
    ASSUME Linked, UNCHANGED <<nodes, free_head, order_index, levels>>
    PROVE  Linked' /\ UNCHANGED <<RestingQueues, OrderLocations>>
  BY DEF Linked, RestingQueues, Forward, OrderLocations, get_order

\* submit_order turns an order away.
LEMMA RejectStep ==
    ASSUME PoolInv, NEW o \in Submittable, SubmitReject(o)
    PROVE  Linked' /\ TakerPriced' /\ Stl!SubmitReject(o)
  <1>1. UNCHANGED <<nodes, free_head, order_index, levels, taker>> /\ Linked
    BY DEF SubmitReject, PoolInv
  <1>2. Linked' /\ UNCHANGED <<RestingQueues, OrderLocations>>
    BY <1>1, BookKept
  <1>3. TakerPriced'
    BY <1>1 DEF PoolInv, TakerPriced
  <1>4. DOMAIN OrderLocations = DOMAIN order_index
    BY DEF OrderLocations
  <1> QED BY <1>1, <1>2, <1>3, <1>4 DEF SubmitReject, Rejected, Stl!SubmitReject, Stl!Rejected

\* submit_order takes an order.
LEMMA AcceptStep ==
    ASSUME PoolInv, NEW o \in Submittable, SubmitAccept(o)
    PROVE  Linked' /\ TakerPriced' /\ Stl!SubmitAccept(o)
  <1>1. UNCHANGED <<nodes, free_head, order_index, levels>> /\ Linked /\ taker = NoOrder
    BY DEF SubmitAccept, PoolInv
  <1>2. Linked' /\ UNCHANGED <<RestingQueues, OrderLocations>>
    BY <1>1, BookKept
  <1>3. TakerPriced'
    <2>1. o \in Order /\ taker' = [o EXCEPT !.remaining = IF @ = 0 THEN o.initial ELSE @]
      BY DEF SubmitAccept, Submittable
    <2>2. taker'.type = o.type /\ taker'.price = o.price
      BY <2>1 DEF Order
    <2>3. ~(o.type = "Limit" /\ o.price = 0)
      BY DEF SubmitAccept, Rejected
    <2> QED BY <2>2, <2>3 DEF TakerPriced
  <1>4. DOMAIN OrderLocations = DOMAIN order_index
    BY DEF OrderLocations
  <1> QED BY <1>1, <1>2, <1>3, <1>4 DEF SubmitAccept, Rejected, Stl!SubmitAccept, Stl!Rejected

\* cancel_order of an unknown id.
LEMMA MissStep ==
    ASSUME PoolInv, NEW id, CancelMiss(id)
    PROVE  Linked' /\ TakerPriced' /\ Stl!CancelMiss(id)
  <1>1. UNCHANGED <<nodes, free_head, order_index, levels, taker>> /\ Linked
    BY DEF CancelMiss, PoolInv
  <1>2. Linked' /\ UNCHANGED <<RestingQueues, OrderLocations>>
    BY <1>1, BookKept
  <1>3. TakerPriced'
    BY <1>1 DEF PoolInv, TakerPriced
  <1>4. DOMAIN OrderLocations = DOMAIN order_index
    BY DEF OrderLocations
  <1> QED BY <1>1, <1>2, <1>3, <1>4 DEF CancelMiss, Stl!CancelMiss

\* The chained pool of n slots that the constructor and clear make.
LEMMA Chained ==
    ASSUME NEW n \in Nat, NEW ns \in [0 .. n - 1 -> Node(0 .. n - 1)],
           nodes' = Relinked(ns, 0), free_head' = IF 0 < n THEN 0 ELSE INVALID_IDX,
           order_index' = <<>>, levels' = [s \in Sides |-> <<>>]
    PROVE  Linked' /\ RestingQueues' = NoLevels /\ OrderLocations' = <<>>
  <1>1. PICK after : after = Relinked(ns, 0)
    OBVIOUS
  <1>2. /\ Structure(after, IF 0 < n THEN 0 ELSE INVALID_IDX, NoLevels, <<>>, Fresh(0, n), NoLevels)
        /\ QueuesOf(after, NoLevels) = NoLevels
        /\ LocationsOf(after, <<>>) = <<>>
    BY <1>1, EmptyPool
  <1>3. levels' = NoLevels /\ nodes' = after
    BY <1>1 DEF NoLevels
  <1>4. Structure(nodes', free_head', levels', order_index', Fresh(0, n), NoLevels)
    BY <1>2, <1>3
  <1> QED BY <1>2, <1>3, <1>4, SeenNext

\* clear.
LEMMA ClearStep ==
    ASSUME PoolInv, Clear
    PROVE  Linked' /\ TakerPriced' /\ Stl!Clear
  <1>1. PICK n \in Nat : nodes \in [0 .. n - 1 -> Node(0 .. n - 1)]
    BY DEF PoolInv, Linked, Structure, Shape
  <1>2. DOMAIN nodes # {} <=> 0 < n
    BY <1>1
  <1>3. /\ nodes' = Relinked(nodes, 0) /\ free_head' = IF 0 < n THEN 0 ELSE INVALID_IDX
        /\ order_index' = <<>> /\ levels' = [s \in Sides |-> <<>>]
    BY <1>2 DEF Clear
  <1>4. Linked' /\ RestingQueues' = NoLevels /\ OrderLocations' = <<>>
    BY <1>1, <1>3, Chained
  <1>5. Stl!Sides = Sides
    BY DEF Stl!Sides, Sides
  <1> QED BY <1>4, <1>5 DEF Clear, Stl!Clear, NoLevels, PoolInv, TakerPriced

\* The constructor.
LEMMA InitLinked == Init => Linked /\ TakerPriced /\ Stl!Init
  <1> SUFFICES ASSUME Init PROVE Linked /\ TakerPriced /\ Stl!Init
    OBVIOUS
  <1>1. PICK n \in Nat : n = InitialCapacity
    BY PoolAssumption
  <1>2. PICK ns : ns = Resized(<<>>, n)
    OBVIOUS
  <1>3. ns \in [0 .. n - 1 -> Node(0 .. n - 1)]
    <2>1. ns = [i \in 0 .. n - 1 |-> [order |-> NoOrder, prev |-> INVALID_IDX, next |-> INVALID_IDX]]
      <3>1. \A i \in 0 .. n - 1 : i \notin DOMAIN <<>>
        OBVIOUS
      <3> QED BY <1>2, <3>1 DEF Resized
    <2> QED BY <2>1 DEF Node
  <1>4. PICK first : first = IF 0 < n THEN 0 ELSE INVALID_IDX
    OBVIOUS
  <1>5. nodes = Relinked(ns, 0) /\ free_head = first /\ order_index = <<>> /\ levels = NoLevels
    BY <1>1, <1>2, <1>4 DEF Init, NoLevels
  <1>6. /\ Structure(nodes, free_head, levels, order_index, Fresh(0, n), NoLevels)
        /\ QueuesOf(nodes, NoLevels) = NoLevels
        /\ LocationsOf(nodes, <<>>) = <<>>
    <2>1. PICK after : after = Relinked(ns, 0)
      OBVIOUS
    <2>2. /\ Structure(after, IF 0 < n THEN 0 ELSE INVALID_IDX, NoLevels, <<>>, Fresh(0, n), NoLevels)
          /\ QueuesOf(after, NoLevels) = NoLevels
          /\ LocationsOf(after, <<>>) = <<>>
      BY <1>3, <2>1, EmptyPool
    <2> QED BY <1>4, <1>5, <2>1, <2>2
  <1>7. RestingQueues = NoLevels /\ OrderLocations = <<>>
    BY <1>5, <1>6, Seen
  <1>8. Stl!Sides = Sides
    BY DEF Stl!Sides, Sides
  <1> QED BY <1>6, <1>7, <1>8 DEF Init, Stl!Init, NoLevels, Linked, TakerPriced

\* The order of slot lists[s][p][i] is taken out.
LEMMA OrderErased ==
    ASSUME NEW free, NEW lists, Viewed(free, lists),
           NEW s \in Sides, NEW p \in DOMAIN lists[s], NEW i \in DOMAIN lists[s][p],
           NEW id \in DOMAIN order_index, order_index[id] = lists[s][p][i],
           NEW filled \in [DOMAIN nodes -> Node(DOMAIN nodes)],
           filled[order_index[id]].order \in Order,
           LinksKept(filled, nodes, order_index[id]),
           NEW rest, rest = remove_from_level(filled, levels[s][p], order_index[id]),
           nodes' = free_node(rest.nodes, order_index[id]), free_head' = order_index[id],
           levels' = StoreLevel(s, p, rest.level), order_index' = MapErase(order_index, id)
    PROVE  /\ Linked'
           /\ RestingQueues' = QueueKept(RestingQueues, s, p, Drop(RestingQueues[s][p], i))
           /\ OrderLocations' = MapErase(OrderLocations, id)
  <1>1. /\ Structure(nodes, free_head, levels, order_index, free, lists)
        /\ Settled(nodes, order_index, lists)
        /\ RestingQueues = QueuesOf(nodes, lists)
        /\ OrderLocations = LocationsOf(nodes, order_index)
    BY DEF Viewed
  <1>2. PICK idx : idx = order_index[id]
    OBVIOUS
  <1>3. PICK free2, lists2 :
           /\ Structure(Freed(rest.nodes, idx, free_head), idx, LevelKept(levels, s, p, rest.level),
                        MapErase(order_index, id), free2, lists2)
           /\ QueuesOf(Freed(rest.nodes, idx, free_head), lists2)
                 = QueueKept(QueuesOf(nodes, lists), s, p, Drop(Orders(nodes, lists[s][p]), i))
           /\ LocationsOf(Freed(rest.nodes, idx, free_head), MapErase(order_index, id))
                 = MapErase(LocationsOf(nodes, order_index), id)
    BY <1>1, <1>2, OrderLeaves
  <1>4. nodes' = Freed(rest.nodes, idx, free_head) /\ levels' = LevelKept(levels, s, p, rest.level)
    BY <1>2 DEF free_node, Freed, StoreLevel, LevelKept
  <1>5. Structure(nodes', free_head', levels', order_index', free2, lists2)
    BY <1>2, <1>3, <1>4
  <1>6. /\ Linked' /\ RestingQueues' = QueuesOf(nodes', lists2)
        /\ OrderLocations' = LocationsOf(nodes', order_index')
    BY <1>5, SeenNext
  <1>7. RestingQueues[s][p] = Orders(nodes, lists[s][p])
    BY <1>1 DEF QueuesOf
  <1> QED BY <1>1, <1>3, <1>4, <1>6, <1>7

\* Of a list of the book: its orders are the slots' and no two have one id.
LEMMA QueueSeen ==
    ASSUME PoolInv, NEW free, NEW lists, Viewed(free, lists), NEW s \in Sides, NEW p \in DOMAIN lists[s]
    PROVE  /\ RestingQueues[s][p] \in Seq(Order)
           /\ DOMAIN RestingQueues[s][p] = DOMAIN lists[s][p]
           /\ \A k \in DOMAIN lists[s][p] : RestingQueues[s][p][k] = nodes[lists[s][p][k]].order
           /\ \A j, k \in DOMAIN lists[s][p] :
                 nodes[lists[s][p][j]].order.id = nodes[lists[s][p][k]].order.id => j = k
  <1>1. PICK queue : queue = RestingQueues[s][p]
    OBVIOUS
  <1>2. /\ p \in DOMAIN RestingQueues[s] /\ DOMAIN queue = DOMAIN lists[s][p]
        /\ \A k \in DOMAIN lists[s][p] : queue[k] = nodes[lists[s][p][k]].order
    BY <1>1 DEF Viewed, QueuesOf, Orders
  <1>3. Book!Order = Order /\ Book!Sides = Sides
    BY DEF Book!Order, Order, Sides, Book!Sides, Quantities, Book!Quantities
  <1>4. Book!Listed(queue, s, p, OrderLocations)
    BY <1>1, <1>2, <1>3 DEF PoolInv, Book!IndInv, Book!BookOK
  <1>5. queue \in Seq(Order) /\ \A j, k \in DOMAIN queue : queue[j].id = queue[k].id => j = k
    BY <1>3, <1>4 DEF Book!Listed
  <1> QED BY <1>1, <1>2, <1>5

\* cancel_order of a resting order.
LEMMA HitStep ==
    ASSUME PoolInv, NEW id, CancelHit(id)
    PROVE  Linked' /\ TakerPriced' /\ Stl!CancelHit(id)
  <1>1. PICK free, lists : Viewed(free, lists)
    BY Opened
  <1>2. /\ Structure(nodes, free_head, levels, order_index, free, lists)
        /\ Settled(nodes, order_index, lists) /\ id \in DOMAIN order_index /\ taker = NoOrder
        /\ OrderLocations = LocationsOf(nodes, order_index)
    BY <1>1 DEF Viewed, CancelHit
  <1>3. PICK idx, ord, s, p : /\ idx = order_index[id] /\ ord = nodes[idx].order
                              /\ s = ord.side /\ p = ord.price
    OBVIOUS
  <1>4. idx \in DOMAIN nodes /\ ord \in Order /\ ord.id = id
    BY <1>2, <1>3 DEF Structure, Indexed
  <1>5. s \in Sides /\ p \in DOMAIN lists[s]
    BY <1>2, <1>3, <1>4 DEF Settled, Order
  <1>6. PICK i \in DOMAIN lists[s][p] : lists[s][p][i] = idx
    <2>1. FoundIn(lists, ord, idx)
      BY <1>2, <1>3, IndexedSettled
    <2> QED BY <1>3, <2>1 DEF FoundIn
  <1>7. PICK rest : rest = remove_from_level(nodes, levels[s][p], idx)
    OBVIOUS
  <1>8. /\ nodes' = free_node(rest.nodes, idx) /\ free_head' = idx
        /\ levels' = StoreLevel(s, p, rest.level) /\ order_index' = MapErase(order_index, id)
    BY <1>3, <1>7 DEF CancelHit
  <1>9. /\ Linked'
        /\ RestingQueues' = QueueKept(RestingQueues, s, p, Drop(RestingQueues[s][p], i))
        /\ OrderLocations' = MapErase(OrderLocations, id)
    <2>1. nodes \in [DOMAIN nodes -> Node(DOMAIN nodes)]
      BY <1>2, ShapeFacts DEF Structure
    <2>2. LinksKept(nodes, nodes, order_index[id])
      BY DEF LinksKept
    <2>3. nodes[order_index[id]].order \in Order /\ order_index[id] = lists[s][p][i]
      BY <1>3, <1>4, <1>6
    <2>4. /\ rest = remove_from_level(nodes, levels[s][p], order_index[id])
          /\ nodes' = free_node(rest.nodes, order_index[id]) /\ free_head' = order_index[id]
      BY <1>3, <1>7, <1>8
    <2> QED BY <1>1, <1>2, <1>5, <1>8, <2>1, <2>2, <2>3, <2>4, OrderErased
  <1>10. PICK queue : queue = RestingQueues[s][p]
    OBVIOUS
  <1>11. /\ queue \in Seq(Order) /\ i \in DOMAIN queue
         /\ \A k \in DOMAIN queue : queue[k].id = id <=> k = i
    <2>1. /\ RestingQueues[s][p] \in Seq(Order)
          /\ DOMAIN RestingQueues[s][p] = DOMAIN lists[s][p]
          /\ \A k \in DOMAIN lists[s][p] : RestingQueues[s][p][k] = nodes[lists[s][p][k]].order
          /\ \A j, k \in DOMAIN lists[s][p] :
                nodes[lists[s][p][j]].order.id = nodes[lists[s][p][k]].order.id => j = k
      BY <1>1, <1>5, QueueSeen
    <2>2. nodes[lists[s][p][i]].order.id = id
      BY <1>3, <1>4, <1>6
    <2> QED BY <1>10, <2>1, <2>2
  <1>12. Stl!list_it(queue, id) = i
    BY <1>11 DEF Stl!list_it
  <1>13. Stl!RemoveAt(queue, Stl!list_it(queue, id)) = Drop(queue, i)
    BY <1>11, <1>12, ErasedAt
  <1>14. /\ OrderLocations[id].side = s /\ OrderLocations[id].price = p
         /\ id \in DOMAIN OrderLocations
    BY <1>2, <1>3 DEF LocationsOf
  <1>15. RestingQueues' = [RestingQueues EXCEPT ![s] =
                             Stl!StoreQueue(@, p, Stl!RemoveAt(queue, Stl!list_it(queue, id)))]
    BY <1>9, <1>10, <1>13, Zenon DEF QueueKept, Stl!StoreQueue, MapErase, MapPut, Stl!MapErase, Stl!MapPut
  <1>16. OrderLocations' = Stl!MapErase(OrderLocations, id)
    BY <1>9 DEF MapErase, Stl!MapErase
  <1>17. UNCHANGED <<taker, trades>> /\ ret' = TRUE
    BY DEF CancelHit
  <1>18. Stl!CancelHit(id)
    BY <1>2, <1>10, <1>14, <1>15, <1>16, <1>17 DEF Stl!CancelHit
  <1> QED BY <1>2, <1>9, <1>17, <1>18 DEF TakerPriced

\* The taker's quantity is taken from an order.
LessBy(order, qty) == [order EXCEPT !.remaining = @ - qty]

OneReduced(filled, ns, D, idx, order) ==
    /\ filled \in [D -> Node(D)] /\ LinksKept(filled, ns, idx) /\ filled[idx].order = order

\* What is left of the maker is an order, in its place.
LEMMA LessOrder ==
    ASSUME NEW order \in Order, NEW qty \in 0 .. order.remaining, NEW less, less = LessBy(order, qty)
    PROVE  /\ less \in Order /\ less.remaining = order.remaining - qty
           /\ less.id = order.id /\ less.side = order.side /\ less.price = order.price
  <1>1. PICK left : left = order.remaining - qty
    OBVIOUS
  <1>2. left \in Quantities
    BY <1>1, OrderTypesAssumption DEF Order, Quantities
  <1>3. less = [id |-> order.id, side |-> order.side, type |-> order.type, price |-> order.price,
                initial |-> order.initial, remaining |-> left]
    BY <1>1 DEF LessBy, Order
  <1> QED BY <1>1, <1>2, <1>3 DEF Order

\* Only the order of one slot changes.
LEMMA SlotReduced ==
    ASSUME NEW D, NEW ns \in [D -> Node(D)], NEW idx \in D, NEW qty, LessBy(ns[idx].order, qty) \in Order
    PROVE  OneReduced([ns EXCEPT ![idx].order.remaining = @ - qty], ns, D, idx,
                      LessBy(ns[idx].order, qty))
  <1>1. PICK order \in Order : order = LessBy(ns[idx].order, qty)
    OBVIOUS
  <1>2. PICK new : new = [order |-> order, prev |-> ns[idx].prev, next |-> ns[idx].next]
    OBVIOUS
  <1>3. ns[idx] \in Node(D)
    OBVIOUS
  <1>4. new \in Node(D)
    BY <1>2, <1>3 DEF Node
  <1>5. [ns[idx] EXCEPT !.order.remaining = @ - qty] = new
    <2>1. [ns[idx] EXCEPT !.order.remaining = @ - qty] = [ns[idx] EXCEPT !.order = order]
      BY <1>1 DEF LessBy
    <2>2. [ns[idx] EXCEPT !.order = order] = new
      BY <1>2, <1>3 DEF Node
    <2> QED BY <2>1, <2>2
  <1>6. [ns EXCEPT ![idx].order.remaining = @ - qty] = [ns EXCEPT ![idx] = new]
    <2>1. [ns EXCEPT ![idx].order.remaining = @ - qty]
             = [ns EXCEPT ![idx] = [ns[idx] EXCEPT !.order.remaining = @ - qty]]
      OBVIOUS
    <2> QED BY <1>5, <2>1
  <1>7. PICK filled : filled = [ns EXCEPT ![idx] = new]
    OBVIOUS
  <1>8. /\ filled \in [D -> Node(D)] /\ filled[idx] = new
        /\ \A j \in D : j # idx => filled[j] = ns[j]
    BY <1>4, <1>7
  <1>9. LinksKept(filled, ns, idx)
    BY <1>2, <1>8 DEF LinksKept
  <1>10. OneReduced(filled, ns, D, idx, order)
    BY <1>2, <1>8, <1>9 DEF OneReduced
  <1> QED BY <1>1, <1>6, <1>7, <1>10

\* The front order of a list is reduced in the book.
LEMMA FrontReduced ==
    ASSUME NEW queues, NEW s, NEW p, NEW qty
    PROVE  [queues EXCEPT ![s][p][1].remaining = @ - qty]
              = FrontPut(queues, s, p, LessBy(queues[s][p][1], qty))
  BY DEF LessBy, FrontPut

\* The order in work is new to the book, and priced if it may rest.
LEMMA TakerFacts ==
    ASSUME PoolInv, taker # NoOrder
    PROVE  /\ taker \in Order /\ taker.id \notin DOMAIN order_index
           /\ taker.type = "Limit" => taker.price \in Prices \ {0}
  <1>1. Book!Order = Order
    BY DEF Book!Order, Order, Sides, Book!Sides, Quantities, Book!Quantities
  <1>2. Book!TakerOK
    BY DEF PoolInv, Book!IndInv
  <1>3. DOMAIN OrderLocations = DOMAIN order_index
    BY DEF OrderLocations
  <1>4. taker \in Order /\ taker.id \notin DOMAIN order_index
    BY <1>1, <1>2, <1>3 DEF Book!TakerOK
  <1>5. taker.price \in Prices
    BY <1>4 DEF Order
  <1> QED BY <1>4, <1>5 DEF PoolInv, TakerPriced

\* The two books stop matching at the same moment.
LEMMA SameCan ==
    ASSUME PoolInv, taker # NoOrder
    PROVE  CanMatch <=> Stl!CanMatch
  <1>1. PICK opp : opp = Opposite(taker.side)
    OBVIOUS
  <1>2. opp \in Sides /\ Stl!Opposite(taker.side) = opp
    BY <1>1 DEF Opposite, Sides, Stl!Opposite
  <1>3. DOMAIN RestingQueues[opp] = DOMAIN levels[opp]
    BY <1>2 DEF RestingQueues
  <1>4. Stl!BestPrice(opp, DOMAIN levels[opp]) = BestPrice(opp, DOMAIN levels[opp])
    BY SameBest
  <1> QED BY <1>1, <1>2, <1>3, <1>4 DEF CanMatch, Stl!CanMatch, Crosses, Stl!Crosses

\* The best level, and the maker at its head.
LEMMA BestLevel ==
    ASSUME PoolInv, taker # NoOrder, CanMatch, NEW free, NEW lists, Viewed(free, lists),
           NEW opp, NEW p, opp = Opposite(taker.side), p = BestPrice(opp, DOMAIN levels[opp])
    PROVE  /\ opp \in Sides /\ p \in DOMAIN lists[opp] /\ p \in DOMAIN levels[opp]
           /\ 1 \in DOMAIN lists[opp][p] /\ levels[opp][p].head = lists[opp][p][1]
           /\ Stl!BestPrice(opp, DOMAIN RestingQueues[opp]) = p
  <1>1. opp \in Sides
    BY DEF Opposite, Sides
  <1>2. Structure(nodes, free_head, levels, order_index, free, lists)
    BY DEF Viewed
  <1>3. DOMAIN levels[opp] # {} /\ DOMAIN levels[opp] \in SUBSET Prices /\ DOMAIN lists[opp] = DOMAIN levels[opp]
    BY <1>1, <1>2 DEF CanMatch, Structure, LevelLists
  <1>4. p \in DOMAIN levels[opp]
    <2>1. opp \in Book!Sides
      BY <1>1 DEF Book!Sides, Sides
    <2>2. Book!BestPrice(opp, DOMAIN levels[opp]) \in DOMAIN levels[opp]
      BY <1>3, <2>1, Book!BestPriceIsBest, BookAssumptions
    <2> QED BY <2>2, SameBest
  <1>5. LevelList(nodes, levels[opp][p], lists[opp][p])
    BY <1>1, <1>2, <1>4 DEF Structure, LevelLists
  <1>6. 1 \in DOMAIN lists[opp][p] /\ levels[opp][p].head = lists[opp][p][1]
    <2>1. PICK list : list = lists[opp][p]
      OBVIOUS
    <2>2. list \in Seq(DOMAIN nodes) /\ list # <<>> /\ levels[opp][p].head = list[1]
      BY <1>5, <2>1 DEF LevelList
    <2>3. 1 \in DOMAIN list
      BY <2>2
    <2> QED BY <2>1, <2>2, <2>3
  <1>7. DOMAIN RestingQueues[opp] = DOMAIN levels[opp]
    BY <1>1 DEF RestingQueues
  <1> QED BY <1>1, <1>3, <1>4, <1>6, <1>7, SameBest

\* One trade.
LEMMA MatchedStep ==
    ASSUME PoolInv, MatchStep
    PROVE  Linked' /\ TakerPriced' /\ Stl!MatchStep
  <1>1. taker # NoOrder /\ CanMatch /\ taker \in Order
    BY TakerFacts DEF MatchStep
  <1>2. PICK free, lists : Viewed(free, lists)
    BY Opened
  <1>3. PICK opp, p : opp = Opposite(taker.side) /\ p = BestPrice(opp, DOMAIN levels[opp])
    OBVIOUS
  <1>4. /\ opp \in Sides /\ p \in DOMAIN lists[opp] /\ p \in DOMAIN levels[opp]
        /\ 1 \in DOMAIN lists[opp][p] /\ levels[opp][p].head = lists[opp][p][1]
        /\ Stl!BestPrice(opp, DOMAIN RestingQueues[opp]) = p
    BY <1>1, <1>2, <1>3, BestLevel
  <1>5. PICK idx, maker : idx = levels[opp][p].head /\ maker = nodes[idx].order
    OBVIOUS
  <1>6. /\ Structure(nodes, free_head, levels, order_index, free, lists)
        /\ Settled(nodes, order_index, lists)
        /\ RestingQueues = QueuesOf(nodes, lists)
        /\ OrderLocations = LocationsOf(nodes, order_index)
    BY <1>2 DEF Viewed
  <1>7. PICK id \in DOMAIN order_index : order_index[id] = idx
    BY <1>4, <1>5, <1>6 DEF Structure, Indexed
  <1>8. /\ idx \in DOMAIN nodes /\ maker \in Order /\ maker.id = id
        /\ maker.side = opp /\ maker.price = p /\ maker.remaining \in 1 .. maker.initial
    <2>1. idx \in DOMAIN nodes /\ maker.id = id
      BY <1>5, <1>6, <1>7 DEF Structure, Indexed
    <2>2. SettledAt(nodes[lists[opp][p][1]].order, opp, p)
      BY <1>4, <1>6, ListedSettled
    <2>3. SettledAt(maker, opp, p)
      BY <1>4, <1>5, <2>2
    <2> QED BY <2>1, <2>3 DEF SettledAt
  <1>9. PICK qty : qty = Lesser(taker.remaining, maker.remaining)
    OBVIOUS
  <1>10. qty \in 0 .. maker.remaining /\ qty \in Int
    BY <1>1, <1>8, <1>9, OrderTypesAssumption DEF Lesser, Order, Quantities
  <1>11. PICK less : less = LessBy(maker, qty)
    OBVIOUS
  <1>12. /\ less \in Order /\ less.remaining = maker.remaining - qty
         /\ less.id = maker.id /\ less.side = maker.side /\ less.price = maker.price
    BY <1>8, <1>10, <1>11, LessOrder
  <1>13. PICK filled : filled = [nodes EXCEPT ![idx].order.remaining = @ - qty]
    OBVIOUS
  <1>14. OneReduced(filled, nodes, DOMAIN nodes, idx, less)
    <2>1. nodes \in [DOMAIN nodes -> Node(DOMAIN nodes)]
      BY <1>6, ShapeFacts DEF Structure
    <2>2. LessBy(nodes[idx].order, qty) \in Order
      BY <1>5, <1>11, <1>12
    <2>3. OneReduced([nodes EXCEPT ![idx].order.remaining = @ - qty], nodes, DOMAIN nodes, idx,
                     LessBy(nodes[idx].order, qty))
      BY <1>8, <2>1, <2>2, SlotReduced
    <2> QED BY <1>5, <1>11, <1>13, <2>3
  <1>15. PICK rest : rest = remove_from_level(filled, levels[opp][p], idx)
    OBVIOUS
  <1>16. /\ taker' = [taker EXCEPT !.remaining = @ - qty]
         /\ trades' = Append(trades,
                [maker |-> maker.id, taker |-> taker.id, price |-> maker.price,
                 quantity |-> qty, aggressor |-> taker.side])
         /\ IF filled[idx].order.remaining = 0
            THEN /\ order_index' = MapErase(order_index, maker.id)
                 /\ nodes' = free_node(rest.nodes, idx)
                 /\ free_head' = idx
                 /\ levels' = StoreLevel(opp, p, rest.level)
            ELSE /\ nodes' = filled
                 /\ UNCHANGED <<free_head, order_index, levels>>
         /\ UNCHANGED ret
    BY <1>3, <1>5, <1>9, <1>13, <1>15, Zenon DEF MatchStep
  <1>17. filled[idx].order = less
    BY <1>14 DEF OneReduced
  <1>18. filled[idx].order.remaining = 0 <=> qty = maker.remaining
    <2>1. maker.remaining \in Int
      BY <1>8, OrderTypesAssumption DEF Order, Quantities
    <2> QED BY <1>10, <1>12, <1>17, <2>1
  <1>19. PICK queue : queue = RestingQueues[opp][p]
    OBVIOUS
  <1>20. queue \in Seq(Order) /\ 1 \in DOMAIN queue /\ queue[1] = maker /\ Head(queue) = maker
    <2>1. /\ RestingQueues[opp][p] \in Seq(Order)
          /\ DOMAIN RestingQueues[opp][p] = DOMAIN lists[opp][p]
          /\ \A k \in DOMAIN lists[opp][p] : RestingQueues[opp][p][k] = nodes[lists[opp][p][k]].order
      BY <1>2, <1>4, QueueSeen
    <2>2. queue \in Seq(Order) /\ 1 \in DOMAIN queue /\ queue[1] = maker
      BY <1>4, <1>5, <1>19, <2>1
    <2>3. Head(queue) = queue[1]
      BY <2>2
    <2> QED BY <2>2, <2>3
  <1>21. /\ qty = maker.remaining => /\ order_index' = MapErase(order_index, maker.id)
                                     /\ nodes' = free_node(rest.nodes, idx)
                                     /\ free_head' = idx
                                     /\ levels' = StoreLevel(opp, p, rest.level)
         /\ qty # maker.remaining => nodes' = filled /\ UNCHANGED <<free_head, order_index, levels>>
    BY <1>16, <1>18
  <1>22. ASSUME qty = maker.remaining
         PROVE  /\ Linked' /\ OrderLocations' = Stl!MapErase(OrderLocations, maker.id)
                /\ RestingQueues' = [RestingQueues EXCEPT ![opp] = Stl!StoreQueue(@, p, Tail(queue))]
    <2>1. /\ Linked'
          /\ RestingQueues' = QueueKept(RestingQueues, opp, p, Drop(RestingQueues[opp][p], 1))
          /\ OrderLocations' = MapErase(OrderLocations, id)
      <3>1. /\ order_index[id] = lists[opp][p][1] /\ id \in DOMAIN order_index
            /\ order_index' = MapErase(order_index, id)
        BY <1>4, <1>5, <1>7, <1>8, <1>21, <1>22
      <3>2. /\ filled \in [DOMAIN nodes -> Node(DOMAIN nodes)]
            /\ filled[order_index[id]].order \in Order
            /\ LinksKept(filled, nodes, order_index[id])
        BY <1>7, <1>12, <1>14 DEF OneReduced
      <3>3. /\ nodes' = free_node(rest.nodes, order_index[id]) /\ free_head' = order_index[id]
            /\ levels' = StoreLevel(opp, p, rest.level)
            /\ rest = remove_from_level(filled, levels[opp][p], order_index[id])
        BY <1>7, <1>15, <1>21, <1>22
      <3> QED BY <1>2, <1>4, <3>1, <3>2, <3>3, OrderErased
    <2>2. Tail(queue) = Drop(queue, 1)
      BY <1>20, ErasedAt
    <2>3. RestingQueues' = [RestingQueues EXCEPT ![opp] = Stl!StoreQueue(@, p, Tail(queue))]
      BY <1>19, <2>1, <2>2, Zenon DEF QueueKept, Stl!StoreQueue, MapErase, MapPut, Stl!MapErase, Stl!MapPut
    <2>4. OrderLocations' = Stl!MapErase(OrderLocations, maker.id)
      BY <1>8, <2>1 DEF MapErase, Stl!MapErase
    <2> QED BY <2>1, <2>3, <2>4
  <1>23. ASSUME qty # maker.remaining
         PROVE  /\ Linked' /\ UNCHANGED OrderLocations
                /\ RestingQueues' = FrontPut(RestingQueues, opp, p, less)
    <2>1. InPlace(filled, nodes, free_head, levels, order_index, free, lists, opp, p, less)
      <3>1. /\ filled \in [DOMAIN nodes -> Node(DOMAIN nodes)]
            /\ LinksKept(filled, nodes, lists[opp][p][1])
        BY <1>4, <1>5, <1>14 DEF OneReduced
      <3>2. filled[lists[opp][p][1]].order = less
        BY <1>4, <1>5, <1>17
      <3>3. SamePlace(filled[lists[opp][p][1]].order, nodes[lists[opp][p][1]].order)
        BY <1>4, <1>5, <1>12, <3>2 DEF SamePlace
      <3>4. filled[lists[opp][p][1]].order \in Order
        BY <1>12, <3>2
      <3>5. InPlace(filled, nodes, free_head, levels, order_index, free, lists, opp, p,
                    filled[lists[opp][p][1]].order)
        BY <1>4, <1>6, <3>1, <3>3, <3>4, NodeReduced
      <3> QED BY <3>2, <3>5
    <2>2. nodes' = filled /\ UNCHANGED <<free_head, order_index, levels>>
      BY <1>21, <1>23
    <2>3. Structure(nodes', free_head', levels', order_index', free, lists)
      BY <2>1, <2>2 DEF InPlace
    <2>4. /\ Linked' /\ RestingQueues' = QueuesOf(nodes', lists)
          /\ OrderLocations' = LocationsOf(nodes', order_index')
      BY <2>3, SeenNext
    <2>5. UNCHANGED OrderLocations
      BY <1>6, <2>1, <2>2, <2>4 DEF InPlace
    <2>6. RestingQueues' = FrontPut(RestingQueues, opp, p, less)
      BY <1>6, <2>1, <2>2, <2>4 DEF InPlace
    <2> QED BY <2>4, <2>5, <2>6
  <1>24. /\ Linked'
         /\ qty = maker.remaining =>
               /\ OrderLocations' = Stl!MapErase(OrderLocations, maker.id)
               /\ RestingQueues' = [RestingQueues EXCEPT ![opp] = Stl!StoreQueue(@, p, Tail(queue))]
         /\ qty # maker.remaining =>
               /\ RestingQueues' = [RestingQueues EXCEPT ![opp][p][1].remaining = @ - qty]
               /\ UNCHANGED OrderLocations
    <2>1. [RestingQueues EXCEPT ![opp][p][1].remaining = @ - qty]
             = FrontPut(RestingQueues, opp, p, less)
      <3>1. [RestingQueues EXCEPT ![opp][p][1].remaining = @ - qty]
               = FrontPut(RestingQueues, opp, p, LessBy(RestingQueues[opp][p][1], qty))
        BY FrontReduced
      <3> QED BY <1>11, <1>19, <1>20, <3>1
    <2> QED BY <1>22, <1>23, <2>1
  <1>25. Stl!MatchStep
    <2>1. Stl!Opposite(taker.side) = opp /\ Stl!Lesser(taker.remaining, maker.remaining) = qty
      BY <1>3, <1>9 DEF Opposite, Stl!Opposite, Lesser, Stl!Lesser
    <2>2. Stl!CanMatch
      BY <1>1, SameCan
    <2> QED BY <1>1, <1>4, <1>16, <1>19, <1>20, <1>24, <2>1, <2>2, Zenon DEF Stl!MatchStep
  <1>26. TakerPriced'
    <2>1. taker'.type = taker.type /\ taker'.price = taker.price
      BY <1>1, <1>16 DEF Order
    <2> QED BY <1>1, <2>1 DEF PoolInv, TakerPriced
  <1> QED BY <1>24, <1>25, <1>26

\* The pool that allocate_node takes a slot of, grown if it had to be.
Ready(pool, idx, free, lists) ==
    /\ Structure(pool, idx, levels, order_index, free, lists)
    /\ Settled(pool, order_index, lists)
    /\ idx \in DOMAIN pool
    /\ QueuesOf(pool, lists) = RestingQueues
    /\ LocationsOf(pool, order_index) = OrderLocations
    /\ \A order : allocate_node(order) = [idx |-> idx, free_head |-> pool[idx].next,
                                          nodes |-> Taken(pool, idx, order)]

\* allocate_node's slot, of the pool as it was or of the grown one.
LEMMA PoolReady ==
    ASSUME NEW free, NEW lists, Viewed(free, lists)
    PROVE  \E pool, idx, free2 : Ready(pool, idx, free2, lists)
  <1>1. /\ Structure(nodes, free_head, levels, order_index, free, lists)
        /\ Settled(nodes, order_index, lists)
        /\ RestingQueues = QueuesOf(nodes, lists)
        /\ OrderLocations = LocationsOf(nodes, order_index)
    BY DEF Viewed
  <1>2. CASE free_head # INVALID_IDX
    <2>1. free_head \in DOMAIN nodes
      BY <1>1, <1>2 DEF Structure, FreeList, At
    <2>2. ASSUME NEW order
          PROVE  allocate_node(order) = [idx |-> free_head, free_head |-> nodes[free_head].next,
                                         nodes |-> Taken(nodes, free_head, order)]
      BY <1>2 DEF allocate_node, Taken
    <2>3. Ready(nodes, free_head, free, lists)
      BY <1>1, <2>1, <2>2 DEF Ready
    <2> QED BY <2>3
  <1>3. CASE free_head = INVALID_IDX
    <2>1. PICK size : size = Cardinality(DOMAIN nodes)
      OBVIOUS
    <2>2. size \in Nat
      BY <1>1, <2>1, ShapeFacts DEF Structure
    <2>3. PICK n \in Nat : n = (IF size = 0 THEN FirstCapacity ELSE 2 * size) /\ size < n
      BY <2>2, PoolAssumption
    <2>4. PICK pool : pool = Relinked(Resized(nodes, n), size)
      OBVIOUS
    <2>5. /\ DOMAIN pool = 0 .. n - 1
          /\ Structure(pool, size, levels, order_index, Fresh(size, n), lists)
          /\ Settled(pool, order_index, lists)
          /\ QueuesOf(pool, lists) = QueuesOf(nodes, lists)
          /\ LocationsOf(pool, order_index) = LocationsOf(nodes, order_index)
      <3>1. Structure(nodes, INVALID_IDX, levels, order_index, free, lists)
        BY <1>1, <1>3
      <3> QED BY <1>1, <2>1, <2>3, <2>4, <3>1, PoolGrown
    <2>6. size \in DOMAIN pool
      BY <2>2, <2>3, <2>5
    <2>7. ASSUME NEW order
          PROVE  allocate_node(order) = [idx |-> size, free_head |-> pool[size].next,
                                         nodes |-> Taken(pool, size, order)]
      BY <1>3, <2>1, <2>3, <2>4 DEF allocate_node, Taken
    <2>8. Ready(pool, size, Fresh(size, n), lists)
      BY <1>1, <2>5, <2>6, <2>7 DEF Ready
    <2> QED BY <2>8
  <1> QED BY <1>2, <1>3

\* allocate_node, then append_to_level.
LEMMA OrderStored ==
    ASSUME NEW pool, NEW idx, NEW free, NEW lists, Ready(pool, idx, free, lists),
           NEW s \in Sides, NEW p \in Prices \ {0},
           NEW order \in Order, order.id \notin DOMAIN order_index,
           NEW level, level = IF p \in DOMAIN levels[s] THEN levels[s][p] ELSE EmptyLevel,
           NEW rest, rest = append_to_level(Taken(pool, idx, order), level, idx)
    PROVE  Rested(rest.nodes, rest.level, pool, idx, levels, order_index, free, lists, s, p, order)
  <1>1. /\ Structure(pool, idx, levels, order_index, free, lists)
        /\ Settled(pool, order_index, lists) /\ idx \in DOMAIN pool
    BY DEF Ready
  <1>2. INVALID_IDX \notin DOMAIN pool /\ pool \in [DOMAIN pool -> Node(DOMAIN pool)]
    BY <1>1, ShapeFacts DEF Structure
  <1>3. PICK list : list = ListAt(lists[s], p)
    OBVIOUS
  <1>4. /\ DOMAIN lists[s] = DOMAIN levels[s]
        /\ \A q \in DOMAIN levels[s] : LevelList(pool, levels[s][q], lists[s][q])
    BY <1>1 DEF Structure, LevelLists
  <1>5. /\ list \in Seq(DOMAIN pool) /\ IsInjective(list)
        /\ IF list = <<>> THEN level = EmptyLevel ELSE LevelList(pool, level, list)
    <2>1. CASE p \in DOMAIN levels[s]
      <3>1. list = lists[s][p] /\ level = levels[s][p]
        BY <1>3, <1>4, <2>1 DEF ListAt
      <3>2. LevelList(pool, level, list)
        BY <1>4, <2>1, <3>1
      <3> QED BY <3>2 DEF LevelList
    <2>2. CASE p \notin DOMAIN levels[s]
      <3>1. list = <<>> /\ level = EmptyLevel
        BY <1>3, <1>4, <2>2 DEF ListAt
      <3>2. IsInjective(<<>>)
        BY DEF IsInjective
      <3> QED BY <3>1, <3>2
    <2> QED BY <2>1, <2>2
  <1>6. \A k \in DOMAIN list : list[k] # idx
    <2>1. idx = At(free, 1) /\ idx # INVALID_IDX
      BY <1>1, <1>2 DEF Structure, FreeList
    <2>2. idx \in Range(free)
      BY <2>1 DEF At, Range
    <2>3. idx \notin Range(order_index)
      BY <1>1, <2>2 DEF Structure, Divided
    <2>4. ASSUME NEW k \in DOMAIN list PROVE list[k] \in Range(order_index)
      <3>1. p \in DOMAIN lists[s] /\ list = lists[s][p]
        BY <1>3 DEF ListAt
      <3>2. PICK id \in DOMAIN order_index : order_index[id] = list[k]
        BY <1>1, <3>1 DEF Structure, Indexed
      <3> QED BY <3>2 DEF Range
    <2> QED BY <2>3, <2>4
  <1>7. Appended(rest.nodes, rest.level, pool, DOMAIN pool, ListAt(lists[s], p), idx, order)
    <2>1. Appended(append_to_level(Taken(pool, idx, order), level, idx).nodes,
                   append_to_level(Taken(pool, idx, order), level, idx).level,
                   pool, DOMAIN pool, list, idx, order)
      BY <1>1, <1>2, <1>5, <1>6, SlotAppended
    <2> QED BY <1>3, <2>1
  <1> QED BY <1>1, <1>7, NodeStored

\* The end of submit_order.
LEMMA FinishedStep ==
    ASSUME PoolInv, FinishSubmit
    PROVE  Linked' /\ TakerPriced' /\ Stl!FinishSubmit
  <1>1. taker # NoOrder /\ ~CanMatch /\ taker \in Order /\ taker.id \notin DOMAIN order_index
    BY TakerFacts DEF FinishSubmit
  <1>2. ~Stl!CanMatch /\ taker' = NoOrder /\ ret' = TRUE /\ UNCHANGED trades /\ TakerPriced'
    BY <1>1, SameCan DEF FinishSubmit, TakerPriced
  <1>3. ASSUME ~(taker.remaining > 0 /\ taker.type = "Limit")
        PROVE  Linked' /\ UNCHANGED <<RestingQueues, OrderLocations>>
    <2>1. UNCHANGED <<nodes, free_head, order_index, levels>> /\ Linked
      BY <1>3 DEF FinishSubmit, PoolInv
    <2> QED BY <2>1, BookKept
  <1>4. PICK s, p : s = taker.side /\ p = taker.price
    OBVIOUS
  <1>5. PICK queue : queue = IF p \in DOMAIN RestingQueues[s] THEN RestingQueues[s][p] ELSE <<>>
    OBVIOUS
  <1>6. ASSUME taker.remaining > 0, taker.type = "Limit"
        PROVE  /\ Linked'
               /\ RestingQueues' = [RestingQueues EXCEPT ![s] = MapPut(@, p, Append(queue, taker))]
               /\ OrderLocations' = MapPut(OrderLocations, taker.id, [side |-> s, price |-> p])
    <2>1. s \in Sides /\ p \in Prices \ {0}
      BY <1>1, <1>4, <1>6, TakerFacts DEF Order
    <2>2. PICK free0, lists : Viewed(free0, lists)
      BY Opened
    <2>3. PICK pool, idx, free : Ready(pool, idx, free, lists)
      BY <2>2, PoolReady
    <2>4. PICK level : level = IF p \in DOMAIN levels[s] THEN levels[s][p] ELSE EmptyLevel
      OBVIOUS
    <2>5. PICK rest : rest = append_to_level(Taken(pool, idx, taker), level, idx)
      OBVIOUS
    <2>6. allocate_node(taker) = [idx |-> idx, free_head |-> pool[idx].next,
                                  nodes |-> Taken(pool, idx, taker)]
      BY <2>3 DEF Ready
    <2>7. /\ nodes' = rest.nodes /\ free_head' = pool[idx].next
          /\ order_index' = MapPut(order_index, taker.id, idx)
          /\ levels' = StoreLevel(s, p, rest.level)
      BY <1>4, <1>6, <2>4, <2>5, <2>6 DEF FinishSubmit
    <2>8. Rested(rest.nodes, rest.level, pool, idx, levels, order_index, free, lists, s, p, taker)
      BY <1>1, <2>1, <2>3, <2>4, <2>5, OrderStored
    <2>9. PICK new : new = Append(ListAt(lists[s], p), idx)
      OBVIOUS
    <2>10. /\ new # <<>> /\ rest.level.head # INVALID_IDX
           /\ Structure(rest.nodes, pool[idx].next, PutOrErase(levels, s, p, rest.level, new),
                        MapPut(order_index, taker.id, idx), Tail(free), PutOrErase(lists, s, p, new, new))
           /\ QueuesOf(rest.nodes, PutOrErase(lists, s, p, new, new))
                 = PutOrErase(QueuesOf(pool, lists), s, p,
                              Append(Orders(pool, ListAt(lists[s], p)), taker), new)
           /\ LocationsOf(rest.nodes, MapPut(order_index, taker.id, idx))
                 = MapPut(LocationsOf(pool, order_index), taker.id, [side |-> s, price |-> p])
      BY <1>4, <2>8, <2>9 DEF Rested
    <2>11. levels' = PutOrErase(levels, s, p, rest.level, new)
      BY <2>7, <2>10 DEF StoreLevel, PutOrErase
    <2>12. Structure(nodes', free_head', levels', order_index', Tail(free), PutOrErase(lists, s, p, new, new))
      BY <2>7, <2>10, <2>11
    <2>13. /\ Linked' /\ RestingQueues' = QueuesOf(nodes', PutOrErase(lists, s, p, new, new))
           /\ OrderLocations' = LocationsOf(nodes', order_index')
      BY <2>12, SeenNext
    <2>14. RestingQueues = QueuesOf(pool, lists) /\ OrderLocations = LocationsOf(pool, order_index)
      BY <2>3 DEF Ready
    <2>15. Orders(pool, ListAt(lists[s], p)) = queue
      <3>1. /\ DOMAIN RestingQueues[s] = DOMAIN lists[s]
            /\ p \in DOMAIN lists[s] => RestingQueues[s][p] = Orders(pool, lists[s][p])
        BY <2>1, <2>14 DEF QueuesOf
      <3>2. Orders(pool, <<>>) = <<>>
        BY DEF Orders
      <3> QED BY <1>5, <3>1, <3>2 DEF ListAt
    <2>16. RestingQueues' = PutOrErase(RestingQueues, s, p, Append(queue, taker), new)
      BY <2>7, <2>10, <2>13, <2>14, <2>15
    <2>17. OrderLocations' = MapPut(OrderLocations, taker.id, [side |-> s, price |-> p])
      BY <2>7, <2>10, <2>13, <2>14
    <2> QED BY <2>10, <2>13, <2>16, <2>17 DEF PutOrErase
  <1>7. Stl!FinishSubmit
    <2>1. /\ taker.remaining > 0 /\ taker.type = "Limit" =>
               /\ RestingQueues' = [RestingQueues EXCEPT ![s] =
                                      Stl!MapPut(@, p, Stl!Enqueue(queue, taker))]
               /\ OrderLocations' = Stl!MapPut(OrderLocations, taker.id, [side |-> s, price |-> p])
          /\ ~(taker.remaining > 0 /\ taker.type = "Limit") =>
                UNCHANGED <<RestingQueues, OrderLocations>>
      BY <1>3, <1>6, Zenon DEF MapPut, Stl!MapPut, Stl!Enqueue
    <2> QED BY <1>1, <1>2, <1>4, <1>5, <2>1, Zenon DEF Stl!FinishSubmit
  <1> QED BY <1>2, <1>3, <1>6, <1>7

-----------------------------------------------------------------------------
(* The book as a whole                                                     *)

\* Any step.
LEMMA NextIsStlNext ==
    ASSUME PoolInv, [Next]_vars
    PROVE  Linked' /\ TakerPriced' /\ [Stl!Next]_(Stl!vars)
  <1>1. CASE UNCHANGED vars
    <2>1. UNCHANGED <<nodes, free_head, order_index, levels, taker, trades, ret>> /\ Linked
      BY <1>1 DEF vars, PoolInv
    <2>2. Linked' /\ UNCHANGED <<RestingQueues, OrderLocations>>
      BY <2>1, BookKept
    <2> QED BY <2>1, <2>2 DEF Stl!vars, PoolInv, TakerPriced
  <1>2. ASSUME NEW o \in Submittable, SubmitReject(o) \/ SubmitAccept(o)
        PROVE  Linked' /\ TakerPriced' /\ [Stl!Next]_(Stl!vars)
    <2>1. o \in Stl!Submittable
      BY SameSubmit
    <2> QED BY <1>2, <2>1, RejectStep, AcceptStep DEF Stl!Next
  <1>3. ASSUME NEW id \in OrderIds, CancelMiss(id) \/ CancelHit(id)
        PROVE  Linked' /\ TakerPriced' /\ [Stl!Next]_(Stl!vars)
    BY <1>3, MissStep, HitStep DEF Stl!Next
  <1>4. CASE MatchStep
    BY <1>4, MatchedStep DEF Stl!Next
  <1>5. CASE FinishSubmit
    BY <1>5, FinishedStep DEF Stl!Next
  <1>6. CASE Clear
    BY <1>6, ClearStep DEF Stl!Next
  <1> QED BY <1>1, <1>2, <1>3, <1>4, <1>5, <1>6 DEF Next

\* The invariant is inductive.
LEMMA PoolInvKept == PoolInv /\ [Next]_vars => PoolInv' /\ [Stl!Next]_(Stl!vars)
  <1> SUFFICES ASSUME PoolInv, [Next]_vars PROVE PoolInv' /\ [Stl!Next]_(Stl!vars)
    OBVIOUS
  <1>1. Linked' /\ TakerPriced' /\ [Stl!Next]_(Stl!vars)
    BY NextIsStlNext
  <1>2. Book!IndInv /\ [Book!Next]_(Book!vars)
    BY <1>1, SameBook DEF PoolInv
  <1>3. Book!IndInv'
    BY <1>2, Book!StepInv, BookAssumptions, Zenon
  <1> QED BY <1>1, <1>3 DEF PoolInv

\* And holds of a new book.
LEMMA PoolInvInit == Init => PoolInv /\ Stl!Init
  <1>1. Book!Init => Book!IndInv
    BY Book!InitInv, BookAssumptions, Zenon
  <1> QED BY <1>1, InitLinked, SameBook DEF PoolInv

\* The lists behind the links and the STL book they make are sound in every
\* state that submit_order, cancel_order and clear lead to.
THEOREM PoolInvariance == Spec => []PoolInv
  <1>1. PoolInv /\ [Next]_vars => PoolInv'
    BY PoolInvKept
  <1>2. Init => PoolInv
    BY PoolInvInit
  <1> QED BY <1>1, <1>2, PTL DEF Spec

\* The pooled book returns, trades and keeps orders exactly as the STL book
\* does, which test_differential.cpp samples: every step is a step of that book.
THEOREM PoolRefinesStl == Spec => ImplementsStl
  <1>1. PoolInv /\ [Next]_vars => [Stl!Next]_(Stl!vars)
    BY PoolInvKept
  <1>2. Init => Stl!Init
    BY PoolInvInit
  <1>3. Spec => Stl!Spec
    BY <1>1, <1>2, PoolInvariance, PTL DEF Spec, Stl!Spec
  <1> QED BY <1>3 DEF ImplementsStl

-----------------------------------------------------------------------------
(* What the invariant says                                                 *)

\* The invariant implies the types,
LEMMA TypesOfInv == PoolInv => PoolTypeOK
  <1> SUFFICES ASSUME PoolInv PROVE PoolTypeOK
    OBVIOUS
  <1>1. PICK free, lists : Viewed(free, lists)
    BY Opened
  <1>2. Structure(nodes, free_head, levels, order_index, free, lists)
    BY <1>1 DEF Viewed
  <1>3. PICK slots : slots = DOMAIN nodes
    OBVIOUS
  <1>4. /\ slots = 0 .. Cardinality(slots) - 1
        /\ nodes \in [slots -> Node(slots)]
    BY <1>2, <1>3, ShapeFacts DEF Structure
  <1>5. free_head \in slots \cup {INVALID_IDX}
    BY <1>2, <1>3 DEF Structure, FreeList, At
  <1>6. DOMAIN order_index \subseteq OrderIds /\ Range(order_index) \subseteq slots
    BY <1>2, <1>3 DEF Structure, Indexed, Range
  <1>7. DOMAIN levels = Sides /\ \A s \in Sides : DOMAIN levels[s] \subseteq Prices \ {0}
    BY <1>2 DEF Structure, LevelLists
  <1>8. ASSUME NEW s \in Sides, NEW p \in DOMAIN levels[s]
        PROVE  levels[s][p] \in [total_volume : 0 .. QuantityMod - 1,
                                 order_count  : 1 .. Cardinality(slots),
                                 head : slots, tail : slots]
    <2>1. PICK level, list : level = levels[s][p] /\ list = lists[s][p]
      OBVIOUS
    <2>2. LevelList(nodes, level, list) /\ Shape(nodes)
      BY <1>2, <2>1 DEF Structure, LevelLists
    <2>3. Len(list) \in 1 .. Cardinality(slots)
      BY <1>3, <2>2, LevelChain
    <2>4. /\ level \in [total_volume : 0 .. QuantityMod - 1, order_count : Nat,
                        head : slots, tail : slots]
          /\ level.order_count \in 1 .. Cardinality(slots)
      BY <1>3, <2>2, <2>3 DEF LevelList
    <2> QED BY <2>1, <2>4
  <1>9. /\ Book!Order = Order /\ Book!Trade = Trade
    BY DEF Book!Order, Order, Sides, Book!Sides, Quantities, Book!Quantities, Book!Trade, Trade
  <1>10. taker \in Order \cup {NoOrder} /\ trades \in Seq(Trade) /\ ret \in BOOLEAN
    BY <1>9 DEF PoolInv, Book!IndInv, Book!TakerOK
  <1>11. \A s \in Sides : Range(levels[s]) \subseteq
            [total_volume : 0 .. QuantityMod - 1, order_count  : 1 .. Cardinality(slots),
             head : slots, tail : slots]
    BY <1>8 DEF Range
  <1> QED BY <1>3, <1>4, <1>5, <1>6, <1>7, <1>10, <1>11 DEF PoolTypeOK, Node

\* A list walked backwards twice is the list.
LEMMA ReversedTwice ==
    ASSUME NEW S, NEW list \in Seq(S)
    PROVE  list = Reverse(Reverse(list))
  <1>1. PICK n \in Nat : n = Len(list) /\ DOMAIN list = 1 .. n
    OBVIOUS
  <1>2. PICK back : back = Reverse(list)
    OBVIOUS
  <1>3. /\ back = [k \in 1 .. n |-> list[(n - k) + 1]]
        /\ \A k \in 1 .. n : (n - k) + 1 \in 1 .. n /\ list[k] \in S
    BY <1>1, <1>2 DEF Reverse
  <1>4. back \in [1 .. n -> S] /\ \A k \in 1 .. n : back[k] = list[(n - k) + 1]
    BY <1>3
  <1>5. back \in Seq(S) /\ Len(back) = n
    BY <1>4
  <1>6. Reverse(back) = [k \in 1 .. n |-> back[(n - k) + 1]]
    BY <1>5 DEF Reverse
  <1>7. ASSUME NEW k \in 1 .. n PROVE back[(n - k) + 1] = list[k]
    <2>1. PICK j \in 1 .. n : j = (n - k) + 1
      BY <1>3
    <2>2. (n - j) + 1 = k
      BY <2>1
    <2> QED BY <1>4, <2>1, <2>2
  <1>8. list = [k \in 1 .. Len(list) |-> list[k]]
    OBVIOUS
  <1> QED BY <1>1, <1>2, <1>6, <1>7, <1>8

\* the shape of the lists,
LEMMA ListsOfInv == PoolInv => ListsWellFormed
  <1> SUFFICES ASSUME PoolInv PROVE ListsWellFormed
    OBVIOUS
  <1>1. PICK free, lists : Viewed(free, lists)
    BY Opened
  <1>2. /\ Structure(nodes, free_head, levels, order_index, free, lists)
        /\ Settled(nodes, order_index, lists)
    BY <1>1 DEF Viewed
  <1>3. ASSUME NEW s \in Sides, NEW p \in DOMAIN levels[s]
        PROVE  LET level == levels[s][p]
                   slots == Chain(Forward, level.head)
               IN  /\ slots = Reverse(Chain(Backward, level.tail))
                   /\ level.order_count = Len(slots)
                   /\ \A i \in DOMAIN slots : LET o == nodes[slots[i]].order
                                              IN  o.side = s /\ o.price = p
    <2>1. PICK level, list : level = levels[s][p] /\ list = lists[s][p]
      OBVIOUS
    <2>2. LevelList(nodes, level, list) /\ Shape(nodes) /\ p \in DOMAIN lists[s]
      BY <1>2, <2>1 DEF Structure, LevelLists
    <2>3. Chain(Forward, level.head) = list /\ Chain(Backward, level.tail) = Reverse(list)
      BY <2>2, LevelChain DEF Forward, Backward
    <2>4. list \in Seq(DOMAIN nodes) /\ level.order_count = Len(list)
      BY <2>2 DEF LevelList
    <2>5. list = Reverse(Reverse(list))
      BY <2>4, ReversedTwice
    <2>6. \A i \in DOMAIN list : LET o == nodes[list[i]].order IN o.side = s /\ o.price = p
      <3>1. ASSUME NEW i \in DOMAIN list PROVE SettledAt(nodes[list[i]].order, s, p)
        BY <1>2, <2>1, <2>2, ListedSettled
      <3> QED BY <3>1 DEF SettledAt
    <2> QED BY <2>1, <2>3, <2>4, <2>5, <2>6
  <1> QED BY <1>3 DEF ListsWellFormed

\* and the partition of the slots.
LEMMA PartitionOfInv == PoolInv => PoolPartition
  <1> SUFFICES ASSUME PoolInv PROVE PoolPartition
    OBVIOUS
  <1>1. PICK free, lists : Viewed(free, lists)
    BY Opened
  <1>2. /\ Structure(nodes, free_head, levels, order_index, free, lists)
        /\ Settled(nodes, order_index, lists)
    BY <1>1 DEF Viewed
  <1>3. FreeSlots = free
    BY <1>2, FreeChain DEF Structure, FreeSlots, Forward
  <1>4. IsInjective(free) /\ \A k \in DOMAIN free : free[k] \in DOMAIN nodes
    BY <1>2 DEF Structure, FreeList
  <1>5. /\ \A i \in DOMAIN nodes : i \in Range(free) <=> i \notin Range(order_index)
        /\ \A id \in DOMAIN order_index : order_index[id] \in DOMAIN nodes /\ get_order(id).id = id
    BY <1>2 DEF Structure, Divided, Indexed, get_order
  <1>6. Range(free) \subseteq DOMAIN nodes /\ Range(order_index) \subseteq DOMAIN nodes
    BY <1>4, <1>5 DEF Range
  <1>7. /\ Range(free) \cap Range(order_index) = {}
        /\ Range(free) \cup Range(order_index) = DOMAIN nodes
    BY <1>5, <1>6
  <1>8. PICK occupied : occupied = UNION {UNION {Range(Chain(Forward, levels[s][p].head)) :
                                                    p \in DOMAIN levels[s]} : s \in Sides}
    OBVIOUS
  <1>9. \A s \in Sides : \A p \in DOMAIN levels[s] :
           Chain(Forward, levels[s][p].head) = lists[s][p]
    <2>1. ASSUME NEW s \in Sides, NEW p \in DOMAIN levels[s]
          PROVE  Chain(Forward, levels[s][p].head) = lists[s][p]
      <3>1. LevelList(nodes, levels[s][p], lists[s][p]) /\ Shape(nodes)
        BY <1>2 DEF Structure, LevelLists
      <3> QED BY <3>1, LevelChain DEF Forward
    <2> QED BY <2>1
  <1>10. \A s \in Sides : DOMAIN lists[s] = DOMAIN levels[s]
    BY <1>2 DEF Structure, LevelLists
  <1>11. ASSUME NEW i
         PROVE  i \in occupied <=> \E s \in Sides : \E p \in DOMAIN levels[s] : i \in Range(lists[s][p])
    BY <1>8, <1>9
  <1>12. ASSUME NEW i \in Range(order_index) PROVE i \in occupied
    <2>1. PICK id \in DOMAIN order_index : order_index[id] = i
      BY DEF Range
    <2>2. PICK s, p : s = nodes[i].order.side /\ p = nodes[i].order.price
      OBVIOUS
    <2>3. s \in Sides
      BY <1>2, <2>1, <2>2 DEF Structure, Indexed, Order
    <2>4. p \in DOMAIN lists[s] /\ \E k \in DOMAIN lists[s][p] : lists[s][p][k] = i
      BY <1>2, <2>1, <2>2 DEF Settled
    <2>5. i \in Range(lists[s][p])
      BY <2>4 DEF Range
    <2> QED BY <1>10, <1>11, <2>3, <2>4, <2>5
  <1>13. ASSUME NEW i \in occupied PROVE i \in Range(order_index)
    <2>1. PICK s \in Sides : \E p \in DOMAIN levels[s] : i \in Range(lists[s][p])
      BY <1>11
    <2>2. PICK p \in DOMAIN levels[s] : i \in Range(lists[s][p])
      BY <2>1
    <2>3. PICK k \in DOMAIN lists[s][p] : lists[s][p][k] = i
      BY <2>2 DEF Range
    <2>4. PICK id \in DOMAIN order_index : order_index[id] = i
      BY <1>2, <1>10, <2>3 DEF Structure, Indexed
    <2> QED BY <2>4 DEF Range
  <1>14. Range(order_index) = occupied
    BY <1>12, <1>13
  <1> QED BY <1>3, <1>4, <1>5, <1>7, <1>8, <1>14 DEF PoolPartition

\* The slots, links and levels always have their types: order_count is never
\* more than the pool has slots, and head and tail of a stored level are slots.
THEOREM PoolTypes == Spec => []PoolTypeOK
  BY PoolInvariance, TypesOfInv, PTL

\* remove_from_level, append_to_level and free_node keep every level's list the
\* same in both directions, with order_count its length.
THEOREM ListsSound == Spec => []ListsWellFormed
  BY PoolInvariance, ListsOfInv, PTL

\* No history of fills, cancels, growth and clear leaks a slot, frees it twice or
\* gives it to two orders.
THEOREM PoolPartitioned == Spec => []PoolPartition
  BY PoolInvariance, PartitionOfInv, PTL

-----------------------------------------------------------------------------
(* When the pool grows                                                     *)

\* With no slot free every slot is in the index, each under one id.
LEMMA FullPool ==
    ASSUME PoolInv, free_head = INVALID_IDX
    PROVE  total_orders = pool_capacity
  <1>1. PICK free, lists : Structure(nodes, free_head, levels, order_index, free, lists)
    BY DEF PoolInv, Linked
  <1>2. IsFiniteSet(DOMAIN nodes) /\ INVALID_IDX \notin DOMAIN nodes
    BY <1>1, ShapeFacts DEF Structure
  <1>3. Range(free) = {}
    <2>1. free \in Seq(DOMAIN nodes) /\ At(free, 1) = INVALID_IDX
      BY <1>1 DEF Structure, FreeList
    <2>2. 1 \notin DOMAIN free
      BY <1>2, <2>1 DEF At
    <2>3. DOMAIN free = {}
      BY <2>1, <2>2
    <2> QED BY <2>3 DEF Range
  <1>4. \A i \in DOMAIN nodes : \E id \in DOMAIN order_index : order_index[id] = i
    BY <1>1, <1>3 DEF Structure, Divided, Range
  <1>5. \A id \in DOMAIN order_index : /\ order_index[id] \in DOMAIN nodes
                                       /\ nodes[order_index[id]].order.id = id
    BY <1>1 DEF Structure, Indexed
  <1>6. PICK name : name = [i \in DOMAIN nodes |-> nodes[i].order.id]
    OBVIOUS
  <1>7. \A i \in DOMAIN nodes : name[i] \in DOMAIN order_index /\ order_index[name[i]] = i
    BY <1>4, <1>5, <1>6
  <1>8. \A id \in DOMAIN order_index : name[order_index[id]] = id
    BY <1>5, <1>6
  <1>9. name \in Bijection(DOMAIN nodes, DOMAIN order_index)
    <2>1. name \in [DOMAIN nodes -> DOMAIN order_index]
      BY <1>6, <1>7
    <2>2. \A i, j \in DOMAIN nodes : name[i] = name[j] => i = j
      BY <1>7
    <2>3. \A id \in DOMAIN order_index : \E i \in DOMAIN nodes : name[i] = id
      BY <1>5, <1>8
    <2> QED BY <2>1, <2>2, <2>3 DEF Bijection, Injection, Surjection, IsInjective
  <1>10. Cardinality(DOMAIN order_index) = Cardinality(DOMAIN nodes)
    BY <1>2, <1>9, FS_Bijection DEF ExistsBijection
  <1> QED BY <1>10 DEF total_orders, pool_capacity

\* Nothing but that resizes nodes_.
LEMMA SlotsKept ==
    ASSUME free_head # INVALID_IDX \/ ~FinishSubmit, [Next]_vars
    PROVE  DOMAIN nodes' = DOMAIN nodes
  <1>1. \A ns, level, idx : DOMAIN free_node(remove_from_level(ns, level, idx).nodes, idx) = DOMAIN ns
    BY DEF free_node, remove_from_level, Unlink
  <1>2. CASE UNCHANGED vars
    BY <1>2 DEF vars
  <1>3. ASSUME NEW o \in Submittable, SubmitReject(o) \/ SubmitAccept(o)
        PROVE  DOMAIN nodes' = DOMAIN nodes
    BY <1>3 DEF SubmitReject, SubmitAccept
  <1>4. ASSUME NEW id \in OrderIds, CancelMiss(id) \/ CancelHit(id)
        PROVE  DOMAIN nodes' = DOMAIN nodes
    <2>1. CASE CancelMiss(id)
      BY <2>1 DEF CancelMiss
    <2>2. CASE CancelHit(id)
      BY <1>1, <2>2 DEF CancelHit
    <2> QED BY <1>4, <2>1, <2>2
  <1>5. CASE MatchStep
    <2>1. PICK filled, idx, level :
             /\ DOMAIN filled = DOMAIN nodes
             /\ \/ nodes' = filled
                \/ nodes' = free_node(remove_from_level(filled, level, idx).nodes, idx)
      <3>1. PICK opp, p, idx, qty, filled :
               /\ opp = Opposite(taker.side) /\ p = BestPrice(opp, DOMAIN levels[opp])
               /\ idx = levels[opp][p].head
               /\ qty = Lesser(taker.remaining, nodes[idx].order.remaining)
               /\ filled = [nodes EXCEPT ![idx].order.remaining = @ - qty]
        OBVIOUS
      <3>2. DOMAIN filled = DOMAIN nodes
        BY <3>1
      <3>3. \/ nodes' = filled
            \/ nodes' = free_node(remove_from_level(filled, levels[opp][p], idx).nodes, idx)
        BY <1>5, <3>1, Zenon DEF MatchStep
      <3> QED BY <3>2, <3>3
    <2> QED BY <1>1, <2>1
  <1>6. CASE FinishSubmit
    <2>1. free_head # INVALID_IDX
      BY <1>6
    <2>2. DOMAIN allocate_node(taker).nodes = DOMAIN nodes
      BY <2>1 DEF allocate_node
    <2>3. \A ns, level, idx : DOMAIN append_to_level(ns, level, idx).nodes = DOMAIN ns
      BY DEF append_to_level
    <2>4. \/ nodes' = nodes
          \/ \E level : nodes' = append_to_level(allocate_node(taker).nodes, level, allocate_node(taker).idx).nodes
      BY <1>6, Zenon DEF FinishSubmit
    <2> QED BY <2>2, <2>3, <2>4
  <1>7. CASE Clear
    BY <1>7 DEF Clear, Relinked
  <1> QED BY <1>2, <1>3, <1>4, <1>5, <1>6, <1>7 DEF Next

\* allocate_node resizes the vector only when every slot rests an order: slots are
\* reused first, whatever was filled or cancelled before.
THEOREM GrowthOnlyWhenFull == Spec => GrowsOnlyWhenFull
  <1>1. PoolInv /\ [Next]_vars => [pool_capacity' # pool_capacity => total_orders = pool_capacity]_vars
    <2> SUFFICES ASSUME PoolInv, [Next]_vars, pool_capacity' # pool_capacity
                 PROVE  total_orders = pool_capacity
      OBVIOUS
    <2>1. DOMAIN nodes' # DOMAIN nodes
      BY DEF pool_capacity
    <2>2. free_head = INVALID_IDX
      BY <2>1, SlotsKept
    <2> QED BY <2>2, FullPool
  <1> QED BY <1>1, PoolInvariance, PTL DEF Spec, GrowsOnlyWhenFull

-----------------------------------------------------------------------------
(* What the pooled book inherits from the book it implements               *)

\* The orders resting in the pool never cross between two calls, whatever slots
\* they are in.
THEOREM PoolNeverCrossed == Spec => []Stl!NeverCrossed
  <1>1. PoolInv => Stl!NeverCrossed
    BY DEF PoolInv, Book!IndInv, Book!Uncrossed, Stl!NeverCrossed
  <1> QED BY <1>1, PoolInvariance, PTL

\* order_index_ and the linked lists name the same orders: every id the index has
\* is in the list of its order's side and price, once, and no listed order is
\* filled, misplaced or unknown to the index.
THEOREM PoolIndexAgrees == Spec => []Stl!IndexMatchesQueues
  <1>1. PoolInv => Stl!IndexMatchesQueues
    <2> SUFFICES ASSUME PoolInv PROVE Stl!IndexMatchesQueues
      OBVIOUS
    <2>1. Book!BookOK(RestingQueues, OrderLocations)
      BY DEF PoolInv, Book!IndInv
    <2>2. Stl!Sides = Book!Sides
      BY DEF Stl!Sides, Book!Sides
    <2> QED BY <2>1, <2>2 DEF Stl!IndexMatchesQueues, Book!BookOK, Book!Located, Book!Listed, Book!Fits
  <1> QED BY <1>1, PoolInvariance, PTL

=============================================================================
