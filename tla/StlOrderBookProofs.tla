------------------------- MODULE StlOrderBookProofs -------------------------
(***************************************************************************)
(* Proofs about the STL book: whatever the ids, prices and quantities, the *)
(* index and the lists name the same orders and the book is never crossed. *)
(***************************************************************************)
EXTENDS StlOrderBook, FiniteSetTheorems, TLAPS

\* What a list at price p of side s holds, and how the index knows it.
Fits(order, s, p) ==
    /\ order.side = s /\ order.price = p /\ order.type = "Limit"
    /\ order.remaining \in 1 .. order.initial

Listed(queue, s, p, index) ==
    /\ queue \in Seq(Order) /\ queue # <<>>
    /\ \A i, j \in DOMAIN queue : queue[i].id = queue[j].id => i = j
    /\ \A i \in DOMAIN queue :
          /\ Fits(queue[i], s, p)
          /\ queue[i].id \in DOMAIN index
          /\ index[queue[i].id] = [side |-> s, price |-> p]

Located(id, books, index) ==
    /\ index[id] \in [side : Sides, price : Prices]
    /\ index[id].price \in DOMAIN books[index[id].side]
    /\ \E i \in DOMAIN books[index[id].side][index[id].price] :
          books[index[id].side][index[id].price][i].id = id

\* The lists and the index agree.
BookOK(books, index) ==
    /\ DOMAIN books = Sides
    /\ \A s \in Sides : /\ DOMAIN books[s] \subseteq Prices
                        /\ \A p \in DOMAIN books[s] : Listed(books[s][p], s, p, index)
    /\ DOMAIN index \subseteq OrderIds
    /\ \A id \in DOMAIN index : Located(id, books, index)

\* Unlike NeverCrossed, in the middle of submit_order as well.
Uncrossed(books) ==
    \A bid \in DOMAIN books["Buy"], ask \in DOMAIN books["Sell"] : bid < ask

\* The order being submitted is not in the book yet.
TakerOK ==
    /\ taker \in Order \cup {NoOrder}
    /\ taker # NoOrder => /\ taker.id \notin DOMAIN order_index
                          /\ taker.initial > 0
                          /\ taker.remaining <= taker.initial

IndInv ==
    /\ BookOK(queues, order_index)
    /\ Uncrossed(queues)
    /\ TakerOK
    /\ trades \in Seq(Trade)
    /\ ret \in BOOLEAN

-----------------------------------------------------------------------------
(* The best price exists: std::map is sorted, so begin() is it.            *)

HasBest(side, T) == \E p \in T : \A q \in T \ {p} : Better(side, p, q)

\* A smallest set of prices without a best one would lose it with one price less.
LEMMA BestExists ==
    ASSUME NEW side \in Sides, NEW T \in SUBSET Prices, T # {}
    PROVE  HasBest(side, T)
  <1> DEFINE Subsets == FiniteSubsetsOf(Prices)
             Bad     == {U \in Subsets : U # {} /\ ~HasBest(side, U)}
  <1>1. T \in Subsets
    BY OrderTypesAssumption, FS_Subset DEF FiniteSubsetsOf
  <1>2. ASSUME Bad # {} PROVE FALSE
    <2>1. PICK U \in Bad : \A V \in Bad : <<V, U>> \notin StrictSubsetOrdering(Prices)
      <3>1. IsWellFoundedOn(StrictSubsetOrdering(Prices), Subsets)
        BY FS_StrictSubsetOrderingWellFounded
      <3>2. Bad \subseteq Subsets
        OBVIOUS
      <3> QED
        BY <3>1, <3>2, <1>2, WFMin
    <2>2. PICK x \in U : TRUE
      OBVIOUS
    <2>3. U \in SUBSET Prices /\ IsFiniteSet(U) /\ ~HasBest(side, U)
      BY DEF FiniteSubsetsOf
    <2>4. U \ {x} \in Subsets
      BY <2>3, FS_RemoveElement DEF FiniteSubsetsOf
    <2>5. <<U \ {x}, U>> \in StrictSubsetOrdering(Prices)
      BY <2>3 DEF StrictSubsetOrdering
    <2>6. U \ {x} = {} \/ HasBest(side, U \ {x})
      BY <2>1, <2>4, <2>5
    <2>7. CASE U \ {x} = {}
      BY <2>7, <2>3, <2>2 DEF HasBest
    <2>8. CASE HasBest(side, U \ {x})
      <3>1. PICK y \in U \ {x} : \A q \in (U \ {x}) \ {y} : Better(side, y, q)
        BY <2>8 DEF HasBest
      <3>2. \A p \in U : p \in Nat
        BY <2>3, OrderTypesAssumption
      <3>3. CASE Better(side, x, y)
        <4>1. \A q \in U \ {x} : Better(side, x, q)
          BY <3>1, <3>2, <3>3 DEF Better
        <4> QED
          BY <4>1, <2>2, <2>3 DEF HasBest
      <3>4. CASE ~Better(side, x, y)
        <4>1. \A q \in U \ {y} : Better(side, y, q)
          BY <3>1, <3>2, <3>4 DEF Better
        <4> QED
          BY <4>1, <3>1, <2>3 DEF HasBest
      <3> QED
        BY <3>3, <3>4
    <2> QED
      BY <2>6, <2>7, <2>8
  <1> QED
    BY <1>1, <1>2

\* The best price is best.
LEMMA BestPriceIsBest ==
    ASSUME NEW side \in Sides, NEW T \in SUBSET Prices, T # {}
    PROVE  /\ BestPrice(side, T) \in T
           /\ \A q \in T \ {BestPrice(side, T)} : Better(side, BestPrice(side, T), q)
  BY BestExists DEF HasBest, BestPrice

-----------------------------------------------------------------------------
(* Lists with one order less, one more, or one order changed.              *)

\* queue without its order at i: what Tail and RemoveAt give.
Without(rest, queue, i) ==
    /\ rest \in Seq(Order)
    /\ Len(rest) = Len(queue) - 1
    /\ \A k \in 1 .. Len(rest) : rest[k] = queue[IF k < i THEN k ELSE k + 1]

LEMMA TailWithout ==
    ASSUME NEW queue \in Seq(Order), queue # <<>>
    PROVE  Without(Tail(queue), queue, 1)
  BY DEF Without

\* One list after another, place by place.
LEMMA Joined ==
    ASSUME NEW p \in Seq(Order), NEW q \in Seq(Order)
    PROVE  /\ p \o q \in Seq(Order) /\ Len(p \o q) = Len(p) + Len(q)
           /\ \A k \in 1 .. Len(p) + Len(q) :
                 (p \o q)[k] = IF k <= Len(p) THEN p[k] ELSE q[k - Len(p)]
  OBVIOUS

\* RemoveAt leaves the other elements in their order.
LEMMA RemoveAtWithout ==
    ASSUME NEW queue \in Seq(Order), NEW i \in DOMAIN queue
    PROVE  Without(RemoveAt(queue, i), queue, i)
  <1>1. i \in 1 .. Len(queue) /\ Len(queue) \in Nat /\ i \in Nat
    OBVIOUS
  <1> DEFINE left == SubSeq(queue, 1, i - 1)   right == SubSeq(queue, i + 1, Len(queue))
  <1>2. /\ left \in Seq(Order) /\ Len(left) = i - 1
        /\ \A k \in 1 .. i - 1 : left[k] = queue[k]
    BY <1>1
  <1>3. /\ right \in Seq(Order) /\ Len(right) = Len(queue) - i
        /\ \A k \in 1 .. Len(queue) - i : right[k] = queue[i + k]
    BY <1>1
  <1> HIDE DEF left, right
  <1>4. /\ left \o right \in Seq(Order) /\ Len(left \o right) = Len(queue) - 1
        /\ \A k \in 1 .. Len(queue) - 1 :
              (left \o right)[k] = IF k <= i - 1 THEN left[k] ELSE right[k - (i - 1)]
    <2>1. left \in Seq(Order) /\ right \in Seq(Order)
      BY <1>2, <1>3
    <2>2. /\ left \o right \in Seq(Order) /\ Len(left \o right) = Len(left) + Len(right)
          /\ \A k \in 1 .. Len(left) + Len(right) :
                (left \o right)[k] = IF k <= Len(left) THEN left[k] ELSE right[k - Len(left)]
      BY <2>1, Joined
    <2>3. Len(left) = i - 1 /\ Len(left) + Len(right) = Len(queue) - 1
      BY <1>1, <1>2, <1>3
    <2> QED BY <2>2, <2>3
  <1>5. ASSUME NEW k \in 1 .. Len(queue) - 1
        PROVE  (left \o right)[k] = queue[IF k < i THEN k ELSE k + 1]
    <2>1. CASE k < i
      BY <2>1, <1>1, <1>2, <1>4
    <2>2. CASE ~(k < i)
      <3>1. k - (i - 1) \in 1 .. Len(queue) - i /\ i + (k - (i - 1)) = k + 1 /\ ~(k <= i - 1)
        BY <2>2, <1>1
      <3> QED BY <2>2, <3>1, <1>3, <1>4
    <2> QED BY <2>1, <2>2
  <1>6. RemoveAt(queue, i) = left \o right
    BY DEF RemoveAt, left, right
  <1> QED BY <1>4, <1>5, <1>6 DEF Without

\* The list that lost its order at i is still one, by the index that lost its id.
LEMMA ShorterListed ==
    ASSUME NEW queue, NEW rest, NEW i \in DOMAIN queue, NEW s, NEW p, NEW index,
           Listed(queue, s, p, index), Without(rest, queue, i), rest # <<>>
    PROVE  Listed(rest, s, p, MapErase(index, queue[i].id))
  <1> DEFINE old(k) == IF k < i THEN k ELSE k + 1
  <1>1. /\ queue \in Seq(Order) /\ Len(queue) \in Nat /\ DOMAIN queue = 1 .. Len(queue)
        /\ rest \in Seq(Order) /\ DOMAIN rest = 1 .. Len(rest) /\ Len(rest) = Len(queue) - 1
        /\ i \in 1 .. Len(queue)
    BY DEF Listed, Without
  <1>2. \A k \in DOMAIN rest : /\ old(k) \in DOMAIN queue /\ old(k) # i
                               /\ rest[k] = queue[old(k)]
    BY <1>1 DEF Without
  <1>3. \A j, k \in DOMAIN rest : old(j) = old(k) => j = k
    BY <1>1
  <1> HIDE DEF old
  <1>4. \A j, k \in DOMAIN rest : rest[j].id = rest[k].id => j = k
    BY <1>2, <1>3 DEF Listed
  <1>5. ASSUME NEW k \in DOMAIN rest
        PROVE  /\ Fits(rest[k], s, p)
               /\ rest[k].id \in DOMAIN MapErase(index, queue[i].id)
               /\ MapErase(index, queue[i].id)[rest[k].id] = [side |-> s, price |-> p]
    <2>1. Fits(rest[k], s, p)
      BY <1>2 DEF Listed
    <2>2. rest[k].id # queue[i].id
      BY <1>2 DEF Listed
    <2>3. rest[k].id \in DOMAIN index /\ index[rest[k].id] = [side |-> s, price |-> p]
      BY <1>2 DEF Listed
    <2> QED
      BY <2>1, <2>2, <2>3 DEF MapErase
  <1> QED
    BY <1>1, <1>4, <1>5 DEF Listed, Without

\* A list that the id of another place is taken from the index of.
LEMMA OtherListed ==
    ASSUME NEW queue, NEW s, NEW p, NEW index, NEW id \in DOMAIN index,
           Listed(queue, s, p, index), index[id] # [side |-> s, price |-> p]
    PROVE  Listed(queue, s, p, MapErase(index, id))
  <1>1. \A k \in DOMAIN queue : queue[k].id # id
    BY DEF Listed
  <1> QED
    BY <1>1 DEF Listed, MapErase

\* What StoreQueue leaves of a side.
Stored(after, level, p, queue) ==
    /\ DOMAIN after = IF queue = <<>> THEN DOMAIN level \ {p} ELSE DOMAIN level
    /\ queue # <<>> => after[p] = queue
    /\ \A q \in DOMAIN after \ {p} : after[q] = level[q]

LEMMA LevelStored ==
    ASSUME NEW level, NEW p \in DOMAIN level, NEW queue
    PROVE  Stored(StoreQueue(level, p, queue), level, p, queue)
  <1>1. CASE queue = <<>>
    BY <1>1 DEF StoreQueue, MapErase, Stored
  <1>2. CASE queue # <<>>
    BY <1>2 DEF StoreQueue, MapPut, Stored
  <1> QED BY <1>1, <1>2

\* One side of the book replaced.
Replaced(after, books, s, level) ==
    /\ DOMAIN after = DOMAIN books
    /\ after[s] = level
    /\ \A t \in DOMAIN books \ {s} : after[t] = books[t]

LEMMA SideReplaced ==
    ASSUME NEW books, NEW s \in DOMAIN books, NEW level
    PROVE  Replaced([books EXCEPT ![s] = level], books, s, level)
  BY DEF Replaced

NoNewLevel(after, books) == \A t \in Sides : DOMAIN after[t] \subseteq DOMAIN books[t]

\* Taking an order out of its list and its id out of the index keeps them in
\* agreement, and no level comes to be.
LEMMA OrderRemoved ==
    ASSUME NEW books, NEW index, BookOK(books, index),
           NEW s \in Sides, NEW p \in DOMAIN books[s],
           NEW i \in DOMAIN books[s][p],
           NEW rest, Without(rest, books[s][p], i),
           NEW level, Stored(level, books[s], p, rest),
           NEW after, Replaced(after, books, s, level),
           NEW left, left = MapErase(index, books[s][p][i].id)
    PROVE  BookOK(after, left) /\ NoNewLevel(after, books)
  <1> DEFINE queue == books[s][p]
             gone  == queue[i].id
  <1>1. Listed(queue, s, p, index) /\ DOMAIN books = Sides /\ p \in Prices
    BY DEF BookOK
  <1>2. gone \in DOMAIN index /\ index[gone] = [side |-> s, price |-> p]
    BY <1>1 DEF Listed
  <1>3. /\ left = MapErase(index, gone)
        /\ DOMAIN left = DOMAIN index \ {gone} /\ \A id \in DOMAIN left : left[id] = index[id]
    BY DEF MapErase
  <1>4. /\ DOMAIN after = Sides
        /\ \A t \in Sides \ {s} : after[t] = books[t]
        /\ Stored(after[s], books[s], p, rest)
    BY <1>1 DEF Replaced
  <1>5. /\ DOMAIN after[s] = IF rest = <<>> THEN DOMAIN books[s] \ {p} ELSE DOMAIN books[s]
        /\ rest # <<>> => after[s][p] = rest
        /\ \A q \in DOMAIN after[s] \ {p} : after[s][q] = books[s][q]
    BY <1>4 DEF Stored
  <1>6. \A t \in Sides : DOMAIN after[t] \subseteq DOMAIN books[t]
    BY <1>4, <1>5
  <1> HIDE DEF queue, gone
  <1>7. ASSUME NEW t \in Sides, NEW q \in DOMAIN after[t]
        PROVE  Listed(after[t][q], t, q, left)
    <2>1. CASE t = s /\ q = p
      <3>1. rest # <<>> /\ after[t][q] = rest
        BY <2>1, <1>5
      <3> QED
        BY <2>1, <3>1, <1>1, <1>3, ShorterListed DEF gone, queue
    <2>2. CASE ~(t = s /\ q = p)
      <3>1. q \in DOMAIN books[t] /\ after[t][q] = books[t][q]
        BY <2>2, <1>4, <1>5, <1>6
      <3>2. Listed(books[t][q], t, q, index)
        BY <3>1 DEF BookOK
      <3>3. index[gone] # [side |-> t, price |-> q]
        BY <2>2, <1>2
      <3> QED
        BY <3>1, <3>2, <3>3, <1>2, <1>3, OtherListed
    <2> QED BY <2>1, <2>2
  <1>8. ASSUME NEW id \in DOMAIN left
        PROVE  Located(id, after, left)
    <2>1. id \in DOMAIN index /\ id # gone /\ left[id] = index[id] /\ Located(id, books, index)
      BY <1>3 DEF BookOK
    <2> DEFINE t == index[id].side   q == index[id].price
    <2>2. t \in Sides /\ q \in DOMAIN books[t] /\ index[id] = [side |-> t, price |-> q]
      BY <2>1 DEF Located
    <2>3. PICK k \in DOMAIN books[t][q] : books[t][q][k].id = id
      BY <2>1 DEF Located
    <2> HIDE DEF t, q
    <2>4. CASE t = s /\ q = p
      <3>1. k # i /\ k \in DOMAIN queue /\ i \in DOMAIN queue /\ queue[k].id = id
        BY <2>3, <2>4, <2>1 DEF queue, gone
      <3>2. queue \in Seq(Order) /\ Len(rest) = Len(queue) - 1 /\ rest \in Seq(Order)
        BY <1>1 DEF Listed, Without, queue
      <3> DEFINE new == IF k < i THEN k ELSE k - 1
      <3>3. new \in 1 .. Len(rest) /\ k = IF new < i THEN new ELSE new + 1
        BY <3>1, <3>2
      <3>4. rest[new] = queue[k]
        BY <3>3 DEF Without, queue
      <3>5. new \in DOMAIN rest /\ rest[new].id = id /\ rest # <<>>
        BY <3>1, <3>2, <3>3, <3>4
      <3>6. p \in DOMAIN after[s] /\ after[s][p] = rest
        BY <3>5, <1>5
      <3> HIDE DEF new
      <3> QED
        BY <2>1, <2>2, <2>4, <3>5, <3>6 DEF Located
    <2>5. CASE ~(t = s /\ q = p)
      <3>1. q \in DOMAIN after[t] /\ after[t][q] = books[t][q]
        BY <2>2, <2>5, <1>4, <1>5
      <3> QED
        BY <2>1, <2>2, <2>3, <3>1 DEF Located
    <2> QED BY <2>4, <2>5
  <1>9. BookOK(after, left)
    <2>1. \A t \in Sides : DOMAIN after[t] \subseteq Prices
      BY <1>6 DEF BookOK
    <2>2. DOMAIN left \subseteq OrderIds
      BY <1>3 DEF BookOK
    <2> QED
      BY <1>4, <1>7, <1>8, <2>1, <2>2 DEF BookOK
  <1> QED
    BY <1>6, <1>9 DEF NoNewLevel

\* What MapPut leaves of a map.
Put(after, map, key, value) ==
    /\ DOMAIN after = DOMAIN map \cup {key}
    /\ after[key] = value
    /\ \A k \in DOMAIN map \ {key} : after[k] = map[k]

LEMMA ValuePut ==
    ASSUME NEW map, NEW key, NEW value
    PROVE  Put(MapPut(map, key, value), map, key, value)
  BY DEF MapPut, Put

\* A list that gets a new order at its back, and a list of one order.
LEMMA LongerListed ==
    ASSUME NEW queue \in Seq(Order), NEW s, NEW p, NEW index, NEW order \in Order,
           queue # <<>> => Listed(queue, s, p, index),
           Fits(order, s, p), order.id \notin DOMAIN index,
           NEW more, Put(more, index, order.id, [side |-> s, price |-> p])
    PROVE  Listed(Append(queue, order), s, p, more)
  <1> DEFINE new == Append(queue, order)
  <1>1. Len(queue) \in Nat /\ (Len(queue) # 0 => Listed(queue, s, p, index))
    OBVIOUS
  <1>2. /\ new \in Seq(Order) /\ new # <<>> /\ DOMAIN new = 1 .. Len(queue) + 1
        /\ new[Len(queue) + 1] = order
        /\ \A k \in 1 .. Len(queue) : new[k] = queue[k]
    <2>1. Len(new) = Len(queue) + 1 /\ new \in Seq(Order)
      OBVIOUS
    <2>2. new # <<>>
      BY <2>1, <1>1
    <2>3. \A k \in 1 .. Len(queue) + 1 : new[k] = IF k = Len(queue) + 1 THEN order ELSE queue[k]
      BY <1>1
    <2> QED BY <2>1, <2>2, <2>3, <1>1
  <1> HIDE DEF new
  <1>3. \A k \in 1 .. Len(queue) :
            /\ Fits(new[k], s, p)
            /\ new[k].id \in DOMAIN index
            /\ index[new[k].id] = [side |-> s, price |-> p]
    <2> SUFFICES ASSUME NEW k \in 1 .. Len(queue), Listed(queue, s, p, index)
                 PROVE  /\ Fits(queue[k], s, p)
                        /\ queue[k].id \in DOMAIN index
                        /\ index[queue[k].id] = [side |-> s, price |-> p]
      BY <1>1, <1>2
    <2> QED BY DEF Listed
  <1>4. ASSUME NEW k \in DOMAIN new
        PROVE  /\ Fits(new[k], s, p)
               /\ new[k].id \in DOMAIN more
               /\ more[new[k].id] = [side |-> s, price |-> p]
    <2>1. CASE k \in 1 .. Len(queue)
      BY <2>1, <1>3 DEF Put
    <2>2. CASE k = Len(queue) + 1
      BY <2>2, <1>2 DEF Put
    <2> QED BY <2>1, <2>2, <1>1, <1>2
  <1>5. ASSUME NEW j \in DOMAIN new, NEW k \in DOMAIN new, new[j].id = new[k].id
        PROVE  j = k
    <2>1. CASE j \in 1 .. Len(queue) /\ k \in 1 .. Len(queue)
      BY <2>1, <1>1, <1>2, <1>5 DEF Listed
    <2>2. CASE j = Len(queue) + 1 /\ k # j
      BY <2>2, <1>1, <1>2, <1>3, <1>5
    <2>3. CASE k = Len(queue) + 1 /\ k # j
      BY <2>3, <1>1, <1>2, <1>3, <1>5
    <2> QED BY <2>1, <2>2, <2>3, <1>1, <1>2
  <1> QED
    BY <1>2, <1>4, <1>5 DEF Listed, new

\* The list at price p, an empty one if there is no such level.
QueueAt(queue, level, p) == queue = IF p \in DOMAIN level THEN level[p] ELSE <<>>

OneNewLevel(after, books, s, p) ==
    /\ DOMAIN after[s] = DOMAIN books[s] \cup {p}
    /\ \A t \in Sides \ {s} : DOMAIN after[t] = DOMAIN books[t]

\* An order that comes to rest at the back of its level is found there, and its
\* level is the only one that may be new.
LEMMA OrderRests ==
    ASSUME NEW books, NEW index, BookOK(books, index),
           NEW order \in Order, NEW s \in Sides, NEW p \in Prices,
           Fits(order, s, p), order.id \notin DOMAIN index,
           NEW queue, QueueAt(queue, books[s], p),
           NEW level, Put(level, books[s], p, Append(queue, order)),
           NEW after, Replaced(after, books, s, level),
           NEW more, Put(more, index, order.id, [side |-> s, price |-> p])
    PROVE  BookOK(after, more) /\ OneNewLevel(after, books, s, p)
  <1> DEFINE place == [side |-> s, price |-> p]
  <1>1. /\ DOMAIN books = Sides
        /\ \A t \in Sides : /\ DOMAIN books[t] \subseteq Prices
                            /\ \A q \in DOMAIN books[t] : Listed(books[t][q], t, q, index)
        /\ DOMAIN index \subseteq OrderIds
        /\ \A id \in DOMAIN index : Located(id, books, index)
    BY DEF BookOK
  <1>2. Put(more, index, order.id, place)
    OBVIOUS
  <1>3. /\ DOMAIN after = Sides
        /\ \A t \in Sides \ {s} : after[t] = books[t]
        /\ Put(after[s], books[s], p, Append(queue, order))
    BY <1>1 DEF Replaced
  <1>4. /\ DOMAIN after[s] = DOMAIN books[s] \cup {p}
        /\ after[s][p] = Append(queue, order)
        /\ \A q \in DOMAIN books[s] \ {p} : after[s][q] = books[s][q]
    BY <1>3 DEF Put
  <1>5. order.id \in OrderIds
    BY DEF Order
  <1>6. queue \in Seq(Order) /\ (queue # <<>> => Listed(queue, s, p, index))
    <2>1. CASE p \in DOMAIN books[s]
      <3>1. queue = books[s][p] /\ Listed(books[s][p], s, p, index)
        BY <2>1, <1>1 DEF QueueAt
      <3> QED BY <3>1 DEF Listed
    <2>2. CASE p \notin DOMAIN books[s]
      <3>1. queue = <<>>
        BY <2>2 DEF QueueAt
      <3>2. <<>> \in Seq(Order)
        OBVIOUS
      <3> QED BY <3>1, <3>2
    <2> QED BY <2>1, <2>2
  <1>7. Listed(after[s][p], s, p, more)
    BY <1>2, <1>4, <1>6, LongerListed
  <1>8. ASSUME NEW t \in Sides, NEW q \in DOMAIN after[t]
        PROVE  Listed(after[t][q], t, q, more)
    <2>1. CASE t = s /\ q = p
      BY <2>1, <1>7
    <2>2. CASE ~(t = s /\ q = p)
      <3>1. q \in DOMAIN books[t] /\ after[t][q] = books[t][q]
        BY <2>2, <1>3, <1>4
      <3>2. Listed(after[t][q], t, q, index)
        BY <3>1, <1>1
      <3>3. \A id \in DOMAIN index : id \in DOMAIN more /\ more[id] = index[id]
        BY <1>2 DEF Put
      <3> QED BY <3>2, <3>3 DEF Listed
    <2> QED BY <2>1, <2>2
  <1>9. ASSUME NEW id \in DOMAIN more
        PROVE  Located(id, after, more)
    <2>1. CASE id = order.id
      <3>1. more[id] = place
        BY <2>1, <1>2 DEF Put
      <3>2. /\ Len(queue) + 1 \in DOMAIN after[s][p]
            /\ after[s][p][Len(queue) + 1] = order
        BY <1>4, <1>6
      <3> QED BY <2>1, <3>1, <3>2, <1>4 DEF Located
    <2>2. CASE id # order.id
      <3>1. id \in DOMAIN index /\ more[id] = index[id] /\ Located(id, books, index)
        BY <2>2, <1>1, <1>2 DEF Put
      <3> DEFINE t == index[id].side   q == index[id].price
      <3>2. /\ t \in Sides /\ q \in DOMAIN books[t] /\ more[id] \in [side : Sides, price : Prices]
            /\ t = more[id].side /\ q = more[id].price
        BY <3>1 DEF Located
      <3>3. PICK k \in DOMAIN books[t][q] : books[t][q][k].id = id
        BY <3>1 DEF Located
      <3> HIDE DEF t, q
      <3>4. q \in DOMAIN after[t]
        BY <3>2, <1>3, <1>4
      <3>5. \E j \in DOMAIN after[t][q] : after[t][q][j].id = id
        <4>1. CASE t = s /\ q = p
          <5>1. queue = books[t][q] /\ queue \in Seq(Order) /\ k \in 1 .. Len(queue)
            BY <4>1, <3>2, <3>3, <1>6 DEF QueueAt
          <5>2. k \in DOMAIN Append(queue, order) /\ Append(queue, order)[k] = queue[k]
            BY <5>1
          <5> QED BY <4>1, <5>1, <5>2, <3>3, <1>4
        <4>2. CASE ~(t = s /\ q = p)
          BY <4>2, <3>2, <3>3, <1>3, <1>4
        <4> QED BY <4>1, <4>2
      <3> QED BY <3>2, <3>4, <3>5 DEF Located
    <2> QED BY <2>1, <2>2
  <1>10. BookOK(after, more)
    <2>1. \A t \in Sides : DOMAIN after[t] \subseteq Prices
      BY <1>1, <1>3, <1>4
    <2>2. DOMAIN more \subseteq OrderIds
      BY <1>1, <1>2, <1>5 DEF Put
    <2> QED BY <1>3, <1>8, <1>9, <2>1, <2>2 DEF BookOK
  <1> QED
    BY <1>3, <1>4, <1>10 DEF OneNewLevel

SameIds(after, queue) ==
    DOMAIN after = DOMAIN queue /\ \A k \in DOMAIN queue : after[k].id = queue[k].id

\* A list whose first order lost part of its quantity.
LEMMA ReducedListed ==
    ASSUME NEW queue, NEW s, NEW p, NEW index, Listed(queue, s, p, index),
           NEW qty \in Nat \ {0}, qty < queue[1].remaining
    PROVE  /\ Listed([queue EXCEPT ![1].remaining = @ - qty], s, p, index)
           /\ SameIds([queue EXCEPT ![1].remaining = @ - qty], queue)
  <1> DEFINE first == [queue[1] EXCEPT !.remaining = @ - qty]
             after == [queue EXCEPT ![1].remaining = @ - qty]
  <1>1. queue \in Seq(Order) /\ 1 \in DOMAIN queue /\ queue[1] \in Order /\ Fits(queue[1], s, p)
    BY DEF Listed
  <1>2. /\ queue[1].remaining \in 1 .. queue[1].initial
        /\ queue[1].initial \in 0 .. MaxQuantity /\ MaxQuantity \in Nat
    BY <1>1, OrderTypesAssumption DEF Fits, Order, Quantities
  <1>3. queue[1].remaining - qty \in 1 .. queue[1].initial
    BY <1>2
  <1>4. /\ first.id = queue[1].id /\ first.remaining = queue[1].remaining - qty
        /\ first.side = queue[1].side /\ first.type = queue[1].type
        /\ first.price = queue[1].price /\ first.initial = queue[1].initial
    BY <1>1 DEF Order
  <1>5. first \in Order
    <2>1. queue[1].remaining - qty \in Quantities
      BY <1>2, <1>3 DEF Quantities
    <2> QED BY <1>1, <2>1 DEF Order
  <1>6. Fits(first, s, p)
    BY <1>1, <1>3, <1>4 DEF Fits
  <1> HIDE DEF first
  <1>7. after = [queue EXCEPT ![1] = first]
    BY DEF first
  <1>8. /\ after \in Seq(Order) /\ DOMAIN after = DOMAIN queue /\ after # <<>>
        /\ after[1] = first /\ \A k \in DOMAIN queue \ {1} : after[k] = queue[k]
    BY <1>1, <1>5, <1>7
  <1> HIDE DEF after
  <1>9. \A k \in DOMAIN queue : after[k].id = queue[k].id /\ Fits(after[k], s, p)
    BY <1>4, <1>6, <1>8 DEF Listed
  <1>10. Listed(after, s, p, index)
    BY <1>8, <1>9 DEF Listed
  <1> QED
    BY <1>8, <1>9, <1>10 DEF after, SameIds

\* A list may take the place of one with the same ids: a maker that is filled
\* in part stays where it is.
LEMMA ListReplaced ==
    ASSUME NEW books, NEW index, BookOK(books, index),
           NEW s \in Sides, NEW p \in DOMAIN books[s],
           NEW list, Listed(list, s, p, index), SameIds(list, books[s][p]),
           NEW level, Put(level, books[s], p, list),
           NEW after, Replaced(after, books, s, level)
    PROVE  BookOK(after, index) /\ NoNewLevel(after, books)
  <1> DEFINE queue == books[s][p]
  <1>1. /\ DOMAIN books = Sides
        /\ \A t \in Sides : /\ DOMAIN books[t] \subseteq Prices
                            /\ \A q \in DOMAIN books[t] : Listed(books[t][q], t, q, index)
        /\ DOMAIN index \subseteq OrderIds
        /\ \A id \in DOMAIN index : Located(id, books, index)
    BY DEF BookOK
  <1>2. /\ Listed(list, s, p, index)
        /\ DOMAIN list = DOMAIN queue
        /\ \A k \in DOMAIN queue : list[k].id = queue[k].id
    BY DEF SameIds
  <1>3. /\ DOMAIN after = Sides
        /\ \A t \in Sides : DOMAIN after[t] = DOMAIN books[t]
        /\ \A t \in Sides : \A q \in DOMAIN books[t] :
              after[t][q] = IF t = s /\ q = p THEN list ELSE books[t][q]
    BY <1>1 DEF Replaced, Put
  <1> HIDE DEF queue
  <1>4. ASSUME NEW t \in Sides, NEW q \in DOMAIN after[t]
        PROVE  Listed(after[t][q], t, q, index)
    BY <1>1, <1>2, <1>3
  <1>5. ASSUME NEW id \in DOMAIN index
        PROVE  Located(id, after, index)
    <2> DEFINE t == index[id].side   q == index[id].price
    <2>1. /\ t \in Sides /\ q \in DOMAIN books[t] /\ index[id] \in [side : Sides, price : Prices]
      BY <1>1 DEF Located
    <2>2. PICK k \in DOMAIN books[t][q] : books[t][q][k].id = id
      BY <1>1 DEF Located
    <2> HIDE DEF t, q
    <2>3. k \in DOMAIN after[t][q] /\ after[t][q][k].id = id /\ q \in DOMAIN after[t]
      BY <2>1, <2>2, <1>2, <1>3 DEF queue
    <2> QED BY <2>1, <2>3 DEF Located, t, q
  <1>6. BookOK(after, index)
    BY <1>1, <1>3, <1>4, <1>5 DEF BookOK
  <1> QED
    BY <1>3, <1>6 DEF NoNewLevel

-----------------------------------------------------------------------------
(* The actions                                                             *)

\* Two empty maps and an empty index agree.
LEMMA EmptyBookOK ==
    /\ BookOK([s \in Sides |-> <<>>], <<>>)
    /\ Uncrossed([s \in Sides |-> <<>>])
  <1>1. DOMAIN <<>> = {}
    OBVIOUS
  <1> QED BY <1>1 DEF BookOK, Uncrossed, Sides

\* The invariant holds at the start.
LEMMA InitInv == Init => IndInv
  <1>1. <<>> \in Seq(Trade)
    OBVIOUS
  <1> QED BY <1>1, EmptyBookOK DEF Init, IndInv, TakerOK

\* The order as submit_order works on it is whole and is not in the book.
LEMMA AcceptInv ==
    ASSUME IndInv, NEW o \in Submittable, SubmitAccept(o)
    PROVE  IndInv'
  <1>1. o \in Order /\ o.remaining \in {0, o.initial} /\ ~Rejected(o)
    BY DEF Submittable, SubmitAccept
  <1>2. /\ o.id \in OrderIds /\ o.initial \in Quantities /\ o.remaining \in Quantities
        /\ o.initial > 0 /\ o.id \notin DOMAIN order_index
    BY <1>1, OrderTypesAssumption DEF Order, Rejected, Quantities
  <1>3. /\ taker' = [o EXCEPT !.remaining = IF @ = 0 THEN o.initial ELSE @]
        /\ trades' = <<>> /\ UNCHANGED <<queues, order_index, ret>>
    BY DEF SubmitAccept
  <1>4. /\ taker' \in Order /\ taker'.id = o.id /\ taker'.initial = o.initial
        /\ taker'.remaining = o.initial
    BY <1>1, <1>2, <1>3 DEF Order
  <1>5. trades' \in Seq(Trade)
    BY <1>3
  <1>6. TakerOK'
    BY <1>2, <1>3, <1>4, OrderTypesAssumption DEF TakerOK, Quantities
  <1> QED
    BY <1>3, <1>5, <1>6 DEF IndInv, BookOK, Listed, Located, Uncrossed

\* One iteration of the matching loop leaves an order in work.
LEMMA MatchInv == IndInv /\ MatchStep => IndInv' /\ taker' \in Order
  <1> SUFFICES ASSUME IndInv, MatchStep PROVE IndInv' /\ taker' \in Order
    OBVIOUS
  <1> DEFINE opp   == Opposite(taker.side)
             p     == BestPrice(opp, DOMAIN queues[opp])
             queue == queues[opp][p]
             maker == Head(queue)
             qty   == Lesser(taker.remaining, maker.remaining)
  <1>1. /\ taker # NoOrder /\ taker \in Order /\ taker.id \notin DOMAIN order_index
        /\ taker.initial > 0 /\ taker.remaining <= taker.initial
        /\ BookOK(queues, order_index) /\ Uncrossed(queues) /\ ret \in BOOLEAN
        /\ trades \in Seq(Trade)
    BY DEF IndInv, TakerOK, MatchStep
  <1>2. /\ opp \in Sides /\ taker.remaining \in Quantities /\ taker.initial \in Quantities
        /\ taker.id \in OrderIds /\ taker.side \in Sides
    BY <1>1 DEF Order, Sides, Opposite
  <1>3. DOMAIN queues[opp] # {} /\ taker.remaining > 0
    BY DEF MatchStep, CanMatch
  <1>4. p \in DOMAIN queues[opp]
    BY <1>1, <1>2, <1>3, BestPriceIsBest DEF BookOK
  <1>5. Listed(queue, opp, p, order_index) /\ p \in Prices
    BY <1>1, <1>2, <1>4 DEF BookOK
  <1>6. /\ queue \in Seq(Order) /\ 1 \in DOMAIN queue /\ maker = queue[1] /\ maker \in Order
        /\ Fits(maker, opp, p) /\ maker.id \in DOMAIN order_index /\ queue # <<>>
    <2>1. queue \in Seq(Order) /\ queue # <<>>
      BY <1>5 DEF Listed
    <2>2. 1 \in DOMAIN queue /\ maker = queue[1] /\ maker \in Order
      BY <2>1
    <2> QED BY <1>5, <2>1, <2>2 DEF Listed
  <1>7. /\ taker' = [taker EXCEPT !.remaining = @ - qty]
        /\ trades' = Append(trades,
              [maker |-> maker.id, taker |-> taker.id, price |-> maker.price,
               quantity |-> qty, aggressor |-> taker.side])
        /\ IF qty = maker.remaining
           THEN /\ order_index' = MapErase(order_index, maker.id)
                /\ queues' = [queues EXCEPT ![opp] = StoreQueue(@, p, Tail(queue))]
           ELSE /\ queues' = [queues EXCEPT ![opp][p][1].remaining = @ - qty]
                /\ UNCHANGED order_index
        /\ UNCHANGED ret
    BY DEF MatchStep
  <1> HIDE DEF opp, p, queue, maker, qty
  <1>8. /\ qty \in Nat \ {0} /\ qty \in Quantities
        /\ qty <= taker.remaining /\ qty <= maker.remaining
        /\ maker.remaining \in Nat /\ maker.id \in OrderIds /\ maker.price \in Prices
    <2>1. /\ maker.remaining \in 0 .. MaxQuantity /\ maker.remaining > 0
          /\ maker.id \in OrderIds /\ maker.price \in Prices
      BY <1>6, OrderTypesAssumption DEF Order, Fits, Quantities
    <2> QED BY <2>1, <1>2, <1>3, OrderTypesAssumption DEF qty, Lesser, Quantities
  <1>9. /\ taker' \in Order /\ taker'.id = taker.id /\ taker'.initial = taker.initial
        /\ taker'.remaining <= taker.initial
    <2>1. taker.remaining - qty \in Quantities /\ taker.remaining - qty <= taker.initial
      BY <1>1, <1>2, <1>8, OrderTypesAssumption DEF Quantities
    <2> QED BY <2>1, <1>1, <1>7 DEF Order
  <1>10. trades' \in Seq(Trade)
    <2>1. [maker |-> maker.id, taker |-> taker.id, price |-> maker.price,
           quantity |-> qty, aggressor |-> taker.side] \in Trade
      BY <1>2, <1>8 DEF Trade
    <2> QED BY <2>1, <1>1, <1>7
  <1>11. /\ BookOK(queues', order_index')
         /\ \A t \in Sides : DOMAIN queues'[t] \subseteq DOMAIN queues[t]
         /\ DOMAIN order_index' \subseteq DOMAIN order_index
    <2>1. CASE qty = maker.remaining
      <3>1. Without(Tail(queue), queue, 1)
        BY <1>6, TailWithout
      <3>2. /\ order_index' = MapErase(order_index, queue[1].id)
            /\ queues' = [queues EXCEPT ![opp] = StoreQueue(@, p, Tail(queue))]
        BY <1>6, <1>7, <2>1
      <3> QED
        <4>1. 1 \in DOMAIN queues[opp][p] /\ Without(Tail(queue), queues[opp][p], 1)
          BY <3>1, <1>6 DEF queue
        <4>2. order_index' = MapErase(order_index, queues[opp][p][1].id)
          BY <3>2 DEF queue
        <4> DEFINE level == StoreQueue(queues[opp], p, Tail(queue))
        <4>5. Stored(level, queues[opp], p, Tail(queue))
          BY <1>4, LevelStored
        <4>6. Replaced(queues', queues, opp, level)
          <5>1. queues' = [queues EXCEPT ![opp] = level] /\ opp \in DOMAIN queues
            BY <3>2, <1>1, <1>2 DEF BookOK
          <5> HIDE DEF level
          <5> QED BY <5>1, SideReplaced
        <4> HIDE DEF level
        <4>3. BookOK(queues', order_index') /\ NoNewLevel(queues', queues)
          BY <4>1, <4>2, <4>5, <4>6, <1>1, <1>2, <1>4, OrderRemoved
        <4>4. DOMAIN order_index' \subseteq DOMAIN order_index
          BY <4>2 DEF MapErase
        <4> QED BY <4>3, <4>4 DEF NoNewLevel
    <2>2. CASE qty # maker.remaining
      <3>1. qty < queues[opp][p][1].remaining
        BY <2>2, <1>6, <1>8 DEF queue
      <3>2. /\ queues' = [queues EXCEPT ![opp][p][1].remaining = @ - qty]
            /\ order_index' = order_index
        BY <2>2, <1>7
      <3> QED
        <4> DEFINE list  == [queues[opp][p] EXCEPT ![1].remaining = @ - qty]
                   level == [queues[opp] EXCEPT ![p] = list]
        <4>2. queues' = [queues EXCEPT ![opp] = level] /\ opp \in DOMAIN queues
          BY <3>2, <1>1, <1>2 DEF BookOK
        <4>3. Put(level, queues[opp], p, list)
          <5> HIDE DEF list
          <5> QED BY <1>4 DEF Put
        <4>4. Replaced(queues', queues, opp, level)
          <5> HIDE DEF level
          <5> QED BY <4>2, SideReplaced
        <4>5. Listed(list, opp, p, order_index) /\ SameIds(list, queues[opp][p])
          BY <3>1, <1>5, <1>8, ReducedListed DEF queue
        <4> HIDE DEF list, level
        <4>1. BookOK(queues', order_index) /\ NoNewLevel(queues', queues)
          BY <4>3, <4>4, <4>5, <1>1, <1>2, <1>4, ListReplaced
        <4> QED BY <4>1, <3>2 DEF NoNewLevel
    <2> QED BY <2>1, <2>2
  <1>12. Uncrossed(queues')
    BY <1>1, <1>11 DEF Uncrossed, Sides
  <1>13. TakerOK'
    BY <1>1, <1>9, <1>11 DEF TakerOK
  <1> QED
    BY <1>1, <1>7, <1>9, <1>10, <1>11, <1>12, <1>13 DEF IndInv, BookOK, Uncrossed, Listed, Located

\* What is left of a limit order rests: it does not cross the best opposite
\* price, so it crosses none.
LEMMA FinishInv == IndInv /\ FinishSubmit => IndInv'
  <1> SUFFICES ASSUME IndInv, FinishSubmit PROVE IndInv'
    OBVIOUS
  <1> DEFINE s     == taker.side
             p     == taker.price
             queue == IF p \in DOMAIN queues[s] THEN queues[s][p] ELSE <<>>
             opp   == Opposite(s)
  <1>1. /\ taker # NoOrder /\ taker \in Order /\ taker.id \notin DOMAIN order_index
        /\ taker.initial > 0 /\ taker.remaining <= taker.initial
        /\ BookOK(queues, order_index) /\ Uncrossed(queues) /\ trades \in Seq(Trade)
        /\ ~CanMatch /\ taker' = NoOrder /\ ret' = TRUE /\ trades' = trades
    BY DEF IndInv, TakerOK, FinishSubmit
  <1>2. /\ s \in Sides /\ p \in Prices /\ taker.remaining \in Quantities
        /\ taker.initial \in Quantities /\ opp \in Sides \ {s}
    BY <1>1 DEF Order, Sides, Opposite
  <1>3. /\ TakerOK' /\ trades' \in Seq(Trade) /\ ret' \in BOOLEAN
    BY <1>1 DEF TakerOK
  <1>4. BookOK(queues', order_index') /\ Uncrossed(queues')
    <2>1. CASE ~(taker.remaining > 0 /\ taker.type = "Limit")
      <3>1. queues' = queues /\ order_index' = order_index
        BY <2>1 DEF FinishSubmit
      <3> QED BY <3>1, <1>1
    <2>2. CASE taker.remaining > 0 /\ taker.type = "Limit"
      <3>1. /\ queues' = [queues EXCEPT ![s] = MapPut(@, p, Append(queue, taker))]
            /\ order_index' = MapPut(order_index, taker.id, [side |-> s, price |-> p])
        BY <2>2 DEF FinishSubmit, Enqueue
      <3>2. Fits(taker, s, p)
        BY <2>2, <1>1, <1>2, OrderTypesAssumption DEF Fits, Quantities
      <3> HIDE DEF s, p, queue, opp
      <3>3. /\ BookOK(queues', order_index')
            /\ DOMAIN queues'[s] = DOMAIN queues[s] \cup {p}
            /\ \A t \in Sides \ {s} : DOMAIN queues'[t] = DOMAIN queues[t]
        <4>1. QueueAt(queue, queues[s], p)
          BY DEF queue, QueueAt
        <4> DEFINE level == MapPut(queues[s], p, Append(queue, taker))
        <4>3. Put(level, queues[s], p, Append(queue, taker))
          BY ValuePut
        <4>4. Replaced(queues', queues, s, level)
          <5>1. queues' = [queues EXCEPT ![s] = level] /\ s \in DOMAIN queues
            BY <3>1, <1>1, <1>2 DEF BookOK
          <5> HIDE DEF level
          <5> QED BY <5>1, SideReplaced
        <4>5. Put(order_index', order_index, taker.id, [side |-> s, price |-> p])
          BY <3>1, ValuePut
        <4> HIDE DEF level
        <4>2. BookOK(queues', order_index') /\ OneNewLevel(queues', queues, s, p)
          BY <4>1, <4>3, <4>4, <4>5, <3>2, <1>1, <1>2, OrderRests
        <4> QED BY <4>2 DEF OneNewLevel
      <3>4. \A q \in DOMAIN queues[opp] : IF s = "Buy" THEN p < q ELSE q < p
        <4> SUFFICES ASSUME NEW q \in DOMAIN queues[opp]
                     PROVE  IF s = "Buy" THEN p < q ELSE q < p
          OBVIOUS
        <4> DEFINE best == BestPrice(opp, DOMAIN queues[opp])
        <4>1. ~Crosses(taker, best)
          BY <2>2, <1>1 DEF CanMatch, opp, s
        <4>2. DOMAIN queues[opp] \in SUBSET Prices
          BY <1>1, <1>2 DEF BookOK
        <4>3. best \in DOMAIN queues[opp] /\ (q = best \/ Better(opp, best, q))
          BY <4>2, <1>2, BestPriceIsBest
        <4> HIDE DEF best
        <4>4. best \in Nat /\ q \in Nat /\ p \in Nat
          BY <4>2, <4>3, <1>2, OrderTypesAssumption
        <4>5. IF s = "Buy" THEN p < best ELSE best < p
          BY <4>1, <4>4, <1>2 DEF Crosses, s, p
        <4>6. (s = "Buy" /\ opp = "Sell") \/ (s = "Sell" /\ opp = "Buy")
          BY <1>2 DEF opp, Opposite, Sides
        <4> QED BY <4>3, <4>4, <4>5, <4>6 DEF Better
      <3>5. Uncrossed(queues')
        <4>1. CASE s = "Buy"
          <5>1. /\ opp = "Sell" /\ DOMAIN queues'["Buy"] = DOMAIN queues["Buy"] \cup {p}
                /\ DOMAIN queues'["Sell"] = DOMAIN queues["Sell"]
            BY <4>1, <3>3 DEF opp, Opposite, Sides
          <5> QED BY <5>1, <4>1, <3>4, <1>1 DEF Uncrossed
        <4>2. CASE s = "Sell"
          <5>1. /\ opp = "Buy" /\ DOMAIN queues'["Sell"] = DOMAIN queues["Sell"] \cup {p}
                /\ DOMAIN queues'["Buy"] = DOMAIN queues["Buy"]
            BY <4>2, <3>3 DEF opp, Opposite, Sides
          <5> QED BY <5>1, <4>2, <3>4, <1>1 DEF Uncrossed
        <4> QED BY <4>1, <4>2, <1>2 DEF Sides
      <3> QED BY <3>3, <3>5
    <2> QED BY <2>1, <2>2
  <1> QED
    BY <1>3, <1>4 DEF IndInv, BookOK, Uncrossed, Listed, Located

\* The stored iterator denotes the order's node, and that is the one removed.
LEMMA CancelInv ==
    ASSUME IndInv, NEW id \in OrderIds, CancelHit(id)
    PROVE  IndInv'
  <1> DEFINE s     == order_index[id].side
             p     == order_index[id].price
             queue == queues[s][p]
             i     == list_it(queue, id)
  <1>1. /\ BookOK(queues, order_index) /\ Uncrossed(queues) /\ taker = NoOrder
        /\ trades \in Seq(Trade) /\ id \in DOMAIN order_index
        /\ queues' = [queues EXCEPT ![s] = StoreQueue(@, p, RemoveAt(queue, i))]
        /\ order_index' = MapErase(order_index, id)
        /\ ret' = TRUE /\ UNCHANGED <<taker, trades>>
    BY DEF IndInv, CancelHit
  <1>2. Located(id, queues, order_index)
    BY <1>1 DEF BookOK
  <1>3. /\ s \in Sides /\ p \in DOMAIN queues[s]
        /\ \E k \in DOMAIN queue : queue[k].id = id
    BY <1>2 DEF Located
  <1>4. i \in DOMAIN queue /\ queue[i].id = id
    BY <1>3 DEF list_it
  <1>5. queue \in Seq(Order)
    BY <1>1, <1>3 DEF BookOK, Listed
  <1> HIDE DEF s, p, i
  <1>6. Without(RemoveAt(queue, i), queue, i)
    BY <1>4, <1>5, RemoveAtWithout
  <1>7. /\ BookOK(queues', order_index')
        /\ \A t \in Sides : DOMAIN queues'[t] \subseteq DOMAIN queues[t]
    <2>1. /\ i \in DOMAIN queues[s][p] /\ Without(RemoveAt(queue, i), queues[s][p], i)
          /\ order_index' = MapErase(order_index, queues[s][p][i].id)
      BY <1>1, <1>4, <1>6 DEF queue
    <2> DEFINE level == StoreQueue(queues[s], p, RemoveAt(queue, i))
    <2>3. Stored(level, queues[s], p, RemoveAt(queue, i))
      BY <1>3, LevelStored
    <2>4. Replaced(queues', queues, s, level)
      <3>1. queues' = [queues EXCEPT ![s] = level] /\ s \in DOMAIN queues
        BY <1>1, <1>3 DEF BookOK
      <3> HIDE DEF level
      <3> QED BY <3>1, SideReplaced
    <2> HIDE DEF queue, level
    <2>2. BookOK(queues', order_index') /\ NoNewLevel(queues', queues)
      BY <2>1, <2>3, <2>4, <1>1, <1>3, OrderRemoved
    <2> QED BY <2>2 DEF NoNewLevel
  <1>8. Uncrossed(queues')
    BY <1>1, <1>7 DEF Uncrossed, Sides
  <1>9. TakerOK'
    BY <1>1 DEF TakerOK
  <1> QED
    BY <1>1, <1>7, <1>8, <1>9 DEF IndInv, BookOK, Uncrossed, Listed, Located

\* A stuttering step.
LEMMA Unchanged ==
    ASSUME BookOK(queues, order_index), Uncrossed(queues), TakerOK,
           queues' = queues, order_index' = order_index, taker' = taker
    PROVE  BookOK(queues', order_index') /\ Uncrossed(queues') /\ TakerOK'
  BY DEF TakerOK

\* Every step of the book keeps the invariant.
LEMMA StepInv == IndInv /\ [Next]_vars => IndInv'
  <1> SUFFICES ASSUME IndInv, [Next]_vars PROVE IndInv'
    OBVIOUS
  <1>1. ASSUME NEW o \in Submittable, SubmitReject(o) PROVE IndInv'
    <2>1. /\ trades' = <<>> /\ ret' = FALSE
          /\ queues' = queues /\ order_index' = order_index /\ taker' = taker
      BY <1>1 DEF SubmitReject
    <2>2. trades' \in Seq(Trade)
      BY <2>1
    <2> QED BY <2>1, <2>2, Unchanged DEF IndInv
  <1>2. ASSUME NEW o \in Submittable, SubmitAccept(o) PROVE IndInv'
    BY <1>2, AcceptInv
  <1>3. CASE MatchStep
    BY <1>3, MatchInv
  <1>4. CASE FinishSubmit
    BY <1>4, FinishInv
  <1>5. ASSUME NEW id \in OrderIds, CancelMiss(id) PROVE IndInv'
    <2>1. /\ trades' = trades /\ ret' = FALSE
          /\ queues' = queues /\ order_index' = order_index /\ taker' = taker
      BY <1>5 DEF CancelMiss
    <2> QED BY <2>1, Unchanged DEF IndInv
  <1>6. ASSUME NEW id \in OrderIds, CancelHit(id) PROVE IndInv'
    BY <1>6, CancelInv
  <1>7. CASE Clear
    <2>1. /\ queues' = [s \in Sides |-> <<>>] /\ order_index' = <<>>
          /\ taker' = NoOrder /\ taker = NoOrder /\ trades' = trades /\ ret' = ret
      BY <1>7 DEF Clear
    <2>2. BookOK(queues', order_index') /\ Uncrossed(queues')
      BY <2>1, EmptyBookOK
    <2> QED BY <2>1, <2>2 DEF IndInv, TakerOK, BookOK, Uncrossed, Listed, Located
  <1>8. CASE UNCHANGED vars
    BY <1>8 DEF vars, IndInv, TakerOK, BookOK, Uncrossed, Listed, Located
  <1> QED
    BY <1>1, <1>2, <1>3, <1>4, <1>5, <1>6, <1>7, <1>8 DEF Next

\* Index and lists agree, and with the order in work the book is uncrossed, after
\* every step of a call: submit_order's loop, cancel_order and clear.
THEOREM BookInvariance == Spec => []IndInv
  <1> QED BY InitInv, StepInv, PTL DEF Spec

\* The maps, the index and the order in work hold values of their types.
THEOREM BookTypes == Spec => []TypeOK
  <1>1. IndInv => TypeOK
    BY DEF IndInv, TypeOK, BookOK, Listed, Located, TakerOK
  <1> QED BY <1>1, BookInvariance, PTL

\* No iterator kept in the index dangles, no order is lost from it, no level is
\* left empty: after any sequence of submits, fills, cancels and clears.
THEOREM IndexAgrees == Spec => []IndexMatchesQueues
  <1>1. IndInv => IndexMatchesQueues
    <2> SUFFICES ASSUME IndInv PROVE IndexMatchesQueues
      OBVIOUS
    <2>1. \A id \in DOMAIN order_index : Located(id, queues, order_index)
      BY DEF IndInv, BookOK
    <2>2. \A s \in Sides : \A p \in DOMAIN queues[s] : Listed(queues[s][p], s, p, order_index)
      BY DEF IndInv, BookOK
    <2> QED BY <2>1, <2>2 DEF IndexMatchesQueues, Located, Listed, Fits
  <1> QED BY <1>1, BookInvariance, PTL

\* Whatever could trade has traded when submit_order returns.
THEOREM BookNeverCrossed == Spec => []NeverCrossed
  <1>1. IndInv => NeverCrossed
    BY DEF IndInv, Uncrossed, NeverCrossed
  <1> QED BY <1>1, BookInvariance, PTL

-----------------------------------------------------------------------------
(* What a step does to the lists                                           *)

\* One list of the book became another one; its level is gone if that is empty.
ListChanged(after, books, s, p, list) ==
    /\ \A t \in Sides \ {s} : after[t] = books[t]
    /\ DOMAIN after[s] = (DOMAIN books[s] \ {p}) \cup (IF list = <<>> THEN {} ELSE {p})
    /\ list # <<>> => after[s][p] = list
    /\ \A q \in DOMAIN books[s] \ {p} : after[s][q] = books[s][q]

\* Storing a list, or putting one where there may be none, changes that list alone.
LEMMA ListStored ==
    ASSUME NEW books, DOMAIN books = Sides, NEW s \in Sides, NEW p \in DOMAIN books[s], NEW list
    PROVE  ListChanged([books EXCEPT ![s] = StoreQueue(@, p, list)], books, s, p, list)
  <1>1. PICK level : level = StoreQueue(books[s], p, list)
    OBVIOUS
  <1>2. Stored(level, books[s], p, list)
    BY <1>1, LevelStored
  <1>3. Replaced([books EXCEPT ![s] = level], books, s, level)
    BY SideReplaced
  <1> QED BY <1>1, <1>2, <1>3 DEF Stored, Replaced, ListChanged

LEMMA ListPut ==
    ASSUME NEW books, DOMAIN books = Sides, NEW s \in Sides, NEW p, NEW list, list # <<>>
    PROVE  ListChanged([books EXCEPT ![s] = MapPut(@, p, list)], books, s, p, list)
  <1>1. PICK level : level = MapPut(books[s], p, list)
    OBVIOUS
  <1>2. Put(level, books[s], p, list)
    BY <1>1, ValuePut
  <1>3. Replaced([books EXCEPT ![s] = level], books, s, level)
    BY SideReplaced
  <1> QED BY <1>1, <1>2, <1>3 DEF Put, Replaced, ListChanged

\* queue with less left of its first order
Reduced(list, queue, qty) ==
    /\ list \in Seq(Order) /\ SameIds(list, queue)
    /\ list[1].remaining = queue[1].remaining - qty
    /\ \A k \in DOMAIN queue \ {1} : list[k] = queue[k]

\* The trade that MatchStep makes.
Trades(maker, qty) ==
    /\ taker' = [taker EXCEPT !.remaining = @ - qty]
    /\ trades' = Append(trades,
          [maker |-> maker.id, taker |-> taker.id, price |-> maker.price,
           quantity |-> qty, aggressor |-> taker.side])
    /\ qty \in Nat \ {0} /\ qty <= taker.remaining /\ qty <= maker.remaining
    /\ taker.remaining \in Nat /\ maker.remaining \in Nat
    /\ qty = taker.remaining \/ qty = maker.remaining

\* The maker is the first order of the list at the best opposite price; it leaves
\* the book if it is filled and stays in its place if not.
Matched(s, p, maker, qty, list) ==
    /\ taker # NoOrder /\ taker \in Order
    /\ s = Opposite(taker.side) /\ s \in Sides
    /\ p = BestPrice(s, DOMAIN queues[s]) /\ p \in DOMAIN queues[s]
    /\ Crosses(taker, p)
    /\ 1 \in DOMAIN queues[s][p] /\ maker = queues[s][p][1] /\ maker \in Order
    /\ Trades(maker, qty)
    /\ ListChanged(queues', queues, s, p, list)
    /\ qty = maker.remaining => /\ Without(list, queues[s][p], 1)
                                /\ order_index' = MapErase(order_index, maker.id)
    /\ qty # maker.remaining => /\ Reduced(list, queues[s][p], qty)
                                /\ order_index' = order_index

\* A partial fill of the first order changes its quantity alone.
LEMMA FirstReduced ==
    ASSUME NEW queue, NEW s, NEW p, NEW index, Listed(queue, s, p, index),
           NEW qty \in Nat \ {0}, qty < queue[1].remaining
    PROVE  Reduced([queue EXCEPT ![1].remaining = @ - qty], queue, qty)
  <1>1. queue \in Seq(Order) /\ 1 \in DOMAIN queue /\ queue[1] \in Order
    BY DEF Listed
  <1>2. PICK list : list = [queue EXCEPT ![1].remaining = @ - qty]
    OBVIOUS
  <1>3. Listed(list, s, p, index) /\ SameIds(list, queue)
    BY <1>2, ReducedListed
  <1>4. list[1] = [queue[1] EXCEPT !.remaining = @ - qty]
        /\ \A k \in DOMAIN queue \ {1} : list[k] = queue[k]
    BY <1>1, <1>2
  <1>5. list[1].remaining = queue[1].remaining - qty
    BY <1>1, <1>4 DEF Order
  <1> QED BY <1>2, <1>3, <1>4, <1>5 DEF Reduced, Listed

\* What one iteration of the matching loop does.
LEMMA MatchOpened ==
    ASSUME IndInv, MatchStep
    PROVE  \E s, p, maker, qty, list : Matched(s, p, maker, qty, list)
  <1>1. PICK s, p, maker, qty :
            /\ s = Opposite(taker.side) /\ p = BestPrice(s, DOMAIN queues[s])
            /\ maker = Head(queues[s][p]) /\ qty = Lesser(taker.remaining, maker.remaining)
    OBVIOUS
  <1>2. /\ taker # NoOrder /\ taker \in Order /\ BookOK(queues, order_index)
        /\ DOMAIN queues = Sides
        /\ DOMAIN queues[s] # {} /\ taker.remaining > 0 /\ Crosses(taker, p)
    BY <1>1 DEF IndInv, TakerOK, MatchStep, CanMatch, BookOK
  <1>3. s \in Sides /\ taker.remaining \in Nat
    BY <1>1, <1>2, OrderTypesAssumption DEF Order, Opposite, Sides, Quantities
  <1>4. p \in DOMAIN queues[s]
    BY <1>1, <1>2, <1>3, BestPriceIsBest DEF BookOK
  <1>5. Listed(queues[s][p], s, p, order_index)
    BY <1>2, <1>3, <1>4 DEF BookOK
  <1>6. PICK queue : queue = queues[s][p]
    OBVIOUS
  <1>7. queue \in Seq(Order) /\ queue # <<>> /\ 1 \in DOMAIN queue
        /\ maker = queue[1] /\ maker \in Order
    <2>1. queue \in Seq(Order) /\ queue # <<>> /\ maker = Head(queue)
      BY <1>1, <1>5, <1>6 DEF Listed
    <2> QED BY <2>1
  <1>8. maker.remaining \in Nat \ {0}
    <2>1. maker.remaining \in 1 .. maker.initial
      BY <1>5, <1>6, <1>7 DEF Listed, Fits
    <2> QED BY <1>7, <2>1, OrderTypesAssumption DEF Order, Quantities
  <1>9. qty \in Nat \ {0} /\ qty <= taker.remaining /\ qty <= maker.remaining
        /\ (qty = taker.remaining \/ qty = maker.remaining)
    BY <1>1, <1>2, <1>3, <1>8 DEF Lesser
  <1>10. /\ taker' = [taker EXCEPT !.remaining = @ - qty]
         /\ trades' = Append(trades,
              [maker |-> maker.id, taker |-> taker.id, price |-> maker.price,
               quantity |-> qty, aggressor |-> taker.side])
         /\ IF qty = maker.remaining
            THEN /\ order_index' = MapErase(order_index, maker.id)
                 /\ queues' = [queues EXCEPT ![s] = StoreQueue(@, p, Tail(queue))]
            ELSE /\ queues' = [queues EXCEPT ![s][p][1].remaining = @ - qty]
                 /\ order_index' = order_index
    BY <1>1, <1>6 DEF MatchStep
  <1>11. Trades(maker, qty)
    BY <1>3, <1>8, <1>9, <1>10 DEF Trades
  <1>12. CASE qty = maker.remaining
    <2>1. PICK list : list = Tail(queue)
      OBVIOUS
    <2>2. Without(list, queue, 1)
      BY <1>7, <2>1, TailWithout
    <2>3. queues' = [queues EXCEPT ![s] = StoreQueue(@, p, list)]
      BY <1>10, <1>12, <2>1
    <2>4. ListChanged(queues', queues, s, p, list)
      BY <1>2, <1>3, <1>4, <2>3, ListStored
    <2>5. Matched(s, p, maker, qty, list)
      BY <1>1, <1>2, <1>3, <1>4, <1>6, <1>7, <1>10, <1>11, <1>12, <2>2, <2>4 DEF Matched
    <2> QED BY <2>5
  <1>13. CASE qty # maker.remaining
    <2>1. PICK list : list = [queue EXCEPT ![1].remaining = @ - qty]
      OBVIOUS
    <2>2. qty < queue[1].remaining
      BY <1>7, <1>8, <1>9, <1>13
    <2>3. Reduced(list, queue, qty) /\ Listed(list, s, p, order_index)
      BY <1>5, <1>6, <1>9, <2>1, <2>2, FirstReduced, ReducedListed
    <2>4. queues' = [queues EXCEPT ![s] = [@ EXCEPT ![p] = list]]
      BY <1>6, <1>10, <1>13, <2>1
    <2>5. ListChanged(queues', queues, s, p, list)
      <3>1. list # <<>>
        BY <2>3 DEF Listed
      <3>2. PICK level : level = [queues[s] EXCEPT ![p] = list]
        OBVIOUS
      <3>3. queues' = [queues EXCEPT ![s] = level]
        BY <2>4, <3>2
      <3>4. queues'[s] = level /\ \A t \in Sides \ {s} : queues'[t] = queues[t]
        BY <1>2, <1>3, <3>3
      <3> QED BY <1>4, <3>1, <3>2, <3>4 DEF ListChanged
    <2>6. Matched(s, p, maker, qty, list)
      BY <1>1, <1>2, <1>3, <1>4, <1>6, <1>7, <1>10, <1>11, <1>13, <2>3, <2>5 DEF Matched
    <2> QED BY <2>6
  <1> QED BY <1>12, <1>13

\* What is left of a limit order goes to the back of its list.
RestsBehind(queue, list) ==
    /\ QueueAt(queue, queues[taker.side], taker.price) /\ queue \in Seq(Order)
    /\ list = Append(queue, taker)
    /\ ListChanged(queues', queues, taker.side, taker.price, list)
    /\ order_index' = MapPut(order_index, taker.id, [side |-> taker.side, price |-> taker.price])

\* What an order that rests does.
LEMMA FinishOpened ==
    ASSUME IndInv, FinishSubmit, taker.remaining > 0, taker.type = "Limit"
    PROVE  \E queue, list : RestsBehind(queue, list)
  <1>1. PICK s, p : s = taker.side /\ p = taker.price
    OBVIOUS
  <1>2. taker \in Order /\ BookOK(queues, order_index) /\ DOMAIN queues = Sides /\ s \in Sides
    BY <1>1 DEF IndInv, TakerOK, FinishSubmit, BookOK, Order
  <1>3. PICK queue : QueueAt(queue, queues[s], p)
    BY DEF QueueAt
  <1>4. queue \in Seq(Order)
    <2>1. <<>> \in Seq(Order)
      OBVIOUS
    <2>2. p \in DOMAIN queues[s] => queues[s][p] \in Seq(Order)
      BY <1>2 DEF BookOK, Listed
    <2> QED BY <1>3, <2>1, <2>2 DEF QueueAt
  <1>5. PICK list : list = Append(queue, taker)
    OBVIOUS
  <1>6. list # <<>>
    BY <1>2, <1>4, <1>5
  <1>7. /\ queues' = [queues EXCEPT ![s] = MapPut(@, p, list)]
        /\ order_index' = MapPut(order_index, taker.id, [side |-> s, price |-> p])
    BY <1>1, <1>3, <1>5 DEF FinishSubmit, Enqueue, QueueAt
  <1>8. ListChanged(queues', queues, s, p, list)
    BY <1>2, <1>6, <1>7, ListPut
  <1>9. RestsBehind(queue, list)
    BY <1>1, <1>3, <1>4, <1>5, <1>7, <1>8 DEF RestsBehind
  <1> QED BY <1>9

\* cancel_order takes the order out of the list that has it.
Cancelled(id, s, p, k, list) ==
    /\ s \in Sides /\ p \in DOMAIN queues[s]
    /\ k \in DOMAIN queues[s][p] /\ queues[s][p][k].id = id
    /\ Without(list, queues[s][p], k)
    /\ ListChanged(queues', queues, s, p, list)
    /\ order_index' = MapErase(order_index, id)

\* What a cancel that finds its order does.
LEMMA CancelOpened ==
    ASSUME IndInv, NEW id \in OrderIds, CancelHit(id)
    PROVE  \E s, p, k, list : Cancelled(id, s, p, k, list)
  <1>1. PICK s, p : s = order_index[id].side /\ p = order_index[id].price
    OBVIOUS
  <1>2. BookOK(queues, order_index) /\ DOMAIN queues = Sides /\ id \in DOMAIN order_index
    BY DEF IndInv, BookOK, CancelHit
  <1>3. s \in Sides /\ p \in DOMAIN queues[s] /\ \E k \in DOMAIN queues[s][p] : queues[s][p][k].id = id
    BY <1>1, <1>2 DEF BookOK, Located
  <1>4. PICK queue : queue = queues[s][p]
    OBVIOUS
  <1>5. queue \in Seq(Order)
    BY <1>2, <1>3, <1>4 DEF BookOK, Listed
  <1>6. PICK k : k = list_it(queue, id)
    OBVIOUS
  <1>7. k \in DOMAIN queue /\ queue[k].id = id
    BY <1>3, <1>4, <1>6 DEF list_it
  <1>8. PICK list : list = RemoveAt(queue, k)
    OBVIOUS
  <1>9. Without(list, queue, k)
    BY <1>5, <1>7, <1>8, RemoveAtWithout
  <1>10. /\ queues' = [queues EXCEPT ![s] = StoreQueue(@, p, list)]
         /\ order_index' = MapErase(order_index, id)
    BY <1>1, <1>4, <1>6, <1>8 DEF CancelHit
  <1>11. ListChanged(queues', queues, s, p, list)
    BY <1>2, <1>3, <1>10, ListStored
  <1>12. Cancelled(id, s, p, k, list)
    BY <1>3, <1>4, <1>7, <1>9, <1>10, <1>11 DEF Cancelled
  <1> QED BY <1>12

-----------------------------------------------------------------------------
(* What get_order finds                                                    *)

\* An order with a place in the book.
Rests(order, books) ==
    \E s \in Sides : \E p \in DOMAIN books[s] : \E k \in DOMAIN books[s][p] : order = books[s][p][k]

\* get_order(id).remaining, and 0 for an id the index does not have
Left(id, books, index) ==
    IF id \in DOMAIN index
    THEN LET queue == books[index[id].side][index[id].price]
         IN  queue[list_it(queue, id)].remaining
    ELSE 0

\* get_order finds an order that rests.
LEMMA RestingFound ==
    ASSUME NEW books, NEW index, BookOK(books, index), NEW order, Rests(order, books)
    PROVE  /\ order \in Order /\ order.remaining \in Nat \ {0}
           /\ order.id \in DOMAIN index
           /\ Left(order.id, books, index) = order.remaining
  <1>1. PICK s, p, k : /\ s \in Sides /\ p \in DOMAIN books[s] /\ k \in DOMAIN books[s][p]
                       /\ order = books[s][p][k]
    BY DEF Rests
  <1>2. Listed(books[s][p], s, p, index)
    BY <1>1 DEF BookOK
  <1>3. PICK queue : queue = books[s][p]
    OBVIOUS
  <1>4. /\ order \in Order /\ order.id \in DOMAIN index
        /\ index[order.id] = [side |-> s, price |-> p]
        /\ order.remaining \in 1 .. order.initial
        /\ \A i, j \in DOMAIN queue : queue[i].id = queue[j].id => i = j
    BY <1>1, <1>2, <1>3 DEF Listed, Fits
  <1>5. order.remaining \in Nat \ {0}
    BY <1>4, OrderTypesAssumption DEF Order, Quantities
  <1>6. list_it(queue, order.id) = k
    BY <1>1, <1>3, <1>4 DEF list_it
  <1>7. index[order.id].side = s /\ index[order.id].price = p
    BY <1>4
  <1> QED BY <1>1, <1>3, <1>4, <1>5, <1>6, <1>7 DEF Left

\* Every indexed id is that of an order that rests.
LEMMA IndexedRests ==
    ASSUME NEW books, NEW index, BookOK(books, index), NEW id \in DOMAIN index
    PROVE  \E order : order.id = id /\ Rests(order, books)
  <1>1. Located(id, books, index)
    BY DEF BookOK
  <1>2. PICK s, p : s = index[id].side /\ p = index[id].price
    OBVIOUS
  <1>3. s \in Sides /\ p \in DOMAIN books[s] /\ \E k \in DOMAIN books[s][p] : books[s][p][k].id = id
    BY <1>1, <1>2 DEF Located
  <1>4. PICK k \in DOMAIN books[s][p] : books[s][p][k].id = id
    BY <1>3
  <1> QED BY <1>3, <1>4 DEF Rests

\* What get_order finds of an order is a quantity.
LEMMA LeftNat ==
    ASSUME NEW books, NEW index, BookOK(books, index), NEW id
    PROVE  Left(id, books, index) \in Nat
  <1>1. CASE id \in DOMAIN index
    BY <1>1, IndexedRests, RestingFound
  <1>2. CASE id \notin DOMAIN index
    BY <1>2 DEF Left
  <1> QED BY <1>1, <1>2

\* A step that changes one list leaves an order where it was or puts it there.
LEMMA RestsAfter ==
    ASSUME NEW after, NEW books, NEW s, NEW p, NEW list, ListChanged(after, books, s, p, list),
           NEW order, Rests(order, after)
    PROVE  Rests(order, books) \/ \E k \in DOMAIN list : order = list[k]
  <1>1. PICK t, q, k : /\ t \in Sides /\ q \in DOMAIN after[t] /\ k \in DOMAIN after[t][q]
                       /\ order = after[t][q][k]
    BY DEF Rests
  <1>2. CASE t = s /\ q = p
    <2>1. after[t][q] = list
      BY <1>1, <1>2 DEF ListChanged
    <2> QED BY <1>1, <2>1
  <1>3. CASE ~(t = s /\ q = p)
    <2>1. q \in DOMAIN books[t] /\ after[t][q] = books[t][q]
      BY <1>1, <1>3 DEF ListChanged
    <2> QED BY <1>1, <2>1 DEF Rests
  <1> QED BY <1>2, <1>3

\* Two books in which the same orders rest, but for one id.
LEMMA LeftSame ==
    ASSUME NEW books, NEW index, BookOK(books, index),
           NEW after, NEW more, BookOK(after, more),
           NEW id, id \in DOMAIN index <=> id \in DOMAIN more,
           \A order : order.id = id /\ Rests(order, after) => Rests(order, books)
    PROVE  Left(id, after, more) = Left(id, books, index)
  <1>1. CASE id \notin DOMAIN more
    BY <1>1 DEF Left
  <1>2. CASE id \in DOMAIN more
    <2>1. PICK order : order.id = id /\ Rests(order, after)
      BY <1>2, IndexedRests
    <2>2. Rests(order, books)
      BY <2>1
    <2> QED BY <2>1, <2>2, RestingFound
  <1> QED BY <1>1, <1>2

\* An order that is in the shorter list was in the longer one.
LEMMA WithoutRests ==
    ASSUME NEW books, DOMAIN books = Sides, NEW s \in Sides, NEW p \in DOMAIN books[s],
           books[s][p] \in Seq(Order), NEW i \in DOMAIN books[s][p],
           NEW list, Without(list, books[s][p], i), NEW k \in DOMAIN list
    PROVE  Rests(list[k], books)
  <1>1. PICK queue : queue = books[s][p]
    OBVIOUS
  <1>2. /\ queue \in Seq(Order) /\ DOMAIN queue = 1 .. Len(queue) /\ i \in 1 .. Len(queue)
        /\ DOMAIN list = 1 .. Len(list) /\ Len(list) = Len(queue) - 1
        /\ list[k] = queue[IF k < i THEN k ELSE k + 1]
    BY <1>1 DEF Without
  <1>3. (IF k < i THEN k ELSE k + 1) \in DOMAIN queue
    BY <1>2
  <1> QED BY <1>1, <1>2, <1>3 DEF Rests

\* What a trade takes from the maker and from nobody else in the book.
MakerPays(maker, qty) ==
    /\ maker.id \in DOMAIN order_index /\ maker.id \in OrderIds
    /\ Left(maker.id, queues, order_index) = maker.remaining
    /\ Left(maker.id, queues', order_index') = maker.remaining - qty
    /\ \A id : id # maker.id => Left(id, queues', order_index') = Left(id, queues, order_index)
    /\ DOMAIN order_index' \subseteq DOMAIN order_index

\* A trade takes its quantity off its maker and off no other order.
LEMMA MatchLeft ==
    ASSUME IndInv, MatchStep, NEW s, NEW p, NEW maker, NEW qty, NEW list,
           Matched(s, p, maker, qty, list)
    PROVE  MakerPays(maker, qty)
  <1>1. BookOK(queues, order_index) /\ BookOK(queues', order_index') /\ DOMAIN queues = Sides
    BY MatchInv DEF IndInv, BookOK
  <1>2. /\ s \in Sides /\ p \in DOMAIN queues[s] /\ 1 \in DOMAIN queues[s][p]
        /\ maker = queues[s][p][1] /\ maker \in Order /\ qty \in Nat /\ maker.remaining \in Nat
        /\ ListChanged(queues', queues, s, p, list)
    BY DEF Matched, Trades
  <1>3. Rests(maker, queues)
    BY <1>2 DEF Rests
  <1>4. maker.id \in DOMAIN order_index /\ Left(maker.id, queues, order_index) = maker.remaining
    BY <1>1, <1>3, RestingFound
  <1>5. maker.id \in OrderIds
    BY <1>2 DEF Order
  <1>6. queues[s][p] \in Seq(Order)
    BY <1>1, <1>2 DEF BookOK, Listed
  <1>7. ASSUME NEW order, Rests(order, queues'), order.id # maker.id
        PROVE  Rests(order, queues)
    <2>1. CASE \E k \in DOMAIN list : order = list[k]
      <3>1. PICK k \in DOMAIN list : order = list[k]
        BY <2>1
      <3>2. CASE qty = maker.remaining
        <4>1. Without(list, queues[s][p], 1)
          BY <3>2 DEF Matched
        <4> QED BY <1>1, <1>2, <1>6, <3>1, <4>1, WithoutRests
      <3>3. CASE qty # maker.remaining
        <4>1. Reduced(list, queues[s][p], qty)
          BY <3>3 DEF Matched
        <4>2. k \in DOMAIN queues[s][p] /\ list[k].id = queues[s][p][k].id
              /\ (k # 1 => list[k] = queues[s][p][k])
          BY <3>1, <4>1 DEF Reduced, SameIds
        <4>3. k # 1
          BY <1>2, <1>7, <3>1, <4>2
        <4> QED BY <1>2, <3>1, <4>2, <4>3 DEF Rests
      <3> QED BY <3>2, <3>3
    <2> QED BY <1>2, <1>7, <2>1, RestsAfter
  <1>8. DOMAIN order_index' \subseteq DOMAIN order_index
        /\ \A id : id # maker.id => (id \in DOMAIN order_index <=> id \in DOMAIN order_index')
    BY DEF Matched, MapErase
  <1>9. ASSUME NEW id, id # maker.id
        PROVE  Left(id, queues', order_index') = Left(id, queues, order_index)
    <2>1. id \in DOMAIN order_index <=> id \in DOMAIN order_index'
      BY <1>8, <1>9
    <2>2. \A order : order.id = id /\ Rests(order, queues') => Rests(order, queues)
      BY <1>7, <1>9
    <2> QED BY <1>1, <2>1, <2>2, LeftSame
  <1>10. Left(maker.id, queues', order_index') = maker.remaining - qty
    <2>1. CASE qty = maker.remaining
      <3>1. maker.id \notin DOMAIN order_index'
        BY <2>1 DEF Matched, MapErase
      <3>2. Left(maker.id, queues', order_index') = 0
        BY <3>1 DEF Left
      <3> QED BY <1>2, <2>1, <3>2
    <2>2. CASE qty # maker.remaining
      <3>1. Reduced(list, queues[s][p], qty)
        BY <2>2 DEF Matched
      <3>2. 1 \in DOMAIN list /\ list[1].id = maker.id /\ list[1].remaining = maker.remaining - qty
        BY <1>2, <3>1 DEF Reduced, SameIds
      <3>3. list # <<>>
        BY <3>2
      <3>4. p \in DOMAIN queues'[s] /\ queues'[s][p] = list
        BY <1>2, <3>3 DEF ListChanged
      <3>5. Rests(list[1], queues')
        BY <1>2, <3>2, <3>4 DEF Rests
      <3>6. Left(list[1].id, queues', order_index') = list[1].remaining
        BY <1>1, <3>5, RestingFound
      <3> QED BY <3>2, <3>6
    <2> QED BY <2>1, <2>2
  <1> QED BY <1>4, <1>5, <1>8, <1>9, <1>10 DEF MakerPays

\* What is left of a limit order rests; the other orders are as they were.
LEMMA FinishLeft ==
    ASSUME IndInv, FinishSubmit
    PROVE  /\ \A id : id # taker.id => Left(id, queues', order_index') = Left(id, queues, order_index)
           /\ Left(taker.id, queues', order_index')
                  = IF taker.remaining > 0 /\ taker.type = "Limit" THEN taker.remaining ELSE 0
           /\ DOMAIN order_index' = DOMAIN order_index \cup
                  (IF taker.remaining > 0 /\ taker.type = "Limit" THEN {taker.id} ELSE {})
  <1>1. /\ BookOK(queues, order_index) /\ BookOK(queues', order_index') /\ DOMAIN queues = Sides
        /\ taker \in Order /\ taker.id \notin DOMAIN order_index
    BY FinishInv DEF IndInv, TakerOK, FinishSubmit, BookOK
  <1>2. CASE ~(taker.remaining > 0 /\ taker.type = "Limit")
    <2>1. queues' = queues /\ order_index' = order_index
      BY <1>2 DEF FinishSubmit
    <2> QED BY <1>1, <1>2, <2>1 DEF Left
  <1>3. CASE taker.remaining > 0 /\ taker.type = "Limit"
    <2>1. PICK queue, list : RestsBehind(queue, list)
      BY <1>3, FinishOpened
    <2>2. PICK s, p : s = taker.side /\ p = taker.price
      OBVIOUS
    <2>3. /\ QueueAt(queue, queues[s], p) /\ queue \in Seq(Order)
          /\ list = Append(queue, taker) /\ ListChanged(queues', queues, s, p, list)
          /\ order_index' = MapPut(order_index, taker.id, [side |-> s, price |-> p])
      BY <2>1, <2>2 DEF RestsBehind
    <2>4. DOMAIN order_index' = DOMAIN order_index \cup {taker.id} /\ s \in Sides
      BY <1>1, <2>2, <2>3 DEF MapPut, Order
    <2>5. /\ DOMAIN list = 1 .. Len(queue) + 1 /\ Len(queue) \in Nat /\ list[Len(queue) + 1] = taker
          /\ \A k \in 1 .. Len(queue) : list[k] = queue[k]
      BY <1>1, <2>3
    <2>6. p \in DOMAIN queues'[s] /\ queues'[s][p] = list
      <3>1. list # <<>>
        BY <1>1, <2>3
      <3> QED BY <2>3, <3>1 DEF ListChanged
    <2>7. Rests(taker, queues')
      <3>1. Len(queue) + 1 \in DOMAIN list
        BY <2>5
      <3> QED BY <2>4, <2>5, <2>6, <3>1 DEF Rests
    <2>8. Left(taker.id, queues', order_index') = taker.remaining
      BY <1>1, <2>7, RestingFound
    <2>9. ASSUME NEW order, Rests(order, queues'), order # taker
          PROVE  Rests(order, queues)
      <3>1. CASE \E k \in DOMAIN list : order = list[k]
        <4>1. PICK k \in DOMAIN list : order = list[k]
          BY <3>1
        <4>2. k \in 1 .. Len(queue) /\ order = queue[k]
          BY <2>5, <2>9, <4>1
        <4>3. k \in DOMAIN queue /\ queue # <<>>
          BY <2>3, <4>2
        <4>4. p \in DOMAIN queues[s] /\ queue = queues[s][p]
          BY <2>3, <4>3 DEF QueueAt
        <4>5. k \in DOMAIN queues[s][p] /\ order = queues[s][p][k]
          BY <4>2, <4>3, <4>4
        <4> QED BY <2>4, <4>4, <4>5 DEF Rests
      <3>2. ListChanged(queues', queues, s, p, list)
        BY <2>3
      <3> QED BY <2>9, <3>1, <3>2, RestsAfter
    <2>10. ASSUME NEW id, id # taker.id
           PROVE  Left(id, queues', order_index') = Left(id, queues, order_index)
      <3>1. id \in DOMAIN order_index <=> id \in DOMAIN order_index'
        BY <2>4, <2>10
      <3>2. \A order : order.id = id /\ Rests(order, queues') => Rests(order, queues)
        BY <2>9, <2>10
      <3> QED BY <1>1, <3>1, <3>2, LeftSame
    <2> QED BY <1>3, <2>4, <2>8, <2>10
  <1> QED BY <1>2, <1>3

\* A cancel takes one order out of the book.
LEMMA CancelLeft ==
    ASSUME IndInv, NEW id \in OrderIds, CancelHit(id)
    PROVE  /\ \A other : other # id => Left(other, queues', order_index') = Left(other, queues, order_index)
           /\ DOMAIN order_index' = DOMAIN order_index \ {id}
  <1>1. BookOK(queues, order_index) /\ BookOK(queues', order_index') /\ DOMAIN queues = Sides
    BY CancelInv DEF IndInv, BookOK
  <1>2. PICK s, p, i, list : Cancelled(id, s, p, i, list)
    BY CancelOpened
  <1>3. DOMAIN order_index' = DOMAIN order_index \ {id}
    BY <1>2 DEF Cancelled, MapErase
  <1>4. ASSUME NEW order, Rests(order, queues')
        PROVE  Rests(order, queues)
    <2>1. ASSUME NEW k \in DOMAIN list PROVE Rests(list[k], queues)
      <3>1. queues[s][p] \in Seq(Order)
        BY <1>1, <1>2 DEF Cancelled, BookOK, Listed
      <3> QED BY <1>1, <1>2, <3>1, WithoutRests DEF Cancelled
    <2>2. ListChanged(queues', queues, s, p, list)
      BY <1>2 DEF Cancelled
    <2> QED BY <1>4, <2>1, <2>2, RestsAfter
  <1>5. ASSUME NEW other, other # id
        PROVE  Left(other, queues', order_index') = Left(other, queues, order_index)
    <2>1. other \in DOMAIN order_index <=> other \in DOMAIN order_index'
      BY <1>3, <1>5
    <2> QED BY <1>1, <1>4, <2>1, LeftSame
  <1> QED BY <1>3, <1>5
=============================================================================
