--------------------------- MODULE WorkloadProofs ---------------------------
(***************************************************************************)
(* Proofs about generated workloads, for every number of actions and every *)
(* range of prices and quantities: each order drawn is one the book takes, *)
(* and the pool of active ids is exact after any run of swap-and-pop.      *)
(***************************************************************************)
EXTENDS Workload, StlOrderBookProofs

\* Ids given out in this pass.
Issued == 1 .. next_id - 1

\* The generator is ahead of the book: every id the book knows was issued.
IdsOK ==
    /\ i \in 0 .. Count
    /\ next_id \in 1 .. i + 1
    /\ DOMAIN order_index \subseteq Issued
    /\ taker # NoOrder => taker.id \in Issued

PoolOK ==
    /\ active \in Seq(Issued)
    /\ DOMAIN placed \subseteq Issued /\ cancelled \subseteq Issued
    /\ ActivePool

\* What id still has in the order in work.
Working(id) == IF taker # NoOrder /\ taker.id = id THEN taker.remaining ELSE 0

\* EveryUnitAccounted in the middle of submit_order as well, and that the order
\* in work is a placed one if it may rest.
UnitsOK ==
    /\ \A id \in DOMAIN placed : placed[id] \in Nat
    /\ traded \in [OrderIds -> Nat]
    /\ \A id \in OrderIds \ Issued : traded[id] = 0
    /\ cancelled \subseteq DOMAIN placed
    /\ \A id \in DOMAIN placed \ cancelled :
          traded[id] + Left(id, queues, order_index) + Working(id) = placed[id]
    /\ \A id \in cancelled : traded[id] <= placed[id]
    /\ DOMAIN order_index \subseteq DOMAIN placed \ cancelled
    /\ taker # NoOrder => /\ taker.id \notin cancelled
                          /\ taker.type = "Limit" <=> taker.id \in DOMAIN placed

WorkloadInv == IndInv /\ IdsOK /\ PoolOK /\ UnitsOK

-----------------------------------------------------------------------------
(* What is drawn                                                           *)

\* A limit order is drawn with a price of the book.
LEMMA LimitPriceDrawn ==
    ASSUME NEW offset \in Offsets
    PROVE  LimitPrice(offset) \in Prices /\ LimitPrice(offset) # 0
  <1> DEFINE a == MinPrice   b == MidPrice + offset
  <1>1. a \in Nat \ {0} /\ b \in Int
    BY WorkloadAssumption
  <1> HIDE DEF a, b
  <1>2. \E x \in {a, b} : \A y \in {a, b} : x >= y
    BY <1>1
  <1>3. \A y \in {a, b} : Max({a, b}) >= y
    BY <1>2 DEF Max
  <1>4. Max({a, b}) \in {a, b}
    BY <1>2 DEF Max
  <1>5. Max({a, b}) # 0
    BY <1>1, <1>3, <1>4
  <1> QED BY <1>5, DrawnPricesAssumption DEF LimitPrice, a, b

\* A sweep asks for at least one unit.
LEMMA SweepQuantityDrawn ==
    ASSUME NEW lot \in Lots
    PROVE  SweepQuantity(lot) \in 1 .. MaxQuantity
  <1>1. lot \in Nat /\ lot <= MaxQuantity /\ MaxQuantity \in Nat
    BY WorkloadAssumption, OrderTypesAssumption
  <1>2. lot \div 2 \in Nat /\ lot \div 2 <= lot
    BY <1>1
  <1>3. SmallestSweep \in 1 .. MaxQuantity
    BY WorkloadAssumption
  <1> QED BY <1>1, <1>2, <1>3 DEF SweepQuantity

\* A drawn order has the next id, which the book does not know.
LEMMA DrawnAccepted ==
    ASSUME IdsOK, i < Count, NEW side \in Sides, NEW type \in {"Limit", "Market"},
           NEW price \in Prices, type = "Limit" => price # 0,
           NEW quantity \in 1 .. MaxQuantity
    PROVE  /\ NewOrder(side, type, price, quantity) \in Submittable
           /\ ~Rejected(NewOrder(side, type, price, quantity))
  <1> DEFINE o == NewOrder(side, type, price, quantity)
  <1>1. next_id \in OrderIds /\ next_id \notin DOMAIN order_index
    BY WorkloadAssumption DEF IdsOK, Issued
  <1>2. o = [id |-> next_id, side |-> side, type |-> type, price |-> price,
             initial |-> quantity, remaining |-> quantity]
    BY DEF NewOrder
  <1>3. quantity \in Quantities /\ quantity # 0
    BY OrderTypesAssumption DEF Quantities
  <1> HIDE DEF o
  <1>4. o \in Order /\ o.remaining = o.initial
    BY <1>1, <1>2, <1>3 DEF Order
  <1>5. ~Rejected(o)
    BY <1>1, <1>2, <1>3 DEF Rejected
  <1> QED BY <1>4, <1>5 DEF Submittable, o

-----------------------------------------------------------------------------
(* The pool                                                                *)

\* Swap and pop takes exactly the chosen id out of a list without repetitions.
LEMMA SwapAndPopRemoves ==
    ASSUME NEW S, NEW ids \in Seq(S), IsInjective(ids), NEW k \in DOMAIN ids
    PROVE  /\ SwapAndPop(ids, k) \in Seq(S)
           /\ IsInjective(SwapAndPop(ids, k))
           /\ Range(SwapAndPop(ids, k)) = Range(ids) \ {ids[k]}
  <1> DEFINE n == Len(ids)   swapped == [ids EXCEPT ![k] = ids[n]]   rest == SwapAndPop(ids, k)
  <1>1. n \in Nat \ {0} /\ k \in 1 .. n /\ DOMAIN ids = 1 .. n /\ n \in DOMAIN ids
    OBVIOUS
  <1>2. /\ swapped \in Seq(S) /\ Len(swapped) = n
        /\ \A j \in 1 .. n : swapped[j] = IF j = k THEN ids[n] ELSE ids[j]
    BY <1>1
  <1>3. rest = SubSeq(swapped, 1, n - 1)
    BY <1>2 DEF SwapAndPop, Front, Last
  <1> HIDE DEF swapped, rest
  <1>4. /\ rest \in Seq(S) /\ Len(rest) = n - 1 /\ DOMAIN rest = 1 .. n - 1
        /\ \A j \in 1 .. n - 1 : rest[j] = IF j = k THEN ids[n] ELSE ids[j]
    <2>1. rest \in Seq(S) /\ Len(rest) = n - 1
      BY <1>1, <1>2, <1>3
    <2>2. \A j \in 1 .. n - 1 : rest[j] = swapped[j]
      BY <1>1, <1>2, <1>3
    <2> QED BY <2>1, <2>2, <1>1, <1>2
  <1> HIDE DEF n
  <1>5. IsInjective(rest)
    <2> SUFFICES ASSUME NEW a \in 1 .. n - 1, NEW b \in 1 .. n - 1, rest[a] = rest[b]
                 PROVE  a = b
      BY <1>4 DEF IsInjective
    <2>1. a \in DOMAIN ids /\ b \in DOMAIN ids /\ a # n /\ b # n
      BY <1>1
    <2>2. \A x, y \in DOMAIN ids : ids[x] = ids[y] => x = y
      BY DEF IsInjective
    <2> QED BY <1>1, <1>4, <2>1, <2>2
  <1>6. Range(rest) = Range(ids) \ {ids[k]}
    <2>1. \A x \in DOMAIN ids : ids[x] = ids[k] => x = k
      BY DEF IsInjective
    <2>2. ASSUME NEW j \in 1 .. n - 1 PROVE rest[j] \in Range(ids) \ {ids[k]}
      BY <1>1, <1>4, <2>1 DEF Range
    <2>3. ASSUME NEW x \in DOMAIN ids, ids[x] # ids[k]
          PROVE  \E j \in 1 .. n - 1 : rest[j] = ids[x]
      <3>1. x \in 1 .. n /\ x # k
        BY <1>1, <2>3
      <3>2. CASE x = n
        <4>1. k \in 1 .. n - 1 /\ rest[k] = ids[x]
          BY <3>1, <3>2, <1>1, <1>4
        <4> QED BY <4>1
      <3>3. CASE x # n
        <4>1. x \in 1 .. n - 1 /\ rest[x] = ids[x]
          BY <3>1, <3>3, <1>1, <1>4
        <4> QED BY <4>1
      <3> QED BY <3>2, <3>3
    <2>4. Range(rest) = {rest[j] : j \in 1 .. n - 1} /\ Range(ids) = {ids[x] : x \in DOMAIN ids}
      BY <1>4 DEF Range
    <2>5. ASSUME NEW v \in Range(ids) \ {ids[k]} PROVE v \in Range(rest)
      BY <2>3, <2>4
    <2> QED BY <2>2, <2>4, <2>5
  <1> QED BY <1>4, <1>5, <1>6 DEF rest

\* A new id at the back.
LEMMA PushAdds ==
    ASSUME NEW S, NEW ids \in Seq(S), IsInjective(ids), NEW id, id \notin S
    PROVE  /\ Append(ids, id) \in Seq(S \cup {id})
           /\ IsInjective(Append(ids, id))
           /\ Range(Append(ids, id)) = Range(ids) \cup {id}
  <1> DEFINE n == Len(ids)   more == Append(ids, id)
  <1>1. /\ n \in Nat /\ DOMAIN ids = 1 .. n
        /\ \A j \in 1 .. n : ids[j] \in S
    OBVIOUS
  <1>2. /\ Len(more) = n + 1 /\ DOMAIN more = 1 .. n + 1
        /\ more[n + 1] = id /\ \A j \in 1 .. n : more[j] = ids[j]
    BY <1>1
  <1> HIDE DEF n
  <1>3. more \in Seq(S \cup {id})
    <2>1. ids \in Seq(S \cup {id})
      BY <1>1 DEF n
    <2> QED BY <2>1
  <1> HIDE DEF more
  <1>4. IsInjective(more)
    <2> SUFFICES ASSUME NEW a \in 1 .. n + 1, NEW b \in 1 .. n + 1, more[a] = more[b]
                 PROVE  a = b
      BY <1>2 DEF IsInjective
    <2>1. \A x, y \in 1 .. n : ids[x] = ids[y] => x = y
      BY <1>1 DEF IsInjective
    <2>2. CASE a \in 1 .. n /\ b \in 1 .. n
      BY <2>1, <2>2, <1>2
    <2>3. CASE a = n + 1 /\ b \in 1 .. n
      BY <2>3, <1>1, <1>2
    <2>4. CASE b = n + 1 /\ a \in 1 .. n
      BY <2>4, <1>1, <1>2
    <2> QED BY <2>2, <2>3, <2>4, <1>1
  <1>5. Range(more) = Range(ids) \cup {id}
    <2>1. \A j \in 1 .. n + 1 : more[j] \in Range(ids) \cup {id}
      BY <1>1, <1>2 DEF Range
    <2>2. n + 1 \in DOMAIN more /\ \A j \in 1 .. n : j \in DOMAIN more
      BY <1>1, <1>2
    <2> QED BY <2>1, <2>2, <1>1, <1>2 DEF Range
  <1> QED BY <1>3, <1>4, <1>5 DEF more

-----------------------------------------------------------------------------
(* The actions                                                             *)

\* A drawn order is taken, under the id it was given.
LEMMA DrawnTaken ==
    ASSUME IdsOK, i < Count, NEW side \in Sides, NEW type \in {"Limit", "Market"},
           NEW price \in Prices, type = "Limit" => price # 0,
           NEW quantity \in 1 .. MaxQuantity,
           Submits(NewOrder(side, type, price, quantity))
    PROVE  /\ Next /\ taker' \in Order /\ taker' # NoOrder /\ taker'.id = next_id
           /\ taker'.type = type /\ taker'.remaining = quantity
           /\ queues' = queues /\ order_index' = order_index
  <1>1. PICK o : o = NewOrder(side, type, price, quantity)
    OBVIOUS
  <1>2. /\ o \in Submittable /\ ~Rejected(o) /\ o.id = next_id /\ o.type = type
        /\ o.initial = quantity /\ o.remaining = quantity
    BY <1>1, DrawnAccepted DEF NewOrder
  <1>3. SubmitAccept(o)
    BY <1>1, <1>2 DEF Submits, SubmitReject
  <1>4. /\ o \in Order /\ order_index' = order_index /\ queues' = queues
        /\ taker' = [o EXCEPT !.remaining = IF @ = 0 THEN o.initial ELSE @]
    BY <1>2, <1>3 DEF SubmitAccept, Submittable
  <1>5. /\ taker' \in Order /\ taker'.id = o.id /\ taker'.type = o.type
        /\ taker'.remaining = quantity
    BY <1>2, <1>4 DEF Order
  <1> QED BY <1>2, <1>3, <1>4, <1>5, NoOrderAssumption DEF Next

\* The drawn orders are orders that submit_order accepts.
LEMMA LimitTaken ==
    ASSUME IdsOK, GenerateLimit
    PROVE  /\ Next /\ taker' \in Order /\ taker' # NoOrder /\ taker'.id = next_id
           /\ order_index' = order_index
  <1>1. PICK side \in Sides, offset \in Offsets, lot \in Lots :
            Draws /\ Submits(NewOrder(side, "Limit", LimitPrice(offset), lot))
    BY DEF GenerateLimit
  <1>2. i < Count /\ lot \in 1 .. MaxQuantity
    BY <1>1, WorkloadAssumption DEF Draws
  <1> QED BY <1>1, <1>2, LimitPriceDrawn, DrawnTaken

LEMMA SweepTaken ==
    ASSUME IdsOK, GenerateSweep
    PROVE  /\ Next /\ taker' \in Order /\ taker' # NoOrder /\ taker'.id = next_id
           /\ order_index' = order_index
  <1>1. PICK side \in Sides, lot \in Lots :
            Draws /\ Submits(NewOrder(side, "Market", 0, SweepQuantity(lot)))
    BY DEF GenerateSweep
  <1>2. i < Count /\ 0 \in Prices /\ SweepQuantity(lot) \in 1 .. MaxQuantity
    BY <1>1, SweepQuantityDrawn, DrawnPricesAssumption DEF Draws
  <1> QED BY <1>1, <1>2, DrawnTaken

\* An id that is cancelled is one that was issued.
LEMMA ActiveIssued ==
    ASSUME IdsOK, PoolOK, NEW k \in DOMAIN active
    PROVE  active[k] \in Issued /\ active[k] \in OrderIds
  <1>1. active[k] \in Issued
    BY DEF PoolOK
  <1>2. Issued \subseteq 1 .. Count
    BY WorkloadAssumption DEF IdsOK, Issued
  <1> QED BY <1>1, <1>2, WorkloadAssumption

\* A generated workload uses the book by its operations, within the ids,
\* prices and quantities the book is modelled for.
LEMMA WorkloadStepIsBookStep == IdsOK /\ PoolOK /\ [WorkloadNext]_workloadVars => [Next]_vars
  <1> SUFFICES ASSUME IdsOK, PoolOK, WorkloadNext, ~UNCHANGED vars PROVE Next
    BY DEF workloadVars
  <1>1. CASE GenerateLimit
    BY <1>1, LimitTaken
  <1>2. CASE GenerateCancel
    <2>1. PICK k \in DOMAIN active : CancelHit(active[k]) \/ CancelMiss(active[k])
      BY <1>2 DEF GenerateCancel
    <2> QED BY <2>1, ActiveIssued DEF Next
  <1>3. CASE GenerateSweep
    BY <1>3, SweepTaken
  <1>4. CASE Matches
    BY <1>4 DEF Matches, Next
  <1>5. CASE Returns
    BY <1>5 DEF Returns, Next
  <1>6. CASE EndWarmup
    BY <1>6 DEF EndWarmup, Next
  <1>7. CASE Over
    BY <1>7 DEF Over, workloadVars
  <1> QED BY <1>1, <1>2, <1>3, <1>4, <1>5, <1>6, <1>7 DEF WorkloadNext

\* The order in work keeps its id, and its id is the only one a step may add to
\* the index.
LEMMA IdsOfBook ==
    ASSUME IndInv, MatchStep \/ FinishSubmit
    PROVE  /\ taker # NoOrder
           /\ DOMAIN order_index' \subseteq DOMAIN order_index \cup {taker.id}
           /\ taker' # NoOrder => taker'.id = taker.id
  <1>1. taker # NoOrder /\ taker \in Order
    BY DEF MatchStep, FinishSubmit, IndInv, TakerOK
  <1>2. CASE MatchStep
    <2>1. \E q : taker' = [taker EXCEPT !.remaining = q]
      BY <1>2 DEF MatchStep
    <2>2. taker'.id = taker.id
      BY <2>1, <1>1 DEF Order
    <2>3. order_index' = order_index \/ \E id : order_index' = MapErase(order_index, id)
      BY <1>2 DEF MatchStep
    <2> QED BY <1>1, <2>2, <2>3 DEF MapErase
  <1>3. CASE FinishSubmit
    <2>1. taker' = NoOrder
      BY <1>3 DEF FinishSubmit
    <2>2. \/ order_index' = order_index
          \/ \E loc : order_index' = MapPut(order_index, taker.id, loc)
      BY <1>3 DEF FinishSubmit
    <2> QED BY <1>1, <2>1, <2>2 DEF MapPut
  <1> QED BY <1>2, <1>3

\* What each draw does to the pool of active ids.
LEMMA DrawLimitInv ==
    ASSUME IdsOK, PoolOK, GenerateLimit
    PROVE  IdsOK' /\ PoolOK'
  <1>1. PICK lot : /\ i < Count /\ i' = i + 1 /\ next_id' = next_id + 1
                   /\ active' = Append(active, next_id)
                   /\ placed' = MapPut(placed, next_id, lot)
                   /\ cancelled' = cancelled
    BY DEF GenerateLimit, Draws
  <1>2. taker' # NoOrder /\ taker'.id = next_id /\ order_index' = order_index
    BY LimitTaken
  <1>3. /\ i \in Nat /\ next_id \in Nat \ {0} /\ next_id <= i + 1
        /\ next_id \notin Issued /\ Issued' = Issued \cup {next_id}
    BY <1>1, WorkloadAssumption DEF IdsOK, Issued
  <1>4. IdsOK'
    <2>1. i' \in 0 .. Count /\ next_id' \in 1 .. i' + 1
      BY <1>1, <1>3, WorkloadAssumption
    <2>2. DOMAIN order_index' \subseteq Issued' /\ taker'.id \in Issued'
      BY <1>2, <1>3 DEF IdsOK
    <2> QED BY <2>1, <2>2 DEF IdsOK
  <1>5. /\ active' \in Seq(Issued') /\ IsInjective(active')
        /\ Range(active') = Range(active) \cup {next_id}
    <2>1. active \in Seq(Issued) /\ IsInjective(active) /\ next_id \notin Issued
      BY <1>3 DEF PoolOK, ActivePool
    <2>2. /\ Append(active, next_id) \in Seq(Issued \cup {next_id})
          /\ IsInjective(Append(active, next_id))
          /\ Range(Append(active, next_id)) = Range(active) \cup {next_id}
      <3> HIDE DEF Issued
      <3> QED BY <2>1, PushAdds
    <2> QED BY <2>2, <1>1, <1>3
  <1>6. DOMAIN placed' = DOMAIN placed \cup {next_id}
    BY <1>1 DEF MapPut
  <1>7. Range(active') = DOMAIN placed' \ cancelled'
    BY <1>1, <1>3, <1>5, <1>6 DEF PoolOK, ActivePool
  <1>8. DOMAIN placed' \subseteq Issued' /\ cancelled' \subseteq Issued'
    BY <1>1, <1>3, <1>6 DEF PoolOK
  <1> QED BY <1>4, <1>5, <1>7, <1>8 DEF PoolOK, ActivePool

LEMMA DrawCancelInv ==
    ASSUME IdsOK, PoolOK, GenerateCancel
    PROVE  IdsOK' /\ PoolOK'
  <1>1. PICK k \in DOMAIN active :
            /\ taker = NoOrder /\ i < Count /\ i' = i + 1 /\ next_id' = next_id
            /\ CancelHit(active[k]) \/ CancelMiss(active[k])
            /\ active' = SwapAndPop(active, k)
            /\ cancelled' = cancelled \cup {active[k]} /\ placed' = placed
    BY DEF GenerateCancel, Draws
  <1>2. taker' = NoOrder /\ DOMAIN order_index' \subseteq DOMAIN order_index
    BY <1>1 DEF CancelHit, CancelMiss, MapErase
  <1>3. Issued' = Issued /\ active[k] \in Issued
    BY <1>1, ActiveIssued DEF Issued
  <1>4. IdsOK'
    <2>1. i' \in 0 .. Count /\ next_id' \in 1 .. i' + 1
      BY <1>1, WorkloadAssumption DEF IdsOK
    <2> QED BY <2>1, <1>2, <1>3 DEF IdsOK
  <1>5. /\ active' \in Seq(Issued) /\ IsInjective(active')
        /\ Range(active') = Range(active) \ {active[k]}
    <2>1. active \in Seq(Issued) /\ IsInjective(active)
      BY DEF PoolOK, ActivePool
    <2> QED BY <2>1, <1>1, SwapAndPopRemoves
  <1>6. Range(active') = DOMAIN placed' \ cancelled'
    BY <1>1, <1>5 DEF PoolOK, ActivePool
  <1>7. DOMAIN placed' \subseteq Issued' /\ cancelled' \subseteq Issued'
    BY <1>1, <1>3 DEF PoolOK
  <1> QED BY <1>3, <1>4, <1>5, <1>6, <1>7 DEF PoolOK, ActivePool

LEMMA DrawSweepInv ==
    ASSUME IdsOK, PoolOK, GenerateSweep
    PROVE  IdsOK' /\ PoolOK'
  <1>1. /\ i < Count /\ i' = i + 1 /\ next_id' = next_id + 1
        /\ active' = active /\ placed' = placed /\ cancelled' = cancelled
    BY DEF GenerateSweep, Draws
  <1>2. taker' # NoOrder /\ taker'.id = next_id /\ order_index' = order_index
    BY SweepTaken
  <1>3. i \in Nat /\ next_id \in Nat \ {0} /\ next_id <= i + 1 /\ Issued' = Issued \cup {next_id}
    BY <1>1, WorkloadAssumption DEF IdsOK, Issued
  <1>4. IdsOK'
    <2>1. i' \in 0 .. Count /\ next_id' \in 1 .. i' + 1
      BY <1>1, <1>3, WorkloadAssumption
    <2>2. DOMAIN order_index' \subseteq Issued' /\ taker'.id \in Issued'
      BY <1>2, <1>3 DEF IdsOK
    <2> QED BY <2>1, <2>2 DEF IdsOK
  <1>5. active \in Seq(Issued')
    BY <1>3 DEF PoolOK
  <1> QED BY <1>1, <1>3, <1>4, <1>5 DEF PoolOK, ActivePool

\* A pool or a map with nothing in it.
LEMMA NothingIn ==
    ASSUME NEW S
    PROVE  /\ <<>> \in Seq(S) /\ DOMAIN <<>> = {}
           /\ IsInjective(<<>>) /\ Range(<<>>) = {}
  <1>1. <<>> \in Seq(S) /\ DOMAIN <<>> = {}
    OBVIOUS
  <1> QED BY <1>1 DEF IsInjective, Range

-----------------------------------------------------------------------------
(* Every unit of every order                                               *)

\* A new limit order is placed whole; nothing of its id was traded before.
LEMMA LimitUnits ==
    ASSUME WorkloadInv, GenerateLimit
    PROVE  UnitsOK'
  <1>1. PICK side \in Sides, offset \in Offsets, lot \in Lots :
            /\ Draws /\ Submits(NewOrder(side, "Limit", LimitPrice(offset), lot))
            /\ next_id' = next_id + 1 /\ placed' = MapPut(placed, next_id, lot)
            /\ cancelled' = cancelled
    BY DEF GenerateLimit
  <1>2. /\ IdsOK /\ PoolOK /\ UnitsOK /\ i < Count /\ lot \in 1 .. MaxQuantity /\ lot \in Nat
        /\ taker = NoOrder /\ traded' = traded
    BY <1>1, WorkloadAssumption, OrderTypesAssumption DEF Draws, WorkloadInv
  <1>3. /\ taker' # NoOrder /\ taker'.id = next_id /\ taker'.type = "Limit"
        /\ taker'.remaining = lot /\ queues' = queues /\ order_index' = order_index
    BY <1>1, <1>2, LimitPriceDrawn, DrawnTaken
  <1>4. /\ next_id \in OrderIds /\ next_id \notin Issued /\ Issued' = Issued \cup {next_id}
        /\ next_id \notin DOMAIN placed /\ next_id \notin cancelled
        /\ next_id \notin DOMAIN order_index
    BY <1>1, <1>2, WorkloadAssumption DEF IdsOK, PoolOK, Issued
  <1>5. /\ DOMAIN placed' = DOMAIN placed \cup {next_id} /\ placed'[next_id] = lot
        /\ \A id \in DOMAIN placed : placed'[id] = placed[id]
    BY <1>1, <1>4 DEF MapPut
  <1>6. ASSUME NEW id \in DOMAIN placed' \ cancelled'
        PROVE  traded'[id] + Left(id, queues', order_index') + Working(id)' = placed'[id]
    <2>1. CASE id = next_id
      <3>1. traded'[id] = 0
        BY <1>2, <1>4, <2>1 DEF UnitsOK
      <3>2. Left(id, queues', order_index') = 0
        BY <1>3, <1>4, <2>1 DEF Left
      <3>3. Working(id)' = lot
        BY <1>3, <2>1 DEF Working
      <3> QED BY <1>2, <1>5, <2>1, <3>1, <3>2, <3>3
    <2>2. CASE id # next_id
      <3>1. id \in DOMAIN placed \ cancelled /\ placed'[id] = placed[id]
        BY <1>1, <1>5, <2>2
      <3>2. traded[id] + Left(id, queues, order_index) + Working(id) = placed[id]
        BY <1>2, <3>1 DEF UnitsOK
      <3>3. Working(id)' = 0 /\ Working(id) = 0
        BY <1>2, <1>3, <2>2 DEF Working
      <3> QED BY <1>2, <1>3, <3>1, <3>2, <3>3
    <2> QED BY <2>1, <2>2
  <1>7. \A id \in DOMAIN placed' : placed'[id] \in Nat
    BY <1>2, <1>5 DEF UnitsOK
  <1>8. /\ traded' \in [OrderIds -> Nat] /\ cancelled' \subseteq DOMAIN placed'
        /\ \A id \in OrderIds \ Issued' : traded'[id] = 0
        /\ \A id \in cancelled' : traded'[id] <= placed'[id]
    BY <1>1, <1>2, <1>4, <1>5 DEF UnitsOK
  <1>9. DOMAIN order_index' \subseteq DOMAIN placed' \ cancelled'
    BY <1>1, <1>2, <1>3, <1>5 DEF UnitsOK
  <1>10. taker'.id \notin cancelled' /\ taker'.id \in DOMAIN placed'
    BY <1>1, <1>3, <1>4, <1>5
  <1> QED BY <1>3, <1>6, <1>7, <1>8, <1>9, <1>10 DEF UnitsOK

\* A sweep places nothing: its id is of no placed order.
LEMMA SweepUnits ==
    ASSUME WorkloadInv, GenerateSweep
    PROVE  UnitsOK'
  <1>1. PICK side \in Sides, lot \in Lots :
            /\ Draws /\ Submits(NewOrder(side, "Market", 0, SweepQuantity(lot)))
            /\ next_id' = next_id + 1 /\ placed' = placed /\ cancelled' = cancelled
    BY DEF GenerateSweep
  <1>2. /\ IdsOK /\ PoolOK /\ UnitsOK /\ i < Count /\ taker = NoOrder /\ traded' = traded
        /\ 0 \in Prices /\ SweepQuantity(lot) \in 1 .. MaxQuantity
    BY <1>1, SweepQuantityDrawn, DrawnPricesAssumption DEF Draws, WorkloadInv
  <1>3. /\ taker' # NoOrder /\ taker'.id = next_id /\ taker'.type = "Market"
        /\ queues' = queues /\ order_index' = order_index
    BY <1>1, <1>2, DrawnTaken
  <1>4. /\ Issued' = Issued \cup {next_id}
        /\ next_id \notin DOMAIN placed /\ next_id \notin cancelled
    BY <1>1, <1>2, WorkloadAssumption DEF IdsOK, PoolOK, Issued
  <1>5. ASSUME NEW id \in DOMAIN placed' \ cancelled'
        PROVE  traded'[id] + Left(id, queues', order_index') + Working(id)' = placed'[id]
    <2>1. id \in DOMAIN placed \ cancelled /\ id # next_id
      BY <1>1, <1>4
    <2>2. traded[id] + Left(id, queues, order_index) + Working(id) = placed[id]
      BY <1>2, <2>1 DEF UnitsOK
    <2>3. Working(id)' = 0 /\ Working(id) = 0
      BY <1>2, <1>3, <2>1 DEF Working
    <2> QED BY <1>1, <1>2, <1>3, <2>2, <2>3
  <1>6. \A id \in OrderIds \ Issued' : traded'[id] = 0
    BY <1>2, <1>4 DEF UnitsOK
  <1>7. taker'.id \notin cancelled' /\ taker'.id \notin DOMAIN placed'
    BY <1>1, <1>3, <1>4
  <1> QED BY <1>1, <1>2, <1>3, <1>5, <1>6, <1>7 DEF UnitsOK

\* The book loses what is cancelled; what was traded of it is no more than placed.
LEMMA CancelUnits ==
    ASSUME WorkloadInv, GenerateCancel
    PROVE  UnitsOK'
  <1>1. PICK k \in DOMAIN active :
            /\ Draws
            /\ CancelHit(active[k]) \/ CancelMiss(active[k])
            /\ cancelled' = cancelled \cup {active[k]}
            /\ next_id' = next_id /\ placed' = placed
    BY DEF GenerateCancel
  <1>2. /\ IndInv /\ IdsOK /\ PoolOK /\ UnitsOK /\ taker = NoOrder /\ traded' = traded
    BY <1>1 DEF Draws, WorkloadInv
  <1>3. PICK id : id = active[k]
    OBVIOUS
  <1>4. id \in DOMAIN placed \ cancelled /\ id \in OrderIds
    BY <1>1, <1>2, <1>3, ActiveIssued DEF PoolOK, ActivePool, Range
  <1>5. /\ taker' = NoOrder /\ id \notin DOMAIN order_index'
        /\ DOMAIN order_index' \subseteq DOMAIN order_index
        /\ \A other : other # id => Left(other, queues', order_index') = Left(other, queues, order_index)
    <2>1. CASE CancelHit(id)
      BY <1>2, <1>4, <2>1, CancelLeft DEF CancelHit
    <2>2. CASE CancelMiss(id)
      BY <1>2, <2>2 DEF CancelMiss
    <2> QED BY <1>1, <1>3, <2>1, <2>2
  <1>6. Issued' = Issued
    BY <1>1 DEF Issued
  <1>7. traded[id] <= placed[id]
    <2>1. traded[id] + Left(id, queues, order_index) + Working(id) = placed[id] /\ traded[id] \in Nat
      BY <1>2, <1>4 DEF UnitsOK
    <2>2. Working(id) = 0
      BY <1>2 DEF Working
    <2>3. Left(id, queues, order_index) \in Nat
      BY <1>2, LeftNat DEF IndInv
    <2> QED BY <2>1, <2>2, <2>3
  <1>8. ASSUME NEW other \in DOMAIN placed' \ cancelled'
        PROVE  traded'[other] + Left(other, queues', order_index') + Working(other)' = placed'[other]
    <2>1. other \in DOMAIN placed \ cancelled /\ other # id
      BY <1>1, <1>3
    <2>2. traded[other] + Left(other, queues, order_index) + Working(other) = placed[other]
      BY <1>2, <2>1 DEF UnitsOK
    <2>3. Working(other)' = Working(other)
      BY <1>2, <1>5 DEF Working
    <2> QED BY <1>1, <1>2, <1>5, <2>1, <2>2, <2>3
  <1>9. \A other \in cancelled' : traded'[other] <= placed'[other]
    BY <1>1, <1>2, <1>3, <1>7 DEF UnitsOK
  <1>10. DOMAIN order_index' \subseteq DOMAIN placed' \ cancelled'
    BY <1>1, <1>2, <1>3, <1>5 DEF UnitsOK
  <1>11. cancelled' \subseteq DOMAIN placed'
    BY <1>1, <1>2, <1>3, <1>4 DEF UnitsOK
  <1> QED BY <1>1, <1>2, <1>5, <1>6, <1>8, <1>9, <1>10, <1>11 DEF UnitsOK

\* A trade moves units from the maker's rest and from the taker to what was traded.
LEMMA TradeUnits ==
    ASSUME WorkloadInv, Matches
    PROVE  UnitsOK'
  <1>1. /\ MatchStep /\ IndInv /\ IdsOK /\ UnitsOK /\ taker # NoOrder
        /\ placed' = placed /\ cancelled' = cancelled /\ next_id' = next_id
    BY DEF Matches, WorkloadInv, MatchStep, generator
  <1>2. PICK s, p, maker, qty, list : Matched(s, p, maker, qty, list)
    BY <1>1, MatchOpened
  <1>3. MakerPays(maker, qty)
    BY <1>1, <1>2, MatchLeft
  <1>4. /\ taker \in Order /\ taker' = [taker EXCEPT !.remaining = @ - qty]
        /\ trades' = Append(trades,
              [maker |-> maker.id, taker |-> taker.id, price |-> maker.price,
               quantity |-> qty, aggressor |-> taker.side])
        /\ qty \in Nat /\ taker.remaining \in Nat /\ maker.remaining \in Nat
    BY <1>2 DEF Matched, Trades
  <1>5. /\ taker' \in Order /\ taker' # NoOrder /\ taker'.id = taker.id /\ taker'.type = taker.type
        /\ taker'.remaining = taker.remaining - qty
    <2>1. taker' \in Order
      BY <1>1, MatchInv
    <2> QED BY <1>4, <2>1, NoOrderAssumption DEF Order
  <1>6. taker.id \in OrderIds /\ maker.id \in OrderIds /\ maker.id # taker.id
    BY <1>1, <1>3, <1>4 DEF IndInv, TakerOK, Order, MakerPays
  <1>7. Last(trades').maker = maker.id /\ Last(trades').taker = taker.id /\ Last(trades').quantity = qty
    <2>1. trades \in Seq(Trade)
      BY <1>1 DEF IndInv
    <2>2. Last(trades') = [maker |-> maker.id, taker |-> taker.id, price |-> maker.price,
                           quantity |-> qty, aggressor |-> taker.side]
      BY <1>4, <2>1 DEF Last
    <2> QED BY <2>2
  <1>8. /\ traded' \in [OrderIds -> Nat]
        /\ \A id \in OrderIds : traded'[id] = traded[id] + IF id \in {maker.id, taker.id} THEN qty ELSE 0
    <2>1. traded' = [id \in OrderIds |-> traded[id] + IF id \in {maker.id, taker.id} THEN qty ELSE 0]
      BY <1>7 DEF Matches
    <2> QED BY <1>1, <1>4, <2>1 DEF UnitsOK
  <1>9. Issued' = Issued /\ taker.id \in Issued /\ maker.id \in Issued
    BY <1>1, <1>3 DEF IdsOK, MakerPays, Issued
  <1>10. DOMAIN placed \subseteq OrderIds
    BY WorkloadAssumption DEF WorkloadInv, PoolOK, IdsOK, Issued
  <1>11. maker.id \in DOMAIN placed \ cancelled /\ taker.id \notin cancelled
    BY <1>1, <1>3 DEF UnitsOK, MakerPays
  <1>12. ASSUME NEW id \in DOMAIN placed' \ cancelled'
         PROVE  traded'[id] + Left(id, queues', order_index') + Working(id)' = placed'[id]
    <2>1. id \in DOMAIN placed \ cancelled /\ id \in OrderIds /\ traded[id] \in Nat
      BY <1>1, <1>10 DEF UnitsOK
    <2>2. traded[id] + Left(id, queues, order_index) + Working(id) = placed[id]
      BY <1>1, <2>1 DEF UnitsOK
    <2>3. Left(id, queues, order_index) \in Nat
      BY <1>1, LeftNat DEF IndInv
    <2>4. CASE id = maker.id
      <3>1. Working(id) = 0 /\ Working(id)' = 0
        BY <1>5, <1>6, <2>4 DEF Working
      <3>2. /\ Left(id, queues, order_index) = maker.remaining
            /\ Left(id, queues', order_index') = maker.remaining - qty
        BY <1>3, <2>4 DEF MakerPays
      <3>3. traded'[id] = traded[id] + qty
        BY <1>8, <2>1, <2>4
      <3> QED BY <1>1, <1>4, <2>1, <2>2, <3>1, <3>2, <3>3
    <2>5. CASE id = taker.id
      <3>1. Working(id) = taker.remaining /\ Working(id)' = taker.remaining - qty
        BY <1>1, <1>5, <2>5 DEF Working
      <3>2. Left(id, queues', order_index') = Left(id, queues, order_index)
        BY <1>3, <1>6, <2>5 DEF MakerPays
      <3>3. traded'[id] = traded[id] + qty
        BY <1>8, <2>1, <2>5
      <3> QED BY <1>1, <1>4, <2>1, <2>2, <2>3, <3>1, <3>2, <3>3
    <2>6. CASE id # maker.id /\ id # taker.id
      <3>1. Working(id) = 0 /\ Working(id)' = 0
        BY <1>5, <2>6 DEF Working
      <3>2. Left(id, queues', order_index') = Left(id, queues, order_index)
        BY <1>3, <2>6 DEF MakerPays
      <3>3. traded'[id] = traded[id]
        BY <1>8, <2>1, <2>6
      <3> QED BY <1>1, <2>1, <2>2, <3>1, <3>2, <3>3
    <2> QED BY <2>4, <2>5, <2>6
  <1>13. \A id \in OrderIds \ Issued' : traded'[id] = 0
    <2> SUFFICES ASSUME NEW id \in OrderIds \ Issued PROVE traded'[id] = 0
      BY <1>9
    <2>1. id # maker.id /\ id # taker.id /\ traded[id] = 0
      BY <1>1, <1>9 DEF UnitsOK
    <2> QED BY <1>8, <2>1
  <1>14. \A id \in cancelled' : traded'[id] <= placed'[id]
    <2> SUFFICES ASSUME NEW id \in cancelled PROVE traded'[id] <= placed[id]
      BY <1>1
    <2>1. id \in OrderIds /\ id # maker.id /\ id # taker.id /\ traded[id] <= placed[id] /\ traded[id] \in Nat
      BY <1>1, <1>10, <1>11 DEF UnitsOK
    <2> QED BY <1>8, <2>1
  <1>15. DOMAIN order_index' \subseteq DOMAIN placed' \ cancelled'
    BY <1>1, <1>3 DEF UnitsOK, MakerPays
  <1> QED BY <1>1, <1>5, <1>8, <1>12, <1>13, <1>14, <1>15 DEF UnitsOK

\* What was in work rests, or is gone with a market order.
LEMMA ReturnUnits ==
    ASSUME WorkloadInv, Returns
    PROVE  UnitsOK'
  <1>1. /\ FinishSubmit /\ IndInv /\ IdsOK /\ UnitsOK /\ taker # NoOrder /\ taker' = NoOrder
        /\ placed' = placed /\ cancelled' = cancelled /\ next_id' = next_id /\ traded' = traded
    BY DEF Returns, WorkloadInv, FinishSubmit, generator
  <1>2. PICK left : left = IF taker.remaining > 0 /\ taker.type = "Limit" THEN taker.remaining ELSE 0
    OBVIOUS
  <1>3. /\ \A id : id # taker.id => Left(id, queues', order_index') = Left(id, queues, order_index)
        /\ Left(taker.id, queues', order_index') = left
        /\ DOMAIN order_index' = DOMAIN order_index \cup
               (IF taker.remaining > 0 /\ taker.type = "Limit" THEN {taker.id} ELSE {})
    BY <1>1, <1>2, FinishLeft
  <1>4. taker \in Order /\ taker.remaining \in Nat /\ taker.id \notin DOMAIN order_index
    BY <1>1, OrderTypesAssumption DEF IndInv, TakerOK, Order, Quantities
  <1>5. ASSUME NEW id \in DOMAIN placed \ cancelled
        PROVE  traded[id] + Left(id, queues', order_index') + Working(id)' = placed[id]
    <2>1. traded[id] + Left(id, queues, order_index) + Working(id) = placed[id]
      BY <1>1 DEF UnitsOK
    <2>2. Working(id)' = 0
      BY <1>1 DEF Working
    <2>3. CASE id = taker.id
      <3>1. taker.type = "Limit" /\ left = taker.remaining
        BY <1>1, <1>2, <1>4, <2>3 DEF UnitsOK
      <3>2. Left(id, queues, order_index) = 0
        BY <1>4, <2>3 DEF Left
      <3>3. Working(id) = taker.remaining
        BY <1>1, <2>3 DEF Working
      <3>4. Left(id, queues', order_index') = taker.remaining
        BY <1>3, <2>3, <3>1
      <3>5. traded[id] \in Nat
        BY <1>1, <1>4, <2>3 DEF UnitsOK, Order
      <3>6. placed[id] = traded[id] + taker.remaining
        BY <1>4, <2>1, <3>2, <3>5, <3>3
      <3> QED BY <1>4, <2>2, <3>4, <3>5, <3>6
    <2>4. CASE id # taker.id
      <3>1. Working(id) = 0 /\ Left(id, queues', order_index') = Left(id, queues, order_index)
        BY <1>3, <2>4 DEF Working
      <3> QED BY <2>1, <2>2, <3>1
    <2> QED BY <2>3, <2>4
  <1>6. DOMAIN order_index' \subseteq DOMAIN placed \ cancelled
    BY <1>1, <1>3 DEF UnitsOK
  <1>7. Issued' = Issued
    BY <1>1 DEF Issued
  <1> QED BY <1>1, <1>5, <1>6, <1>7 DEF UnitsOK

\* Every step keeps the account of the units.
LEMMA UnitsStep == WorkloadInv /\ [WorkloadNext]_workloadVars => UnitsOK'
  <1> SUFFICES ASSUME WorkloadInv, [WorkloadNext]_workloadVars PROVE UnitsOK'
    OBVIOUS
  <1>1. CASE GenerateLimit
    BY <1>1, LimitUnits
  <1>2. CASE GenerateCancel
    BY <1>2, CancelUnits
  <1>3. CASE GenerateSweep
    BY <1>3, SweepUnits
  <1>4. CASE Matches
    BY <1>4, TradeUnits
  <1>5. CASE Returns
    BY <1>5, ReturnUnits
  <1>6. CASE EndWarmup
    <2>1. /\ traded' = [id \in OrderIds |-> 0] /\ placed' = <<>> /\ cancelled' = {}
          /\ order_index' = <<>> /\ taker' = NoOrder
      BY <1>6 DEF EndWarmup, Clear
    <2>2. DOMAIN placed' = {} /\ DOMAIN order_index' = {}
      BY <2>1
    <2> QED BY <2>1, <2>2 DEF UnitsOK
  <1>7. CASE Over \/ UNCHANGED workloadVars
    <2>1. /\ next_id' = next_id /\ placed' = placed /\ cancelled' = cancelled /\ traded' = traded
          /\ order_index' = order_index /\ taker' = taker /\ queues' = queues
      BY <1>7 DEF Over, workloadVars, generator, vars
    <2>2. UnitsOK /\ Issued' = Issued /\ \A id : Working(id)' = Working(id)
      BY <2>1 DEF WorkloadInv, Issued, Working
    <2> QED BY <2>1, <2>2 DEF UnitsOK
  <1> QED BY <1>1, <1>2, <1>3, <1>4, <1>5, <1>6, <1>7 DEF WorkloadNext

LEMMA WorkloadStepInv == WorkloadInv /\ [WorkloadNext]_workloadVars => WorkloadInv'
  <1> SUFFICES ASSUME WorkloadInv, [WorkloadNext]_workloadVars PROVE IdsOK' /\ PoolOK'
    BY WorkloadStepIsBookStep, StepInv, UnitsStep DEF WorkloadInv
  <1>0. IndInv /\ IdsOK /\ PoolOK
    BY DEF WorkloadInv
  <1>1. CASE GenerateLimit
    BY <1>0, <1>1, DrawLimitInv
  <1>2. CASE GenerateCancel
    BY <1>0, <1>2, DrawCancelInv
  <1>3. CASE GenerateSweep
    BY <1>0, <1>3, DrawSweepInv
  <1>4. CASE Matches \/ Returns
    <2>1. /\ MatchStep \/ FinishSubmit
          /\ i' = i /\ next_id' = next_id /\ active' = active
          /\ placed' = placed /\ cancelled' = cancelled
      BY <1>4 DEF Matches, Returns, generator
    <2>2. /\ taker # NoOrder
          /\ DOMAIN order_index' \subseteq DOMAIN order_index \cup {taker.id}
          /\ taker' # NoOrder => taker'.id = taker.id
      BY <1>0, <2>1, IdsOfBook
    <2>3. Issued' = Issued
      BY <2>1 DEF Issued
    <2>4. IdsOK'
      BY <1>0, <2>1, <2>2, <2>3 DEF IdsOK
    <2> QED BY <1>0, <2>1, <2>3, <2>4 DEF PoolOK, ActivePool
  <1>5. CASE EndWarmup
    <2>1. /\ i' = 0 /\ next_id' = 1 /\ active' = <<>> /\ placed' = <<>> /\ cancelled' = {}
          /\ order_index' = <<>> /\ taker' = NoOrder
      BY <1>5 DEF EndWarmup, Clear
    <2>2. IdsOK'
      BY <2>1, NothingIn, WorkloadAssumption DEF IdsOK
    <2>3. active' \in Seq(Issued') /\ ActivePool'
      BY <2>1, NothingIn DEF ActivePool
    <2>4. DOMAIN placed' \subseteq Issued' /\ cancelled' \subseteq Issued'
      BY <2>1, NothingIn
    <2> QED BY <2>2, <2>3, <2>4 DEF PoolOK
  <1>6. CASE Over \/ UNCHANGED workloadVars
    <2>1. /\ i' = i /\ next_id' = next_id /\ active' = active /\ placed' = placed
          /\ cancelled' = cancelled /\ order_index' = order_index /\ taker' = taker
      BY <1>6 DEF Over, workloadVars, generator, vars
    <2>2. Issued' = Issued
      BY <2>1 DEF Issued
    <2> QED BY <1>0, <2>1, <2>2 DEF IdsOK, PoolOK, ActivePool
  <1> QED
    BY <1>1, <1>2, <1>3, <1>4, <1>5, <1>6 DEF WorkloadNext

LEMMA WorkloadInitInv == WorkloadInit => WorkloadInv
  <1> SUFFICES ASSUME WorkloadInit PROVE IdsOK /\ PoolOK /\ UnitsOK
    BY InitInv DEF WorkloadInit, WorkloadInv
  <1>1. /\ i = 0 /\ next_id = 1 /\ active = <<>> /\ placed = <<>> /\ cancelled = {}
        /\ order_index = <<>> /\ taker = NoOrder /\ traded = [id \in OrderIds |-> 0]
    BY DEF WorkloadInit, Init
  <1>2. IdsOK
    BY <1>1, NothingIn, WorkloadAssumption DEF IdsOK
  <1>3. active \in Seq(Issued) /\ ActivePool
    BY <1>1, NothingIn DEF ActivePool
  <1>4. DOMAIN placed \subseteq Issued /\ cancelled \subseteq Issued
    BY <1>1, NothingIn
  <1>5. DOMAIN placed = {} /\ DOMAIN order_index = {}
    BY <1>1
  <1>6. UnitsOK
    BY <1>1, <1>5 DEF UnitsOK
  <1> QED BY <1>2, <1>3, <1>4, <1>6 DEF PoolOK

\* In both passes the book knows only ids the generator has issued, the pool
\* holds only issued ids, each once, and no unit of a placed order is lost.
THEOREM WorkloadInvariance == WorkloadSpec => []WorkloadInv
  <1> QED BY WorkloadInitInv, WorkloadStepInv, PTL DEF WorkloadSpec

\* What the generator and the benchmark do to the book is a behaviour of the
\* book: every order they submit is one of the book's orders.
THEOREM WorkloadDrivesBook == WorkloadSpec => Spec
  <1>1. WorkloadInit => Init
    BY DEF WorkloadInit
  <1>2. WorkloadInv /\ [WorkloadNext]_workloadVars => [Next]_vars
    BY WorkloadStepIsBookStep DEF WorkloadInv
  <1> QED BY <1>1, <1>2, WorkloadInvariance, PTL DEF WorkloadSpec, Spec

\* active_order_ids is exact: no order is drawn twice for a cancel, none is lost.
THEOREM PoolExact == WorkloadSpec => []ActivePool
  <1>1. WorkloadInv => ActivePool
    BY DEF WorkloadInv, PoolOK
  <1> QED BY <1>1, WorkloadInvariance, PTL

\* No order of a workload is refused, in either pass.
THEOREM WorkloadAccepted == WorkloadSpec => AllAccepted
  <1>1. WorkloadInv /\ [WorkloadNext]_workloadVars
            => [next_id' > next_id => taker' # NoOrder]_workloadVars
    <2> SUFFICES ASSUME WorkloadInv, WorkloadNext, next_id' > next_id PROVE taker' # NoOrder
      OBVIOUS
    <2>1. IdsOK /\ next_id \in Nat \ {0}
      BY DEF WorkloadInv, IdsOK
    <2>2. CASE GenerateLimit
      BY <2>1, <2>2, LimitTaken
    <2>3. CASE GenerateSweep
      BY <2>1, <2>3, SweepTaken
    <2>4. CASE GenerateCancel \/ Matches \/ Returns \/ Over \/ EndWarmup
      <3>1. next_id' = next_id \/ next_id' = 1
        BY <2>4 DEF GenerateCancel, Matches, Returns, Over, EndWarmup, workloadVars, generator
      <3> QED BY <2>1, <3>1
    <2> QED BY <2>2, <2>3, <2>4 DEF WorkloadNext
  <1> QED BY <1>1, WorkloadInvariance, PTL DEF WorkloadSpec, AllAccepted

-----------------------------------------------------------------------------
(* What a run can rely on                                                  *)

\* InBook reads a resting order as the book's invariant knows it.
LEMMA InBookIsLeft == \A id : InBook(id) = Left(id, queues, order_index)
  BY DEF InBook, get_order, Left

\* Nothing of an order is lost in the book: through partial fills, sweeps, cancels
\* and clear, what was not traded or cancelled rests.
THEOREM UnitsAccounted == WorkloadSpec => []EveryUnitAccounted
  <1>1. WorkloadInv => EveryUnitAccounted
    <2> SUFFICES ASSUME WorkloadInv, taker = NoOrder
                 PROVE  /\ \A id \in DOMAIN placed \ cancelled : traded[id] + InBook(id) = placed[id]
                        /\ \A id \in cancelled : traded[id] <= placed[id]
                        /\ DOMAIN order_index \subseteq DOMAIN placed \ cancelled
      BY DEF EveryUnitAccounted
    <2>1. UnitsOK
      BY DEF WorkloadInv
    <2>2. ASSUME NEW id \in DOMAIN placed \ cancelled
          PROVE  traded[id] + InBook(id) = placed[id]
      <3>1. traded[id] + Left(id, queues, order_index) + Working(id) = placed[id]
        BY <2>1 DEF UnitsOK
      <3>2. Working(id) = 0 /\ InBook(id) = Left(id, queues, order_index)
        BY InBookIsLeft DEF Working
      <3>3. InBook(id) \in Nat
        BY <3>2, LeftNat DEF WorkloadInv, IndInv
      <3>4. traded[id] \in Nat
        BY <2>1, WorkloadAssumption DEF UnitsOK, WorkloadInv, IdsOK, PoolOK, Issued
      <3> QED BY <3>1, <3>2, <3>3, <3>4
    <2> QED BY <2>1, <2>2 DEF UnitsOK
  <1> QED BY <1>1, WorkloadInvariance, PTL

\* cancel_order misses an order of the pool only when it was filled completely:
\* an order in part filled or swept past can still be cancelled.
THEOREM CancelsMissFilled == WorkloadSpec => CancelMissesOnlyFilled
  <1>1. WorkloadInv /\ [WorkloadNext]_workloadVars
            => [\A id \in cancelled' \ cancelled : ret' = (traded[id] < placed[id])]_workloadVars
    <2> SUFFICES ASSUME WorkloadInv, WorkloadNext, NEW id \in cancelled' \ cancelled
                 PROVE  ret' = (traded[id] < placed[id])
      OBVIOUS
    <2>1. GenerateCancel
      BY DEF WorkloadNext, GenerateLimit, GenerateSweep, Matches, Returns, EndWarmup, Over, workloadVars
    <2>2. PICK k \in DOMAIN active :
              /\ taker = NoOrder
              /\ CancelHit(active[k]) \/ CancelMiss(active[k])
              /\ cancelled' = cancelled \cup {active[k]}
      BY <2>1 DEF GenerateCancel, Draws
    <2>3. id = active[k] /\ IndInv /\ IdsOK /\ PoolOK /\ UnitsOK
      BY <2>2 DEF WorkloadInv
    <2>4. id \in DOMAIN placed \ cancelled /\ id \in OrderIds
      BY <2>2, <2>3, ActiveIssued DEF PoolOK, ActivePool, Range
    <2>5. traded[id] \in Nat /\ traded[id] + Left(id, queues, order_index) + Working(id) = placed[id]
      BY <2>3, <2>4 DEF UnitsOK
    <2>6. Working(id) = 0
      BY <2>2 DEF Working
    <2>7. CASE CancelHit(id)
      <3>1. ret' = TRUE /\ id \in DOMAIN order_index
        BY <2>7 DEF CancelHit
      <3>2. PICK order : order.id = id /\ Rests(order, queues)
        BY <2>3, <3>1, IndexedRests DEF IndInv
      <3>3. Left(id, queues, order_index) \in Nat \ {0}
        BY <2>3, <3>2, RestingFound DEF IndInv
      <3>4. traded[id] < placed[id]
        BY <2>5, <2>6, <3>3
      <3> QED BY <3>1, <3>4
    <2>8. CASE CancelMiss(id)
      <3>1. ret' = FALSE /\ id \notin DOMAIN order_index
        BY <2>8 DEF CancelMiss
      <3>2. Left(id, queues, order_index) = 0
        BY <3>1 DEF Left
      <3>3. (traded[id] < placed[id]) = FALSE
        BY <2>5, <2>6, <3>2
      <3> QED BY <3>1, <3>3
    <2> QED BY <2>2, <2>3, <2>7, <2>8
  <1> QED BY <1>1, WorkloadInvariance, PTL DEF WorkloadSpec, CancelMissesOnlyFilled
=============================================================================
