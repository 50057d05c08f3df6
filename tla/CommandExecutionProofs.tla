----------------------- MODULE CommandExecutionProofs -----------------------
(***************************************************************************)
(* Proofs about execute_command: it drives the book by the book's own      *)
(* operations, so the book's invariants hold between and during commands,  *)
(* an order trades by price and time whatever the book holds, and no       *)
(* command ends without a line for the client, or with one that is wrong.  *)
(***************************************************************************)
EXTENDS CommandExecution, StlOrderBookProofs

\* Every step of a command is a step of the book.
LEMMA ExecStepIsBookStep == [ExecNext]_execVars => [Next]_vars
  <1> SUFFICES ASSUME ExecNext PROVE Next
    BY DEF execVars
  <1>1. ASSUME NEW o \in Submittable, NewRejected(o) \/ NewBegins(o) PROVE Next
    BY <1>1 DEF NewRejected, NewBegins, Next
  <1>2. CASE NewMatches
    BY <1>2 DEF NewMatches, Next
  <1>3. CASE NewEnds
    BY <1>3 DEF NewEnds, Next
  <1>4. ASSUME NEW id \in OrderIds, Cancel(id) PROVE Next
    BY <1>4 DEF Cancel, Next
  <1>5. CASE Flush
    BY <1>5 DEF Flush, Next
  <1> QED BY <1>1, <1>2, <1>3, <1>4, <1>5 DEF ExecNext

\* execute_command changes the book by submit_order, cancel_order and clear
\* alone: what it does to the book is a behaviour of the book.
THEOREM CommandsDriveBook == ExecSpec => Spec
  <1>1. ExecInit => Init
    BY DEF ExecInit
  <1> QED BY <1>1, ExecStepIsBookStep, PTL DEF ExecSpec, Spec

\* Between commands and within them the index and the lists name the same
\* orders, and the book is never crossed: the gateway's books are the book's.
THEOREM CommandsKeepBook == ExecSpec => [](TypeOK /\ IndexMatchesQueues /\ NeverCrossed)
  <1> QED BY CommandsDriveBook, BookTypes, IndexAgrees, BookNeverCrossed, PTL

\* The element a fold over S begins with.
AnyOf(S) == CHOOSE x \in S : TRUE

\* total[T] is the sum of f over T, for every part T of S.
SumsUp(total, f, S) ==
    total = [T \in SUBSET S |-> IF T = {} THEN 0 ELSE f[AnyOf(T)] + total[T \ {AnyOf(T)}]]

\* A sum is the value of a chosen such function.
LEMMA SumIsTotal ==
    ASSUME NEW f, NEW S
    PROVE  SumFunctionOnSet(f, S) = (CHOOSE total : SumsUp(total, f, S))[S]
  BY DEF SumFunctionOnSet, FoldFunctionOnSet, MapThenFoldSet, SumsUp, AnyOf

\* Minimal counterexamples: a set of parts of a finite set has a smallest one.
LEMMA Smallest ==
    ASSUME NEW S, IsFiniteSet(S), NEW Bad, Bad \subseteq SUBSET S, Bad # {}
    PROVE  \E U \in Bad : \A V \in Bad : ~(V \subseteq U /\ V # U)
  <1>1. IsWellFoundedOn(StrictSubsetOrdering(S), FiniteSubsetsOf(S))
    BY FS_StrictSubsetOrderingWellFounded
  <1>2. Bad \subseteq FiniteSubsetsOf(S)
    BY FS_Subset DEF FiniteSubsetsOf
  <1>3. PICK U \in Bad : \A V \in Bad : <<V, U>> \notin StrictSubsetOrdering(S)
    BY <1>1, <1>2, WFMin
  <1> QED
    BY <1>3 DEF StrictSubsetOrdering

\* Two functions give S the same values.
Alike(f, h, S) == \A x \in S : f[x] = h[x]

\* The sum over a part does not depend on what is outside it.
LEMMA SumsAgree ==
    ASSUME NEW f, NEW h, NEW S, NEW R, NEW total, NEW other, NEW U,
           IsFiniteSet(U), U \subseteq S, U \subseteq R,
           Alike(f, h, U),
           SumsUp(total, f, S), SumsUp(other, h, R)
    PROVE  total[U] = other[U]
  <1> DEFINE Bad == {T \in SUBSET U : total[T] # other[T]}
  <1>1. ASSUME Bad # {} PROVE FALSE
    <2>1. PICK T \in Bad : \A V \in Bad : ~(V \subseteq T /\ V # T)
      <3>1. Bad \subseteq SUBSET U
        OBVIOUS
      <3> HIDE DEF Bad
      <3> QED BY <3>1, <1>1, Smallest
    <2> DEFINE x == AnyOf(T)
               V == T \ {x}
    <2>2. T # {}
      BY <2>1 DEF SumsUp
    <2>3. x \in T
      BY <2>2 DEF AnyOf
    <2> HIDE DEF x
    <2>4. total[V] = other[V]
      BY <2>1, <2>3
    <2>5. total[T] = f[x] + total[V]
      BY <2>1, <2>2 DEF SumsUp, x
    <2>6. other[T] = h[x] + other[V]
      BY <2>1, <2>2 DEF SumsUp, x
    <2>7. f[x] = h[x] /\ total[T] # other[T]
      BY <2>1, <2>3 DEF Alike
    <2> QED
      BY <2>4, <2>5, <2>6, <2>7
  <1> QED
    BY <1>1

\* The total of a part, for a choice of totals, one for each part.
LEMMA TotalExists ==
    ASSUME NEW f, NEW S, IsFiniteSet(S)
    PROVE  \E total : SumsUp(total, f, S)
  <1> DEFINE Solved(T) == \E total : SumsUp(total, f, T)
             Bad       == {T \in SUBSET S : ~Solved(T)}
  <1>1. ASSUME Bad # {} PROVE FALSE
    <2>1. PICK T \in Bad : \A V \in Bad : ~(V \subseteq T /\ V # T)
      <3>1. Bad \subseteq SUBSET S
        OBVIOUS
      <3> HIDE DEF Bad
      <3> QED BY <3>1, <1>1, Smallest
    <2> DEFINE of(V)  == CHOOSE total : SumsUp(total, f, V)
               x      == AnyOf(T)
               total  == [V \in SUBSET T |->
                             IF V = {} THEN 0
                             ELSE f[AnyOf(V)] + of(V \ {AnyOf(V)})[V \ {AnyOf(V)}]]
    <2>2. ASSUME NEW V \in SUBSET T, V # T PROVE SumsUp(of(V), f, V)
      BY <2>1, <2>2
    <2>3. ASSUME NEW V \in SUBSET T, V # {}
          PROVE  total[V \ {AnyOf(V)}] = of(V \ {AnyOf(V)})[V \ {AnyOf(V)}]
      <3> DEFINE W == V \ {AnyOf(V)}
                 y == AnyOf(W)
                 Z == W \ {y}
      <3>1. AnyOf(V) \in V
        BY <2>3 DEF AnyOf
      <3>2. W \in SUBSET T /\ W # T
        BY <3>1
      <3> HIDE DEF W
      <3>3. SumsUp(of(W), f, W)
        BY <3>2, <2>2
      <3> HIDE DEF of
      <3>4. CASE W = {}
        BY <3>2, <3>3, <3>4 DEF SumsUp, W
      <3>5. CASE W # {}
        <4>1. y \in W
          BY <3>5 DEF AnyOf
        <4>2. Z \in SUBSET T /\ Z # T /\ Z \subseteq W
          BY <3>2, <4>1
        <4>3. SumsUp(of(Z), f, Z)
          BY <4>2, <2>2 DEF of
        <4>4. IsFiniteSet(Z)
          BY <2>1, <4>2, FS_Subset
        <4>5. of(W)[Z] = of(Z)[Z]
          <5>1. Alike(f, f, Z)
            BY DEF Alike
          <5> QED BY <4>2, <4>3, <4>4, <3>3, <5>1, SumsAgree
        <4>6. of(W)[W] = f[y] + of(W)[Z]
          BY <3>3, <3>5 DEF SumsUp
        <4>7. total[W] = f[y] + of(Z)[Z]
          BY <3>2, <3>5
        <4>8. total[W] = of(W)[W]
          BY <4>5, <4>6, <4>7
        <4> QED
          BY <4>8 DEF W
      <3> QED
        BY <3>4, <3>5
    <2>4. SumsUp(total, f, T)
      <3>1. total = [V \in SUBSET T |->
                        IF V = {} THEN 0 ELSE f[AnyOf(V)] + total[V \ {AnyOf(V)}]]
        <4> HIDE DEF of
        <4> SUFFICES ASSUME NEW V \in SUBSET T, V # {}
                     PROVE  of(V \ {AnyOf(V)})[V \ {AnyOf(V)}] = total[V \ {AnyOf(V)}]
          OBVIOUS
        <4> QED BY <2>3
      <3> QED BY <3>1 DEF SumsUp
    <2> QED
      BY <2>1, <2>4
  <1> QED
    BY <1>1

\* How a sum unfolds at the element the fold takes first.
LEMMA SumUnfolds ==
    ASSUME NEW f, NEW S, IsFiniteSet(S)
    PROVE  SumFunctionOnSet(f, S) =
               IF S = {} THEN 0
               ELSE f[AnyOf(S)] + SumFunctionOnSet(f, S \ {AnyOf(S)})
  <1> DEFINE x    == AnyOf(S)
             V    == S \ {x}
             T(U) == CHOOSE total : SumsUp(total, f, U)
  <1>1. V \subseteq S /\ IsFiniteSet(V)
    BY FS_Subset
  <1>2. SumsUp(T(S), f, S) /\ SumsUp(T(V), f, V)
    BY <1>1, TotalExists
  <1>3. SumFunctionOnSet(f, S) = T(S)[S] /\ SumFunctionOnSet(f, V) = T(V)[V]
    BY SumIsTotal
  <1>4. T(S)[V] = T(V)[V]
    <2>1. Alike(f, f, V)
      BY DEF Alike
    <2> HIDE DEF T, V
    <2> QED BY <1>1, <1>2, <2>1, SumsAgree
  <1> HIDE DEF T
  <1>5. T(S)[S] = IF S = {} THEN 0 ELSE f[x] + T(S)[V]
    BY <1>2 DEF SumsUp
  <1> QED
    BY <1>3, <1>4, <1>5

\* A sum depends on the values in its set only.
LEMMA SumSame ==
    ASSUME NEW f, NEW h, NEW S, IsFiniteSet(S), Alike(f, h, S)
    PROVE  SumFunctionOnSet(f, S) = SumFunctionOnSet(h, S)
  <1> DEFINE T == CHOOSE total : SumsUp(total, f, S)
             H == CHOOSE total : SumsUp(total, h, S)
  <1>1. SumsUp(T, f, S) /\ SumsUp(H, h, S)
    BY TotalExists
  <1>2. SumFunctionOnSet(f, S) = T[S] /\ SumFunctionOnSet(h, S) = H[S]
    BY SumIsTotal
  <1> HIDE DEF T, H
  <1>3. T[S] = H[S]
    <2>1. S \subseteq S
      OBVIOUS
    <2> QED BY <1>1, <2>1, SumsAgree
  <1> QED
    BY <1>2, <1>3

\* A sum over nothing.
LEMMA SumEmpty == ASSUME NEW f PROVE SumFunctionOnSet(f, {}) = 0
  BY SumUnfolds, FS_EmptySet

\* A sum of natural numbers is one.
LEMMA SumNat ==
    ASSUME NEW f, NEW S, IsFiniteSet(S), \A x \in S : f[x] \in Nat
    PROVE  SumFunctionOnSet(f, S) \in Nat
  <1> DEFINE Bad == {T \in SUBSET S : SumFunctionOnSet(f, T) \notin Nat}
  <1>1. ASSUME Bad # {} PROVE FALSE
    <2>1. PICK T \in Bad : \A V \in Bad : ~(V \subseteq T /\ V # T)
      <3>1. Bad \subseteq SUBSET S
        OBVIOUS
      <3> HIDE DEF Bad
      <3> QED BY <3>1, <1>1, Smallest
    <2> DEFINE x == AnyOf(T)
    <2>2. SumFunctionOnSet(f, T) =
              IF T = {} THEN 0 ELSE f[x] + SumFunctionOnSet(f, T \ {x})
      BY <2>1, SumUnfolds, FS_Subset
    <2>3. T # {} /\ x \in T
      BY <2>1, <2>2 DEF AnyOf
    <2> HIDE DEF x
    <2>4. SumFunctionOnSet(f, T \ {x}) \in Nat
      BY <2>1, <2>3
    <2>5. f[x] \in Nat
      BY <2>1, <2>3
    <2> QED
      BY <2>1, <2>2, <2>3, <2>4, <2>5
  <1> QED
    BY <1>1

\* Any element may be taken out of a sum.
LEMMA SumWithout ==
    ASSUME NEW f, NEW S, IsFiniteSet(S), \A x \in S : f[x] \in Nat, NEW y \in S
    PROVE  SumFunctionOnSet(f, S) = f[y] + SumFunctionOnSet(f, S \ {y})
  <1> DEFINE sum(T) == SumFunctionOnSet(f, T)
             Bad    == {T \in SUBSET S : \E z \in T : sum(T) # f[z] + sum(T \ {z})}
  <1>0. ASSUME NEW T \in SUBSET S PROVE sum(T) \in Nat
    BY <1>0, SumNat, FS_Subset
  <1>1. ASSUME NEW T \in SUBSET S, T # {}
        PROVE  AnyOf(T) \in T /\ sum(T) = f[AnyOf(T)] + sum(T \ {AnyOf(T)})
    <2>1. IsFiniteSet(T)
      BY FS_Subset
    <2> QED BY <1>1, <2>1, SumUnfolds DEF AnyOf
  <1> HIDE DEF sum
  <1>2. ASSUME Bad # {} PROVE FALSE
    <2>1. PICK T \in Bad : \A V \in Bad : ~(V \subseteq T /\ V # T)
      <3>1. Bad \subseteq SUBSET S
        OBVIOUS
      <3> HIDE DEF Bad
      <3> QED BY <3>1, <1>2, Smallest
    <2>2. PICK z \in T : sum(T) # f[z] + sum(T \ {z})
      BY <2>1
    <2> DEFINE x == AnyOf(T)
    <2>3. x \in T /\ sum(T) = f[x] + sum(T \ {x})
      BY <2>1, <2>2, <1>1
    <2> HIDE DEF x
    <2>4. x # z
      BY <2>2, <2>3
    <2> DEFINE V == T \ {x}
               W == T \ {z}
               Z == V \ {z}
    <2>5. /\ V \notin Bad /\ V \in SUBSET S /\ z \in V
          /\ W \notin Bad /\ W \in SUBSET S /\ x \in W
          /\ W \ {x} = Z /\ Z \in SUBSET S
      BY <2>1, <2>2, <2>3, <2>4
    <2> HIDE DEF V, W, Z
    <2>6. sum(V) = f[z] + sum(V \ {z})
      BY <2>5
    <2>7. sum(W) = f[x] + sum(Z)
      BY <2>5
    <2>8. sum(V \ {z}) = sum(Z) /\ sum(T) = f[x] + sum(V) /\ sum(T) # f[z] + sum(W)
      BY <2>2, <2>3 DEF V, W, Z
    <2>9. f[x] \in Nat /\ f[z] \in Nat /\ sum(Z) \in Nat
      BY <2>1, <2>2, <2>3, <2>5, <1>0
    <2> QED
      BY <2>6, <2>7, <2>8, <2>9
  <1>3. S \notin Bad
    BY <1>2
  <1>4. sum(S) = f[y] + sum(S \ {y})
    BY <1>3
  <1> QED
    BY <1>4 DEF sum
-----------------------------------------------------------------------------
(* Turns: every list is in the order in which its orders came to rest.     *)

\* A list is in the order in which its orders came to rest.
InTurn(queue, turns) ==
    \A j, k \in DOMAIN queue : <<queue[j].id, queue[k].id>> \in turns <=> j < k

\* Each list is, and no turn is left over of an order that is gone.
Turns(books, index, turns) ==
    /\ turns \subseteq (DOMAIN index) \X (DOMAIN index)
    /\ \A s \in Sides : \A p \in DOMAIN books[s] : InTurn(books[s][p], turns)

\* Membership in the new turns.
LEMMA ArrivalsOpened ==
    ASSUME Arrivals
    PROVE  \A pair : pair \in before' <=>
               \/ /\ pair \in before
                  /\ pair \in (DOMAIN order_index \cap DOMAIN order_index')
                                \X (DOMAIN order_index \cap DOMAIN order_index')
               \/ pair \in (DOMAIN order_index \cap DOMAIN order_index')
                              \X (DOMAIN order_index' \ DOMAIN order_index)
  <1>1. PICK stay, new : /\ stay = DOMAIN order_index \cap DOMAIN order_index'
                         /\ new = DOMAIN order_index' \ DOMAIN order_index
    OBVIOUS
  <1>2. before' = (before \cap (stay \X stay)) \cup (stay \X new)
    BY <1>1 DEF Arrivals
  <1>3. \A pair : pair \in before' <=>
            (pair \in before /\ pair \in stay \X stay) \/ pair \in stay \X new
    BY <1>2
  <1> QED BY <1>1, <1>3

\* What a step without a new order does to the turns.
LEMMA TurnsLeft ==
    ASSUME Arrivals, DOMAIN order_index' \subseteq DOMAIN order_index
    PROVE  /\ before' \subseteq (DOMAIN order_index') \X (DOMAIN order_index')
           /\ \A a, b \in DOMAIN order_index' : <<a, b>> \in before' <=> <<a, b>> \in before
  <1>1. PICK stay, new : /\ stay = DOMAIN order_index \cap DOMAIN order_index'
                         /\ new = DOMAIN order_index' \ DOMAIN order_index
    OBVIOUS
  <1>2. \A pair : pair \in before' <=>
            (pair \in before /\ pair \in stay \X stay) \/ pair \in stay \X new
    BY <1>1, ArrivalsOpened
  <1>3. stay = DOMAIN order_index' /\ new = {}
    BY <1>1
  <1>4. before' \subseteq stay \X stay /\ \A a, b \in stay : <<a, b>> \in before' <=> <<a, b>> \in before
    BY <1>2, <1>3
  <1> QED BY <1>3, <1>4

\* Losing an order leaves a list in turn.
LEMMA WithoutInTurn ==
    ASSUME NEW queue \in Seq(Order), NEW i \in DOMAIN queue, NEW list, NEW turns,
           Without(list, queue, i), InTurn(queue, turns)
    PROVE  InTurn(list, turns)
  <1> DEFINE old(k) == IF k < i THEN k ELSE k + 1
  <1>1. /\ DOMAIN queue = 1 .. Len(queue) /\ Len(queue) \in Nat /\ i \in 1 .. Len(queue)
        /\ DOMAIN list = 1 .. Len(list) /\ Len(list) = Len(queue) - 1
        /\ \A k \in DOMAIN list : list[k] = queue[old(k)]
    BY DEF Without
  <1>2. ASSUME NEW j \in DOMAIN list, NEW k \in DOMAIN list
        PROVE  /\ old(j) \in DOMAIN queue /\ old(k) \in DOMAIN queue
               /\ old(j) < old(k) <=> j < k
    BY <1>1
  <1> HIDE DEF old
  <1> QED BY <1>1, <1>2 DEF InTurn

\* A list with a changed quantity is in turn as it was.
LEMMA ReducedInTurn ==
    ASSUME NEW queue, NEW list, NEW qty, NEW turns, Reduced(list, queue, qty), InTurn(queue, turns)
    PROVE  InTurn(list, turns)
  BY DEF Reduced, SameIds, InTurn

\* A step that takes an order from one list, or changes its quantity.
LEMMA TurnsKept ==
    ASSUME BookOK(queues', order_index'), Turns(queues, order_index, before), Arrivals,
           DOMAIN order_index' \subseteq DOMAIN order_index,
           NEW s \in Sides, NEW p, NEW list, ListChanged(queues', queues, s, p, list),
           InTurn(list, before)
    PROVE  Turns(queues', order_index', before')
  <1>1. /\ before' \subseteq (DOMAIN order_index') \X (DOMAIN order_index')
        /\ \A a, b \in DOMAIN order_index' : <<a, b>> \in before' <=> <<a, b>> \in before
    BY TurnsLeft
  <1>2. ASSUME NEW t \in Sides, NEW q \in DOMAIN queues'[t]
        PROVE  InTurn(queues'[t][q], before')
    <2>1. PICK queue : queue = queues'[t][q]
      OBVIOUS
    <2>2. InTurn(queue, before)
      <3>1. CASE t = s /\ q = p
        <4>1. queue = list
          BY <2>1, <3>1 DEF ListChanged
        <4> QED BY <4>1
      <3>2. CASE ~(t = s /\ q = p)
        <4>1. q \in DOMAIN queues[t] /\ queue = queues[t][q]
          BY <2>1, <3>2 DEF ListChanged
        <4> QED BY <4>1 DEF Turns
      <3> QED BY <3>1, <3>2
    <2>3. Listed(queue, t, q, order_index')
      BY <2>1 DEF BookOK
    <2>4. \A k \in DOMAIN queue : queue[k].id \in DOMAIN order_index'
      BY <2>3 DEF Listed
    <2>5. InTurn(queue, before')
      BY <1>1, <2>2, <2>4 DEF InTurn
    <2> QED BY <2>1, <2>5
  <1> QED BY <1>1, <1>2 DEF Turns

\* Each step of a command keeps the lists in turn.
LEMMA MatchTurns ==
    ASSUME IndInv, Turns(queues, order_index, before), Arrivals, MatchStep
    PROVE  Turns(queues', order_index', before')
  <1>1. BookOK(queues, order_index) /\ BookOK(queues', order_index')
    BY MatchInv DEF IndInv
  <1>2. PICK s, p, maker, qty, list : Matched(s, p, maker, qty, list)
    BY MatchOpened
  <1>3. /\ s \in Sides /\ p \in DOMAIN queues[s] /\ 1 \in DOMAIN queues[s][p]
        /\ ListChanged(queues', queues, s, p, list)
    BY <1>2 DEF Matched
  <1>4. PICK queue : queue = queues[s][p]
    OBVIOUS
  <1>5. queue \in Seq(Order) /\ InTurn(queue, before) /\ 1 \in DOMAIN queue
    BY <1>1, <1>3, <1>4 DEF BookOK, Listed, Turns
  <1>6. CASE qty = maker.remaining
    <2>1. Without(list, queue, 1) /\ order_index' = MapErase(order_index, maker.id)
      BY <1>2, <1>4, <1>6 DEF Matched
    <2>2. DOMAIN order_index' \subseteq DOMAIN order_index
      BY <2>1 DEF MapErase
    <2>3. InTurn(list, before)
      BY <1>5, <2>1, WithoutInTurn
    <2> QED BY <1>1, <1>3, <2>2, <2>3, TurnsKept
  <1>7. CASE qty # maker.remaining
    <2>1. Reduced(list, queue, qty) /\ order_index' = order_index
      BY <1>2, <1>4, <1>7 DEF Matched
    <2>2. DOMAIN order_index' \subseteq DOMAIN order_index
      BY <2>1
    <2>3. InTurn(list, before)
      BY <1>5, <2>1, ReducedInTurn
    <2> QED BY <1>1, <1>3, <2>2, <2>3, TurnsKept
  <1> QED BY <1>6, <1>7

LEMMA CancelTurns ==
    ASSUME IndInv, Turns(queues, order_index, before), Arrivals, NEW id \in OrderIds, CancelHit(id)
    PROVE  Turns(queues', order_index', before')
  <1>1. BookOK(queues, order_index) /\ BookOK(queues', order_index')
    BY CancelInv DEF IndInv
  <1>2. PICK s, p, i, list : Cancelled(id, s, p, i, list)
    BY CancelOpened
  <1>3. PICK queue : queue = queues[s][p]
    OBVIOUS
  <1>4. /\ s \in Sides /\ i \in DOMAIN queue /\ queue \in Seq(Order) /\ InTurn(queue, before)
        /\ Without(list, queue, i) /\ ListChanged(queues', queues, s, p, list)
    BY <1>1, <1>2, <1>3 DEF Cancelled, BookOK, Listed, Turns
  <1>5. DOMAIN order_index' \subseteq DOMAIN order_index
    BY <1>2 DEF Cancelled, MapErase
  <1>6. InTurn(list, before)
    BY <1>4, WithoutInTurn
  <1> QED BY <1>1, <1>4, <1>5, <1>6, TurnsKept

\* Nothing that rests moves.
LEMMA StillTurns ==
    ASSUME Turns(queues, order_index, before), Arrivals,
           queues' = queues, order_index' = order_index
    PROVE  Turns(queues', order_index', before')
  <1>1. before' = before
    <2>1. PICK ids : ids = DOMAIN order_index
      OBVIOUS
    <2>2. \A pair : pair \in before' <=>
              (pair \in before /\ pair \in ids \X ids) \/ pair \in ids \X {}
      <3>1. ids \cap ids = ids /\ ids \ ids = {}
        OBVIOUS
      <3> QED BY <2>1, <3>1, ArrivalsOpened
    <2>3. before \subseteq ids \X ids
      BY <2>1 DEF Turns
    <2> QED BY <2>2, <2>3
  <1> QED BY <1>1

LEMMA FinishTurns ==
    ASSUME IndInv, Turns(queues, order_index, before), Arrivals, FinishSubmit
    PROVE  Turns(queues', order_index', before')
  <1>1. CASE ~(taker.remaining > 0 /\ taker.type = "Limit")
    BY <1>1, StillTurns DEF FinishSubmit
  <1>2. CASE taker.remaining > 0 /\ taker.type = "Limit"
    <2>1. PICK queue, list : RestsBehind(queue, list)
      BY <1>2, FinishOpened
    <2>2. PICK s, p : s = taker.side /\ p = taker.price
      OBVIOUS
    <2>3. /\ taker \in Order /\ taker.id \notin DOMAIN order_index
          /\ BookOK(queues, order_index) /\ BookOK(queues', order_index')
      BY FinishInv DEF IndInv, TakerOK, FinishSubmit
    <2>4. /\ QueueAt(queue, queues[s], p) /\ queue \in Seq(Order)
          /\ list = Append(queue, taker) /\ ListChanged(queues', queues, s, p, list)
          /\ DOMAIN order_index' = DOMAIN order_index \cup {taker.id} /\ s \in Sides
      BY <2>1, <2>2, <2>3 DEF RestsBehind, MapPut, Order
    <2>12. PICK ids, id : ids = DOMAIN order_index /\ id = taker.id
      OBVIOUS
    <2>13. \A pair : pair \in before' <=>
              (pair \in before /\ pair \in ids \X ids) \/ pair \in ids \X {id}
      <3>1. ids \cap (ids \cup {id}) = ids /\ (ids \cup {id}) \ ids = {id}
        BY <2>3, <2>12
      <3>2. DOMAIN order_index' = ids \cup {id}
        BY <2>4, <2>12
      <3> QED BY <2>12, <3>1, <3>2, ArrivalsOpened
    <2>6. before \subseteq ids \X ids
      BY <2>12 DEF Turns
    <2>5. \A a, b : <<a, b>> \in before' <=> <<a, b>> \in before \/ (a \in ids /\ b = id)
      BY <2>6, <2>13
    <2>7. before' \subseteq (DOMAIN order_index') \X (DOMAIN order_index')
      <3>1. \A pair \in before' : pair \in (ids \cup {id}) \X (ids \cup {id})
        BY <2>6, <2>13
      <3>2. DOMAIN order_index' = ids \cup {id}
        BY <2>4, <2>12
      <3>3. before' \subseteq (ids \cup {id}) \X (ids \cup {id})
        BY <3>1
      <3> QED BY <3>2, <3>3
    <2>8. ASSUME NEW old, InTurn(old, before), \A k \in DOMAIN old : old[k].id \in DOMAIN order_index
          PROVE  InTurn(old, before')
      BY <2>3, <2>5, <2>8, <2>12 DEF InTurn
    <2>9. InTurn(queue, before) /\ \A k \in DOMAIN queue : queue[k].id \in DOMAIN order_index
      <3>1. CASE p \in DOMAIN queues[s]
        <4>1. queue = queues[s][p]
          BY <2>4, <3>1 DEF QueueAt
        <4>2. Listed(queue, s, p, order_index)
          BY <2>3, <2>4, <3>1, <4>1 DEF BookOK
        <4> QED BY <2>4, <3>1, <4>1, <4>2 DEF Listed, Turns
      <3>2. CASE p \notin DOMAIN queues[s]
        <4>1. queue = <<>>
          BY <2>4, <3>2 DEF QueueAt
        <4> QED BY <4>1 DEF InTurn
      <3> QED BY <3>1, <3>2
    <2>10. InTurn(list, before')
      <3>1. /\ DOMAIN list = 1 .. Len(queue) + 1 /\ Len(queue) \in Nat /\ DOMAIN queue = 1 .. Len(queue)
            /\ list[Len(queue) + 1] = taker /\ \A k \in 1 .. Len(queue) : list[k] = queue[k]
        BY <2>3, <2>4
      <3> SUFFICES ASSUME NEW j \in DOMAIN list, NEW k \in DOMAIN list
                   PROVE  <<list[j].id, list[k].id>> \in before' <=> j < k
        BY DEF InTurn
      <3>2. CASE j \in DOMAIN queue /\ k \in DOMAIN queue
        <4>1. list[j] = queue[j] /\ list[k] = queue[k] /\ InTurn(queue, before')
          BY <2>8, <2>9, <3>1, <3>2
        <4> QED BY <3>2, <4>1 DEF InTurn
      <3>3. CASE j \in DOMAIN queue /\ k = Len(queue) + 1
        <4>1. list[j].id \in ids /\ list[k].id = id /\ j < k
          BY <2>9, <2>12, <3>1, <3>3
        <4> QED BY <2>5, <4>1
      <3>4. CASE j = Len(queue) + 1
        <4>1. list[j].id = id /\ ~(j < k)
          BY <2>12, <3>1, <3>4
        <4>2. id \notin ids
          BY <2>3, <2>12
        <4>3. <<list[j].id, list[k].id>> \notin before
          BY <2>6, <4>1, <4>2
        <4> QED BY <2>5, <4>1, <4>2, <4>3
      <3> QED BY <3>1, <3>2, <3>3, <3>4
    <2>11. ASSUME NEW t \in Sides, NEW q \in DOMAIN queues'[t]
           PROVE  InTurn(queues'[t][q], before')
      <3>1. CASE t = s /\ q = p
        <4>1. list # <<>>
          BY <2>3, <2>4
        <4>2. queues'[t][q] = list
          BY <2>4, <3>1, <4>1 DEF ListChanged
        <4> QED BY <2>10, <4>2
      <3>2. CASE ~(t = s /\ q = p)
        <4>1. q \in DOMAIN queues[t] /\ queues'[t][q] = queues[t][q]
          BY <2>4, <3>2 DEF ListChanged
        <4>2. PICK old : old = queues[t][q]
          OBVIOUS
        <4>3. Listed(old, t, q, order_index) /\ InTurn(old, before)
          BY <2>3, <4>1, <4>2 DEF BookOK, Turns
        <4>4. InTurn(old, before')
          BY <2>8, <4>3 DEF Listed
        <4> QED BY <4>1, <4>2, <4>4
      <3> QED BY <3>1, <3>2
    <2> QED BY <2>7, <2>11 DEF Turns
  <1> QED BY <1>1, <1>2

LEMMA ClearTurns ==
    ASSUME Arrivals, Clear
    PROVE  Turns(queues', order_index', before')
  <1>1. DOMAIN order_index' = {} /\ \A s \in Sides : DOMAIN queues'[s] = {}
    BY DEF Clear
  <1>2. before' = {}
    BY <1>1 DEF Arrivals
  <1> QED BY <1>1, <1>2 DEF Turns

\* The lists are in turn from the start, and every step keeps them so.
LEMMA InitTurns == ExecInit => Turns(queues, order_index, before)
  <1> SUFFICES ASSUME ExecInit PROVE Turns(queues, order_index, before)
    OBVIOUS
  <1>1. before = {} /\ \A s \in Sides : DOMAIN queues[s] = {}
    BY DEF ExecInit, Init
  <1> QED BY <1>1 DEF Turns

LEMMA ExecStepTurns ==
    ASSUME IndInv, Turns(queues, order_index, before), [ExecNext]_execVars
    PROVE  Turns(queues', order_index', before')
  <1>1. ASSUME NEW o \in Submittable, Arrivals, NewRejected(o) \/ NewBegins(o)
        PROVE  Turns(queues', order_index', before')
    BY <1>1, StillTurns DEF NewRejected, NewBegins, SubmitReject, SubmitAccept
  <1>2. CASE Arrivals /\ NewMatches
    BY <1>2, MatchTurns DEF NewMatches
  <1>3. CASE Arrivals /\ NewEnds
    BY <1>3, FinishTurns DEF NewEnds
  <1>4. ASSUME NEW id \in OrderIds, Arrivals, Cancel(id)
        PROVE  Turns(queues', order_index', before')
    <2>1. CASE CancelHit(id)
      BY <1>4, <2>1, CancelTurns
    <2>2. CASE CancelMiss(id)
      BY <1>4, <2>2, StillTurns DEF CancelMiss
    <2> QED BY <1>4, <2>1, <2>2 DEF Cancel
  <1>5. CASE Arrivals /\ Flush
    BY <1>5, ClearTurns DEF Flush
  <1>6. CASE UNCHANGED execVars
    BY <1>6 DEF execVars, vars
  <1> QED BY <1>1, <1>2, <1>3, <1>4, <1>5, <1>6 DEF ExecNext

-----------------------------------------------------------------------------
(* Price-time priority                                                     *)

\* A maker, by its place in the book.
MakerAt(order, maker, q, k) ==
    /\ q \in DOMAIN queues[Opposite(order.side)]
    /\ k \in DOMAIN queues[Opposite(order.side)][q]
    /\ maker = queues[Opposite(order.side)][q][k]
    /\ Crosses(order, maker.price)

\* A maker is an order with a place in the book.
LEMMA MakersPlaced ==
    ASSUME NEW order, NEW maker
    PROVE  maker \in Makers(order) <=> \E q, k : MakerAt(order, maker, q, k)
  BY DEF Makers, MakerAt, Range

\* What the book knows of a maker.
MakerFits(order, maker) ==
    /\ maker \in Order /\ maker.id \in DOMAIN order_index
    /\ maker.side = Opposite(order.side)
    /\ maker.remaining \in Nat \ {0} /\ maker.price \in Nat

\* What the book's invariant says of an order at a place.
LEMMA MakersFit ==
    ASSUME BookOK(queues, order_index), NEW order, order.side \in Sides,
           NEW maker, NEW q, NEW k, MakerAt(order, maker, q, k)
    PROVE  MakerFits(order, maker) /\ maker.price = q
  <1>1. PICK s, queue : s = Opposite(order.side) /\ queue = queues[s][q]
    OBVIOUS
  <1>2. s \in Sides /\ q \in DOMAIN queues[s] /\ k \in DOMAIN queue /\ maker = queue[k]
    BY <1>1 DEF MakerAt, Opposite, Sides
  <1>3. Listed(queue, s, q, order_index)
    BY <1>1, <1>2 DEF BookOK
  <1>4. maker \in Order /\ Fits(maker, s, q) /\ maker.id \in DOMAIN order_index
    BY <1>2, <1>3 DEF Listed
  <1>5. maker.remaining \in Nat \ {0} /\ maker.price \in Nat
    <2>1. maker.initial \in Nat /\ maker.price \in Nat
      <3>1. maker \in Order
        BY <1>4
      <3>2. maker.initial \in Quantities /\ maker.price \in Prices
        BY <3>1 DEF Order
      <3>3. maker.price \in Nat
        BY <3>2, OrderTypesAssumption
      <3>4. maker.initial \in Nat
        BY <3>2, OrderTypesAssumption DEF Quantities
      <3> QED BY <3>3, <3>4
    <2>2. maker.remaining \in 1 .. maker.initial
      BY <1>4 DEF Fits
    <2> QED BY <2>1, <2>2
  <1> QED BY <1>1, <1>4, <1>5 DEF MakerFits, Fits

\* A function of finitely many arguments has finitely many values.
LEMMA FiniteRange ==
    ASSUME NEW S, IsFiniteSet(S), NEW f, f = [x \in S |-> f[x]]
    PROVE  IsFiniteSet(Range(f))
  <1>1. f \in Surjection(S, Range(f))
    BY DEF Surjection, Range
  <1> QED BY <1>1, FS_Surjection

\* There are finitely many levels, and a list is finite.
LEMMA MakersFinite ==
    ASSUME BookOK(queues, order_index), NEW order, order.side \in Sides
    PROVE  IsFiniteSet(Makers(order))
  <1>1. PICK s : s = Opposite(order.side)
    OBVIOUS
  <1>2. s \in Sides /\ DOMAIN queues[s] \subseteq Prices
    BY <1>1 DEF Opposite, Sides, BookOK
  <1>3. IsFiniteSet(DOMAIN queues[s])
    BY <1>2, OrderTypesAssumption, FS_Subset
  <1> DEFINE level == queues[s]
             lists == {Range(level[q]) : q \in DOMAIN level}
  <1>4. IsFiniteSet(lists)
    <2>1. PICK f : f = [q \in DOMAIN level |-> Range(level[q])]
      OBVIOUS
    <2>2. lists = Range(f)
      <3>1. DOMAIN f = DOMAIN level /\ \A q \in DOMAIN level : f[q] = Range(level[q])
        BY <2>1
      <3>2. lists = {f[q] : q \in DOMAIN f}
        BY <3>1
      <3> QED BY <3>2 DEF Range
    <2>3. f = [q \in DOMAIN level |-> f[q]]
      BY <2>1
    <2>4. IsFiniteSet(Range(f))
      BY <1>3, <2>3, FiniteRange
    <2> QED BY <2>2, <2>4
  <1>5. ASSUME NEW q \in DOMAIN level PROVE IsFiniteSet(Range(level[q]))
    <2>1. PICK queue : queue = level[q]
      OBVIOUS
    <2>2. queue \in Seq(Order)
      BY <1>2, <2>1 DEF BookOK, Listed
    <2>3. DOMAIN queue = 1 .. Len(queue) /\ Len(queue) \in Nat
      BY <2>2
    <2>4. IsFiniteSet(DOMAIN queue)
      BY <2>3, FS_Interval
    <2>5. queue = [k \in DOMAIN queue |-> queue[k]]
      BY <2>2
    <2>6. IsFiniteSet(Range(queue))
      BY <2>4, <2>5, FiniteRange
    <2> QED BY <2>1, <2>6
  <1>6. \A T \in lists : IsFiniteSet(T)
    BY <1>5
  <1>7. IsFiniteSet(UNION lists)
    <2> HIDE DEF lists
    <2> QED BY <1>4, <1>6, FS_UNION
  <1>8. Makers(order) \subseteq UNION lists
    BY <1>1 DEF Makers
  <1> HIDE DEF lists
  <1> QED BY <1>7, <1>8, FS_Subset

\* What the makers ahead hold is a quantity.
LEMMA AheadNat ==
    ASSUME BookOK(queues, order_index), NEW order, order.side \in Sides, NEW maker
    PROVE  Ahead(order, maker) \in Nat
  <1>1. PICK F, S : /\ F = [o \in Makers(order) |-> o.remaining]
                    /\ S = {o \in Makers(order) : Precedes(o, maker)}
    OBVIOUS
  <1>2. IsFiniteSet(S)
    BY <1>1, MakersFinite, FS_Subset
  <1>3. ASSUME NEW o \in S PROVE F[o] \in Nat
    <2>1. o \in Makers(order) /\ F[o] = o.remaining
      BY <1>1
    <2>2. MakerFits(order, o)
      BY <2>1, MakersPlaced, MakersFit
    <2> QED BY <2>1, <2>2 DEF MakerFits
  <1>4. SumFunctionOnSet(F, S) \in Nat
    BY <1>2, <1>3, SumNat
  <1> QED BY <1>1, <1>4 DEF Ahead

\* What is ahead of an order is a quantity, as a predicate, for the next state.
AheadCounted ==
    BookOK(queues, order_index) /\ taker.side \in Sides => \A o : Ahead(taker, o) \in Nat

LEMMA TakerAheadNat == AheadCounted
  BY AheadNat DEF AheadCounted

LEMMA AheadNatNext ==
    ASSUME BookOK(queues', order_index'), taker'.side \in Sides, NEW o
    PROVE  Ahead(taker, o)' \in Nat
  <1>1. AheadCounted'
    BY TakerAheadNat, PTL
  <1> QED BY <1>1 DEF AheadCounted

\* Finitely many orders, each with a quantity.
Holders(M) == IsFiniteSet(M) /\ \A o \in M : o.remaining \in Nat

\* The quantity each of them has.
Holdings(F, M) == F = [o \in M |-> o.remaining]

\* What the orders of S hold, and without the first of them.
WithFirst(M, S, T, first, F, H) ==
    /\ Holders(M) /\ S \subseteq M /\ first \in S /\ T = S \ {first}
    /\ Holdings(F, M) /\ Holdings(H, M \ {first})

LEMMA SumAfterFirst ==
    ASSUME NEW M, NEW S, NEW T, NEW first, NEW F, NEW H, WithFirst(M, S, T, first, F, H)
    PROVE  SumFunctionOnSet(F, S) = first.remaining + SumFunctionOnSet(H, T)
  <1>1. T = S \ {first}
    BY DEF WithFirst
  <1>2. IsFiniteSet(S) /\ IsFiniteSet(T)
    BY <1>1, FS_Subset DEF WithFirst, Holders
  <1>3. first \in S /\ \A o \in S : F[o] \in Nat
    BY DEF WithFirst, Holders, Holdings
  <1>4. SumFunctionOnSet(F, S) = F[first] + SumFunctionOnSet(F, T)
    BY <1>1, <1>2, <1>3, SumWithout
  <1>5. Alike(F, H, T)
    BY <1>1 DEF WithFirst, Alike, Holdings
  <1>6. SumFunctionOnSet(F, T) = SumFunctionOnSet(H, T)
    BY <1>2, <1>5, SumSame
  <1>7. F[first] = first.remaining
    BY DEF WithFirst, Holdings
  <1> QED BY <1>4, <1>6, <1>7

\* The order the matching loop takes is the first of the makers.
FirstMaker(maker) ==
    /\ maker \in Makers(taker) /\ ~Precedes(maker, maker)
    /\ \A other \in Makers(taker) \ {maker} :
          Precedes(maker, other) /\ ~Precedes(other, maker) /\ other.id # maker.id

\* The first order of the best list precedes every other maker.
LEMMA BestIsFirst ==
    ASSUME IndInv, Turns(queues, order_index, before), NEW s, NEW p, NEW maker, NEW qty, NEW list,
           Matched(s, p, maker, qty, list)
    PROVE  FirstMaker(maker)
  <1>1. /\ taker \in Order /\ taker.side \in Sides /\ s = Opposite(taker.side) /\ s \in Sides
        /\ p = BestPrice(s, DOMAIN queues[s]) /\ p \in DOMAIN queues[s]
        /\ Crosses(taker, p) /\ 1 \in DOMAIN queues[s][p] /\ maker = queues[s][p][1]
        /\ BookOK(queues, order_index) /\ DOMAIN queues[s] \subseteq Prices
    BY DEF Matched, Order, IndInv, BookOK
  <1>2. Listed(queues[s][p], s, p, order_index)
    BY <1>1 DEF BookOK
  <1>3. maker.price = p /\ maker.side = s
    BY <1>1, <1>2 DEF Listed, Fits
  <1>4. MakerAt(taker, maker, p, 1)
    BY <1>1, <1>3 DEF MakerAt
  <1>5. maker \in Makers(taker)
    BY <1>4, MakersPlaced
  <1>6. PICK queue : queue = queues[s][p]
    OBVIOUS
  <1>7. InTurn(queue, before)
    BY <1>1, <1>6 DEF Turns
  <1>8. p \in Nat /\ \A q \in DOMAIN queues[s] : q \in Nat
    BY <1>1, OrderTypesAssumption
  <1>9. ~Precedes(maker, maker)
    <2>1. <<maker.id, maker.id>> \notin before
      <3>1. 1 \in DOMAIN queue /\ maker = queue[1]
        BY <1>1, <1>6
      <3> QED BY <1>7, <3>1 DEF InTurn
    <2> QED BY <1>3, <1>8, <2>1 DEF Precedes
  <1>10. ASSUME NEW other \in Makers(taker) \ {maker}
         PROVE  Precedes(maker, other) /\ ~Precedes(other, maker) /\ other.id # maker.id
    <2>1. PICK q, k : MakerAt(taker, other, q, k)
      BY MakersPlaced
    <2>2. MakerFits(taker, other) /\ other.price = q
      BY <1>1, <2>1, MakersFit
    <2>3. other.side = s /\ q \in DOMAIN queues[s] /\ k \in DOMAIN queues[s][q]
          /\ other = queues[s][q][k]
      BY <1>1, <2>1, <2>2 DEF MakerAt, MakerFits
    <2>4. CASE q = p
      <3>1. k \in DOMAIN queue /\ other = queue[k] /\ maker = queue[1] /\ 1 \in DOMAIN queue
        BY <1>1, <1>6, <2>3, <2>4
      <3>2. queue \in Seq(Order) /\ \A i, j \in DOMAIN queue : queue[i].id = queue[j].id => i = j
        BY <1>2, <1>6 DEF Listed
      <3>3. k # 1 /\ k \in Nat \ {0}
        BY <3>1, <3>2
      <3>4. 1 < k /\ ~(k < 1)
        BY <3>3
      <3>5. <<maker.id, other.id>> \in before /\ <<other.id, maker.id>> \notin before
        BY <1>7, <3>1, <3>4 DEF InTurn
      <3>6. other.id # maker.id
        BY <3>1, <3>2, <3>3
      <3> QED BY <1>3, <1>8, <2>2, <2>3, <2>4, <3>5, <3>6 DEF Precedes
    <2>5. CASE q # p
      <3>1. Better(s, p, q)
        BY <1>1, <2>3, <2>5, BestPriceIsBest
      <3>2. Precedes(maker, other) /\ ~Precedes(other, maker)
        BY <1>1, <1>3, <1>8, <2>2, <2>3, <3>1 DEF Better, Precedes, Sides
      <3>3. other.id # maker.id
        <4>1. Listed(queues[s][q], s, q, order_index)
          BY <1>1, <2>3 DEF BookOK
        <4>2. order_index[other.id] = [side |-> s, price |-> q]
          BY <2>3, <4>1 DEF Listed
        <4>3. order_index[maker.id] = [side |-> s, price |-> p]
          BY <1>1, <1>2 DEF Listed
        <4> QED BY <2>5, <4>2, <4>3
      <3> QED BY <3>2, <3>3
    <2> QED BY <2>4, <2>5
  <1> QED BY <1>5, <1>9, <1>10 DEF FirstMaker

\* Nothing is ahead of the first maker: it gets what the step trades.
LEMMA FirstOwed ==
    ASSUME NEW maker, NEW qty, FirstMaker(maker), Trades(maker, qty)
    PROVE  /\ Ahead(taker, maker) = 0
           /\ Owed(taker, maker) = [maker |-> maker.id, taker |-> taker.id, price |-> maker.price,
                                    quantity |-> qty, aggressor |-> taker.side]
  <1>1. {o \in Makers(taker) : Precedes(o, maker)} = {}
    BY DEF FirstMaker
  <1>2. Ahead(taker, maker) = 0
    BY <1>1, SumEmpty DEF Ahead
  <1>3. Lesser(maker.remaining, taker.remaining - 0) = qty
    BY DEF Trades, Lesser
  <1> QED BY <1>2, <1>3 DEF Owed

\* A filled maker is gone; the others have so much less ahead of them.
LEMMA FilledMakers ==
    ASSUME IndInv, Turns(queues, order_index, before), Arrivals, MatchStep,
           NEW s, NEW p, NEW maker, NEW list,
           Matched(s, p, maker, maker.remaining, list)
    PROVE  Makers(taker)' = Makers(taker) \ {maker}
  <1>1. /\ taker \in Order /\ s = Opposite(taker.side) /\ s \in Sides /\ p \in DOMAIN queues[s]
        /\ ListChanged(queues', queues, s, p, list) /\ Without(list, queues[s][p], 1)
        /\ maker = queues[s][p][1] /\ 1 \in DOMAIN queues[s][p]
        /\ BookOK(queues, order_index)
    BY DEF Matched, IndInv
  <1>2. \E q : taker' = [taker EXCEPT !.remaining = q]
    BY DEF Matched, Trades
  <1>3. taker'.side = taker.side /\ taker'.type = taker.type /\ taker'.price = taker.price
    BY <1>1, <1>2 DEF Order
  <1>4. \A price : Crosses(taker', price) <=> Crosses(taker, price)
    BY <1>3 DEF Crosses
  <1>5. PICK queue : queue = queues[s][p]
    OBVIOUS
  <1>6. /\ queue \in Seq(Order) /\ DOMAIN queue = 1 .. Len(queue) /\ Len(queue) \in Nat
        /\ maker = queue[1] /\ 1 \in DOMAIN queue
        /\ \A i, j \in DOMAIN queue : queue[i].id = queue[j].id => i = j
        /\ DOMAIN list = 1 .. Len(list) /\ Len(list) = Len(queue) - 1
        /\ \A k \in DOMAIN list : list[k] = queue[k + 1]
    <2>1. Listed(queue, s, p, order_index)
      BY <1>1, <1>5 DEF BookOK
    <2>2. queue \in Seq(Order) /\ maker = queue[1] /\ 1 \in DOMAIN queue
          /\ \A i, j \in DOMAIN queue : queue[i].id = queue[j].id => i = j
      BY <1>1, <1>5, <2>1 DEF Listed
    <2>3. /\ list \in Seq(Order) /\ Len(list) = Len(queue) - 1
          /\ \A k \in 1 .. Len(list) : list[k] = queue[IF k < 1 THEN k ELSE k + 1]
      BY <1>1, <1>5 DEF Without
    <2>4. DOMAIN list = 1 .. Len(list) /\ \A k \in DOMAIN list : list[k] = queue[k + 1]
      BY <2>3
    <2>5. DOMAIN queue = 1 .. Len(queue) /\ Len(queue) \in Nat
      BY <2>2
    <2> QED BY <2>2, <2>3, <2>4, <2>5
  <1>7. ASSUME NEW o, o \in Makers(taker)' PROVE o \in Makers(taker) \ {maker}
    <2>1. PICK q, k : /\ q \in DOMAIN queues'[s] /\ k \in DOMAIN queues'[s][q]
                      /\ o = queues'[s][q][k] /\ Crosses(taker, o.price)
      BY <1>1, <1>3, <1>4, <1>7 DEF Makers, Range
    <2>2. CASE q = p
      <3>1. queues'[s][q] = list
        BY <1>1, <2>1, <2>2 DEF ListChanged
      <3>2. k \in DOMAIN list /\ o = queue[k + 1] /\ k + 1 \in DOMAIN queue /\ k + 1 # 1
        BY <1>6, <2>1, <3>1
      <3>3. o # maker
        BY <1>6, <3>2
      <3>4. MakerAt(taker, o, p, k + 1)
        BY <1>1, <1>5, <2>1, <3>2 DEF MakerAt
      <3> QED BY <3>3, <3>4, MakersPlaced
    <2>3. CASE q # p
      <3>1. q \in DOMAIN queues[s] /\ queues'[s][q] = queues[s][q]
        BY <1>1, <2>1, <2>3 DEF ListChanged
      <3>2. MakerAt(taker, o, q, k)
        BY <1>1, <2>1, <3>1 DEF MakerAt
      <3>3. o.price = q
        BY <1>1, <3>2, MakersFit DEF Order
      <3>4. maker.price = p
        <4>1. Listed(queues[s][p], s, p, order_index)
          BY <1>1 DEF BookOK
        <4> QED BY <1>1, <4>1 DEF Listed, Fits
      <3> QED BY <2>3, <3>2, <3>3, <3>4, MakersPlaced
    <2> QED BY <2>2, <2>3
  <1>8. ASSUME NEW o \in Makers(taker), o # maker PROVE o \in Makers(taker)'
    <2>1. PICK q, k : MakerAt(taker, o, q, k)
      BY MakersPlaced
    <2>2. q \in DOMAIN queues[s] /\ k \in DOMAIN queues[s][q] /\ o = queues[s][q][k]
          /\ Crosses(taker', o.price)
      BY <1>1, <1>4, <2>1 DEF MakerAt
    <2>3. \E r : r \in DOMAIN queues'[s] /\ \E j \in DOMAIN queues'[s][r] : o = queues'[s][r][j]
      <3>1. CASE q = p
        <4>1. k # 1 /\ k \in DOMAIN queue /\ o = queue[k]
          BY <1>5, <1>6, <1>8, <2>2, <3>1
        <4>2. k - 1 \in DOMAIN list /\ list[k - 1] = queue[(k - 1) + 1] /\ (k - 1) + 1 = k
          BY <1>6, <4>1
        <4>3. list # <<>>
          BY <4>2
        <4>4. p \in DOMAIN queues'[s] /\ queues'[s][p] = list
          BY <1>1, <4>3 DEF ListChanged
        <4> QED BY <4>1, <4>2, <4>4
      <3>2. CASE q # p
        <4>1. q \in DOMAIN queues'[s] /\ queues'[s][q] = queues[s][q]
          BY <1>1, <2>2, <3>2 DEF ListChanged
        <4> QED BY <2>2, <4>1
      <3> QED BY <3>1, <3>2
    <2>4. PICK r, j : r \in DOMAIN queues'[s] /\ j \in DOMAIN queues'[s][r] /\ o = queues'[s][r][j]
      BY <2>3
    <2>5. o \in Range(queues'[s][r])
      BY <2>4 DEF Range
    <2> QED BY <1>1, <1>3, <2>2, <2>4, <2>5 DEF Makers
  <1> QED BY <1>7, <1>8

\* A maker that is filled takes with it all that it put ahead of the others.
LEMMA FilledAhead ==
    ASSUME IndInv, Turns(queues, order_index, before), Arrivals, MatchStep,
           NEW s, NEW p, NEW maker, NEW list,
           Matched(s, p, maker, maker.remaining, list),
           NEW other \in Makers(taker) \ {maker}
    PROVE  Ahead(taker, other) = maker.remaining + Ahead(taker, other)'
  <1>1. /\ BookOK(queues, order_index) /\ taker.side \in Sides
        /\ order_index' = MapErase(order_index, maker.id)
    BY DEF IndInv, Matched, Order
  <1>2. FirstMaker(maker)
    BY BestIsFirst
  <1>3. PICK M : M = Makers(taker)
    OBVIOUS
  <1>4. Makers(taker)' = M \ {maker} /\ IsFiniteSet(M)
    BY <1>1, <1>3, FilledMakers, MakersFinite
  <1>5. \A o \in M : MakerFits(taker, o)
    BY <1>1, <1>3, MakersPlaced, MakersFit
  <1>6. Holders(M)
    BY <1>4, <1>5 DEF MakerFits, Holders
  <1>7. PICK S : S = {o \in M : Precedes(o, other)}
    OBVIOUS
  <1>8. maker \in S /\ S \subseteq M
    BY <1>2, <1>3, <1>7 DEF FirstMaker
  <1>9. DOMAIN order_index' = DOMAIN order_index \ {maker.id}
    BY <1>1 DEF MapErase
  <1>10. \A a, b \in DOMAIN order_index' : <<a, b>> \in before' <=> <<a, b>> \in before
    BY <1>9, TurnsLeft
  <1>11. \A o \in M \ {maker} : o.id \in DOMAIN order_index'
    BY <1>2, <1>3, <1>5, <1>9 DEF FirstMaker, MakerFits
  <1>12. \A o \in M \ {maker} : Precedes(o, other)' <=> Precedes(o, other)
    <2>1. other.id \in DOMAIN order_index'
      BY <1>3, <1>11
    <2> QED BY <1>10, <1>11, <2>1 DEF Precedes
  <1>13. {o \in M \ {maker} : Precedes(o, other)'} = S \ {maker}
    BY <1>7, <1>12
  <1>14. PICK F, H, T : Holdings(F, M) /\ Holdings(H, M \ {maker}) /\ T = S \ {maker}
    BY DEF Holdings
  <1>15. Ahead(taker, other)' = SumFunctionOnSet(H, T)
    BY <1>4, <1>13, <1>14 DEF Ahead, Holdings
  <1>16. Ahead(taker, other) = SumFunctionOnSet(F, S)
    BY <1>3, <1>7, <1>14 DEF Ahead, Holdings
  <1>17. SumFunctionOnSet(F, S) = maker.remaining + SumFunctionOnSet(H, T)
    <2>1. WithFirst(M, S, T, maker, F, H)
      BY <1>6, <1>8, <1>14 DEF WithFirst
    <2> QED BY <2>1, SumAfterFirst
  <1> QED BY <1>15, <1>16, <1>17

\* What the filled maker got is no longer owed, and nothing else changes.
LEMMA OwedAfterFill ==
    ASSUME IndInv, Turns(queues, order_index, before), Arrivals, MatchStep,
           NEW s, NEW p, NEW maker, NEW list,
           Matched(s, p, maker, maker.remaining, list)
    PROVE  OwedTrades' = OwedTrades \ {Owed(taker, maker)}
  <1>1. /\ taker # NoOrder /\ taker \in Order /\ taker' # NoOrder
        /\ taker.side \in Sides /\ BookOK(queues, order_index)
    BY MatchInv, NoOrderAssumption DEF Matched, IndInv, Order
  <1>2. FirstMaker(maker) /\ Makers(taker)' = Makers(taker) \ {maker}
    BY BestIsFirst, FilledMakers
  <1>3. /\ taker.remaining \in Nat /\ maker.remaining \in Nat
        /\ taker' = [taker EXCEPT !.remaining = @ - maker.remaining]
    BY DEF Matched, Trades
  <1>4. /\ taker'.id = taker.id /\ taker'.side = taker.side
        /\ taker'.remaining = taker.remaining - maker.remaining
    BY <1>1, <1>3 DEF Order
  <1>5. ASSUME NEW other \in Makers(taker) \ {maker}
        PROVE  /\ Owed(taker, other)' = Owed(taker, other)
               /\ Ahead(taker, other)' < taker'.remaining <=> Ahead(taker, other) < taker.remaining
               /\ Owed(taker, other) # Owed(taker, maker)
    <2>1. Ahead(taker, other) = maker.remaining + Ahead(taker, other)'
      BY FilledAhead
    <2>2. Ahead(taker, other) \in Nat
      BY <1>1, AheadNat
    <2>3. Ahead(taker, other)' = Ahead(taker, other) - maker.remaining
      <3>1. Ahead(taker, other)' \in Nat
        <4>1. BookOK(queues', order_index') /\ taker'.side \in Sides
          BY <1>1, <1>4, MatchInv DEF IndInv
        <4> QED BY <4>1, AheadNatNext
      <3> QED BY <1>3, <2>1, <2>2, <3>1
    <2>4. taker'.remaining - Ahead(taker, other)' = taker.remaining - Ahead(taker, other)
      BY <1>3, <1>4, <2>2, <2>3
    <2>5. Owed(taker, other)' = Owed(taker, other)
      BY <1>4, <2>4 DEF Owed
    <2>6. Ahead(taker, other)' < taker'.remaining <=> Ahead(taker, other) < taker.remaining
      BY <1>3, <1>4, <2>2, <2>3
    <2>7. Owed(taker, other) # Owed(taker, maker)
      <3>1. Owed(taker, other).maker = other.id /\ Owed(taker, maker).maker = maker.id
        BY DEF Owed
      <3>2. other.id # maker.id
        BY <1>2 DEF FirstMaker
      <3> QED BY <3>1, <3>2
    <2> QED BY <2>5, <2>6, <2>7
  <1>6. OwedTrades = {Owed(taker, o) : o \in {m \in Makers(taker) : Ahead(taker, m) < taker.remaining}}
    BY <1>1 DEF OwedTrades
  <1>7. OwedTrades' = {Owed(taker, o)' : o \in {m \in Makers(taker)' : Ahead(taker, m)' < taker'.remaining}}
    BY <1>1 DEF OwedTrades
  <1>8. ASSUME NEW t \in OwedTrades' PROVE t \in OwedTrades \ {Owed(taker, maker)}
    <2>1. PICK o \in Makers(taker)' : Ahead(taker, o)' < taker'.remaining /\ t = Owed(taker, o)'
      BY <1>7
    <2>2. o \in Makers(taker) \ {maker}
      BY <1>2, <2>1
    <2>3. Ahead(taker, o) < taker.remaining /\ t = Owed(taker, o) /\ t # Owed(taker, maker)
      BY <1>5, <2>1, <2>2
    <2> QED BY <1>6, <2>2, <2>3
  <1>9. ASSUME NEW t \in OwedTrades, t # Owed(taker, maker) PROVE t \in OwedTrades'
    <2>1. PICK o \in Makers(taker) : Ahead(taker, o) < taker.remaining /\ t = Owed(taker, o)
      BY <1>6
    <2>2. o \in Makers(taker) \ {maker}
      BY <1>9, <2>1
    <2>3. Ahead(taker, o)' < taker'.remaining /\ t = Owed(taker, o)' /\ o \in Makers(taker)'
      BY <1>2, <1>5, <2>1, <2>2
    <2> QED BY <1>7, <2>3
  <1> QED BY <1>8, <1>9

\* The first maker is ahead of every other.
LEMMA AheadOfOthers ==
    ASSUME BookOK(queues, order_index), taker.side \in Sides, NEW maker, FirstMaker(maker),
           NEW o \in Makers(taker) \ {maker}
    PROVE  \E n \in Nat : Ahead(taker, o) = maker.remaining + n
  <1>1. PICK M, S : M = Makers(taker) /\ S = {m \in M : Precedes(m, o)}
    OBVIOUS
  <1>2. Holders(M)
    <2>1. \A m \in M : MakerFits(taker, m)
      BY <1>1, MakersPlaced, MakersFit
    <2> QED BY <1>1, <2>1, MakersFinite DEF MakerFits, Holders
  <1>3. S \subseteq M /\ maker \in S
    BY <1>1 DEF FirstMaker
  <1>4. PICK F, H, T : Holdings(F, M) /\ Holdings(H, M \ {maker}) /\ T = S \ {maker}
    BY DEF Holdings
  <1>5. WithFirst(M, S, T, maker, F, H)
    BY <1>2, <1>3, <1>4 DEF WithFirst
  <1>6. SumFunctionOnSet(F, S) = maker.remaining + SumFunctionOnSet(H, T)
    BY <1>5, SumAfterFirst
  <1>7. Ahead(taker, o) = SumFunctionOnSet(F, S)
    BY <1>1, <1>4 DEF Ahead, Holdings
  <1>8. SumFunctionOnSet(H, T) \in Nat
    <2>1. IsFiniteSet(T)
      BY <1>2, <1>3, <1>4, FS_Subset DEF Holders
    <2>2. \A m \in T : H[m] \in Nat
      BY <1>2, <1>3, <1>4 DEF Holders, Holdings
    <2> QED BY <2>1, <2>2, SumNat
  <1> QED BY <1>6, <1>7, <1>8

\* An order that is filled is owed nothing, and what it got last was owed to it.
LEMMA OwedAfterLast ==
    ASSUME IndInv, Turns(queues, order_index, before), Arrivals, MatchStep,
           NEW s, NEW p, NEW maker, NEW qty, NEW list,
           Matched(s, p, maker, qty, list), qty # maker.remaining
    PROVE  OwedTrades' = OwedTrades \ {Owed(taker, maker)}
  <1>1. /\ taker # NoOrder /\ taker \in Order /\ taker' # NoOrder /\ taker' \in Order
        /\ taker.side \in Sides /\ taker'.side \in Sides
        /\ BookOK(queues, order_index) /\ BookOK(queues', order_index')
    BY MatchInv, NoOrderAssumption DEF Matched, IndInv, Order
  <1>2. FirstMaker(maker)
    BY BestIsFirst
  <1>3. /\ taker.remaining \in Nat /\ maker.remaining \in Nat
        /\ taker.remaining = qty /\ qty < maker.remaining
        /\ taker' = [taker EXCEPT !.remaining = @ - qty]
    BY DEF Matched, Trades
  <1>4. taker'.remaining = 0
    BY <1>1, <1>3 DEF Order
  <1>5. OwedTrades' = {}
    <2>1. ASSUME NEW o \in Makers(taker)' PROVE ~(Ahead(taker, o)' < taker'.remaining)
      <3>1. Ahead(taker, o)' \in Nat
        BY <1>1, AheadNatNext
      <3> QED BY <1>4, <3>1
    <2> QED BY <1>1, <2>1 DEF OwedTrades
  <1>6. ASSUME NEW o \in Makers(taker) \ {maker} PROVE ~(Ahead(taker, o) < taker.remaining)
    <2>1. PICK n \in Nat : Ahead(taker, o) = maker.remaining + n
      BY <1>1, <1>2, AheadOfOthers
    <2> QED BY <1>3, <2>1
  <1>7. OwedTrades \subseteq {Owed(taker, maker)}
    BY <1>1, <1>6 DEF OwedTrades
  <1> QED BY <1>5, <1>7

\* One iteration of the matching loop makes the trade owed to the first maker.
LEMMA TradesAsOwed ==
    ASSUME IndInv, Turns(queues, order_index, before), Arrivals, MatchStep
    PROVE  \E maker \in Makers(taker) :
              /\ \A other \in Makers(taker) \ {maker} : Precedes(maker, other)
              /\ Owed(taker, maker) \in OwedTrades
              /\ trades' = Append(trades, Owed(taker, maker))
              /\ OwedTrades' = OwedTrades \ {Owed(taker, maker)}
  <1>1. PICK s, p, maker, qty, list : Matched(s, p, maker, qty, list)
    BY MatchOpened
  <1>2. FirstMaker(maker)
    BY <1>1, BestIsFirst
  <1>3. Trades(maker, qty) /\ taker # NoOrder
    BY <1>1 DEF Matched
  <1>4. /\ Ahead(taker, maker) = 0
        /\ Owed(taker, maker) = [maker |-> maker.id, taker |-> taker.id, price |-> maker.price,
                                 quantity |-> qty, aggressor |-> taker.side]
    BY <1>2, <1>3, FirstOwed
  <1>5. trades' = Append(trades, Owed(taker, maker))
    BY <1>3, <1>4 DEF Trades
  <1>6. Owed(taker, maker) \in OwedTrades
    <2>1. Ahead(taker, maker) < taker.remaining
      BY <1>3, <1>4 DEF Trades
    <2> QED BY <1>2, <1>3, <2>1 DEF OwedTrades, FirstMaker
  <1>7. OwedTrades' = OwedTrades \ {Owed(taker, maker)}
    <2>1. CASE qty = maker.remaining
      BY <1>1, <2>1, OwedAfterFill
    <2>2. CASE qty # maker.remaining
      BY <1>1, <2>2, OwedAfterLast
    <2> QED BY <2>1, <2>2
  <1> QED BY <1>2, <1>5, <1>6, <1>7 DEF FirstMaker

\* The loop ends with the order filled, no level left or the best one out of reach.
LEMMA NothingOwed ==
    ASSUME IndInv, FinishSubmit
    PROVE  OwedTrades = {}
  <1>1. PICK s : s = Opposite(taker.side)
    OBVIOUS
  <1>2. /\ taker # NoOrder /\ taker \in Order /\ taker.side \in Sides /\ s \in Sides
        /\ BookOK(queues, order_index) /\ DOMAIN queues[s] \subseteq Prices
        /\ ~CanMatch
    BY <1>1 DEF IndInv, TakerOK, FinishSubmit, BookOK, Order, Opposite, Sides
  <1>3. taker.remaining \in Nat /\ taker.price \in Nat
    <2>1. taker.remaining \in Quantities /\ taker.price \in Prices
      BY <1>2 DEF Order
    <2>2. taker.price \in Nat
      BY <2>1, OrderTypesAssumption
    <2>3. taker.remaining \in Nat
      BY <2>1, OrderTypesAssumption DEF Quantities
    <2> QED BY <2>2, <2>3
  <1>4. ASSUME NEW o \in Makers(taker), Ahead(taker, o) < taker.remaining PROVE FALSE
    <2>1. PICK q, k : MakerAt(taker, o, q, k)
      BY MakersPlaced
    <2>2. /\ q \in DOMAIN queues[s] /\ Crosses(taker, q) /\ q \in Nat
      BY <1>1, <1>2, <2>1, MakersFit DEF MakerAt, MakerFits
    <2>3. Ahead(taker, o) \in Nat
      BY <1>2, AheadNat
    <2>4. taker.remaining > 0
      BY <1>3, <1>4, <2>3
    <2>5. PICK best : best = BestPrice(s, DOMAIN queues[s])
      OBVIOUS
    <2>6. /\ best \in DOMAIN queues[s] /\ ~Crosses(taker, best)
          /\ q # best => Better(s, best, q)
      BY <1>1, <1>2, <2>2, <2>4, <2>5, BestPriceIsBest DEF CanMatch
    <2>7. best \in Nat /\ q # best
      BY <1>2, <2>2, <2>6, OrderTypesAssumption
    <2> QED BY <1>1, <1>2, <1>3, <2>2, <2>6, <2>7 DEF Crosses, Better, Opposite, Sides
  <1> QED BY <1>2, <1>4 DEF OwedTrades

-----------------------------------------------------------------------------
(* The order in work                                                       *)

\* The quantity of these trades.
Traded(list) == SumFunctionOnSet([k \in DOMAIN list |-> list[k].quantity], DOMAIN list)

\* The order in work is the command's; what it asked for is traded or still wanted.
InWork ==
    taker # NoOrder =>
        /\ command.type = "New" /\ command.order.id = taker.id
        /\ command.order.type = taker.type /\ command.order.initial = taker.initial
        /\ Traded(trades) + taker.remaining = taker.initial
        /\ trades = <<>> => taker.remaining > 0
        /\ trades # <<>> => taker.remaining < taker.initial

\* The invariant of the commands: the book, the lists in turn, the order in work.
ExecInv ==
    /\ IndInv
    /\ Turns(queues, order_index, before)
    /\ InWork

\* Between commands there is no order in work.
LEMMA NoneInWork == ASSUME taker' = NoOrder PROVE InWork'
  BY DEF InWork

\* No trades, no quantity.
LEMMA TradedNone == Traded(<<>>) = 0
  <1>1. PICK f : f = [k \in DOMAIN <<>> |-> <<>>[k].quantity]
    OBVIOUS
  <1>2. SumFunctionOnSet(f, {}) = 0
    BY SumEmpty
  <1>3. DOMAIN <<>> = {}
    OBVIOUS
  <1>4. Traded(<<>>) = SumFunctionOnSet(f, DOMAIN <<>>)
    BY <1>1 DEF Traded
  <1> QED BY <1>2, <1>3, <1>4

\* The sum over the trades, as a function and a set.
TradeSum(f, S, list) ==
    /\ f = [k \in DOMAIN list |-> list[k].quantity] /\ S = DOMAIN list
    /\ IsFiniteSet(S) /\ \A k \in S : f[k] \in Nat

\* The quantity of some trades is such a sum.
LEMMA TradesSummed ==
    ASSUME NEW list \in Seq(Trade)
    PROVE  \E f, S : TradeSum(f, S, list) /\ Traded(list) = SumFunctionOnSet(f, S)
  <1>1. PICK f, S : f = [k \in DOMAIN list |-> list[k].quantity] /\ S = DOMAIN list
    OBVIOUS
  <1>2. DOMAIN list = 1 .. Len(list) /\ Len(list) \in Nat
    OBVIOUS
  <1>3. IsFiniteSet(S)
    BY <1>1, <1>2, FS_Interval
  <1>4. ASSUME NEW k \in S PROVE f[k] \in Nat
    <2>1. f[k] = list[k].quantity /\ list[k] \in Trade
      BY <1>1
    <2>2. f[k] \in Quantities
      BY <2>1 DEF Trade
    <2> QED BY <2>2, OrderTypesAssumption DEF Quantities
  <1>5. TradeSum(f, S, list)
    BY <1>1, <1>3, <1>4 DEF TradeSum
  <1>6. Traded(list) = SumFunctionOnSet(f, S)
    BY <1>1 DEF Traded
  <1> QED BY <1>5, <1>6

\* One more trade.
LEMMA TradedAppend ==
    ASSUME NEW list \in Seq(Trade), NEW more, NEW trade \in Trade, more = Append(list, trade)
    PROVE  Traded(more) = Traded(list) + trade.quantity
  <1>1. PICK f, S : TradeSum(f, S, list) /\ Traded(list) = SumFunctionOnSet(f, S)
    BY TradesSummed
  <1>2. more \in Seq(Trade)
    OBVIOUS
  <1>3. PICK h, T : TradeSum(h, T, more) /\ Traded(more) = SumFunctionOnSet(h, T)
    BY <1>2, TradesSummed
  <1>4. PICK n : n = Len(list) + 1
    OBVIOUS
  <1>5. /\ DOMAIN more = 1 .. n /\ n \in Nat /\ DOMAIN list = 1 .. n - 1
        /\ more[n] = trade /\ \A k \in DOMAIN list : more[k] = list[k]
    BY <1>4
  <1>6. n \in T /\ T \ {n} = S
    <2>1. T = 1 .. n /\ S = 1 .. n - 1 /\ n \in Nat \ {0}
      BY <1>1, <1>3, <1>4, <1>5 DEF TradeSum
    <2> QED BY <2>1
  <1>7. IsFiniteSet(T) /\ \A k \in T : h[k] \in Nat
    BY <1>3 DEF TradeSum
  <1>8. SumFunctionOnSet(h, T) = h[n] + SumFunctionOnSet(h, S)
    BY <1>6, <1>7, SumWithout
  <1>9. Alike(h, f, S) /\ IsFiniteSet(S)
    BY <1>1, <1>3, <1>5, <1>6 DEF TradeSum, Alike
  <1>10. SumFunctionOnSet(h, S) = SumFunctionOnSet(f, S)
    BY <1>9, SumSame
  <1>11. h[n] = trade.quantity
    BY <1>3, <1>5, <1>6 DEF TradeSum
  <1>12. SumFunctionOnSet(f, S) \in Nat /\ h[n] \in Nat
    BY <1>1, <1>6, <1>7, SumNat DEF TradeSum
  <1> QED BY <1>1, <1>3, <1>8, <1>10, <1>11, <1>12

\* An order begins whole.
LEMMA BeginsInWork ==
    ASSUME NEW o \in Submittable, NewBegins(o)
    PROVE  InWork'
  <1>1. /\ o \in Order /\ o.remaining \in {0, o.initial} /\ command' = [type |-> "New", order |-> o]
        /\ o.initial # 0 /\ trades' = <<>>
        /\ taker' = [o EXCEPT !.remaining = IF @ = 0 THEN o.initial ELSE @]
    BY DEF NewBegins, SubmitAccept, Submittable, Rejected
  <1>2. o.initial \in Nat \ {0}
    BY <1>1, OrderTypesAssumption DEF Order, Quantities
  <1>3. /\ taker'.id = o.id /\ taker'.type = o.type /\ taker'.initial = o.initial
        /\ taker'.remaining = o.initial
    BY <1>1, <1>2 DEF Order
  <1>4. Traded(trades') = 0
    BY <1>1, TradedNone
  <1> QED BY <1>1, <1>2, <1>3, <1>4 DEF InWork

\* What a trade takes off the order is the quantity of the trade.
LEMMA MatchesInWork ==
    ASSUME ExecInv, NewMatches
    PROVE  InWork'
  <1>1. /\ IndInv /\ MatchStep /\ taker # NoOrder /\ taker \in Order /\ command' = command
        /\ trades \in Seq(Trade) /\ trades' \in Seq(Trade)
    BY MatchInv DEF NewMatches, MatchStep, ExecInv, IndInv, TakerOK
  <1>2. PICK s, p, maker, qty, list : Matched(s, p, maker, qty, list)
    BY <1>1, MatchOpened
  <1>3. Trades(maker, qty) /\ maker \in Order
    BY <1>2 DEF Matched
  <1>4. PICK trade : trade = [maker |-> maker.id, taker |-> taker.id, price |-> maker.price,
                              quantity |-> qty, aggressor |-> taker.side]
    OBVIOUS
  <1>5. trades' = Append(trades, trade) /\ trade.quantity = qty
    BY <1>3, <1>4 DEF Trades
  <1>6. trade \in Trade
    <2>1. maker.remaining \in Quantities /\ qty \in Nat /\ qty <= maker.remaining
      BY <1>3 DEF Trades, Order
    <2>2. qty \in Quantities
      BY <2>1, OrderTypesAssumption DEF Quantities
    <2> QED BY <1>1, <1>3, <1>4, <2>2 DEF Order, Trade
  <1>7. Traded(trades') = Traded(trades) + qty
    BY <1>1, <1>5, <1>6, TradedAppend
  <1>8. /\ taker'.id = taker.id /\ taker'.type = taker.type /\ taker'.initial = taker.initial
        /\ taker'.remaining = taker.remaining - qty
    BY <1>1, <1>3 DEF Trades, Order
  <1>9. trades' # <<>>
    BY <1>1, <1>5
  <1>10. taker.initial \in Nat /\ taker.remaining \in Nat /\ taker.remaining <= taker.initial
    BY <1>1, OrderTypesAssumption DEF Order, Quantities, IndInv, TakerOK
  <1>11. Traded(trades) \in Nat
    <2>1. PICK f, S : TradeSum(f, S, trades) /\ Traded(trades) = SumFunctionOnSet(f, S)
      BY <1>1, TradesSummed
    <2> QED BY <2>1, SumNat DEF TradeSum
  <1>12. qty \in Nat \ {0}
    BY <1>3 DEF Trades
  <1>13. Traded(trades') + taker'.remaining = taker'.initial /\ taker'.remaining < taker'.initial
    BY <1>1, <1>7, <1>8, <1>10, <1>11, <1>12 DEF ExecInv, InWork
  <1> QED BY <1>1, <1>8, <1>9, <1>13 DEF ExecInv, InWork

\* Every step of a command keeps the invariant.
LEMMA ExecStepInv == ExecInv /\ [ExecNext]_execVars => ExecInv'
  <1> SUFFICES ASSUME ExecInv, [ExecNext]_execVars PROVE InWork'
    BY ExecStepIsBookStep, StepInv, ExecStepTurns DEF ExecInv
  <1>1. ASSUME NEW o \in Submittable, NewRejected(o) PROVE InWork'
    BY <1>1, NoneInWork DEF NewRejected, SubmitReject
  <1>2. ASSUME NEW o \in Submittable, NewBegins(o) PROVE InWork'
    BY <1>2, BeginsInWork
  <1>3. CASE NewMatches
    BY <1>3, MatchesInWork
  <1>4. CASE NewEnds
    BY <1>4, NoneInWork DEF NewEnds, FinishSubmit
  <1>5. ASSUME NEW id \in OrderIds, Cancel(id) PROVE InWork'
    BY <1>5, NoneInWork DEF Cancel, CancelHit, CancelMiss
  <1>6. CASE Flush
    BY <1>6, NoneInWork DEF Flush, Clear
  <1>7. CASE UNCHANGED execVars
    BY <1>7 DEF execVars, vars, InWork, ExecInv
  <1> QED
    BY <1>1, <1>2, <1>3, <1>4, <1>5, <1>6, <1>7 DEF ExecNext

\* While execute_command works on an order, it is the command's, its trades and
\* what it still wants add up to what it asked for, and the lists of the book
\* are in the order in which their orders came to rest.
THEOREM ExecInvariance == ExecSpec => []ExecInv
  <1>1. ExecInit => ExecInv
    BY InitInv, InitTurns DEF ExecInit, ExecInv, Init, InWork
  <1> QED BY <1>1, ExecStepInv, PTL DEF ExecSpec

\* The loops of match_buy and match_sell make the trades that price-time priority
\* owes to the order, maker by maker, whatever the book holds, and stop when none
\* is owed.
THEOREM TradesByPriority == ExecSpec => PriceTimePriority
  <1> DEFINE Step ==
        taker # NoOrder =>
          \/ OwedTrades = {} /\ UNCHANGED trades
          \/ \E maker \in Makers(taker) :
                /\ \A other \in Makers(taker) \ {maker} : Precedes(maker, other)
                /\ Owed(taker, maker) \in OwedTrades
                /\ trades' = Append(trades, Owed(taker, maker))
                /\ OwedTrades' = OwedTrades \ {Owed(taker, maker)}
  <1>1. ExecInv /\ [ExecNext]_execVars => [Step]_<<vars, before>>
    <2> SUFFICES ASSUME ExecInv, ExecNext, taker # NoOrder PROVE Step
      BY DEF execVars
    <2>1. IndInv /\ Turns(queues, order_index, before) /\ Arrivals
      BY DEF ExecInv, ExecNext
    <2>2. CASE MatchStep
      BY <2>1, <2>2, TradesAsOwed
    <2>3. CASE FinishSubmit
      BY <2>1, <2>3, NothingOwed DEF FinishSubmit
    <2> QED
      BY <2>2, <2>3 DEF ExecNext, NewRejected, NewBegins, NewMatches, NewEnds, Cancel, Flush,
           SubmitReject, SubmitAccept, CancelHit, CancelMiss, Clear
  <1> QED BY <1>1, ExecInvariance, PTL DEF ExecSpec, PriceTimePriority

-----------------------------------------------------------------------------
(* The reply                                                               *)

\* The lines of a reply, and those about trades.
Report == [kind : {"TRADE", "ACK", "REJECT"}, id : OrderIds, quantity : Nat]

Told(list) == [k \in DOMAIN list |-> Line("TRADE", list[k].maker, list[k].quantity)]

\* One line per trade, in the order of the trades.
LEMMA ToldLines ==
    ASSUME NEW list \in Seq(Trade)
    PROVE  /\ Told(list) \in Seq(Report) /\ Len(Told(list)) = Len(list)
           /\ \A k \in DOMAIN list : Told(list)[k] = Line("TRADE", list[k].maker, list[k].quantity)
  <1>1. DOMAIN list = 1 .. Len(list) /\ Len(list) \in Nat /\ \A k \in DOMAIN list : list[k] \in Trade
    OBVIOUS
  <1>2. ASSUME NEW k \in DOMAIN list
        PROVE  Line("TRADE", list[k].maker, list[k].quantity) \in Report
    <2>1. list[k].maker \in OrderIds /\ list[k].quantity \in Quantities
      BY <1>1 DEF Trade
    <2>2. list[k].quantity \in Nat
      BY <2>1, OrderTypesAssumption DEF Quantities
    <2> QED BY <2>1, <2>2 DEF Line, Report
  <1> HIDE DEF Report
  <1>3. Told(list) = [k \in 1 .. Len(list) |-> Told(list)[k]]
        /\ \A k \in 1 .. Len(list) : Told(list)[k] \in Report
    BY <1>1, <1>2 DEF Told
  <1>4. Told(list) \in Seq(Report) /\ Len(Told(list)) = Len(list)
    <2>1. PICK told : told = Told(list)
      OBVIOUS
    <2> QED BY <1>1, <1>3, <2>1
  <1> QED BY <1>4 DEF Told

\* What submit_order leaves behind and execute_command reports.
Ended(rest) ==
    /\ taker # NoOrder /\ taker \in Order /\ trades \in Seq(Trade)
    /\ rest = IF taker.remaining > 0 /\ taker.type = "Limit" THEN taker.remaining ELSE 0
    /\ rest = Left(taker.id, queues', order_index')
    /\ taker.id \in DOMAIN order_index' <=> rest > 0
    /\ rest \in Nat /\ taker.remaining \in Nat /\ taker.initial \in Nat
    /\ reply' = Told(trades) \o RestLines(command.order, rest)
    /\ trades' = trades /\ command' = command

\* The end of a new order is such an end.
LEMMA EndsOpened ==
    ASSUME ExecInv, NewEnds
    PROVE  \E rest : Ended(rest)
  <1>1. /\ IndInv /\ FinishSubmit /\ taker # NoOrder /\ taker \in Order /\ trades \in Seq(Trade)
        /\ taker.id \notin DOMAIN order_index /\ command.order.id = taker.id
        /\ trades' = trades /\ command' = command
    BY DEF ExecInv, IndInv, TakerOK, InWork, NewEnds, FinishSubmit
  <1>2. PICK rest : rest = Left(taker.id, queues', order_index')
    OBVIOUS
  <1>3. /\ rest = IF taker.remaining > 0 /\ taker.type = "Limit" THEN taker.remaining ELSE 0
        /\ DOMAIN order_index' = DOMAIN order_index \cup
               (IF taker.remaining > 0 /\ taker.type = "Limit" THEN {taker.id} ELSE {})
    BY <1>1, <1>2, FinishLeft
  <1>4. taker.remaining \in Nat /\ taker.initial \in Nat
    BY <1>1, OrderTypesAssumption DEF Order, Quantities
  <1>5. taker.id \in DOMAIN order_index' <=> rest > 0
    <2>1. CASE taker.remaining > 0 /\ taker.type = "Limit"
      BY <1>3, <2>1
    <2>2. CASE ~(taker.remaining > 0 /\ taker.type = "Limit")
      BY <1>1, <1>3, <2>2
    <2> QED BY <2>1, <2>2
  <1>6. reply' = Told(trades) \o RestLines(command.order, rest)
    <2>1. (IF command.order.id \in DOMAIN order_index'
           THEN get_order(command.order.id)'.remaining ELSE 0) = rest
      BY <1>1, <1>2 DEF get_order, Left
    <2> QED BY <2>1 DEF NewEnds, Told
  <1>7. Ended(rest)
    BY <1>1, <1>2, <1>3, <1>4, <1>5, <1>6 DEF Ended
  <1> QED BY <1>7

\* The three payloads a new order can end with.
Acked(rest) ==
    rest > 0 /\ reply' = Append(Told(trades), Line("ACK", taker.id, rest))

Refused ==
    /\ trades = <<>> /\ taker.type = "Market"
    /\ reply' = <<Line("REJECT", taker.id, 0)>>

OnlyTrades(rest) ==
    rest = 0 /\ trades # <<>> /\ reply' = Told(trades)

\* They are all there are.
LEMMA EndedReply ==
    ASSUME ExecInv, NEW rest, Ended(rest)
    PROVE  Acked(rest) \/ Refused \/ OnlyTrades(rest)
  <1>1. /\ taker # NoOrder /\ taker \in Order /\ trades \in Seq(Trade) /\ rest \in Nat
        /\ rest = IF taker.remaining > 0 /\ taker.type = "Limit" THEN taker.remaining ELSE 0
        /\ reply' = Told(trades) \o RestLines(command.order, rest)
        /\ command.order.id = taker.id /\ command.order.type = taker.type
        /\ trades = <<>> => taker.remaining > 0
    BY DEF Ended, ExecInv, InWork
  <1>2. PICK told : told = Told(trades)
    OBVIOUS
  <1>3. told \in Seq(Report) /\ Len(told) = Len(trades)
    BY <1>1, <1>2, ToldLines
  <1> HIDE DEF Report
  <1>4. CASE rest > 0
    <2>1. reply' = told \o <<Line("ACK", taker.id, rest)>>
      BY <1>1, <1>2, <1>4 DEF RestLines
    <2>2. reply' = Append(told, Line("ACK", taker.id, rest))
      BY <1>3, <2>1
    <2> QED BY <1>2, <1>4, <2>2 DEF Acked
  <1>5. CASE rest = 0 /\ trades = <<>>
    <2>1. taker.type = "Market"
      BY <1>1, <1>5 DEF Order
    <2>2. reply' = told \o <<Line("REJECT", taker.id, 0)>>
      BY <1>1, <1>2, <1>5, <2>1 DEF RestLines
    <2>3. told = <<>>
      BY <1>1, <1>3, <1>5
    <2> QED BY <1>5, <2>1, <2>2, <2>3 DEF Refused
  <1>6. CASE rest = 0 /\ trades # <<>>
    <2>1. RestLines(command.order, rest) = <<>>
      BY <1>6 DEF RestLines
    <2>2. reply' = told \o <<>>
      BY <1>1, <1>2, <2>1
    <2>3. reply' = told
      BY <1>3, <2>2
    <2> QED BY <1>2, <1>6, <2>3 DEF OnlyTrades
  <1> QED BY <1>1, <1>4, <1>5, <1>6

\* "reply is never empty": the payload a command ends with has a line, so the
\* push of a reply is never skipped and the client never waits in vain.
THEOREM CommandsAnswered == ExecSpec => NeverSilent
  <1>1. ExecInv /\ [ExecNext]_execVars => [taker' = NoOrder => reply' # <<>>]_execVars
    <2> SUFFICES ASSUME ExecInv, ExecNext, taker' = NoOrder
                 PROVE  reply' # <<>>
      OBVIOUS
    <2>1. ASSUME NEW o \in Submittable, NewRejected(o) PROVE reply' # <<>>
      BY <2>1 DEF NewRejected
    <2>2. ASSUME NEW o \in Submittable, NewBegins(o) PROVE FALSE
      <3>1. o \in Order /\ taker' = [o EXCEPT !.remaining = IF @ = 0 THEN o.initial ELSE @]
        BY <2>2 DEF NewBegins, SubmitAccept, Submittable
      <3>2. taker' \in Order
        BY <3>1 DEF Order
      <3> QED BY <3>2, NoOrderAssumption
    <2>3. CASE NewMatches
      <3>1. taker' \in Order
        BY <2>3, MatchInv DEF NewMatches, ExecInv
      <3> QED BY <3>1, NoOrderAssumption
    <2>4. CASE NewEnds
      <3>1. PICK rest : Ended(rest)
        BY <2>4, EndsOpened
      <3>2. PICK told : told = Told(trades)
        OBVIOUS
      <3>3. told \in Seq(Report) /\ Len(told) = Len(trades) /\ trades \in Seq(Trade)
        BY <3>1, <3>2, ToldLines DEF Ended
      <3> HIDE DEF Report
      <3>4. Acked(rest) \/ Refused \/ OnlyTrades(rest)
        BY <3>1, EndedReply
      <3>5. CASE Acked(rest)
        BY <3>2, <3>3, <3>5 DEF Acked
      <3>6. CASE Refused
        BY <3>6 DEF Refused
      <3>7. CASE OnlyTrades(rest)
        BY <3>2, <3>3, <3>7 DEF OnlyTrades
      <3> QED BY <3>4, <3>5, <3>6, <3>7
    <2>5. ASSUME NEW id \in OrderIds, Cancel(id) PROVE reply' # <<>>
      BY <2>5 DEF Cancel
    <2>6. CASE Flush
      BY <2>6 DEF Flush
    <2> QED
      BY <2>1, <2>2, <2>3, <2>4, <2>5, <2>6 DEF ExecNext
  <1> QED BY <1>1, ExecInvariance, PTL DEF ExecSpec, NeverSilent

-----------------------------------------------------------------------------
(* The quantities in the reply                                             *)

\* The quantities in the lines of a kind.
Said(kind, lines) ==
    SumFunctionOnSet([i \in DOMAIN lines |-> lines[i].quantity],
                     {i \in DOMAIN lines : lines[i].kind = kind})

\* Lines that begin with one for each trade and go on with other lines.
TellsTrades(lines, list) ==
    /\ DOMAIN list \subseteq DOMAIN lines
    /\ \A k \in DOMAIN list : lines[k].kind = "TRADE" /\ lines[k].quantity = list[k].quantity
    /\ \A k \in DOMAIN lines \ DOMAIN list : lines[k].kind # "TRADE"

\* Lines about trades say the quantity that was traded.
LEMMA TradesSaid ==
    ASSUME NEW list \in Seq(Trade), NEW lines, TellsTrades(lines, list)
    PROVE  Said("TRADE", lines) = Traded(list)
  <1>1. PICK f, S : TradeSum(f, S, list) /\ Traded(list) = SumFunctionOnSet(f, S)
    BY TradesSummed
  <1>2. PICK h : h = [i \in DOMAIN lines |-> lines[i].quantity]
    OBVIOUS
  <1>3. {i \in DOMAIN lines : lines[i].kind = "TRADE"} = S
    BY <1>1 DEF TellsTrades, TradeSum
  <1>4. Alike(h, f, S) /\ IsFiniteSet(S)
    BY <1>1, <1>2 DEF TellsTrades, TradeSum, Alike
  <1>5. SumFunctionOnSet(h, S) = SumFunctionOnSet(f, S)
    BY <1>4, SumSame
  <1> QED BY <1>1, <1>2, <1>3, <1>5 DEF Said

\* A kind of which there is no line, and one of which there is one.
LEMMA NoneSaid ==
    ASSUME NEW kind, NEW lines, \A k \in DOMAIN lines : lines[k].kind # kind
    PROVE  Said(kind, lines) = 0
  <1>1. {i \in DOMAIN lines : lines[i].kind = kind} = {}
    OBVIOUS
  <1> QED BY <1>1, SumEmpty DEF Said

\* The only line of its kind.
OnlyLine(kind, lines, n) ==
    /\ n \in DOMAIN lines /\ lines[n].kind = kind /\ lines[n].quantity \in Nat
    /\ \A k \in DOMAIN lines \ {n} : lines[k].kind # kind

\* It says its own quantity.
LEMMA OneSaid ==
    ASSUME NEW kind, NEW lines, NEW n, OnlyLine(kind, lines, n)
    PROVE  Said(kind, lines) = lines[n].quantity
  <1>1. PICK h, S : /\ h = [i \in DOMAIN lines |-> lines[i].quantity]
                    /\ S = {i \in DOMAIN lines : lines[i].kind = kind}
    OBVIOUS
  <1>2. S = {n} /\ S \ {n} = {} /\ n \in S
    BY <1>1 DEF OnlyLine
  <1>3. IsFiniteSet(S) /\ \A k \in S : h[k] \in Nat
    <2>1. IsFiniteSet({n})
      BY FS_Singleton
    <2>2. \A k \in S : h[k] \in Nat
      BY <1>1, <1>2 DEF OnlyLine
    <2> QED BY <1>2, <2>1, <2>2
  <1>4. SumFunctionOnSet(h, S) = h[n] + SumFunctionOnSet(h, {})
    BY <1>2, <1>3, SumWithout
  <1>5. SumFunctionOnSet(h, {}) = 0 /\ h[n] = lines[n].quantity /\ h[n] \in Nat
    BY <1>1, <1>2, <1>3, SumEmpty
  <1>6. Said(kind, lines) = SumFunctionOnSet(h, S)
    BY <1>1 DEF Said
  <1> QED BY <1>4, <1>5, <1>6

\* The last line says what rests, the lines before it say the trades.
LEMMA AckedSays ==
    ASSUME NEW rest, Ended(rest), Acked(rest)
    PROVE  /\ Said("TRADE", reply') = Traded(trades) /\ Said("ACK", reply') = rest
           /\ \A k \in DOMAIN reply' : reply'[k].kind # "REJECT"
  <1>1. trades \in Seq(Trade) /\ rest \in Nat /\ taker \in Order
    BY DEF Ended
  <1>2. PICK told, ack, n : /\ told = Told(trades) /\ ack = Line("ACK", taker.id, rest)
                            /\ n = Len(trades) + 1
    OBVIOUS
  <1>3. /\ told \in Seq(Report) /\ Len(told) = Len(trades)
        /\ \A k \in DOMAIN trades : told[k] = Line("TRADE", trades[k].maker, trades[k].quantity)
    BY <1>1, <1>2, ToldLines
  <1>4. ack.kind = "ACK" /\ ack.quantity = rest /\ ack \in Report
    BY <1>1, <1>2 DEF Line, Report, Order
  <1> HIDE DEF Report
  <1>5. PICK lines : lines = Append(told, ack)
    OBVIOUS
  <1>6. reply' = lines
    BY <1>2, <1>5 DEF Acked
  <1>7. /\ DOMAIN lines = 1 .. n /\ DOMAIN trades = 1 .. n - 1 /\ n \in Nat \ {0}
        /\ lines[n] = ack /\ \A k \in 1 .. n - 1 : lines[k] = told[k]
    BY <1>1, <1>2, <1>3, <1>4, <1>5
  <1>8. \A k \in 1 .. n - 1 : lines[k].kind = "TRADE" /\ lines[k].quantity = trades[k].quantity
    <2> SUFFICES ASSUME NEW k \in 1 .. n - 1
                 PROVE  lines[k].kind = "TRADE" /\ lines[k].quantity = trades[k].quantity
      OBVIOUS
    <2>1. lines[k] = told[k] /\ k \in DOMAIN trades
      BY <1>7
    <2>2. told[k] = Line("TRADE", trades[k].maker, trades[k].quantity)
      BY <1>3, <2>1
    <2> QED BY <2>1, <2>2 DEF Line
  <1>9. \A k \in 1 .. n : k = n \/ k \in 1 .. n - 1
    BY <1>7
  <1>10. n \in 1 .. n /\ n \notin 1 .. n - 1 /\ 1 .. n - 1 \subseteq 1 .. n
    BY <1>7
  <1>11. TellsTrades(lines, trades)
    BY <1>4, <1>7, <1>8, <1>9, <1>10 DEF TellsTrades
  <1>12. OnlyLine("ACK", lines, n)
    BY <1>1, <1>4, <1>7, <1>8, <1>9, <1>10 DEF OnlyLine
  <1>13. Said("TRADE", lines) = Traded(trades)
    BY <1>1, <1>11, TradesSaid
  <1>14. Said("ACK", lines) = rest
    BY <1>4, <1>7, <1>12, OneSaid
  <1>15. \A k \in DOMAIN lines : lines[k].kind # "REJECT"
    BY <1>4, <1>7, <1>8, <1>9
  <1> QED BY <1>6, <1>13, <1>14, <1>15

\* A reply of trades alone says what was traded and no more.
LEMMA OnlyTradesSays ==
    ASSUME NEW rest, Ended(rest), OnlyTrades(rest)
    PROVE  /\ Said("TRADE", reply') = Traded(trades) /\ Said("ACK", reply') = 0
           /\ \A k \in DOMAIN reply' : reply'[k].kind # "REJECT"
  <1>1. trades \in Seq(Trade)
    BY DEF Ended
  <1>2. PICK told : told = Told(trades)
    OBVIOUS
  <1>3. DOMAIN told = DOMAIN trades
        /\ \A k \in DOMAIN trades : told[k] = Line("TRADE", trades[k].maker, trades[k].quantity)
    BY <1>2 DEF Told
  <1>4. \A k \in DOMAIN told : told[k].kind = "TRADE" /\ told[k].quantity = trades[k].quantity
    BY <1>3 DEF Line
  <1>5. TellsTrades(told, trades)
    BY <1>3, <1>4 DEF TellsTrades
  <1>6. Said("TRADE", told) = Traded(trades)
    BY <1>1, <1>5, TradesSaid
  <1>7. Said("ACK", told) = 0
    BY <1>4, NoneSaid
  <1>8. \A k \in DOMAIN told : told[k].kind # "REJECT"
    BY <1>4
  <1> QED BY <1>2, <1>6, <1>7, <1>8 DEF OnlyTrades

\* Quantity is about the lines of the reply.
LEMMA QuantitySaid ==
    \A kind : Quantity(kind)' = Said(kind, reply')
  BY DEF Quantity, Said

\* A new order that was taken: its trades and its rest are what it asked for.
LEMMA EndsAccount ==
    ASSUME ExecInv, NewEnds
    PROVE  Accounts(command.order)'
  <1>1. PICK rest : Ended(rest)
    BY EndsOpened
  <1>2. /\ taker # NoOrder /\ taker \in Order /\ trades \in Seq(Trade)
        /\ command' = command /\ trades' = trades
        /\ command.order.id = taker.id /\ command.order.type = taker.type
        /\ command.order.initial = taker.initial
        /\ Traded(trades) + taker.remaining = taker.initial
        /\ trades # <<>> => taker.remaining < taker.initial
        /\ rest = IF taker.remaining > 0 /\ taker.type = "Limit" THEN taker.remaining ELSE 0
        /\ rest = Left(taker.id, queues', order_index')
        /\ taker.id \in DOMAIN order_index' <=> rest > 0
        /\ rest \in Nat /\ taker.remaining \in Nat /\ taker.initial \in Nat
    BY <1>1 DEF Ended, ExecInv, InWork
  <1>3. taker.id \in DOMAIN order_index' => get_order(command.order.id)'.remaining = rest
    BY <1>2 DEF get_order, Left
  <1>4. Traded(trades) \in Nat
    <2>1. PICK f, S : TradeSum(f, S, trades) /\ Traded(trades) = SumFunctionOnSet(f, S)
      BY <1>2, TradesSummed
    <2> QED BY <2>1, SumNat DEF TradeSum
  <1>5. CASE Refused
    <2>1. reply' = <<Line("REJECT", taker.id, 0)>> /\ trades' = <<>>
      BY <1>2, <1>5 DEF Refused
    <2>2. Len(reply') = 1 /\ 1 \in DOMAIN reply' /\ reply'[1].kind = "REJECT"
      BY <2>1 DEF Line
    <2> QED BY <2>1, <2>2 DEF Accounts
  <1>6. ASSUME Said("TRADE", reply') = Traded(trades), Said("ACK", reply') = rest,
               \A k \in DOMAIN reply' : reply'[k].kind # "REJECT",
               rest > 0 \/ trades # <<>>
        PROVE  Accounts(command.order)'
    <2>1. Quantity("TRADE")' = Traded(trades) /\ Quantity("ACK")' = rest
      BY <1>6, QuantitySaid
    <2>2. taker.type = "Limit" => Traded(trades) + rest = taker.initial
      BY <1>2, <1>4
    <2>3. taker.type = "Market" => Traded(trades) \in 1 .. taker.initial
      <3> SUFFICES ASSUME taker.type = "Market" PROVE Traded(trades) \in 1 .. taker.initial
        OBVIOUS
      <3>1. rest = 0 /\ trades # <<>>
        BY <1>2, <1>6
      <3> QED BY <1>2, <1>4, <3>1
    <2>4. IF taker.id \in DOMAIN order_index' THEN get_order(command.order.id)'.remaining = rest
          ELSE rest = 0
      BY <1>2, <1>3
    <2> QED BY <1>2, <1>6, <2>1, <2>2, <2>3, <2>4 DEF Accounts
  <1>7. CASE Acked(rest)
    BY <1>1, <1>6, <1>7, AckedSays DEF Acked
  <1>8. CASE OnlyTrades(rest)
    BY <1>1, <1>6, <1>8, OnlyTradesSays DEF OnlyTrades
  <1> QED BY <1>1, <1>5, <1>7, <1>8, EndedReply

\* From the reply to a new order the client can tell what became of every unit of
\* it: trades and rest add up, the rest is what the book holds, and a rejection
\* comes alone.
THEOREM RepliesAccount == ExecSpec => ReplyAccountsForOrder
  <1>1. ExecInv /\ [ExecNext]_execVars
            => [taker' = NoOrder /\ command'.type = "New" => Accounts(command.order)']_execVars
    <2> SUFFICES ASSUME ExecInv, ExecNext, taker' = NoOrder, command'.type = "New"
                 PROVE  Accounts(command.order)'
      OBVIOUS
    <2>1. ASSUME NEW o \in Submittable, NewRejected(o) PROVE Accounts(command.order)'
      <3>1. reply' = <<Line("REJECT", o.id, 0)>> /\ trades' = <<>>
        BY <2>1 DEF NewRejected, SubmitReject
      <3>2. Len(reply') = 1 /\ 1 \in DOMAIN reply' /\ reply'[1].kind = "REJECT"
        BY <3>1 DEF Line
      <3> QED BY <3>1, <3>2 DEF Accounts
    <2>2. ASSUME NEW o \in Submittable, NewBegins(o) PROVE FALSE
      <3>1. o \in Order /\ taker' = [o EXCEPT !.remaining = IF @ = 0 THEN o.initial ELSE @]
        BY <2>2 DEF NewBegins, SubmitAccept, Submittable
      <3>2. taker' \in Order
        BY <3>1 DEF Order
      <3> QED BY <3>2, NoOrderAssumption
    <2>3. CASE NewMatches
      <3>1. taker' \in Order
        BY <2>3, MatchInv DEF NewMatches, ExecInv
      <3> QED BY <3>1, NoOrderAssumption
    <2>4. CASE NewEnds
      BY <2>4, EndsAccount
    <2>5. ASSUME NEW id \in OrderIds, Cancel(id) PROVE FALSE
      <3>1. command'.type = "Cancel"
        BY <2>5 DEF Cancel
      <3> QED BY <3>1
    <2>6. CASE Flush
      <3>1. command'.type = "Flush"
        BY <2>6 DEF Flush
      <3> QED BY <3>1
    <2> QED
      BY <2>1, <2>2, <2>3, <2>4, <2>5, <2>6 DEF ExecNext
  <1> QED BY <1>1, ExecInvariance, PTL DEF ExecSpec, ReplyAccountsForOrder

=============================================================================
