--------------------------- MODULE PipelineProofs ---------------------------
(***************************************************************************)
(* Proofs about the two-thread pipelines: whatever the number of actions,  *)
(* the capacity, the batch sizes and the window, the window is kept and    *)
(* every action is executed once and in order.                             *)
(***************************************************************************)
EXTENDS Pipeline, TLAPS

Act == 1 .. Count

\* The domains, with the thread positions.
Types ==
    /\ closed \in BOOLEAN /\ window \in Nat \ {0} /\ window \in Windows
    /\ ingest \in {"credit", "push", "rest", "ended"}
    /\ match \in {"test", "pop", "execute", "ended"}
    /\ i \in 0 .. Count /\ in_flight \in Nat /\ producer_done \in BOOLEAN
    /\ ingress \in Seq(Act) /\ batch \in Seq(Act) /\ completions \in Seq(Act)
    /\ acks \in Seq(Act) /\ executed \in Seq(Act)

\* Executed commands, the batch and the ingress queue are, end to end, the
\* first i actions.
Positions ==
    /\ i = Len(executed) + Len(batch) + Len(ingress)
    /\ \A k \in 1 .. Len(executed) : executed[k] = k
    /\ \A k \in 1 .. Len(batch) : batch[k] = Len(executed) + k
    /\ \A k \in 1 .. Len(ingress) : ingress[k] = Len(executed) + Len(batch) + k

\* Where the threads are says how far they are.
Progress ==
    /\ ingest \in {"credit", "push"} => i < Count
    /\ ingest \in {"rest", "ended"} => i = Count
    /\ producer_done => ingest = "ended"
    /\ match = "execute" <=> batch # <<>>
    /\ match = "ended" => producer_done /\ ingress = <<>>

\* The credit: the one spent by a granted push is still to be counted.
Credit ==
    closed => /\ in_flight = Len(ingress) + Len(batch) + Len(completions)
              /\ in_flight <= window
              /\ ingest = "push" => in_flight < window

IndInv == Types /\ Positions /\ Progress /\ Credit

\* Pipeline's constants.
LEMMA ConstantFacts == /\ Count \in Nat /\ Capacity \in Nat \ {0}
                       /\ MaxBatch \in Nat \ {0} /\ MaxAcks \in Nat \ {0}
                       /\ Windows \subseteq Nat \ {0}
  BY PipelineAssumption

\* What Take gives: the first n items, and the others.
LEMMA Cut == ASSUME NEW S, NEW q \in Seq(S), NEW n \in 0 .. Len(q)
             PROVE  /\ SubSeq(q, 1, n) \in Seq(S) /\ Len(SubSeq(q, 1, n)) = n
                    /\ \A k \in 1 .. n : SubSeq(q, 1, n)[k] = q[k]
                    /\ SubSeq(q, n + 1, Len(q)) \in Seq(S)
                    /\ Len(SubSeq(q, n + 1, Len(q))) = Len(q) - n
                    /\ \A k \in 1 .. Len(q) - n : SubSeq(q, n + 1, Len(q))[k] = q[n + k]
  OBVIOUS

\* Init makes the invariant true.
LEMMA InitInv == Init => IndInv
  <1> SUFFICES ASSUME Init PROVE IndInv
    OBVIOUS
  <1> USE ConstantFacts DEF Init, Continue
  <1>1. Types
    <2>1. <<>> \in Seq(Act)
      OBVIOUS
    <2>2. window \in Nat \ {0} /\ 0 \in 0 .. Count
      BY ConstantFacts
    <2> QED BY <2>1, <2>2 DEF Types
  <1>2. Positions BY DEF Positions
  <1>3. Progress BY DEF Progress
  <1>4. Credit BY DEF Credit
  <1> QED BY <1>1, <1>2, <1>3, <1>4 DEF IndInv

\* drain_completions takes as many completions as it takes off the credit, and
\* there are never fewer unacknowledged commands than completions.
LEMMA DrainInv ==
  ASSUME IndInv, closed, drain_completions,
         UNCHANGED <<closed, window, ingest, i, producer_done, matchVars, ingress, batch>>
  PROVE  IndInv'
  <1> USE ConstantFacts
  <1>1. PICK n \in 1 .. MaxAcks : /\ n <= Len(completions)
                                  /\ acks' = SubSeq(completions, 1, n)
                                  /\ completions' = SubSeq(completions, n + 1, Len(completions))
                                  /\ in_flight' = in_flight - n
    BY DEF drain_completions, Completions!Take
  <1>2. /\ acks' \in Seq(Act) /\ completions' \in Seq(Act)
        /\ Len(completions') = Len(completions) - n
    <2>1. completions \in Seq(Act) /\ n \in 0 .. Len(completions)
      BY <1>1 DEF IndInv, Types
    <2> QED BY <1>1, <2>1, Cut
  <1>3. in_flight' \in Nat
    <2>1. in_flight = Len(ingress) + Len(batch) + Len(completions)
      BY DEF IndInv, Credit
    <2>2. Len(ingress) \in Nat /\ Len(batch) \in Nat /\ Len(completions) \in Nat
      BY DEF IndInv, Types
    <2> QED BY <1>1, <2>1, <2>2
  <1>4. Types' BY <1>1, <1>2, <1>3 DEF IndInv, Types, matchVars
  <1>5. Positions' BY DEF IndInv, Positions, matchVars
  <1>6. Progress' BY DEF IndInv, Progress, matchVars
  <1>7. Credit'
    <2>1. Len(completions) \in Nat /\ Len(ingress) \in Nat /\ Len(batch) \in Nat
          /\ in_flight \in Nat /\ window \in Nat
      BY DEF IndInv, Types
    <2>2. Len(ingress') = Len(ingress) /\ Len(batch') = Len(batch)
          /\ closed' = closed /\ window' = window /\ ingest' = ingest
      OBVIOUS
    <2>3. /\ in_flight = Len(ingress) + Len(batch) + Len(completions)
          /\ in_flight <= window
          /\ ingest = "push" => in_flight < window
      BY DEF IndInv, Credit
    <2>4. n \in Nat /\ n >= 1 /\ in_flight' = in_flight - n
      BY <1>1
    <2>5. in_flight' <= in_flight /\ in_flight' = Len(ingress') + Len(batch') + Len(completions')
      BY <1>2, <2>1, <2>2, <2>3, <2>4
    <2> QED BY <1>3, <2>1, <2>2, <2>3, <2>5 DEF Credit
  <1> QED BY <1>4, <1>5, <1>6, <1>7 DEF IndInv

\* A push extends the actions under way by the next one.
LEMMA PushInv == IndInv /\ Push => IndInv'
  <1> SUFFICES ASSUME IndInv, Push PROVE IndInv'
    OBVIOUS
  <1> USE ConstantFacts
  <1>1. /\ ingest = "push" /\ ingress' = Append(ingress, i + 1) /\ i' = i + 1
        /\ in_flight' = IF closed THEN in_flight + 1 ELSE in_flight
        /\ ingest' = Continue(i + 1)
        /\ UNCHANGED <<closed, window, producer_done, match, executed, batch, completions, acks>>
    BY DEF Push, Ingress!Put, matchVars
  <1>2. /\ i \in Nat /\ i < Count /\ i + 1 \in Act
        /\ ingress \in Seq(Act) /\ batch \in Seq(Act) /\ executed \in Seq(Act)
        /\ completions \in Seq(Act)
        /\ Len(ingress) \in Nat /\ Len(batch) \in Nat /\ Len(executed) \in Nat
        /\ Len(completions) \in Nat
    BY <1>1 DEF IndInv, Types, Progress, Act
  <1>3. /\ ingress' \in Seq(Act) /\ Len(ingress') = Len(ingress) + 1
        /\ \A k \in 1 .. Len(ingress) : ingress'[k] = ingress[k]
        /\ ingress'[Len(ingress) + 1] = i + 1
    BY <1>1, <1>2
  <1>4. Types' BY <1>1, <1>2, <1>3 DEF IndInv, Types, Continue
  <1>5. Positions'
    <2>1. i' = Len(executed') + Len(batch') + Len(ingress')
      BY <1>1, <1>2, <1>3 DEF IndInv, Positions
    <2>2. \A k \in 1 .. Len(ingress') : ingress'[k] = Len(executed) + Len(batch) + k
      <3> TAKE k \in 1 .. Len(ingress')
      <3>1. /\ i = Len(executed) + Len(batch) + Len(ingress)
            /\ \A l \in 1 .. Len(ingress) : ingress[l] = Len(executed) + Len(batch) + l
        BY DEF IndInv, Positions
      <3>2. CASE k \in 1 .. Len(ingress)
        BY <3>1, <3>2, <1>3
      <3>3. CASE k = Len(ingress) + 1
        BY <3>1, <3>3, <1>2, <1>3
      <3> QED BY <3>2, <3>3, <1>2, <1>3
    <2> QED BY <1>1, <2>1, <2>2 DEF IndInv, Positions
  <1>6. Progress'
    <2>1. ~producer_done /\ match # "ended"
      BY <1>1 DEF IndInv, Progress
    <2> QED BY <1>1, <1>2, <2>1 DEF IndInv, Progress, Continue
  <1>7. Credit' BY <1>1, <1>2, <1>3 DEF IndInv, Types, Credit, Continue
  <1> QED BY <1>4, <1>5, <1>6, <1>7 DEF IndInv

\* A pop moves the front of the ingress queue to the empty batch.
LEMMA PopInv == IndInv /\ PopCommands => IndInv'
  <1> SUFFICES ASSUME IndInv, PopCommands PROVE IndInv'
    OBVIOUS
  <1> USE ConstantFacts
  <1>1. PICK n \in 0 .. MaxBatch :
            /\ n <= Len(ingress)
            /\ batch' = SubSeq(ingress, 1, n)
            /\ ingress' = SubSeq(ingress, n + 1, Len(ingress))
            /\ match' = IF n = 0 THEN "test" ELSE "execute"
    BY DEF PopCommands, Ingress!Take
  <1>2. /\ match = "pop"
        /\ UNCHANGED <<closed, window, ingest, i, in_flight, producer_done, executed,
                       completions, acks>>
    BY DEF PopCommands, ingestVars
  <1>3. /\ batch = <<>> /\ Len(batch) = 0 /\ ingress \in Seq(Act) /\ n \in 0 .. Len(ingress)
        /\ Len(ingress) \in Nat /\ Len(executed) \in Nat /\ Len(completions) \in Nat
    BY <1>1, <1>2 DEF IndInv, Types, Progress
  <1>4. /\ batch' \in Seq(Act) /\ Len(batch') = n
        /\ \A k \in 1 .. n : batch'[k] = ingress[k]
        /\ ingress' \in Seq(Act) /\ Len(ingress') = Len(ingress) - n
        /\ \A k \in 1 .. Len(ingress) - n : ingress'[k] = ingress[n + k]
    <2>1. /\ SubSeq(ingress, 1, n) \in Seq(Act) /\ Len(SubSeq(ingress, 1, n)) = n
          /\ \A k \in 1 .. n : SubSeq(ingress, 1, n)[k] = ingress[k]
          /\ SubSeq(ingress, n + 1, Len(ingress)) \in Seq(Act)
          /\ Len(SubSeq(ingress, n + 1, Len(ingress))) = Len(ingress) - n
          /\ \A k \in 1 .. Len(ingress) - n :
                SubSeq(ingress, n + 1, Len(ingress))[k] = ingress[n + k]
      BY <1>3, Cut
    <2> QED BY <1>1, <2>1
  <1>5. Types' BY <1>1, <1>2, <1>4 DEF IndInv, Types
  <1>6. Positions'
    <2>1. i' = Len(executed') + Len(batch') + Len(ingress')
      BY <1>2, <1>3, <1>4 DEF IndInv, Positions
    <2>2. \A k \in 1 .. Len(batch') : batch'[k] = Len(executed) + k
      <3> TAKE k \in 1 .. Len(batch')
      <3>1. k \in 1 .. n /\ k \in 1 .. Len(ingress)
        BY <1>3, <1>4
      <3>2. ingress[k] = Len(executed) + Len(batch) + k
        BY <3>1 DEF IndInv, Positions
      <3> QED BY <3>1, <3>2, <1>3, <1>4
    <2>3. \A k \in 1 .. Len(ingress') : ingress'[k] = Len(executed) + Len(batch') + k
      <3> TAKE k \in 1 .. Len(ingress')
      <3>1. n + k \in 1 .. Len(ingress) /\ k \in 1 .. Len(ingress) - n
        BY <1>3, <1>4
      <3>2. ingress[n + k] = Len(executed) + Len(batch) + (n + k)
        BY <3>1 DEF IndInv, Positions
      <3> QED BY <3>1, <3>2, <1>3, <1>4
    <2> QED BY <1>2, <2>1, <2>2, <2>3 DEF IndInv, Positions
  <1>7. Progress'
    <2>1. batch' # <<>> <=> n # 0
      BY <1>3, <1>4
    <2> QED BY <1>1, <1>2, <1>3, <2>1 DEF IndInv, Progress
  <1>8. Credit' BY <1>2, <1>3, <1>4 DEF IndInv, Types, Credit
  <1> QED BY <1>5, <1>6, <1>7, <1>8 DEF IndInv

\* Executing a command moves it from the batch to the history and, in the
\* closed loop, to the completions.
LEMMA ExecuteInv == IndInv /\ Execute => IndInv'
  <1> SUFFICES ASSUME IndInv, Execute PROVE IndInv'
    OBVIOUS
  <1> USE ConstantFacts
  <1>1. /\ match = "execute" /\ executed' = Append(executed, Head(batch))
        /\ batch' = Tail(batch)
        /\ match' = IF Len(batch) = 1 THEN "test" ELSE "execute"
        /\ IF closed THEN completions' = Append(completions, Head(batch)) /\ acks' = acks
                     ELSE UNCHANGED <<completions, acks>>
        /\ UNCHANGED <<closed, window, ingest, i, in_flight, producer_done, ingress>>
    BY DEF Execute, Completions!Put, ingestVars
  <1>2. /\ batch \in Seq(Act) /\ executed \in Seq(Act) /\ completions \in Seq(Act)
        /\ ingress \in Seq(Act) /\ batch # <<>>
    BY <1>1 DEF IndInv, Types, Progress
  <1>3. /\ Len(batch) \in Nat /\ Len(batch) >= 1 /\ Len(executed) \in Nat
        /\ Len(completions) \in Nat /\ Len(ingress) \in Nat
        /\ Head(batch) \in Act /\ Head(batch) = batch[1]
    BY <1>2
  <1>4. /\ batch' \in Seq(Act) /\ Len(batch') = Len(batch) - 1
        /\ \A k \in 1 .. Len(batch) - 1 : batch'[k] = batch[k + 1]
    BY <1>1, <1>2
  <1>5. /\ executed' \in Seq(Act) /\ Len(executed') = Len(executed) + 1
        /\ \A k \in 1 .. Len(executed) : executed'[k] = executed[k]
        /\ executed'[Len(executed) + 1] = batch[1]
    BY <1>1, <1>2, <1>3
  <1>6. /\ completions' \in Seq(Act) /\ acks' \in Seq(Act)
        /\ closed => Len(completions') = Len(completions) + 1
    <2>1. acks \in Seq(Act)
      BY DEF IndInv, Types
    <2>2. /\ Append(completions, Head(batch)) \in Seq(Act)
          /\ Len(Append(completions, Head(batch))) = Len(completions) + 1
      BY <1>2, <1>3
    <2>3. CASE closed
      BY <1>1, <2>1, <2>2, <2>3
    <2>4. CASE ~closed
      BY <1>1, <1>2, <2>1, <2>4
    <2> QED BY <2>3, <2>4
  <1>7. Types' BY <1>1, <1>4, <1>5, <1>6 DEF IndInv, Types
  <1>8. Positions'
    <2>1. i' = Len(executed') + Len(batch') + Len(ingress')
      BY <1>1, <1>3, <1>4, <1>5 DEF IndInv, Positions
    <2>2. \A k \in 1 .. Len(executed') : executed'[k] = k
      <3>1. batch[1] = Len(executed) + 1
        BY <1>3 DEF IndInv, Positions
      <3>2. \A k \in 1 .. Len(executed) : executed[k] = k
        BY DEF IndInv, Positions
      <3> QED BY <3>1, <3>2, <1>3, <1>5
    <2>3. \A k \in 1 .. Len(batch') : batch'[k] = Len(executed') + k
      <3> TAKE k \in 1 .. Len(batch')
      <3>1. k + 1 \in 1 .. Len(batch) /\ k \in 1 .. Len(batch) - 1
        BY <1>3, <1>4
      <3>2. batch[k + 1] = Len(executed) + (k + 1)
        BY <3>1 DEF IndInv, Positions
      <3> QED BY <3>1, <3>2, <1>3, <1>4, <1>5
    <2>4. \A k \in 1 .. Len(ingress') : ingress'[k] = Len(executed') + Len(batch') + k
      BY <1>1, <1>3, <1>4, <1>5 DEF IndInv, Positions
    <2> QED BY <2>1, <2>2, <2>3, <2>4 DEF Positions
  <1>9. Progress'
    <2>1. batch' # <<>> <=> Len(batch) # 1
      BY <1>3, <1>4
    <2> QED BY <1>1, <2>1 DEF IndInv, Progress
  <1>10. Credit'
    <2> SUFFICES ASSUME closed
                 PROVE  /\ in_flight = Len(ingress) + Len(batch') + Len(completions')
                        /\ in_flight <= window
                        /\ ingest = "push" => in_flight < window
      BY <1>1 DEF Credit
    <2>1. Len(completions') = Len(completions) + 1 /\ Len(batch') = Len(batch) - 1
      BY <1>4, <1>6
    <2> QED BY <2>1, <1>3 DEF IndInv, Credit
  <1> QED BY <1>7, <1>8, <1>9, <1>10 DEF IndInv

\* Every step keeps the invariant.
LEMMA StepInv == IndInv /\ [Next]_vars => IndInv'
  <1> SUFFICES ASSUME IndInv, [Next]_vars PROVE IndInv'
    OBVIOUS
  <1> USE ConstantFacts
  <1>1. CASE wait_for_credit
    BY <1>1, DrainInv DEF wait_for_credit, HasCredit
  <1>2. CASE CreditGranted
    <2>1. closed => in_flight < window
      BY <1>2 DEF CreditGranted, HasCredit
    <2> QED BY <1>2, <2>1 DEF CreditGranted, IndInv, Types, Positions, Progress, Credit, matchVars
  <1>3. CASE Push
    BY <1>3, PushInv
  <1>4. CASE PushRetry
    BY <1>4, DrainInv DEF PushRetry
  <1>5. CASE LastAcks
    BY <1>5, DrainInv DEF LastAcks
  <1>6. CASE ProducerDone
    BY <1>6 DEF ProducerDone, IndInv, Types, Positions, Progress, Credit, matchVars
  <1>7. CASE TestDone
    BY <1>7 DEF TestDone, IndInv, Types, Positions, Progress, Credit, ingestVars
  <1>8. CASE PopCommands
    BY <1>8, PopInv
  <1>9. CASE Execute
    BY <1>9, ExecuteInv
  <1>10. CASE UNCHANGED vars
    BY <1>10 DEF vars, ingestVars, matchVars, IndInv, Types, Positions, Progress, Credit
  <1> QED BY <1>1, <1>2, <1>3, <1>4, <1>5, <1>6, <1>7, <1>8, <1>9, <1>10
          DEF Next, Ingest, Matching, Joined

\* The inductive invariant holds in every reachable state of the benchmark.
THEOREM PipelineInvariance == Spec => []IndInv
  <1> QED BY InitInv, StepInv, PTL DEF Spec

\* Counters and queues keep their types.
THEOREM PipelineTypes == Spec => []TypeOK
  <1>1. IndInv => TypeOK
    BY DEF IndInv, Types, TypeOK, Act
  <1> QED BY <1>1, PipelineInvariance, PTL

\* "ingest thread may have at most `window` unacked commands", and in_flight
\* counts them exactly.
THEOREM WindowKept == Spec => []UnackedWithinWindow
  <1>1. IndInv => UnackedWithinWindow
    BY DEF IndInv, Credit, UnackedWithinWindow
  <1> QED BY <1>1, PipelineInvariance, PTL

\* With a window no larger than the rings neither thread meets a full one.
THEOREM WindowFitsQueues == Spec => []NeverFull
  <1>1. IndInv => NeverFull
    <2> SUFFICES ASSUME IndInv, closed, window <= Capacity
                 PROVE  /\ ingest = "push" => Len(ingress) < Capacity
                        /\ match = "execute" => Len(completions) < Capacity
      BY DEF NeverFull
    <2>1. /\ Len(ingress) \in Nat /\ Len(batch) \in Nat /\ Len(completions) \in Nat
          /\ window \in Nat /\ Capacity \in Nat
          /\ in_flight = Len(ingress) + Len(batch) + Len(completions)
          /\ in_flight <= window
          /\ ingest = "push" => in_flight < window
      BY PipelineAssumption DEF IndInv, Types, Credit
    <2>2. match = "execute" => Len(batch) >= 1
      BY DEF IndInv, Types, Progress
    <2> QED BY <2>1, <2>2
  <1> QED BY <1>1, PipelineInvariance, PTL

\* When the matching thread has left its loop, the book has seen the whole
\* workload, each action once and in order.
THEOREM ExecutedInOrder == Spec => []AllExecutedInOrder
  <1>1. IndInv => AllExecutedInOrder
    <2> SUFFICES ASSUME IndInv, match = "ended"
                 PROVE  ingest = "ended" /\ executed = [k \in 1 .. Count |-> k]
      BY DEF AllExecutedInOrder
    <2>1. ingest = "ended" /\ i = Count /\ ingress = <<>> /\ batch = <<>>
      BY DEF IndInv, Progress
    <2>2. executed \in Seq(Act) /\ Len(executed) \in Nat /\ Len(executed) = Count
      BY <2>1 DEF IndInv, Types, Positions
    <2>3. \A k \in 1 .. Count : executed[k] = k
      BY <2>2 DEF IndInv, Positions
    <2>4. executed = [k \in 1 .. Len(executed) |-> executed[k]]
      BY <2>2
    <2>5. executed = [k \in 1 .. Count |-> k]
      BY <2>2, <2>3, <2>4
    <2> QED BY <2>1, <2>5
  <1> QED BY <1>1, PipelineInvariance, PTL

=============================================================================
