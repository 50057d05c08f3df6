------------------------------ MODULE Workload ------------------------------
(***************************************************************************)
(* WorkloadGenerator::generate (include/workload.hpp) driving a book, as   *)
(* the differential test and the engine benchmark do: new limit orders,    *)
(* cancels of orders the generator takes for live, and market sweeps.  The *)
(* generator never looks at the book, so an action is applied here as soon *)
(* as it is drawn.                                                         *)
(*                                                                         *)
(* run_benchmark applies a part of the workload to warm up, clears the     *)
(* book and applies all of it again, with the same ids.  Here the second   *)
(* pass may be any workload.  A distribution is the set of values it can   *)
(* give; with every WorkloadType each kind of action has a share.          *)
(***************************************************************************)
EXTENDS StlOrderBook

CONSTANTS Count,          \* actions of one pass
          MidPrice,       \* mid_price
          Offsets,        \* what rounding the normal distribution may give
          MinPrice,       \* 100 in the code
          Lots,           \* values of qty_dist, 10 .. 500 in the code
          SmallestSweep   \* what a sweep of half a lot is if that is nothing

ASSUME WorkloadAssumption ==
    /\ Count \in Nat /\ OrderIds = 1 .. Count
    /\ MidPrice \in Nat /\ Offsets \subseteq Int /\ MinPrice \in Nat \ {0}
    /\ Lots \subseteq 1 .. MaxQuantity /\ SmallestSweep \in 1 .. MaxQuantity

VARIABLES
    pass,       \* "warmup" | "timed"
    i,          \* actions applied in this pass
    next_id,
    active,     \* active_order_ids
    placed,     \* history of the pass: limit order id -> its quantity
    cancelled,  \* history of the pass: ids that were cancelled
    traded      \* the driver's vector of trades, as quantity traded by id

generator == <<next_id, active>>
workloadVars == <<vars, pass, i, generator, placed, cancelled, traded>>

WorkloadInit ==
    /\ Init
    /\ pass = "warmup"
    /\ i = 0 /\ next_id = 1 /\ active = <<>>
    /\ placed = <<>> /\ cancelled = {} /\ traded = [id \in OrderIds |-> 0]

-----------------------------------------------------------------------------
(* generate                                                                *)

\* Faulty variant: the price is not kept away from zero.
LimitPriceFaulty(offset) == MidPrice + offset

LimitPrice(offset) == Max({MinPrice, MidPrice + offset})

ASSUME DrawnPricesAssumption ==
    /\ \A offset \in Offsets : LimitPrice(offset) \in Prices
    /\ 0 \in Prices   \* what a sweep carries

SweepQuantity(lot) == IF lot \div 2 = 0 THEN SmallestSweep ELSE lot \div 2

\* Faulty variant: the last id is removed and the chosen one stays.
SwapAndPopFaulty(ids, k) == Front(ids)

\* The ids without the one at k, whose place the last one takes.
SwapAndPop(ids, k) == Front([ids EXCEPT ![k] = Last(ids)])

NewOrder(side, type, price, quantity) ==
    [id |-> next_id, side |-> side, type |-> type, price |-> price,
     initial |-> quantity, remaining |-> quantity]

Draws == taker = NoOrder /\ i < Count /\ i' = i + 1 /\ UNCHANGED <<pass, traded>>

Submits(o) == SubmitReject(o) \/ SubmitAccept(o)

GenerateLimit == \E side \in Sides, offset \in Offsets, lot \in Lots :
    /\ Draws
    /\ Submits(NewOrder(side, "Limit", LimitPrice(offset), lot))
    /\ next_id' = next_id + 1
    /\ active' = Append(active, next_id)
    /\ placed' = MapPut(placed, next_id, lot)
    /\ UNCHANGED cancelled

GenerateCancel == \E k \in DOMAIN active :
    /\ Draws
    /\ CancelHit(active[k]) \/ CancelMiss(active[k])
    /\ active' = SwapAndPop(active, k)
    /\ cancelled' = cancelled \cup {active[k]}
    /\ UNCHANGED <<next_id, placed>>

\* Only when there is an active order, as for a cancel.
GenerateSweep == \E side \in Sides, lot \in Lots :
    /\ Draws
    /\ active # <<>>
    /\ Submits(NewOrder(side, "Market", 0, SweepQuantity(lot)))
    /\ next_id' = next_id + 1
    /\ UNCHANGED <<active, placed, cancelled>>

-----------------------------------------------------------------------------
(* run_benchmark                                                           *)

\* The trade is pushed to the trades of the run, which every call appends to.
Matches ==
    /\ MatchStep
    /\ LET trade == Last(trades')
       IN  traded' = [id \in OrderIds |-> traded[id] +
               IF id \in {trade.maker, trade.taker} THEN trade.quantity ELSE 0]
    /\ UNCHANGED <<pass, i, generator, placed, cancelled>>

Returns == FinishSubmit /\ UNCHANGED <<pass, i, generator, placed, cancelled, traded>>

\* engine.clear() and trades.clear() after a warmup of any length.
EndWarmup ==
    /\ pass = "warmup"
    /\ Clear
    /\ pass' = "timed"
    /\ i' = 0 /\ next_id' = 1 /\ active' = <<>>
    /\ placed' = <<>> /\ cancelled' = {} /\ traded' = [id \in OrderIds |-> 0]

\* The pass is over.
Over == pass = "timed" /\ i = Count /\ taker = NoOrder /\ UNCHANGED workloadVars

WorkloadNext ==
    \/ GenerateLimit \/ GenerateCancel \/ GenerateSweep
    \/ Matches \/ Returns \/ EndWarmup \/ Over

WorkloadSpec == WorkloadInit /\ [][WorkloadNext]_workloadVars

-----------------------------------------------------------------------------
(* Correctness                                                             *)

\* Every order of a workload is one the book accepts, in the warmup and again
\* with the same ids after clear(): none is refused for its id, its price or
\* its quantity, so a run measures matching and not early returns.
AllAccepted == [][next_id' > next_id => taker' # NoOrder]_workloadVars

\* The pool of active ids, after any mixture of pushes and swap-and-pop
\* removals, holds each limit order not yet cancelled once and nothing else:
\* no order is cancelled twice, none escapes, no market order is cancelled.
ActivePool ==
    /\ IsInjective(active)
    /\ Range(active) = DOMAIN placed \ cancelled

\* What id still has in the book.
InBook(id) == IF id \in DOMAIN order_index THEN get_order(id).remaining ELSE 0

\* Between actions every unit of every limit order is accounted for: traded, as
\* maker or as taker, resting, or cancelled.  Nothing of a cancelled order, and
\* nothing of a market order, rests.
EveryUnitAccounted ==
    taker = NoOrder =>
        /\ \A id \in DOMAIN placed \ cancelled : traded[id] + InBook(id) = placed[id]
        /\ \A id \in cancelled : traded[id] <= placed[id]
        /\ DOMAIN order_index \subseteq DOMAIN placed \ cancelled

\* The generator does not see fills.  A cancel it draws misses exactly when the
\* order has been filled completely.
CancelMissesOnlyFilled ==
    [][\A id \in cancelled' \ cancelled : ret' = (traded[id] < placed[id])]_workloadVars

=============================================================================
