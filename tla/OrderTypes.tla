----------------------------- MODULE OrderTypes -----------------------------
(***************************************************************************)
(* The values the order books are built from (include/types.hpp) and the   *)
(* two std::map operations the books use on them.                          *)
(*                                                                         *)
(* An Order keeps what matching looks at.  The timestamp is left out:      *)
(* neither book reads it, time priority comes from list position alone.    *)
(***************************************************************************)
EXTENDS Integers, FiniteSets

CONSTANTS OrderIds,     \* order ids clients use
          Prices,       \* prices in ticks; 0 is what a market order carries
          MaxQuantity,  \* largest quantity of one order
          QuantityMod,  \* Quantity is a uint32_t: 2^32 in the code
          NoOrder       \* "no order is being submitted"

ASSUME OrderTypesAssumption ==
    /\ Prices \subseteq Nat /\ IsFiniteSet(Prices)   \* a uint64_t
    /\ MaxQuantity \in Nat \ {0}
    /\ QuantityMod \in Nat
    /\ MaxQuantity < QuantityMod

Sides == {"Buy", "Sell"}

Opposite(side) == IF side = "Buy" THEN "Sell" ELSE "Buy"

Quantities == 0 .. MaxQuantity

Order == [id : OrderIds, side : Sides, type : {"Limit", "Market"},
          price : Prices, initial : Quantities, remaining : Quantities]

ASSUME NoOrderAssumption == NoOrder \notin Order

Trade == [maker : OrderIds, taker : OrderIds, price : Prices,
          quantity : Quantities, aggressor : Sides]

\* Orders as callers build them: parse_line sets remaining to the quantity,
\* and a caller that leaves it out passes 0.
Submittable == {o \in Order : o.remaining \in {0, o.initial}}

\* Faulty variant: std::max for std::min.
LesserFaulty(a, b) == IF a < b THEN b ELSE a

Lesser(a, b) == IF a < b THEN a ELSE b

-----------------------------------------------------------------------------
(* Price priority.  bids_ is ordered by std::greater, asks_ by std::less,  *)
(* so begin() is the highest bid or the lowest ask.                        *)

Better(side, p, q) == IF side = "Buy" THEN p > q ELSE p < q

BestPrice(side, levels) ==
    CHOOSE p \in levels : \A q \in levels \ {p} : Better(side, p, q)

\* Faulty variant: equal prices do not trade.
CrossesFaulty(order, p) ==
    \/ order.type = "Market"
    \/ IF order.side = "Buy" THEN order.price > p ELSE order.price < p

\* May this incoming order trade at resting price p?
Crosses(order, p) ==
    \/ order.type = "Market"
    \/ IF order.side = "Buy" THEN order.price >= p ELSE order.price <= p

-----------------------------------------------------------------------------
(* operator[] / assignment and erase of std::map and std::unordered_map.   *)

MapPut(map, key, value) ==
    [k \in DOMAIN map \cup {key} |-> IF k = key THEN value ELSE map[k]]

MapErase(map, key) == [k \in DOMAIN map \ {key} |-> map[k]]

=============================================================================
