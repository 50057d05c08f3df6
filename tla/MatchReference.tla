--------------------------- MODULE MatchReference ---------------------------
(***************************************************************************)
(* What the matching loop must compute, said without its lists and loops:  *)
(* the makers that an incoming order may trade with, their order by price  *)
(* and time of arrival, and how far its quantity reaches down that order.  *)
(***************************************************************************)
EXTENDS StlOrderBook

\* History: the pairs of ids of resting orders of which the first came to rest
\* earlier.
VARIABLE before

Arrivals ==
    LET stay == DOMAIN order_index \cap DOMAIN order_index'
        new  == DOMAIN order_index' \ DOMAIN order_index
    IN  before' = (before \cap (stay \X stay)) \cup (stay \X new)

\* Resting orders an incoming order may trade with.
Makers(order) ==
    LET opp == Opposite(order.side)
    IN  {o \in UNION {Range(queues[opp][p]) : p \in DOMAIN queues[opp]} :
             Crosses(order, o.price)}

\* The cheapest offer or the highest bid first, at one price the one that has
\* waited longest.
Precedes(o, r) ==
    \/ IF o.side = "Sell" THEN o.price < r.price ELSE o.price > r.price
    \/ o.price = r.price /\ <<o.id, r.id>> \in before

\* What the makers ahead of this one hold.
Ahead(order, maker) ==
    SumFunctionOnSet([o \in Makers(order) |-> o.remaining],
                     {o \in Makers(order) : Precedes(o, maker)})

Owed(order, maker) ==
    [maker     |-> maker.id,
     taker     |-> order.id,
     price     |-> maker.price,
     quantity  |-> Lesser(maker.remaining, order.remaining - Ahead(order, maker)),
     aggressor |-> order.side]

\* The trades still owed to the order being submitted.  A maker is reached when
\* those ahead of it hold less than the order wants.
OwedTrades ==
    IF taker = NoOrder THEN {}
    ELSE {Owed(taker, maker) :
              maker \in {o \in Makers(taker) : Ahead(taker, o) < taker.remaining}}

\* Price-time priority with partial fills: from the moment submit_order accepts
\* an order to its return, every step makes the trade that is owed with the
\* maker that precedes all others, and leaves the other owed trades as they
\* were; when a step makes no trade, none is owed.  A maker that was partly
\* filled, or rests behind cancelled ones, keeps its turn.
PriceTimePriority ==
    [][taker # NoOrder =>
          \/ OwedTrades = {} /\ UNCHANGED trades
          \/ \E maker \in Makers(taker) :
                /\ \A other \in Makers(taker) \ {maker} : Precedes(maker, other)
                /\ Owed(taker, maker) \in OwedTrades
                /\ trades' = Append(trades, Owed(taker, maker))
                /\ OwedTrades' = OwedTrades \ {Owed(taker, maker)}]_<<vars, before>>

=============================================================================
