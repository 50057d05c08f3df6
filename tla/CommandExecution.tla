-------------------------- MODULE CommandExecution --------------------------
(***************************************************************************)
(* TcpServer::execute_command (src/tcp_server.cpp): what the matching      *)
(* thread does with one command and what it reports to the client.  The    *)
(* book is the STL book: PoolOrderBook, which the gateway uses, implements *)
(* it, results included.  A report is kept as the numbers the formatting   *)
(* functions of src/protocol.cpp print, not as text.                       *)
(***************************************************************************)
EXTENDS MatchReference

VARIABLES command,  \* the command being executed, or the last one
          reply     \* the lines of its payload

execVars == <<vars, before, command, reply>>

Line(kind, id, quantity) == [kind |-> kind, id |-> id, quantity |-> quantity]

\* Faulty variant: the ACK repeats the quantity of the command.
RestLinesFaulty(o, rest) ==
    IF rest > 0 THEN <<Line("ACK", o.id, o.initial)>>
    ELSE IF trades = <<>> /\ o.type = "Market" THEN <<Line("REJECT", o.id, 0)>> ELSE <<>>

\* Faulty variant: a market order that met nothing is not mentioned.
RestLinesSilent(o, rest) == IF rest > 0 THEN <<Line("ACK", o.id, rest)>> ELSE <<>>

\* What follows the trades: ACK if the order rests, or REJECT if it was a
\* market order that met nothing.
RestLines(o, rest) ==
    IF rest > 0 THEN <<Line("ACK", o.id, rest)>>
    ELSE IF trades = <<>> /\ o.type = "Market" THEN <<Line("REJECT", o.id, 0)>> ELSE <<>>

ExecInit == Init /\ before = {} /\ command = [type |-> "None"] /\ reply = <<>>

NewRejected(o) ==
    /\ SubmitReject(o)
    /\ command' = [type |-> "New", order |-> o]
    /\ reply' = <<Line("REJECT", o.id, 0)>>

NewBegins(o) ==
    /\ SubmitAccept(o)
    /\ command' = [type |-> "New", order |-> o]
    /\ reply' = <<>>

NewMatches ==
    /\ MatchStep
    /\ UNCHANGED <<command, reply>>

NewEnds ==
    /\ FinishSubmit
    /\ UNCHANGED command
    /\ LET o    == command.order
           rest == IF o.id \in DOMAIN order_index' THEN get_order(o.id)'.remaining ELSE 0
       IN  reply' = [i \in DOMAIN trades |-> Line("TRADE", trades[i].maker, trades[i].quantity)]
                    \o RestLines(o, rest)

Cancel(id) ==
    /\ command' = [type |-> "Cancel", id |-> id]
    /\ \/ CancelHit(id)  /\ reply' = <<Line("CANCELED", id, 0)>>
       \/ CancelMiss(id) /\ reply' = <<Line("REJECT", id, 0)>>

Flush ==
    /\ Clear
    /\ command' = [type |-> "Flush"]
    /\ reply' = <<Line("INFO", NoOrder, 0)>>

\* execute_command puts no condition of its own on the order: it may be
\* any of Submittable, of which parse_line lets through a part.
ExecNext ==
    /\ \/ \E o \in Submittable : NewRejected(o) \/ NewBegins(o)
       \/ NewMatches
       \/ NewEnds
       \/ \E id \in OrderIds : Cancel(id)
       \/ Flush
    /\ Arrivals

ExecSpec == ExecInit /\ [][ExecNext]_execVars

-----------------------------------------------------------------------------
(* Correctness                                                             *)

\* Every command is answered: the step that ends one leaves a payload that is
\* not empty, so the test before the push to response_queue_ never drops a
\* reply.  A limit order that neither trades nor rests cannot exist.
NeverSilent == [][taker' = NoOrder => reply' # <<>>]_execVars

Quantity(kind) ==
    SumFunctionOnSet([i \in DOMAIN reply |-> reply[i].quantity],
                     {i \in DOMAIN reply : reply[i].kind = kind})

Accounts(o) ==
    IF \E i \in DOMAIN reply : reply[i].kind = "REJECT"
    THEN Len(reply) = 1 /\ trades = <<>>
    ELSE /\ o.type = "Limit"  => Quantity("TRADE") + Quantity("ACK") = o.initial
         /\ o.type = "Market" => Quantity("TRADE") \in 1 .. o.initial
         /\ IF o.id \in DOMAIN order_index
            THEN get_order(o.id).remaining = Quantity("ACK")
            ELSE Quantity("ACK") = 0

\* The client can account for its whole order from the reply: trades and
\* the acknowledged rest of a limit order add up to what it asked for and
\* the rest is what the book holds, a market order never rests, and a
\* rejection comes alone, after no trade.
ReplyAccountsForOrder ==
    [][taker' = NoOrder /\ command'.type = "New" => Accounts(command.order)']_execVars

=============================================================================
