------------------------------ MODULE Protocol ------------------------------
(***************************************************************************)
(* Protocol::parse_line (src/protocol.cpp) as a function from the tokens   *)
(* of a line to a command, and the command grammar of its comments.        *)
(*                                                                         *)
(* A token is what the parser can tell of it: a keyword (with its one-     *)
(* letter form), a number by the range it falls in, or anything else.      *)
(* OrderId and Price are uint64_t, Quantity is uint32_t: "wide" fits the   *)
(* first two only; a sign, a letter or more than 64 bits is "other".       *)
(***************************************************************************)
EXTENDS Naturals, Sequences

CONSTANT MaxTokens  \* bound: length of the lines examined

Tokens == {"NEW", "CANCEL", "FLUSH", "BUY", "SELL", "LIMIT", "MARKET",
           "zero", "small", "wide", "other"}

Number64 == {"zero", "small", "wide"}
Number32 == {"zero", "small"}

Unknown(why) == [type |-> "Unknown", error |-> why]

\* Faulty variant: a quantity of zero is let through.
QuantityTokensFaulty == Number32

\* What a NEW command may have as its quantity.
QuantityTokens == Number32 \ {"zero"}

ParseNew(tokens) ==
    IF Len(tokens) < 5 THEN Unknown("INVALID_NEW_FORMAT")
    ELSE IF tokens[2] \notin {"BUY", "SELL"} THEN Unknown("INVALID_SIDE")
    ELSE IF tokens[3] \notin Number64 \ {"zero"} THEN Unknown("INVALID_ORDER_ID")
    ELSE IF tokens[4] \notin Number64 THEN Unknown("INVALID_PRICE")
    ELSE IF tokens[5] \notin QuantityTokens THEN Unknown("INVALID_QUANTITY")
    ELSE [type |-> "New", side |-> tokens[2], id |-> tokens[3],
          price |-> tokens[4], quantity |-> tokens[5],
          order_type |-> IF Len(tokens) >= 6 /\ tokens[6] = "MARKET"
                         THEN "MARKET" ELSE "LIMIT"]

ParseCancel(tokens) ==
    IF Len(tokens) < 2 THEN Unknown("INVALID_CANCEL_FORMAT")
    ELSE IF tokens[2] \notin Number64 \ {"zero"} THEN Unknown("INVALID_ORDER_ID")
    ELSE [type |-> "Cancel", id |-> tokens[2]]

parse_line(tokens) ==
    IF tokens = <<>> THEN Unknown("EMPTY_COMMAND")
    ELSE CASE tokens[1] = "NEW"    -> ParseNew(tokens)
           [] tokens[1] = "CANCEL" -> ParseCancel(tokens)
           [] tokens[1] = "FLUSH"  -> [type |-> "Flush"]
           [] OTHER                -> Unknown("UNKNOWN_COMMAND")

-----------------------------------------------------------------------------
(* The grammar of the comments: NEW <SIDE> <ORDER_ID> <PRICE> <QTY>        *)
(* [LIMIT|MARKET], CANCEL <ORDER_ID>, FLUSH; each with what it means.      *)

Id == {"small", "wide"}
NewMeanings == [type : {"New"}, side : {"BUY", "SELL"}, id : Id, price : Number64,
                quantity : {"small"}, order_type : {"LIMIT", "MARKET"}]

\* The lines that say m, in full or with LIMIT left out.
Spellings(m) ==
    CASE m.type = "Flush"  -> {<<"FLUSH">>}
      [] m.type = "Cancel" -> {<<"CANCEL", m.id>>}
      [] m.type = "New" ->
            LET short == <<"NEW", m.side, m.id, m.price, m.quantity>>
            IN  {Append(short, m.order_type)}
                    \cup (IF m.order_type = "LIMIT" THEN {short} ELSE {})

Meanings == NewMeanings \cup [type : {"Cancel"}, id : Id] \cup {[type |-> "Flush"]}
Documented == UNION {Spellings(m) : m \in Meanings}

-----------------------------------------------------------------------------
(* Every line of up to MaxTokens tokens, token by token                    *)

VARIABLE line

Init == line = <<>>

Extend(token) == Len(line) < MaxTokens /\ line' = Append(line, token)

Next == \E token \in Tokens : Extend(token)

Spec == Init /\ [][Next]_line

\* parse_line reads the longest documented command a line begins with, gives
\* it the documented meaning and looks at nothing after it; a line that begins
\* with none is refused, whichever token is at fault.
ReadsLongestCommand ==
    LET starts == {n \in 0 .. Len(line) : SubSeq(line, 1, n) \in Documented}
        parsed == parse_line(line)
    IN  IF starts = {} THEN parsed.type = "Unknown"
        ELSE LET n == CHOOSE k \in starts : \A j \in starts : j <= k
             IN  /\ parsed \in Meanings
                 /\ SubSeq(line, 1, n) \in Spellings(parsed)

\* "Expected format: NEW <SIDE> <ORDER_ID> <PRICE> <QTY> [LIMIT|MARKET]": a
\* line is accepted only if it has that form (or that of CANCEL or FLUSH).
OnlyDocumentedAccepted == parse_line(line).type # "Unknown" => line \in Documented

=============================================================================
