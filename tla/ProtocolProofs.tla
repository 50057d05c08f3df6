--------------------------- MODULE ProtocolProofs ---------------------------
(***************************************************************************)
(* Proofs about parse_line: what it makes of a line of any length is what  *)
(* the grammar of its comments says.                                       *)
(***************************************************************************)
EXTENDS Protocol, TLAPS

\* The tokens of a NEW line up to its quantity.
NewTokens(s) ==
    /\ s[1] = "NEW" /\ s[2] \in {"BUY", "SELL"} /\ s[3] \in Id /\ s[4] \in Number64
    /\ s[5] = "small"

\* The lengths at which a line has a command at its start.
CommandEnds(s, n) ==
    \/ n = 1 /\ s[1] = "FLUSH"
    \/ n = 2 /\ s[1] = "CANCEL" /\ s[2] \in Id
    \/ n = 5 /\ NewTokens(s)
    \/ n = 6 /\ NewTokens(s) /\ s[6] \in {"LIMIT", "MARKET"}

\* The documented commands, token by token.
LEMMA DocumentedTokens ==
    ASSUME NEW s \in Seq(Tokens)
    PROVE  s \in Documented <=> CommandEnds(s, Len(s))
  <1>1. s = <<"FLUSH">> <=> Len(s) = 1 /\ s[1] = "FLUSH"
    OBVIOUS
  <1>2. ASSUME NEW id PROVE s = <<"CANCEL", id>> <=> Len(s) = 2 /\ s[1] = "CANCEL" /\ s[2] = id
    OBVIOUS
  <1> DEFINE short(m) == <<"NEW", m.side, m.id, m.price, m.quantity>>
             five(m)  == /\ s[1] = "NEW" /\ s[2] = m.side /\ s[3] = m.id /\ s[4] = m.price
                         /\ s[5] = m.quantity
  <1>3. ASSUME NEW m PROVE s = short(m) <=> Len(s) = 5 /\ five(m)
    OBVIOUS
  <1>4. ASSUME NEW m PROVE s = Append(short(m), m.order_type) <=> Len(s) = 6 /\ five(m) /\ s[6] = m.order_type
    OBVIOUS
  <1>5. s \in Documented <=> \E m \in Meanings : s \in Spellings(m)
    BY Zenon DEF Documented
  <1>6. (\E m \in [type : {"Cancel"}, id : Id] : s \in Spellings(m))
            <=> \E id \in Id : s = <<"CANCEL", id>>
    <2>1. ASSUME NEW m \in [type : {"Cancel"}, id : Id] PROVE Spellings(m) = {<<"CANCEL", m.id>>} /\ m.id \in Id
      BY DEF Spellings
    <2>2. ASSUME NEW id \in Id PROVE \E m \in [type : {"Cancel"}, id : Id] : m.id = id
      <3>1. [type |-> "Cancel", id |-> id] \in [type : {"Cancel"}, id : Id]
        OBVIOUS
      <3> QED BY <3>1
    <2> QED BY <2>1, <2>2
  <1>7. Spellings([type |-> "Flush"]) = {<<"FLUSH">>}
    BY DEF Spellings
  <1>8. ASSUME NEW m \in NewMeanings
        PROVE  s \in Spellings(m)
                    <=> \/ s = Append(short(m), m.order_type)
                        \/ m.order_type = "LIMIT" /\ s = short(m)
    <2>1. m.type = "New"
      BY DEF NewMeanings
    <2> QED BY <2>1 DEF Spellings
  <1>9. (\E m \in NewMeanings : s \in Spellings(m))
            <=> \/ Len(s) = 5 /\ NewTokens(s)
                \/ Len(s) = 6 /\ NewTokens(s) /\ s[6] \in {"LIMIT", "MARKET"}
    <2>1. ASSUME NEW m \in NewMeanings, s \in Spellings(m)
          PROVE  \/ Len(s) = 5 /\ NewTokens(s)
                 \/ Len(s) = 6 /\ NewTokens(s) /\ s[6] \in {"LIMIT", "MARKET"}
      <3>1. /\ m.side \in {"BUY", "SELL"} /\ m.id \in Id /\ m.price \in Number64
            /\ m.quantity = "small" /\ m.order_type \in {"LIMIT", "MARKET"}
        BY DEF NewMeanings
      <3>2. five(m) => NewTokens(s)
        BY <3>1 DEF NewTokens
      <3> QED BY <1>3, <1>4, <1>8, <2>1, <3>1, <3>2
    <2>2. ASSUME NewTokens(s), NEW type \in {"LIMIT", "MARKET"}
          PROVE  \E m \in NewMeanings : five(m) /\ m.order_type = type
      <3> DEFINE m == [type |-> "New", side |-> s[2], id |-> s[3], price |-> s[4],
                       quantity |-> "small", order_type |-> type]
      <3>1. m \in NewMeanings
        BY <2>2 DEF NewMeanings, NewTokens
      <3>2. five(m) /\ m.order_type = type
        BY <2>2 DEF NewTokens
      <3> QED BY <3>1, <3>2
    <2>3. ASSUME Len(s) = 5, NewTokens(s) PROVE \E m \in NewMeanings : s \in Spellings(m)
      <3>1. PICK m \in NewMeanings : five(m) /\ m.order_type = "LIMIT"
        BY <2>2, <2>3
      <3>2. s = short(m)
        BY <1>3, <2>3, <3>1
      <3> QED BY <1>8, <3>1, <3>2
    <2>4. ASSUME Len(s) = 6, NewTokens(s), s[6] \in {"LIMIT", "MARKET"}
          PROVE  \E m \in NewMeanings : s \in Spellings(m)
      <3>1. PICK m \in NewMeanings : five(m) /\ m.order_type = s[6]
        BY <2>2, <2>4
      <3>2. s = Append(short(m), m.order_type)
        BY <1>4, <2>4, <3>1
      <3> HIDE DEF short, five
      <3> QED BY <1>8, <3>1, <3>2
    <2> QED BY <2>1, <2>3, <2>4
  <1>10. (\E id \in Id : s = <<"CANCEL", id>>) <=> Len(s) = 2 /\ s[1] = "CANCEL" /\ s[2] \in Id
    BY <1>2
  <1>11. s \in Documented
             <=> \/ \E m \in NewMeanings : s \in Spellings(m)
                 \/ \E m \in [type : {"Cancel"}, id : Id] : s \in Spellings(m)
                 \/ s \in Spellings([type |-> "Flush"])
    BY <1>5, Zenon DEF Meanings
  <1>12. s \in Spellings([type |-> "Flush"]) <=> Len(s) = 1 /\ s[1] = "FLUSH"
    BY <1>1, <1>7
  <1> QED
    BY <1>6, <1>9, <1>10, <1>11, <1>12 DEF CommandEnds

\* A tuple, by its length and elements.
LEMMA TupleOf ==
    ASSUME NEW t \in Seq(Tokens), NEW a, NEW b, NEW c, NEW d, NEW e, NEW f
    PROVE  /\ t = <<a>> <=> Len(t) = 1 /\ t[1] = a
           /\ t = <<a, b>> <=> Len(t) = 2 /\ t[1] = a /\ t[2] = b
           /\ t = <<a, b, c, d, e>> <=> Len(t) = 5 /\ t[1] = a /\ t[2] = b /\ t[3] = c /\ t[4] = d /\ t[5] = e
           /\ t = <<a, b, c, d, e, f>> <=> Len(t) = 6 /\ t[1] = a /\ t[2] = b /\ t[3] = c /\ t[4] = d /\ t[5] = e /\ t[6] = f
  OBVIOUS

\* The first n tokens of a line.
LEMMA FirstTokens ==
    ASSUME NEW s \in Seq(Tokens), NEW n \in 1 .. Len(s)
    PROVE  /\ SubSeq(s, 1, n) \in Seq(Tokens) /\ Len(SubSeq(s, 1, n)) = n
           /\ \A i \in 1 .. n : SubSeq(s, 1, n)[i] = s[i]
  OBVIOUS

\* A LIMIT or MARKET after the five tokens of an order.
LEMMA AppendOf ==
    ASSUME NEW t \in Seq(Tokens), NEW a, NEW b, NEW c, NEW d, NEW e, NEW f, t = <<a, b, c, d, e, f>>
    PROVE  t = Append(<<a, b, c, d, e>>, f)
  <1>1. Len(t) = 6 /\ t[1] = a /\ t[2] = b /\ t[3] = c /\ t[4] = d /\ t[5] = e /\ t[6] = f
    BY TupleOf
  <1>2. t = Append(<<a, b, c, d, e>>, f)
            <=> Len(t) = 6 /\ t[1] = a /\ t[2] = b /\ t[3] = c /\ t[4] = d /\ t[5] = e /\ t[6] = f
    OBVIOUS
  <1> QED BY <1>1, <1>2

\* The first tokens, at the lengths that commands have.
LEMMA FirstOne ==
    ASSUME NEW s \in Seq(Tokens), Len(s) >= 1
    PROVE  SubSeq(s, 1, 1) = <<s[1]>>
  <1>1. PICK t : t = SubSeq(s, 1, 1)
    OBVIOUS
  <1>2. 1 \in 1 .. Len(s)
    OBVIOUS
  <1>3. t \in Seq(Tokens) /\ Len(t) = 1 /\ \A i \in 1 .. 1 : t[i] = s[i]
    BY <1>1, <1>2, FirstTokens
  <1>4. t = <<s[1]>>
    BY <1>3, TupleOf
  <1> QED BY <1>1, <1>4

LEMMA FirstTwo ==
    ASSUME NEW s \in Seq(Tokens), Len(s) >= 2
    PROVE  SubSeq(s, 1, 2) = <<s[1], s[2]>>
  <1>1. PICK t : t = SubSeq(s, 1, 2)
    OBVIOUS
  <1>2. 2 \in 1 .. Len(s)
    OBVIOUS
  <1>3. t \in Seq(Tokens) /\ Len(t) = 2 /\ \A i \in 1 .. 2 : t[i] = s[i]
    BY <1>1, <1>2, FirstTokens
  <1>4. t = <<s[1], s[2]>>
    BY <1>3, TupleOf
  <1> QED BY <1>1, <1>4

LEMMA FirstFive ==
    ASSUME NEW s \in Seq(Tokens), Len(s) >= 5
    PROVE  SubSeq(s, 1, 5) = <<s[1], s[2], s[3], s[4], s[5]>>
  <1>1. PICK t : t = SubSeq(s, 1, 5)
    OBVIOUS
  <1>2. 5 \in 1 .. Len(s)
    OBVIOUS
  <1>3. t \in Seq(Tokens) /\ Len(t) = 5 /\ \A i \in 1 .. 5 : t[i] = s[i]
    BY <1>1, <1>2, FirstTokens
  <1>4. t = <<s[1], s[2], s[3], s[4], s[5]>>
    BY <1>3, TupleOf
  <1> QED BY <1>1, <1>4

LEMMA FirstSix ==
    ASSUME NEW s \in Seq(Tokens), Len(s) >= 6
    PROVE  SubSeq(s, 1, 6) = <<s[1], s[2], s[3], s[4], s[5], s[6]>>
  <1>1. PICK t : t = SubSeq(s, 1, 6)
    OBVIOUS
  <1>2. 6 \in 1 .. Len(s)
    OBVIOUS
  <1>3. t \in Seq(Tokens) /\ Len(t) = 6 /\ \A i \in 1 .. 6 : t[i] = s[i]
    BY <1>1, <1>2, FirstTokens
  <1>4. t = <<s[1], s[2], s[3], s[4], s[5], s[6]>>
    BY <1>3, TupleOf
  <1> QED BY <1>1, <1>4

\* The documented commands a line begins with.
LEMMA CommandsAtStart ==
    ASSUME NEW s \in Seq(Tokens), NEW n \in 0 .. Len(s)
    PROVE  SubSeq(s, 1, n) \in Documented <=> CommandEnds(s, n)
  <1>1. PICK t : t = SubSeq(s, 1, n)
    OBVIOUS
  <1>2. t \in Seq(Tokens) /\ Len(t) = n /\ \A i \in 1 .. n : t[i] = s[i]
    BY <1>1
  <1>3. CommandEnds(t, n) <=> CommandEnds(s, n)
    BY <1>2 DEF CommandEnds, NewTokens
  <1> QED BY <1>1, <1>2, <1>3, DocumentedTokens

\* The longest of a set of lengths.
LEMMA LongestIs ==
    ASSUME NEW S \in SUBSET Nat, NEW n \in S, \A j \in S : j <= n
    PROVE  (CHOOSE k \in S : \A j \in S : j <= k) = n
  <1>1. \A k \in S : (\A j \in S : j <= k) => k = n
    OBVIOUS
  <1> QED BY <1>1

\* The claim about a line that begins with no documented command, and about one
\* whose longest has n tokens.
LEMMA ReadWhenNone ==
    ASSUME line \in Seq(Tokens), \A n \in 0 .. Len(line) : ~CommandEnds(line, n),
           parse_line(line).type = "Unknown"
    PROVE  ReadsLongestCommand
  BY CommandsAtStart DEF ReadsLongestCommand

LEMMA ReadWhenLongest ==
    ASSUME line \in Seq(Tokens), NEW n \in 0 .. Len(line), CommandEnds(line, n),
           \A j \in 0 .. Len(line) : CommandEnds(line, j) => j <= n,
           parse_line(line) \in Meanings, SubSeq(line, 1, n) \in Spellings(parse_line(line))
    PROVE  ReadsLongestCommand
  <1> DEFINE starts == {k \in 0 .. Len(line) : SubSeq(line, 1, k) \in Documented}
  <1>1. starts \in SUBSET Nat /\ n \in starts /\ \A j \in starts : j <= n
    BY CommandsAtStart
  <1>2. (CHOOSE k \in starts : \A j \in starts : j <= k) = n
    <2> HIDE DEF starts
    <2> QED BY <1>1, LongestIs
  <1>3. ReadsLongestCommand
            <=> LET k == CHOOSE k \in starts : \A j \in starts : j <= k
                IN  /\ parse_line(line) \in Meanings
                    /\ SubSeq(line, 1, k) \in Spellings(parse_line(line))
    BY <1>1, Zenon DEF ReadsLongestCommand
  <1> HIDE DEF starts
  <1> QED BY <1>2, <1>3

\* A NEW line.
LEMMA ReadNew ==
    ASSUME line \in Seq(Tokens), line # <<>>, line[1] = "NEW"
    PROVE  ReadsLongestCommand
  <1>1. parse_line(line) = ParseNew(line)
    BY DEF parse_line
  <1>2. Len(line) \in Nat /\ \A i \in 1 .. Len(line) : line[i] \in Tokens
    OBVIOUS
  <1>3. \A n : CommandEnds(line, n)
                 <=> \/ n = 5 /\ NewTokens(line)
                     \/ n = 6 /\ NewTokens(line) /\ line[6] \in {"LIMIT", "MARKET"}
    BY DEF CommandEnds
  <1>4. CASE ~(Len(line) >= 5 /\ NewTokens(line))
    <2>1. parse_line(line).type = "Unknown"
      BY <1>1, <1>2, <1>4
         DEF ParseNew, Unknown, NewTokens, Id, Number64, Number32, QuantityTokens
    <2>2. \A n \in 0 .. Len(line) : ~CommandEnds(line, n)
      BY <1>2, <1>3, <1>4
    <2> QED BY <2>1, <2>2, ReadWhenNone
  <1>5. CASE Len(line) >= 5 /\ NewTokens(line)
    <2> DEFINE order_type == IF Len(line) >= 6 /\ line[6] = "MARKET" THEN "MARKET" ELSE "LIMIT"
               new == [type |-> "New", side |-> line[2], id |-> line[3], price |-> line[4],
                       quantity |-> line[5], order_type |-> order_type]
    <2>1. parse_line(line) = new
      BY <1>1, <1>2, <1>5
         DEF ParseNew, NewTokens, Id, Number64, Number32, QuantityTokens
    <2>2. new \in NewMeanings
      BY <1>5 DEF NewMeanings, NewTokens
    <2>3. new \in Meanings
      BY <2>2, Zenon DEF Meanings
    <2>4. \A n \in 0 .. Len(line) : Len(SubSeq(line, 1, n)) = n
                                    /\ \A i \in 1 .. n : SubSeq(line, 1, n)[i] = line[i]
      BY <1>2
    <2>5. CASE Len(line) >= 6 /\ line[6] \in {"LIMIT", "MARKET"}
      <3>1. order_type = line[6]
        BY <2>5
      <3>2. SubSeq(line, 1, 6) = <<line[1], line[2], line[3], line[4], line[5], line[6]>>
        BY <2>5, FirstSix
      <3>3. SubSeq(line, 1, 6) \in Spellings(new)
        <4>1. Spellings(new) = {Append(<<"NEW", line[2], line[3], line[4], line[5]>>, line[6])}
                                   \cup (IF order_type = "LIMIT"
                                         THEN {<<"NEW", line[2], line[3], line[4], line[5]>>}
                                         ELSE {})
          BY <3>1 DEF Spellings
        <4>2. PICK t \in Seq(Tokens) : t = SubSeq(line, 1, 6)
          <5>1. 6 \in 1 .. Len(line)
            BY <1>2, <2>5
          <5>2. SubSeq(line, 1, 6) \in Seq(Tokens)
            BY <5>1, FirstTokens
          <5> QED BY <5>2
        <4>3. t = <<"NEW", line[2], line[3], line[4], line[5], line[6]>>
          BY <3>2, <4>2
        <4>4. t = Append(<<"NEW", line[2], line[3], line[4], line[5]>>, line[6])
          BY <4>3, AppendOf
        <4> HIDE DEF new, order_type
        <4> QED BY <4>1, <4>2, <4>4
      <3>4. CommandEnds(line, 6) /\ \A j \in 0 .. Len(line) : CommandEnds(line, j) => j <= 6
        BY <1>2, <1>3, <1>5, <2>5
      <3> HIDE DEF new, order_type
      <3>5. 6 \in 0 .. Len(line)
        BY <1>2, <2>5
      <3> QED BY <2>1, <2>3, <3>3, <3>4, <3>5, ReadWhenLongest
    <2>6. CASE ~(Len(line) >= 6 /\ line[6] \in {"LIMIT", "MARKET"})
      <3>1. order_type = "LIMIT"
        BY <2>6
      <3>2. SubSeq(line, 1, 5) = <<line[1], line[2], line[3], line[4], line[5]>>
        BY <1>5, FirstFive
      <3>3. SubSeq(line, 1, 5) \in Spellings(new)
        BY <3>1, <3>2 DEF Spellings
      <3>4. CommandEnds(line, 5) /\ \A j \in 0 .. Len(line) : CommandEnds(line, j) => j <= 5
        BY <1>2, <1>3, <1>5, <2>6
      <3> HIDE DEF new, order_type
      <3>5. 5 \in 0 .. Len(line)
        BY <1>2, <1>5
      <3> QED BY <2>1, <2>3, <3>3, <3>4, <3>5, ReadWhenLongest
    <2> QED BY <2>5, <2>6
  <1> QED BY <1>4, <1>5

\* A CANCEL line.
LEMMA ReadCancel ==
    ASSUME line \in Seq(Tokens), line # <<>>, line[1] = "CANCEL"
    PROVE  ReadsLongestCommand
  <1>1. parse_line(line) = ParseCancel(line)
    BY DEF parse_line
  <1>2. Len(line) \in Nat /\ \A i \in 1 .. Len(line) : line[i] \in Tokens
    OBVIOUS
  <1>3. \A n : CommandEnds(line, n) <=> n = 2 /\ line[2] \in Id
    BY DEF CommandEnds, NewTokens
  <1>4. CASE ~(Len(line) >= 2 /\ line[2] \in Id)
    <2>1. parse_line(line).type = "Unknown"
      BY <1>1, <1>2, <1>4 DEF ParseCancel, Unknown, Id, Number64
    <2>2. \A n \in 0 .. Len(line) : ~CommandEnds(line, n)
      BY <1>2, <1>3, <1>4
    <2> QED BY <2>1, <2>2, ReadWhenNone
  <1>5. CASE Len(line) >= 2 /\ line[2] \in Id
    <2>1. parse_line(line) = [type |-> "Cancel", id |-> line[2]]
      BY <1>1, <1>2, <1>5 DEF ParseCancel, Id, Number64
    <2>2. parse_line(line) \in [type : {"Cancel"}, id : Id]
      BY <1>5, <2>1
    <2>3. parse_line(line) \in Meanings
      BY <2>2, Zenon DEF Meanings
    <2>4. SubSeq(line, 1, 2) = <<line[1], line[2]>>
      BY <1>5, FirstTwo
    <2>5. SubSeq(line, 1, 2) \in Spellings(parse_line(line))
      BY <2>1, <2>4 DEF Spellings
    <2>6. 2 \in 0 .. Len(line)
      BY <1>2, <1>5
    <2>7. CommandEnds(line, 2) /\ \A j \in 0 .. Len(line) : CommandEnds(line, j) => j <= 2
      BY <1>3, <1>5
    <2> QED BY <2>3, <2>5, <2>6, <2>7, ReadWhenLongest
  <1> QED BY <1>4, <1>5

\* A FLUSH line.
LEMMA ReadFlush ==
    ASSUME line \in Seq(Tokens), line # <<>>, line[1] = "FLUSH"
    PROVE  ReadsLongestCommand
  <1>1. parse_line(line) = [type |-> "Flush"]
    BY DEF parse_line
  <1>2. parse_line(line) \in Meanings
    BY <1>1 DEF Meanings
  <1>3. Len(line) >= 1 /\ 1 \in 0 .. Len(line)
    OBVIOUS
  <1>4. SubSeq(line, 1, 1) \in Spellings(parse_line(line))
    BY <1>1, <1>3, FirstOne DEF Spellings
  <1>5. CommandEnds(line, 1) /\ \A j \in 0 .. Len(line) : CommandEnds(line, j) => j <= 1
    BY DEF CommandEnds, NewTokens
  <1> QED BY <1>2, <1>3, <1>4, <1>5, ReadWhenLongest

\* Any line.
LEMMA ReadAny ==
    ASSUME line \in Seq(Tokens)
    PROVE  ReadsLongestCommand
  <1>1. CASE line = <<>> \/ line[1] \notin {"NEW", "CANCEL", "FLUSH"}
    <2>1. parse_line(line).type = "Unknown"
      BY <1>1 DEF parse_line, Unknown
    <2>2. \A n \in 0 .. Len(line) : ~CommandEnds(line, n)
      BY <1>1 DEF CommandEnds, NewTokens
    <2> QED BY <2>1, <2>2, ReadWhenNone
  <1> QED BY <1>1, ReadNew, ReadCancel, ReadFlush

\* Whatever the tokens of a line and however many, parse_line reads the longest
\* command of the documented grammar that the line begins with, gives it its
\* documented meaning, and refuses a line that begins with none.
THEOREM ParserReadsLongest == Spec => []ReadsLongestCommand
  <1>1. Init => line \in Seq(Tokens)
    BY DEF Init
  <1>2. line \in Seq(Tokens) /\ [Next]_line => (line \in Seq(Tokens))'
    BY DEF Next, Extend
  <1>3. line \in Seq(Tokens) => ReadsLongestCommand
    BY ReadAny
  <1> QED BY <1>1, <1>2, <1>3, PTL DEF Spec
=============================================================================
