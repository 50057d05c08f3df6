--------------------------- MODULE GatewayProofs ---------------------------
(***************************************************************************)
(* Proofs about the gateway, for any number of connections, descriptors    *)
(* and lines, and any capacity and batch size.  The invariant has four     *)
(* layers, each proved from the ones before it.  The first two are types,  *)
(* places and holders of descriptors, and the numbers on the commands on   *)
(* their way; from them commands keep their order through both queues, and *)
(* what was queued before stop() is executed before start() returns.  The  *)
(* other two are what each client is promised: its lines are processed in  *)
(* the order it sent them, its replies come in that order and without      *)
(* gaps, and a reply reaches another client only by way of a descriptor    *)
(* that was used again.                                                    *)
(***************************************************************************)
EXTENDS Gateway, FiniteSetTheorems, TLAPS

Event    == [fd : Fds \cup {0}, mask : SUBSET {"IN", "OUT", "HUP"}]
SentLine == [kind : LineKinds, no : Nat \ {0}]
Client   == [conn : Conns, out : Seq(Message)]
Socket   == [peer : {"none", "open", "closed", "reset"}, inbound : Seq(SentLine),
             sent : Nat, full : BOOLEAN, ready : BOOLEAN]

-----------------------------------------------------------------------------
(* First layer: types, where the threads are, who holds a descriptor       *)

Types ==
    /\ running \in BOOLEAN
    /\ net \in {"init", "launch", "loop", "drain", "deliver", "epoll", "events", "lines",
                "join", "cleanup", "done", "failed", "killed"}
    /\ after \in {"loop", "epoll", "cleanup"}
    /\ match \in {"off", "test", "empty", "pop", "execute", "exited", "killed"}
    /\ events \subseteq Event /\ cur \in Event /\ pending \in Seq(SentLine)
    /\ drained \in Seq(Message) /\ batch \in Seq(Message)
    /\ ingress \in Seq(Message) /\ responses \in Seq(Message)
    /\ Len(ingress) <= Capacity /\ Len(responses) <= Capacity
    /\ DOMAIN clients \subseteq Fds /\ \A fd \in DOMAIN clients : clients[fd] \in Client
    /\ asked \in Seq(Conns) /\ next_sequence = Len(asked) + 1 /\ mark \in 0 .. next_sequence
    /\ backlog \in Seq(Conns) /\ fdOf \in [Conns -> Fds \cup {0}]
    /\ sock \in [Conns -> Socket]
    /\ delivered \in [Conns -> Seq(Message)] /\ handled \in [Conns -> Seq(Nat)]

\* Where a thread is says what it has in hand and how far stop() has got.
Control ==
    /\ net \notin {"deliver", "killed"} => Len(drained) = 0
    /\ net = "deliver" => Len(drained) > 0
    /\ match \notin {"execute", "killed"} => Len(batch) = 0
    /\ match = "execute" => Len(batch) > 0
    /\ net \notin {"events", "lines", "killed"} => events = {}
    /\ net \notin {"lines", "killed"} => Len(pending) = 0
    /\ net = "killed" <=> match = "killed"
    /\ net \in {"init", "launch", "failed"} <=> match = "off"
    /\ match \in {"empty", "exited"} => ~running
    /\ net \in {"cleanup", "done"} => match = "exited"
    /\ net \in {"drain", "deliver"} /\ after = "cleanup" => match = "exited"

\* One event for a descriptor, of a client that is there; none is left for the
\* one whose lines are being processed.
EventsOK ==
    /\ \A e \in events : IF e.fd = 0 THEN e.mask = {"IN"} ELSE e.fd \in DOMAIN clients
    /\ \A e, f \in events : e.fd = f.fd => e = f
    /\ net = "lines" => cur.fd # 0 /\ \A e \in events : e.fd # cur.fd

\* c is the last connection that was given descriptor fd.
Latest(fd, c) == fdOf[c] = fd /\ \A d \in Conns : fdOf[d] = fd => d <= c

Holders ==
    /\ \A fd \in DOMAIN clients : Latest(fd, clients[fd].conn)
    /\ net = "lines" => \E c \in Conns : Latest(cur.fd, c)

\* Connections are made, wait and are accepted in the order of their numbers.
Arrivals ==
    /\ \A k \in 1 .. Len(backlog) :
          /\ fdOf[backlog[k]] = 0 /\ sock[backlog[k]].peer # "none"
          /\ \A d \in Conns : fdOf[d] # 0 => d < backlog[k]
    /\ \A j, k \in 1 .. Len(backlog) : j < k => backlog[j] < backlog[k]
    /\ \A c \in Conns : sock[c].peer = "none" =>
          fdOf[c] = 0 /\ \A d \in Conns : d > c => sock[d].peer = "none"

Base == Types /\ Control /\ EventsOK /\ Holders /\ Arrivals

-----------------------------------------------------------------------------
(* Sequences, and what write() does to one client                          *)

\* No peer, no unread line and no count of lines sent changes.
PeersKept ==
    /\ sock' \in [Conns -> Socket]
    /\ \A c \in Conns : /\ sock'[c].peer = sock[c].peer
                         /\ sock'[c].inbound = sock[c].inbound
                         /\ sock'[c].sent = sock[c].sent

\* Of the replies out that the client of fd is owed some are in its socket now,
\* the rest are in its write_buffer.
Flushed(fd, out) ==
    /\ DOMAIN clients' = DOMAIN clients
    /\ \A f \in DOMAIN clients : f # fd => clients'[f] = clients[f]
    /\ clients'[fd] \in Client /\ clients'[fd].conn = clients[fd].conn
    /\ delivered' \in [Conns -> Seq(Message)]
    /\ \A d \in Conns : d # clients[fd].conn => delivered'[d] = delivered[d]
    /\ delivered'[clients[fd].conn] \o clients'[fd].out = delivered[clients[fd].conn] \o out
    /\ PeersKept

LEMMA ConstantFacts == /\ Conns \subseteq Nat /\ Fds \subseteq Nat \ {0}
                       /\ Capacity \in Nat \ {0} /\ MaxBatch \in Nat \ {0}
                       /\ IsFiniteSet(Fds) /\ 0 \notin Fds
                       /\ LineKinds \subseteq {"command", "malformed", "blank"}
                       /\ Departures \subseteq {"closed", "reset"}
  <1>1. IsFiniteSet(Conns) /\ Conns = 1 .. Cardinality(Conns)
    BY GatewayAssumption
  <1>2. Cardinality(Conns) \in Nat
    BY <1>1, FS_CardinalityType
  <1> QED BY <1>1, <1>2, GatewayAssumption

LEMMA Cut == ASSUME NEW S, NEW q \in Seq(S), NEW n \in 0 .. Len(q)
             PROVE  /\ SubSeq(q, 1, n) \in Seq(S) /\ Len(SubSeq(q, 1, n)) = n
                    /\ \A k \in 1 .. n : SubSeq(q, 1, n)[k] = q[k]
                    /\ SubSeq(q, n + 1, Len(q)) \in Seq(S)
                    /\ Len(SubSeq(q, n + 1, Len(q))) = Len(q) - n
                    /\ \A k \in 1 .. Len(q) - n : SubSeq(q, n + 1, Len(q))[k] = q[n + k]
  OBVIOUS

\* The two ways to take such a sequence apart: by its places, and at the joint.
LEMMA Joined == ASSUME NEW S, NEW p \in Seq(S), NEW q \in Seq(S)
                PROVE  /\ p \o q \in Seq(S) /\ Len(p \o q) = Len(p) + Len(q)
                       /\ \A k \in 1 .. Len(p) : (p \o q)[k] = p[k]
                       /\ \A k \in Len(p) + 1 .. Len(p) + Len(q) : (p \o q)[k] = q[k - Len(p)]
  OBVIOUS

LEMMA SamePlaces == ASSUME NEW S, NEW p \in Seq(S), NEW q \in Seq(S), Len(p) = Len(q),
                           \A k \in 1 .. Len(p) : p[k] = q[k]
                    PROVE  p = q
  OBVIOUS

LEMMA Associates == ASSUME NEW S, NEW p \in Seq(S), NEW q \in Seq(S), NEW r \in Seq(S)
                    PROVE  (p \o q) \o r = p \o (q \o r)
  OBVIOUS

LEMMA Rejoin == ASSUME NEW S, NEW q \in Seq(S), NEW n \in 0 .. Len(q)
                PROVE  SubSeq(q, 1, n) \o SubSeq(q, n + 1, Len(q)) = q
  <1> DEFINE front == SubSeq(q, 1, n)
             back  == SubSeq(q, n + 1, Len(q))
  <1>1. front \in Seq(S) /\ back \in Seq(S) /\ Len(front) = n /\ Len(back) = Len(q) - n
    BY Cut
  <1>2. /\ \A k \in 1 .. n : front[k] = q[k]
        /\ \A k \in 1 .. Len(q) - n : back[k] = q[n + k]
    BY Cut
  <1> HIDE DEF front, back
  <1>3. front \o back \in Seq(S) /\ Len(front \o back) = Len(q)
    <2>1. front \o back \in Seq(S) /\ Len(front \o back) = Len(front) + Len(back)
      BY <1>1, Joined
    <2>2. n \in Nat /\ Len(q) \in Nat
      OBVIOUS
    <2> QED BY <1>1, <2>1, <2>2
  <1>4. \A k \in 1 .. Len(q) : (front \o back)[k] = q[k]
    <2> SUFFICES ASSUME NEW k \in 1 .. Len(q) PROVE (front \o back)[k] = q[k]
      OBVIOUS
    <2>1. CASE k <= n
      BY <1>1, <1>2, <2>1
    <2>2. CASE k > n
      <3>1. k - n \in 1 .. Len(q) - n /\ n + (k - n) = k
        BY <2>2
      <3>2. (front \o back)[k] = back[k - n]
        BY <1>1, <2>2
      <3>3. back[k - n] = q[k]
        BY <1>2, <3>1
      <3> QED BY <3>2, <3>3
    <2>3. k <= n \/ k > n
      <3>1. k \in Nat /\ n \in Nat
        OBVIOUS
      <3> QED BY <3>1
    <2> QED BY <2>1, <2>2, <2>3
  <1>5. front \o back = q
    BY <1>3, <1>4, SamePlaces
  <1> QED BY <1>5 DEF front, back

LEMMA WriteSomeFlushes ==
  ASSUME Types, NEW fd \in DOMAIN clients, NEW out \in Seq(Message), WriteSome(fd, out)
  PROVE  Flushed(fd, out)
  <1> DEFINE c == clients[fd].conn
  <1>0. c \in Conns /\ clients[fd] \in Client /\ delivered \in [Conns -> Seq(Message)] /\ sock \in [Conns -> Socket]
    BY DEF Types, Client
  <1> HIDE DEF c
  <1>1. CASE out = <<>> \/ sock[c].full
    <2>1. clients' = [clients EXCEPT ![fd].out = Unsent(out, 0)] /\ UNCHANGED <<delivered, sock>>
      BY <1>1 DEF WriteSome, c
    <2>2. Unsent(out, 0) = out
      BY DEF Unsent
    <2>3. clients'[fd] = [clients[fd] EXCEPT !.out = out] /\ \A f \in DOMAIN clients : f # fd => clients'[f] = clients[f]
      BY <2>1, <2>2
    <2>4. DOMAIN clients' = DOMAIN clients /\ clients'[fd] \in Client /\ clients'[fd].conn = c /\ clients'[fd].out = out
      BY <1>0, <2>1, <2>3 DEF Client, c
    <2>5. PeersKept
      BY <1>0, <2>1 DEF PeersKept
    <2> QED BY <1>0, <2>1, <2>3, <2>4, <2>5 DEF Flushed, c
  <1>2. CASE ~(out = <<>> \/ sock[c].full)
    <2>1. PICK k \in 1 .. Len(out), full \in BOOLEAN :
                /\ delivered' = [delivered EXCEPT ![c] = @ \o SubSeq(out, 1, k)]
                /\ sock' = [sock EXCEPT ![c].full = full]
                /\ clients' = [clients EXCEPT ![fd].out = Unsent(out, k)]
      BY <1>2 DEF WriteSome, c
    <2>9. k \in 0 .. Len(out) /\ delivered[c] \in Seq(Message)
      BY <1>0
    <2>2. /\ Unsent(out, k) \in Seq(Message) /\ SubSeq(out, 1, k) \in Seq(Message)
          /\ (delivered[c] \o SubSeq(out, 1, k)) \o Unsent(out, k) = delivered[c] \o out
      <3>1. Unsent(out, k) \in Seq(Message) /\ SubSeq(out, 1, k) \in Seq(Message)
        BY <2>9, Cut DEF Unsent
      <3>2. (delivered[c] \o SubSeq(out, 1, k)) \o Unsent(out, k) = delivered[c] \o out
        <4>1. SubSeq(out, 1, k) \o Unsent(out, k) = out
          BY <2>9, Rejoin DEF Unsent
        <4> DEFINE old   == delivered[c]
                   front == SubSeq(out, 1, k)
                   back  == Unsent(out, k)
        <4>2. old \in Seq(Message) /\ front \in Seq(Message) /\ back \in Seq(Message)
          BY <2>9, <3>1
        <4> HIDE DEF old, front, back
        <4>3. (old \o front) \o back = old \o (front \o back)
          BY SMTT(30), <4>2, Associates
        <4> QED BY <4>1, <4>3 DEF old, front, back
      <3> QED BY <3>1, <3>2
    <2>3. clients'[fd] = [clients[fd] EXCEPT !.out = Unsent(out, k)]
          /\ \A f \in DOMAIN clients : f # fd => clients'[f] = clients[f]
      BY <2>1
    <2>4. delivered' \in [Conns -> Seq(Message)] /\ delivered'[c] = delivered[c] \o SubSeq(out, 1, k)
          /\ \A d \in Conns : d # c => delivered'[d] = delivered[d]
      <3> DEFINE now == delivered[c] \o SubSeq(out, 1, k)
      <3>1. now \in Seq(Message)
        BY <2>2, <2>9
      <3>2. delivered' = [delivered EXCEPT ![c] = now]
        BY <2>1
      <3> HIDE DEF now
      <3>3. delivered' \in [Conns -> Seq(Message)] /\ delivered'[c] = now
            /\ \A d \in Conns : d # c => delivered'[d] = delivered[d]
        BY <1>0, <3>1, <3>2
      <3> QED BY <3>3 DEF now
    <2>5. PeersKept
      BY <1>0, <2>1 DEF PeersKept, Socket
    <2>6. DOMAIN clients' = DOMAIN clients /\ clients'[fd] \in Client /\ clients'[fd].conn = c
          /\ clients'[fd].out = Unsent(out, k)
      BY <1>0, <2>1, <2>2, <2>3 DEF Client, c
    <2> QED BY <1>0, <2>2, <2>3, <2>4, <2>5, <2>6 DEF Flushed, c
  <1> QED BY <1>1, <1>2

-----------------------------------------------------------------------------
(* What the larger actions do, as far as the proofs need it                *)

\* Min of two numbers, as in the batch sizes.
LEMMA MinOfTwo == ASSUME NEW a \in Nat, NEW b \in Nat
                  PROVE  Min({a, b}) \in {a, b} /\ Min({a, b}) <= a /\ Min({a, b}) <= b
  <1>1. \E x \in {a, b} : \A y \in {a, b} : x =< y
    <2>1. CASE a <= b
      BY <2>1
    <2>2. CASE b <= a
      BY <2>2
    <2> QED BY <2>1, <2>2
  <1> QED BY <1>1 DEF Min

\* A reply leaves write_buffer, a flag of the socket changes, or the connection
\* is closed.
Written(fd, out) ==
    \/ Flushed(fd, out)
    \/ clients' = Without(fd) /\ UNCHANGED <<delivered, sock>>

KilledNow == net' = "killed" /\ match' = "killed" /\ UNCHANGED <<clients, delivered, sock>>

LEMMA DeliverEffect ==
  ASSUME Types, Control, DeliverResponse
  PROVE  /\ net = "deliver" /\ Len(drained) > 0
         /\ Head(drained) \in Message /\ Head(drained).fd \in DOMAIN clients
         /\ \/ /\ Written(Head(drained).fd, Append(clients[Head(drained).fd].out, Head(drained)))
               /\ NextResponse /\ UNCHANGED match
            \/ KilledNow /\ UNCHANGED drained
         /\ UNCHANGED <<running, after, workVars, next_sequence, batch, ingress,
                        responses, backlog, fdOf, asked, handled, mark>>
  <1> DEFINE fd  == Head(drained).fd
             out == Append(clients[fd].out, Head(drained))
  <1>1. net = "deliver" /\ Len(drained) > 0 /\ drained \in Seq(Message) /\ fd \in DOMAIN clients
    BY DEF DeliverResponse, Control, Types
  <1>2. Head(drained) \in Message
    BY <1>1
  <1>3. clients[fd].out \in Seq(Message)
    BY <1>1 DEF Types, Client
  <1>4. out \in Seq(Message)
    BY <1>2, <1>3
  <1>5. \/ /\ WriteSome(fd, out) \/ WriteFails(fd, out)
           /\ NextResponse /\ UNCHANGED match
        \/ Killed(fd, out) /\ UNCHANGED <<drained, clients, delivered, sock>>
    BY DEF DeliverResponse, Addressee
  <1> HIDE DEF fd, out
  <1>6. WriteSome(fd, out) => Flushed(fd, out)
    BY <1>1, <1>4, WriteSomeFlushes
  <1>7. WriteFails(fd, out) => clients' = Without(fd) /\ UNCHANGED <<delivered, sock>>
    BY DEF WriteFails
  <1>8. Killed(fd, out) => net' = "killed" /\ match' = "killed"
    BY DEF Killed
  <1>9. \/ Written(fd, out) /\ NextResponse /\ UNCHANGED match
        \/ KilledNow /\ UNCHANGED drained
    BY <1>5, <1>6, <1>7, <1>8 DEF Written, KilledNow
  <1>10. UNCHANGED <<running, after, workVars, next_sequence, batch, ingress,
                     responses, backlog, fdOf, asked, handled, mark>>
    BY DEF DeliverResponse
  <1> QED BY <1>1, <1>2, <1>9, <1>10 DEF fd, out

\* The direct REJECT of a malformed line.
Rejection == [seq |-> 0, fd |-> cur.fd]

LEMMA RejectEffect ==
  ASSUME Types, RejectLine
  PROVE  /\ HandleLine("malformed") /\ UNCHANGED <<next_sequence, ingress, asked>>
         /\ \/ /\ cur.fd \in DOMAIN clients /\ Rejection \in Message
               /\ Written(cur.fd, Append(clients[cur.fd].out, Rejection))
               /\ pending' \in {Tail(pending), <<>>}
               /\ cur.fd \in DOMAIN clients' => pending' = Tail(pending)
               /\ UNCHANGED <<net, match>>
            \/ KilledNow /\ UNCHANGED pending
            \/ /\ cur.fd \notin DOMAIN clients
               /\ pending' = Tail(pending) /\ UNCHANGED <<net, match, clients, delivered, sock>>
  <1> DEFINE out == Append(clients[cur.fd].out, Rejection)
  <1>1. HandleLine("malformed") /\ UNCHANGED <<next_sequence, ingress, asked>>
    BY DEF RejectLine
  <1>2. CASE cur.fd \in DOMAIN clients
    <2>1. cur.fd \in Fds /\ Rejection \in Message
      BY <1>2 DEF Types, Message, Rejection
    <2>2. clients[cur.fd].out \in Seq(Message)
      BY <1>2 DEF Types, Client
    <2>3. out \in Seq(Message)
      BY <2>1, <2>2
    <2>4. \/ /\ WriteSome(cur.fd, out)
             /\ pending' = RestOfBuffer
             /\ UNCHANGED <<net, match>>
          \/ /\ WriteFails(cur.fd, out)
             /\ pending' \in {RestOfBuffer, <<>>}
             /\ UNCHANGED <<net, match>>
          \/ /\ Killed(cur.fd, out)
             /\ UNCHANGED <<pending, clients, delivered, sock>>
      BY <1>2 DEF RejectLine, Rejection
    <2> HIDE DEF out
    <2>5. WriteSome(cur.fd, out) => Flushed(cur.fd, out)
      BY <1>2, <2>3, WriteSomeFlushes
    <2>6. WriteFails(cur.fd, out) =>
             /\ clients' = Without(cur.fd) /\ UNCHANGED <<delivered, sock>>
             /\ cur.fd \notin DOMAIN clients'
      BY DEF WriteFails, Without
    <2>7. Killed(cur.fd, out) => net' = "killed" /\ match' = "killed"
      BY DEF Killed
    <2>8. \/ /\ Written(cur.fd, out)
             /\ pending' \in {Tail(pending), <<>>}
             /\ cur.fd \in DOMAIN clients' => pending' = Tail(pending)
             /\ UNCHANGED <<net, match>>
          \/ KilledNow /\ UNCHANGED pending
      BY <2>4, <2>5, <2>6, <2>7 DEF Written, KilledNow, RestOfBuffer
    <2> QED BY <1>1, <1>2, <2>1, <2>8 DEF out
  <1>3. CASE cur.fd \notin DOMAIN clients
    BY <1>1, <1>3 DEF RejectLine, RestOfBuffer
  <1> QED BY <1>2, <1>3

\* handle_client_write adds no reply.
LEMMA ClientWriteEffect ==
  ASSUME Types, ClientWrite
  PROVE  /\ net = "lines" /\ pending = <<>> /\ cur' = NoEvent
         /\ \/ /\ cur.fd \in DOMAIN clients
               /\ Written(cur.fd, clients[cur.fd].out)
               /\ net' = "events" /\ UNCHANGED match
            \/ KilledNow
            \/ net' = "events" /\ UNCHANGED <<match, clients, delivered, sock>>
         /\ UNCHANGED <<running, after, events, pending, drained, next_sequence, batch,
                        ingress, responses, backlog, fdOf, asked, handled, mark>>
  <1> DEFINE out == clients[cur.fd].out
  <1>3. /\ net = "lines" /\ pending = <<>> /\ cur' = NoEvent
        /\ UNCHANGED <<running, after, events, pending, drained, next_sequence, batch,
                       ingress, responses, backlog, fdOf, asked, handled, mark>>
    BY DEF ClientWrite
  <1>1. CASE WantsWrite
    <2>1. cur.fd \in DOMAIN clients
      BY <1>1 DEF WantsWrite
    <2>2. out \in Seq(Message)
      BY <2>1 DEF Types, Client
    <2>3. \/ /\ WriteSome(cur.fd, out) \/ WriteFails(cur.fd, out)
             /\ net' = "events" /\ UNCHANGED match
          \/ Killed(cur.fd, out) /\ UNCHANGED <<clients, delivered, sock>>
      BY <1>1 DEF ClientWrite
    <2> HIDE DEF out
    <2>4. WriteSome(cur.fd, out) => Flushed(cur.fd, out)
      BY <2>1, <2>2, WriteSomeFlushes
    <2>5. WriteFails(cur.fd, out) => clients' = Without(cur.fd) /\ UNCHANGED <<delivered, sock>>
      BY DEF WriteFails
    <2>6. Killed(cur.fd, out) => net' = "killed" /\ match' = "killed"
      BY DEF Killed
    <2>7. \/ Written(cur.fd, out) /\ net' = "events" /\ UNCHANGED match
          \/ KilledNow
      BY <2>3, <2>4, <2>5, <2>6 DEF Written, KilledNow
    <2> QED BY <1>3, <2>1, <2>7 DEF out
  <1>2. CASE ~WantsWrite
    BY <1>2, <1>3 DEF ClientWrite
  <1> QED BY <1>1, <1>2

\* accept() hands the first n connections of the backlog free descriptors, in
\* ascending order.
Accepted(n, low) ==
    /\ n \in 0 .. Len(backlog)
    /\ low \in [1 .. n -> Fds \ DOMAIN clients]
    /\ \A i, j \in 1 .. n : i < j => low[i] < low[j]
    /\ backlog' = SubSeq(backlog, n + 1, Len(backlog))
    /\ DOMAIN clients' = DOMAIN clients \cup {low[i] : i \in 1 .. n}
    /\ \A fd \in DOMAIN clients : clients'[fd] = clients[fd]
    /\ \A i \in 1 .. n : clients'[low[i]] = [conn |-> backlog[i], out |-> <<>>]
    /\ fdOf' \in [Conns -> Fds \cup {0}]
    /\ \A i \in 1 .. n : fdOf'[backlog[i]] = low[i]
    /\ \A c \in Conns : (\A i \in 1 .. n : backlog[i] # c) => fdOf'[c] = fdOf[c]

LEMMA AcceptEffect ==
  ASSUME Base, NewConnections
  PROVE  /\ PeersKept /\ \E n, low : Accepted(n, low)
         /\ net = "events" /\ \E e \in events : e.fd = 0 /\ events' = events \ {e}
         /\ UNCHANGED <<running, net, after, cur, pending, drained, next_sequence, matchVars,
                        ingress, responses, delivered, asked, handled, mark>>
  <1> USE ConstantFacts
  <1> DEFINE free == Fds \ DOMAIN clients
             n    == Min({Len(backlog), Cardinality(free)})
             turn(c) == CHOOSE i \in 1 .. n : backlog[i] = c
             got  == {backlog[i] : i \in 1 .. n}
  <1>1. backlog \in Seq(Conns) /\ sock \in [Conns -> Socket] /\ fdOf \in [Conns -> Fds \cup {0}]
    BY DEF Base, Types
  <1>2. n \in 0 .. Len(backlog)
    <2>1. Cardinality(free) \in Nat
      <3>1. IsFiniteSet(free)
        BY FS_Subset
      <3> QED BY <3>1, FS_CardinalityType
    <2>2. Len(backlog) \in Nat
      BY <1>1
    <2> HIDE DEF free
    <2> QED BY <2>1, <2>2, MinOfTwo
  <1>3. PICK low \in [1 .. n -> free] :
          /\ \A i, j \in 1 .. n : i < j => low[i] < low[j]
          /\ backlog' = SubSeq(backlog, n + 1, Len(backlog))
          /\ clients' = [fd \in DOMAIN clients \cup Range(low) |->
                IF fd \in DOMAIN clients THEN clients[fd]
                ELSE [conn |-> backlog[CHOOSE i \in 1 .. n : low[i] = fd], out |-> <<>>]]
          /\ fdOf' = [c \in Conns |-> IF c \in got THEN low[turn(c)] ELSE fdOf[c]]
          /\ sock' = [c \in Conns |-> IF c \in got
                THEN [sock[c] EXCEPT !.ready = TRUE] ELSE sock[c]]
    BY DEF NewConnections
  <1>4. \A i, j \in 1 .. n : backlog[i] = backlog[j] => i = j
    <2>1. \A j, k \in 1 .. Len(backlog) : j < k => backlog[j] < backlog[k]
      BY DEF Base, Arrivals
    <2>2. \A k \in 1 .. Len(backlog) : backlog[k] \in Nat
      <3>1. \A k \in 1 .. Len(backlog) : backlog[k] \in Conns
        BY <1>1
      <3> QED BY <3>1
    <2> HIDE DEF n
    <2> QED BY <1>2, <2>1, <2>2
  <1> HIDE DEF n, free
  <1>5. \A i \in 1 .. n : backlog[i] \in Conns /\ turn(backlog[i]) = i
    BY <1>1, <1>2, <1>4
  <1>6. Range(low) = {low[i] : i \in 1 .. n}
    BY <1>3 DEF Range
  <1>7. \A i, j \in 1 .. n : low[i] = low[j] => i = j
    <2>1. \A i \in 1 .. n : low[i] \in Nat
      BY <1>3 DEF free
    <2> QED BY SMTT(30), <1>2, <1>3, <2>1
  <1>8. \A i \in 1 .. n : clients'[low[i]] = [conn |-> backlog[i], out |-> <<>>]
    <2> SUFFICES ASSUME NEW i \in 1 .. n
                 PROVE  clients'[low[i]] = [conn |-> backlog[i], out |-> <<>>]
      OBVIOUS
    <2>1. low[i] \in Range(low) /\ low[i] \notin DOMAIN clients
      BY <1>3, <1>6 DEF free
    <2>2. (CHOOSE j \in 1 .. n : low[j] = low[i]) = i
      BY <1>7
    <2> QED BY <1>3, <2>1, <2>2
  <1>9. /\ \A i \in 1 .. n : fdOf'[backlog[i]] = low[i]
        /\ \A c \in Conns : (\A i \in 1 .. n : backlog[i] # c) => fdOf'[c] = fdOf[c]
    <2>1. \A c \in Conns : fdOf'[c] = IF c \in got THEN low[turn(c)] ELSE fdOf[c]
      BY <1>3
    <2>2. \A i \in 1 .. n : backlog[i] \in got /\ low[turn(backlog[i])] = low[i]
      BY <1>5
    <2>3. \A c \in Conns : (\A i \in 1 .. n : backlog[i] # c) => c \notin got
      OBVIOUS
    <2> HIDE DEF turn, got
    <2> QED BY <1>5, <2>1, <2>2, <2>3
  <1>10. fdOf' \in [Conns -> Fds \cup {0}]
    <2>1. \A c \in Conns : c \in got => low[turn(c)] \in Fds
      BY <1>3, <1>5 DEF free
    <2> QED BY <1>1, <1>3, <2>1
  <1>11. PeersKept
    <2>1. \A c \in Conns : sock'[c] = IF c \in got THEN [sock[c] EXCEPT !.ready = TRUE] ELSE sock[c]
      BY <1>3
    <2>2. DOMAIN sock' = Conns /\ sock' = [c \in Conns |-> sock'[c]]
      BY <1>3
    <2> HIDE DEF got
    <2>3. \A c \in Conns : /\ sock'[c] \in Socket /\ sock'[c].peer = sock[c].peer
                          /\ sock'[c].inbound = sock[c].inbound /\ sock'[c].sent = sock[c].sent
      <3> SUFFICES ASSUME NEW c \in Conns
                   PROVE  /\ sock'[c] \in Socket /\ sock'[c].peer = sock[c].peer
                          /\ sock'[c].inbound = sock[c].inbound /\ sock'[c].sent = sock[c].sent
        OBVIOUS
      <3>1. sock[c] \in Socket
        BY <1>1
      <3>2. sock'[c] = [sock[c] EXCEPT !.ready = TRUE] \/ sock'[c] = sock[c]
        BY <2>1
      <3> QED BY <3>1, <3>2 DEF Socket
    <2> QED BY <2>2, <2>3 DEF PeersKept
  <1>12. DOMAIN clients' = DOMAIN clients \cup {low[i] : i \in 1 .. n}
         /\ \A fd \in DOMAIN clients : clients'[fd] = clients[fd]
    BY <1>3, <1>6
  <1>13. Accepted(n, low)
    BY <1>2, <1>3, <1>8, <1>9, <1>10, <1>12 DEF Accepted, free
  <1>14. /\ net = "events" /\ \E e \in events : e.fd = 0 /\ events' = events \ {e}
         /\ UNCHANGED <<running, net, after, cur, pending, drained, next_sequence, matchVars,
                        ingress, responses, delivered, asked, handled, mark>>
    BY DEF NewConnections
  <1> QED BY <1>11, <1>13, <1>14

\* What the clients do to their sockets, one field at a time.
SockAs(c, peer, inbound, sent) ==
    /\ sock' \in [Conns -> Socket]
    /\ sock'[c].peer = peer /\ sock'[c].inbound = inbound /\ sock'[c].sent = sent
    /\ \A d \in Conns : d # c => sock'[d] = sock[d]

\* The lines the read loop takes are all of them, from the holder of e.fd.
ReadsOpen(e) ==
    LET c == clients[e.fd].conn
    IN  /\ sock[c].peer = "open"
        /\ pending' = sock[c].inbound
        /\ SockAs(c, "open", <<>>, sock[c].sent)
        /\ UNCHANGED clients

LEMMA ClientReadEffect ==
  ASSUME Base, ClientRead
  PROVE  /\ \E e \in events :
               /\ e.fd \in DOMAIN clients /\ cur' = e /\ events' = events \ {e}
               /\ \/ ReadsOpen(e)
                  \/ clients' = Without(e.fd) /\ UNCHANGED <<pending, sock>>
         /\ net = "events" /\ net' = "lines"
         /\ UNCHANGED <<running, after, drained, next_sequence, matchVars,
                        ingress, responses, backlog, history>>
  <1>1. PICK e \in events :
          /\ e.fd # 0 /\ events' = events \ {e} /\ cur' = e
          /\ LET c == clients[e.fd].conn
                 n == Len(Readable(sock[c].inbound))
             IN  IF sock[c].peer = "open"
                 THEN /\ pending' = Readable(sock[c].inbound)
                      /\ sock' = [sock EXCEPT ![c].inbound = SubSeq(@, n + 1, Len(@))]
                      /\ UNCHANGED clients
                 ELSE /\ clients' = Without(e.fd)
                      /\ UNCHANGED <<pending, sock>>
    BY DEF ClientRead
  <1>6. /\ net = "events" /\ net' = "lines"
        /\ UNCHANGED <<running, after, drained, next_sequence, matchVars,
                       ingress, responses, backlog, history>>
    BY DEF ClientRead
  <1> DEFINE c     == clients[e.fd].conn
             lines == sock[c].inbound
  <1>2. e.fd \in DOMAIN clients
    BY <1>1 DEF Base, EventsOK
  <1>3. c \in Conns /\ sock \in [Conns -> Socket] /\ lines \in Seq(SentLine) /\ sock[c] \in Socket
    BY <1>2 DEF Base, Types, Client, Socket
  <1>4. CASE sock[c].peer = "open"
    <2>1. pending' = lines /\ UNCHANGED clients
          /\ sock' = [sock EXCEPT ![c].inbound = SubSeq(lines, Len(lines) + 1, Len(lines))]
      BY <1>1, <1>4 DEF Readable
    <2>2. SubSeq(lines, Len(lines) + 1, Len(lines)) = <<>>
      BY <1>3
    <2>3. sock' = [sock EXCEPT ![c].inbound = <<>>]
      BY <2>1, <2>2
    <2>4. <<>> \in Seq(SentLine)
      OBVIOUS
    <2> HIDE DEF c, lines
    <2>5. [sock[c] EXCEPT !.inbound = <<>>] \in Socket
      BY <1>3, <2>4 DEF Socket
    <2>6. sock'[c] = [sock[c] EXCEPT !.inbound = <<>>] /\ \A d \in Conns : d # c => sock'[d] = sock[d]
      BY <1>3, <2>3
    <2>7. sock' \in [Conns -> Socket]
      BY <1>3, <2>3, <2>5
    <2>8. SockAs(c, "open", <<>>, sock[c].sent)
      BY <1>3, <1>4, <2>6, <2>7 DEF SockAs, Socket
    <2>9. ReadsOpen(e)
      BY <1>4, <2>1, <2>8 DEF ReadsOpen, c, lines
    <2> QED BY <1>1, <1>2, <1>6, <2>9
  <1>5. CASE sock[c].peer # "open"
    BY <1>1, <1>2, <1>5, <1>6
  <1> QED BY <1>4, <1>5

\* epoll_wait and a client reading change no line and no peer.
LEMMA EpollEffect == ASSUME Types, EpollWait PROVE PeersKept
  <1>1. sock \in [Conns -> Socket]
    BY DEF Types
  <1>2. sock' = [c \in Conns |-> IF Open(c) THEN [sock[c] EXCEPT !.ready = FALSE] ELSE sock[c]]
    BY DEF EpollWait
  <1>3. ASSUME NEW c \in Conns
        PROVE  /\ sock'[c] \in Socket /\ sock'[c].peer = sock[c].peer
               /\ sock'[c].inbound = sock[c].inbound /\ sock'[c].sent = sock[c].sent
    <2>1. sock[c] \in Socket
      BY <1>1
    <2>2. sock'[c] = [sock[c] EXCEPT !.ready = FALSE] \/ sock'[c] = sock[c]
      BY <1>2
    <2> QED BY <2>1, <2>2 DEF Socket
  <1> QED BY <1>2, <1>3 DEF PeersKept

LEMMA ReadRepliesEffect == ASSUME Types, NEW c \in Conns, ReadReplies(c) PROVE PeersKept
  <1>1. sock \in [Conns -> Socket] /\ sock[c] \in Socket
    BY DEF Types
  <1>2. sock' = [sock EXCEPT ![c] = [sock[c] EXCEPT !.full = FALSE, !.ready = TRUE]]
    BY DEF ReadReplies
  <1> DEFINE roomy == [sock[c] EXCEPT !.full = FALSE, !.ready = TRUE]
  <1>3. /\ roomy \in Socket /\ roomy.peer = sock[c].peer
        /\ roomy.inbound = sock[c].inbound /\ roomy.sent = sock[c].sent
    BY <1>1 DEF Socket
  <1> HIDE DEF roomy
  <1>4. sock' = [sock EXCEPT ![c] = roomy]
    BY <1>2 DEF roomy
  <1> QED BY <1>1, <1>3, <1>4 DEF PeersKept

LEMMA ConnectEffect == ASSUME Types, NEW c \in Conns, Connect(c)
                       PROVE  SockAs(c, "open", sock[c].inbound, sock[c].sent)
  BY DEF Types, Connect, SockAs, Socket

LEMMA LeaveEffect == ASSUME Types, NEW c \in Conns, NEW how \in Departures, Leave(c, how)
                     PROVE  SockAs(c, how, sock[c].inbound, sock[c].sent)
  <1>1. how \in {"none", "open", "closed", "reset"}
    BY ConstantFacts
  <1>2. sock \in [Conns -> Socket] /\ sock' = [sock EXCEPT ![c].peer = how, ![c].ready = TRUE]
    BY DEF Types, Leave
  <1> QED BY <1>1, <1>2 DEF SockAs, Socket

LEMMA SendLineEffect ==
  ASSUME Types, NEW c \in Conns, NEW kind \in LineKinds, SendLine(c, kind)
  PROVE  SockAs(c, "open", Append(sock[c].inbound, [kind |-> kind, no |-> sock[c].sent + 1]),
                sock[c].sent + 1)
  <1> DEFINE line == [kind |-> kind, no |-> sock[c].sent + 1]
             more == Append(sock[c].inbound, line)
  <1>1. sock \in [Conns -> Socket] /\ sock[c] \in Socket /\ sock[c].sent \in Nat
        /\ sock[c].inbound \in Seq(SentLine)
    BY DEF Types, Socket
  <1>2. line \in SentLine
    BY <1>1 DEF SentLine
  <1>3. more \in Seq(SentLine)
    BY <1>1, <1>2
  <1>4. sock' = [sock EXCEPT ![c].inbound = more, ![c].sent = sock[c].sent + 1, ![c].ready = TRUE]
        /\ sock[c].peer = "open"
    BY DEF SendLine
  <1> HIDE DEF more
  <1> DEFINE after_send == [sock[c] EXCEPT !.inbound = more, !.sent = sock[c].sent + 1, !.ready = TRUE]
  <1>5. /\ after_send \in Socket /\ after_send.peer = "open" /\ after_send.inbound = more
        /\ after_send.sent = sock[c].sent + 1
    BY SMTT(30), <1>1, <1>3, <1>4 DEF Socket
  <1>6. sock'[c] = after_send /\ \A d \in Conns : d # c => sock'[d] = sock[d]
    BY <1>1, <1>4
  <1>7. sock' \in [Conns -> Socket]
    <2>1. sock' = [sock EXCEPT ![c] = after_send]
      BY <1>4
    <2> HIDE DEF after_send
    <2> QED BY <1>1, <1>5, <2>1
  <1> HIDE DEF after_send
  <1>8. SockAs(c, "open", more, sock[c].sent + 1)
    BY <1>5, <1>6, <1>7 DEF SockAs
  <1> QED BY <1>8 DEF more

\* What all of these keep: nobody connects, and a client that is still there is
\* the same.
OnlyWrites ==
    /\ PeersKept
    /\ DOMAIN clients' \subseteq DOMAIN clients
    /\ \A f \in DOMAIN clients' : clients'[f] \in Client /\ clients'[f].conn = clients[f].conn
    /\ delivered' \in [Conns -> Seq(Message)]
    /\ UNCHANGED <<backlog, fdOf>>

LEMMA ClientTypes == ASSUME Types, NEW fd \in DOMAIN clients
                     PROVE  /\ clients[fd] \in Client /\ clients[fd].conn \in Conns
                            /\ clients[fd].out \in Seq(Message) /\ fd \in Fds
  BY DEF Types, Client

LEMMA SockUnchanged == ASSUME Types, UNCHANGED sock PROVE PeersKept
  BY DEF Types, PeersKept

LEMMA WrittenKeeps ==
  ASSUME Types, UNCHANGED <<backlog, fdOf>>, NEW fd \in DOMAIN clients, NEW out, Written(fd, out)
  PROVE  OnlyWrites
  <1>1. CASE Flushed(fd, out)
    BY <1>1 DEF Types, Flushed, OnlyWrites
  <1>2. CASE clients' = Without(fd) /\ UNCHANGED <<delivered, sock>>
    BY <1>2, SockUnchanged DEF Types, Without, OnlyWrites
  <1> QED BY <1>1, <1>2 DEF Written

\* Only the client written to can be closed.
LEMMA WrittenCloses ==
  ASSUME NEW fd \in DOMAIN clients, NEW out, Written(fd, out)
  PROVE  DOMAIN clients \ {fd} \subseteq DOMAIN clients'
  BY DEF Written, Flushed, Without

LEMMA SameKeeps ==
  ASSUME Types, UNCHANGED <<clients, delivered, sock, backlog, fdOf>>
  PROVE  OnlyWrites
  BY SockUnchanged DEF Types, OnlyWrites

LEMMA DeliverKeeps == ASSUME Types, Control, DeliverResponse PROVE OnlyWrites
  <1>1. UNCHANGED <<backlog, fdOf>>
    BY DeliverEffect
  <1>2. CASE KilledNow
    BY <1>1, <1>2, SameKeeps DEF KilledNow
  <1>3. CASE Written(Head(drained).fd, Append(clients[Head(drained).fd].out, Head(drained)))
    <2>1. Head(drained).fd \in DOMAIN clients
      BY DeliverEffect
    <2> DEFINE fd == Head(drained).fd
    <2> HIDE DEF fd
    <2> QED BY <1>1, <1>3, <2>1, WrittenKeeps DEF fd
  <1> QED BY <1>2, <1>3, DeliverEffect

LEMMA RejectKeeps == ASSUME Types, RejectLine PROVE OnlyWrites
  <1>1. UNCHANGED <<backlog, fdOf>>
    BY RejectEffect DEF HandleLine
  <1>2. CASE KilledNow
    BY <1>1, <1>2, SameKeeps DEF KilledNow
  <1>3. CASE cur.fd \in DOMAIN clients /\ Written(cur.fd, Append(clients[cur.fd].out, Rejection))
    BY <1>1, <1>3, WrittenKeeps
  <1>4. CASE UNCHANGED <<clients, delivered, sock>>
    BY <1>1, <1>4, SameKeeps
  <1> QED BY <1>2, <1>3, <1>4, RejectEffect

LEMMA ClientWriteKeeps == ASSUME Types, ClientWrite PROVE OnlyWrites
  <1>1. UNCHANGED <<backlog, fdOf>>
    BY ClientWriteEffect
  <1>2. CASE KilledNow
    BY <1>1, <1>2, SameKeeps DEF KilledNow
  <1>3. CASE cur.fd \in DOMAIN clients /\ Written(cur.fd, clients[cur.fd].out)
    BY <1>1, <1>3, WrittenKeeps
  <1>4. CASE UNCHANGED <<clients, delivered, sock>>
    BY <1>1, <1>4, SameKeeps
  <1> QED BY <1>2, <1>3, <1>4, ClientWriteEffect

\* A layer that depends on the clients only through these.
LEMMA ArrivalsFrame ==
  ASSUME Types, Arrivals, UNCHANGED <<backlog, fdOf>>,
         \A c \in Conns : sock'[c].peer = "none" <=> sock[c].peer = "none"
  PROVE  Arrivals'
  <1>1. \A k \in 1 .. Len(backlog) : backlog[k] \in Conns
    BY DEF Types
  <1> QED BY <1>1 DEF Arrivals

LEMMA ArrivalsWrites == ASSUME Types, Arrivals, OnlyWrites PROVE Arrivals'
  <1>1. /\ UNCHANGED <<backlog, fdOf>>
        /\ \A c \in Conns : sock'[c].peer = "none" <=> sock[c].peer = "none"
    BY DEF OnlyWrites, PeersKept
  <1> QED BY <1>1, ArrivalsFrame

LEMMA HoldersFrame ==
  ASSUME Holders, UNCHANGED fdOf, DOMAIN clients' \subseteq DOMAIN clients,
         \A f \in DOMAIN clients' : clients'[f].conn = clients[f].conn,
         net' = "lines" => net = "lines" /\ cur' = cur
  PROVE  Holders'
  BY DEF Holders, Latest

LEMMA HoldersWrites ==
  ASSUME Holders, OnlyWrites, net' = "lines" => net = "lines" /\ cur' = cur
  PROVE  Holders'
  <1>1. /\ UNCHANGED fdOf /\ DOMAIN clients' \subseteq DOMAIN clients
        /\ \A f \in DOMAIN clients' : clients'[f].conn = clients[f].conn
    BY DEF OnlyWrites
  <1> QED BY <1>1, HoldersFrame

LEMMA TailFacts == ASSUME NEW S, NEW q \in Seq(S), Len(q) > 0
                   PROVE  /\ Head(q) \in S /\ Head(q) = q[1]
                          /\ Tail(q) \in Seq(S) /\ Len(Tail(q)) = Len(q) - 1
                          /\ \A k \in 1 .. Len(q) - 1 : Tail(q)[k] = q[k + 1]
  OBVIOUS

LEMMA BatchBound == ASSUME NEW q \in Seq(Message), NEW n \in 0 .. Min({MaxBatch, Len(q)})
                    PROVE  n \in 0 .. Len(q) /\ n <= MaxBatch
  <1>1. Len(q) \in Nat /\ MaxBatch \in Nat
    BY ConstantFacts
  <1> QED BY <1>1, MinOfTwo

\* What OnlyWrites leaves well typed.
LEMMA TypesWrites ==
  ASSUME Types, OnlyWrites
  PROVE  /\ DOMAIN clients' \subseteq Fds /\ \A fd \in DOMAIN clients' : clients'[fd] \in Client
         /\ sock' \in [Conns -> Socket] /\ delivered' \in [Conns -> Seq(Message)]
         /\ UNCHANGED <<backlog, fdOf>>
  BY DEF Types, OnlyWrites, PeersKept

LEMMA HandleTypes ==
  ASSUME Types, NEW kind, HandleLine(kind)
  PROVE  handled' \in [Conns -> Seq(Nat)] /\ Tail(pending) \in Seq(SentLine)
  <1>1. pending \in Seq(SentLine) /\ Len(pending) > 0 /\ handled \in [Conns -> Seq(Nat)]
        /\ handled' = [handled EXCEPT ![Sender] = Append(@, Head(pending).no)]
    BY DEF Types, HandleLine
  <1>2. Tail(pending) \in Seq(SentLine) /\ Head(pending).no \in Nat
    <2>1. Tail(pending) \in Seq(SentLine) /\ Head(pending) \in SentLine
      BY <1>1, TailFacts
    <2> QED BY <2>1 DEF SentLine
  <1> DEFINE who == Sender
             num == Head(pending).no
  <1> HIDE DEF who, num
  <1>3. handled' = [handled EXCEPT ![who] = Append(@, num)] /\ num \in Nat
    BY <1>1, <1>2 DEF who, num
  <1>4. \A c \in Conns : Append(handled[c], num) \in Seq(Nat)
    BY <1>1, <1>3
  <1> QED BY <1>1, <1>2, <1>3, <1>4

\* Sender is the holder of the descriptor, even when its client was erased.
LEMMA SenderLatest ==
  ASSUME Holders, net = "lines"
  PROVE  Sender \in Conns /\ Latest(cur.fd, Sender)
  <1>1. \E c \in Conns : /\ fdOf[c] = cur.fd
                         /\ \A d \in Conns : fdOf[d] = cur.fd => d <= c
    BY DEF Holders, Latest
  <1> QED BY <1>1 DEF Sender, Latest

\* The steps of a thread that touch nothing but running_ and the thread's place.
Moves == \/ SetupFails \/ StoreRunning \/ LaunchMatching \/ LoopTest \/ Join
         \/ EpollInterrupted \/ EventsDone \/ TestRunning \/ TestEmpty
         \/ UNCHANGED vars

LEMMA MovesOnly ==
  Moves => UNCHANGED <<workVars, drained, clients, next_sequence, batch, ingress, responses,
                       backlog, sock, history>>
  BY DEF Moves, SetupFails, StoreRunning, LaunchMatching, LoopTest, Join, EpollInterrupted,
         EventsDone, TestRunning, TestEmpty, rest, vars, netVars, matchVars, peerVars

LEMMA MovesPlaces ==
  Types /\ Moves =>
    /\ running' \in BOOLEAN /\ after' \in {"loop", "epoll", "cleanup"}
    /\ net' \in {net, "failed", "launch", "loop", "drain", "join"}
    /\ match' \in {match, "test", "pop", "empty", "exited"}
  BY DEF Types, Moves, SetupFails, StoreRunning, LaunchMatching, LoopTest, Join,
         EpollInterrupted, EventsDone, TestRunning, TestEmpty, rest, vars, netVars, matchVars

LEMMA TypesStep == Base /\ [Next]_vars => Types'
  <1> SUFFICES ASSUME Base, [Next]_vars PROVE Types'
    OBVIOUS
  <1>0. Types /\ Control /\ EventsOK /\ Holders /\ Arrivals
    BY DEF Base
  <1>1. CASE Moves
    <2>1. UNCHANGED <<workVars, drained, clients, next_sequence, batch, ingress, responses,
                      backlog, sock, history>>
      BY <1>1, MovesOnly
    <2>2. /\ running' \in BOOLEAN /\ after' \in {"loop", "epoll", "cleanup"}
          /\ net' \in {net, "failed", "launch", "loop", "drain", "join"}
          /\ match' \in {match, "test", "pop", "empty", "exited"}
      BY <1>0, <1>1, MovesPlaces
    <2> QED BY <1>0, <2>1, <2>2 DEF Types, workVars, history
  <1>2. CASE HangUp \/ WriteOnly
    BY <1>0, <1>2 DEF Types, HangUp, WriteOnly, Without, matchVars, peerVars, history
  <1>3. CASE Cleanup
    <2>1. DOMAIN clients' = {} /\ net' = "done"
      <3>1. clients' = <<>> /\ net' = "done"
        BY <1>3 DEF Cleanup
      <3> QED BY <3>1
    <2>2. UNCHANGED <<running, after, workVars, drained, next_sequence, matchVars, ingress,
                      responses, peerVars>>
      BY <1>3 DEF Cleanup
    <2> QED BY <1>0, <2>1, <2>2 DEF Types, workVars, matchVars, peerVars, history
  <1>4. CASE PopResponses
    <2>1. PICK n \in 0 .. Min({MaxBatch, Len(responses)}) :
               Responses!Take(n) /\ net' = IF n = 0 THEN after ELSE "deliver"
      BY <1>4 DEF PopResponses
    <2>2. n \in 0 .. Len(responses)
      BY <1>0, <2>1, BatchBound DEF Types
    <2>3. /\ drained' \in Seq(Message) /\ responses' \in Seq(Message)
          /\ Len(responses') <= Len(responses)
      BY <1>0, <2>1, <2>2, Cut DEF Types, Responses!Take
    <2>4. Len(responses') <= Capacity
      BY <1>0, <2>3, ConstantFacts DEF Types
    <2>5. UNCHANGED <<running, after, rest>>
      BY <1>4 DEF PopResponses
    <2> QED BY <1>0, <2>1, <2>3, <2>4, <2>5 DEF Types, rest, workVars, matchVars, peerVars, history
  <1>5. CASE DropResponse
    <2>1. drained' \in Seq(Message) /\ net' \in {after, "deliver"}
      BY <1>0, <1>5, TailFacts DEF Types, Control, DropResponse, NextResponse
    <2>2. UNCHANGED <<running, after, responses, rest>>
      BY <1>5 DEF DropResponse
    <2> QED BY <1>0, <2>1, <2>2 DEF Types, rest, workVars, matchVars, peerVars, history
  <1>6. CASE DeliverResponse
    <2>1. OnlyWrites
      BY <1>0, <1>6, DeliverKeeps
    <2>2. /\ drained' \in Seq(Message) /\ net' \in {after, "deliver", "killed"}
          /\ match' \in {match, "killed"}
      <3>1. Tail(drained) \in Seq(Message)
        BY <1>0, <1>6, DeliverEffect, TailFacts DEF Types
      <3> QED BY <1>0, <1>6, <3>1, DeliverEffect DEF Types, NextResponse, KilledNow
    <2>3. UNCHANGED <<running, after, workVars, next_sequence, batch, ingress,
                      responses, asked, handled, mark>>
      BY <1>0, <1>6, DeliverEffect
    <2> QED BY <1>0, <2>1, <2>2, <2>3, TypesWrites DEF Types, workVars
  <1>7. CASE EpollWait
    <2>1. sock' \in [Conns -> Socket]
      BY <1>0, <1>7, EpollEffect DEF PeersKept
    <2>2. events' \subseteq Event
      <3>1. \A fd \in DOMAIN clients : [fd |-> fd, mask |-> Mask(clients[fd].conn)] \in Event
        <4>1. \A c : Mask(c) \subseteq {"IN", "OUT", "HUP"}
          BY DEF Mask
        <4> QED BY <1>0, <4>1 DEF Types, Event
      <3>2. [fd |-> 0, mask |-> {"IN"}] \in Event
        BY DEF Event
      <3> QED BY <1>7, <3>1, <3>2 DEF EpollWait
    <2>3. net' = "events"
          /\ UNCHANGED <<running, after, cur, pending, drained, clients, next_sequence,
                         matchVars, ingress, responses, backlog, history>>
      BY <1>7 DEF EpollWait
    <2> QED BY <1>0, <2>1, <2>2, <2>3 DEF Types, matchVars, history
  <1>8. CASE NewConnections
    <2>1. PICK n, low : Accepted(n, low)
      BY <1>0, <1>8, AcceptEffect DEF Base
    <2>2. sock' \in [Conns -> Socket] /\ fdOf' \in [Conns -> Fds \cup {0}]
      BY <1>0, <1>8, <2>1, AcceptEffect DEF Base, PeersKept, Accepted
    <2>3. n \in 0 .. Len(backlog) /\ backlog \in Seq(Conns)
          /\ \A i \in 1 .. n : low[i] \in Fds
      BY <1>0, <2>1 DEF Types, Accepted
    <2>4. backlog' \in Seq(Conns) /\ \A i \in 1 .. n : backlog[i] \in Conns
      BY <2>1, <2>3, Cut DEF Accepted
    <2>5. DOMAIN clients' \subseteq Fds /\ \A fd \in DOMAIN clients' : clients'[fd] \in Client
      <3>1. <<>> \in Seq(Message)
        OBVIOUS
      <3>2. \A i \in 1 .. n : clients'[low[i]] \in Client
        <4> SUFFICES ASSUME NEW i \in 1 .. n PROVE clients'[low[i]] \in Client
          OBVIOUS
        <4>1. clients'[low[i]] = [conn |-> backlog[i], out |-> <<>>]
          BY <2>1 DEF Accepted
        <4> QED BY <2>4, <3>1, <4>1 DEF Client
      <3>3. \A fd \in DOMAIN clients : fd \in Fds /\ clients'[fd] \in Client
        BY <1>0, <2>1 DEF Accepted, Types
      <3>4. DOMAIN clients' = DOMAIN clients \cup {low[i] : i \in 1 .. n}
        BY <2>1 DEF Accepted
      <3> QED BY <2>3, <3>2, <3>3, <3>4
    <2>6. events' \subseteq events
          /\ UNCHANGED <<running, net, after, cur, pending, drained, next_sequence, matchVars,
                         ingress, responses, delivered, asked, handled, mark>>
      BY <1>0, <1>8, AcceptEffect DEF Base
    <2> QED BY <1>0, <2>2, <2>4, <2>5, <2>6 DEF Types, matchVars
  <1>9. CASE ClientRead
    <2>1. PICK e \in events : /\ e.fd \in DOMAIN clients /\ cur' = e /\ events' = events \ {e}
                              /\ \/ ReadsOpen(e)
                                 \/ clients' = Without(e.fd) /\ UNCHANGED <<pending, sock>>
      BY <1>0, <1>9, ClientReadEffect DEF Base
    <2>2. /\ pending' \in Seq(SentLine) /\ sock' \in [Conns -> Socket]
          /\ DOMAIN clients' \subseteq DOMAIN clients
          /\ \A fd \in DOMAIN clients' : clients'[fd] = clients[fd]
      <3>1. CASE ReadsOpen(e)
        <4>1. sock[clients[e.fd].conn].inbound \in Seq(SentLine)
          BY <1>0, <2>1, ClientTypes DEF Types, Socket
        <4> QED BY <3>1, <4>1 DEF ReadsOpen, SockAs
      <3>2. CASE clients' = Without(e.fd) /\ UNCHANGED <<pending, sock>>
        BY <1>0, <3>2 DEF Types, Without
      <3> QED BY <2>1, <3>1, <3>2
    <2>3. net' = "lines" /\ events' \subseteq events /\ cur' \in events
          /\ UNCHANGED <<running, after, drained, next_sequence, matchVars,
                         ingress, responses, backlog, history>>
      BY <1>9, <2>1 DEF ClientRead
    <2> QED BY <1>0, <2>2, <2>3 DEF Types, matchVars, history
  <1>10. CASE SkipBlank
    <2>1. handled' \in [Conns -> Seq(Nat)] /\ pending' \in Seq(SentLine)
      BY <1>0, <1>10, HandleTypes DEF SkipBlank, RestOfBuffer
    <2> QED BY <1>0, <1>10, <2>1 DEF Types, SkipBlank, HandleLine
  <1>11. CASE RejectLine
    <2>1. OnlyWrites
      BY <1>0, <1>11, RejectKeeps
    <2>2. handled' \in [Conns -> Seq(Nat)] /\ Tail(pending) \in Seq(SentLine)
      BY <1>0, <1>11, HandleTypes, RejectEffect
    <2>3. /\ pending' \in Seq(SentLine) /\ net' \in {net, "killed"} /\ match' \in {match, "killed"}
      <3>1. <<>> \in Seq(SentLine)
        OBVIOUS
      <3>2. pending' \in {pending, Tail(pending), <<>>} /\ net' \in {net, "killed"} /\ match' \in {match, "killed"}
        BY <1>0, <1>11, RejectEffect DEF KilledNow
      <3> QED BY <1>0, <2>2, <3>1, <3>2 DEF Types
    <2>4. UNCHANGED <<running, after, events, cur, drained, batch, responses, mark,
                      next_sequence, ingress, asked>>
      BY <1>0, <1>11, RejectEffect DEF HandleLine
    <2> QED BY <1>0, <2>1, <2>2, <2>3, <2>4, TypesWrites DEF Types
  <1>12. CASE QueueCommand
    <2>1. handled' \in [Conns -> Seq(Nat)] /\ pending' \in Seq(SentLine) /\ net = "lines"
      BY <1>0, <1>12, HandleTypes DEF QueueCommand, RestOfBuffer, HandleLine
    <2>2. Sender \in Conns
      BY <1>0, <2>1, SenderLatest
    <2>3. /\ asked' = Append(asked, Sender) /\ next_sequence' = next_sequence + 1
          /\ Len(ingress) < Capacity
          /\ ingress' = Append(ingress, [seq |-> next_sequence, fd |-> cur.fd])
      BY <1>12 DEF QueueCommand, Ingress!Put
    <2>4. /\ asked \in Seq(Conns) /\ next_sequence = Len(asked) + 1 /\ mark \in 0 .. next_sequence
          /\ ingress \in Seq(Message)
      BY <1>0 DEF Types
    <2>5. asked' \in Seq(Conns) /\ next_sequence' = Len(asked') + 1 /\ mark \in 0 .. next_sequence'
      BY <2>2, <2>3, <2>4
    <2>6. [seq |-> next_sequence, fd |-> cur.fd] \in Message
      BY <1>0, <2>1, <2>4 DEF Types, Event, EventsOK, Message
    <2>7. ingress' \in Seq(Message) /\ Len(ingress') <= Capacity
      BY <2>3, <2>4, <2>6, ConstantFacts
    <2>8. UNCHANGED <<net, clients, match, sock, delivered, batch, running, after, events, cur,
                      drained, responses, backlog, fdOf, mark>>
      BY <1>12 DEF QueueCommand, HandleLine, Ingress!Put
    <2> QED BY <1>0, <2>1, <2>5, <2>7, <2>8 DEF Types
  <1>13. CASE ClientWrite
    <2>1. OnlyWrites
      BY <1>0, <1>13, ClientWriteKeeps
    <2>2. net' \in {"events", "killed"} /\ match' \in {match, "killed"} /\ cur' \in Event
      BY <1>0, <1>13, ClientWriteEffect DEF KilledNow, NoEvent, Event
    <2>3. UNCHANGED <<running, after, events, pending, drained, next_sequence, batch,
                      ingress, responses, asked, handled, mark>>
      BY <1>0, <1>13, ClientWriteEffect
    <2> QED BY <1>0, <2>1, <2>2, <2>3, TypesWrites DEF Types
  <1>14. CASE PopCommands
    <2>1. PICK n \in 0 .. Min({MaxBatch, Len(ingress)}) :
               Ingress!Take(n) /\ match' = IF n = 0 THEN "test" ELSE "execute"
      BY <1>14 DEF PopCommands
    <2>2. n \in 0 .. Len(ingress)
      BY <1>0, <2>1, BatchBound DEF Types
    <2>3. batch' \in Seq(Message) /\ ingress' \in Seq(Message) /\ Len(ingress') <= Len(ingress)
      BY <1>0, <2>1, <2>2, Cut DEF Types, Ingress!Take
    <2>4. Len(ingress') <= Capacity
      BY <1>0, <2>3, ConstantFacts DEF Types
    <2>5. UNCHANGED <<running, netVars, responses, peerVars>>
      BY <1>14 DEF PopCommands
    <2> QED BY <1>0, <2>1, <2>3, <2>4, <2>5 DEF Types, netVars, workVars, peerVars, history
  <1>15. CASE ExecuteCommand
    <2>1. batch \in Seq(Message) /\ Len(batch) > 0 /\ responses \in Seq(Message)
      BY <1>0, <1>15 DEF Types, Control, ExecuteCommand
    <2>2. /\ responses' = Append(responses, Head(batch)) /\ Len(responses) < Capacity
          /\ batch' = Tail(batch) /\ match' \in {"test", "execute"}
      BY <1>15 DEF ExecuteCommand, Responses!Put, BatchItem
    <2>3. /\ batch' \in Seq(Message) /\ responses' \in Seq(Message)
          /\ Len(responses') <= Capacity
      BY <2>1, <2>2, TailFacts, ConstantFacts
    <2>4. UNCHANGED <<running, net, after, drained, workVars, clients, next_sequence, ingress, peerVars>>
      BY <1>15 DEF ExecuteCommand, Responses!Put
    <2> QED BY <1>0, <2>2, <2>3, <2>4 DEF Types, workVars, peerVars, history
  <1>16. CASE handle_signal
    <2>1. /\ running' = FALSE /\ mark' = IF running THEN next_sequence ELSE mark
          /\ UNCHANGED <<netVars, matchVars, ingress, responses, backlog, sock,
                         fdOf, delivered, asked, handled>>
      BY <1>16 DEF handle_signal, Stop
    <2>2. mark' \in 0 .. next_sequence
      BY <1>0, <2>1 DEF Types
    <2> QED BY <1>0, <2>1, <2>2 DEF Types, netVars, workVars, matchVars
  <1>17. CASE \E c \in Conns : Connect(c)
    <2> SUFFICES ASSUME NEW c \in Conns, Connect(c) PROVE Types'
      BY <1>17
    <2>1. sock' \in [Conns -> Socket]
      BY <1>0, ConnectEffect DEF SockAs
    <2>2. backlog' \in Seq(Conns)
      BY <1>0 DEF Types, Connect
    <2> QED BY <1>0, <2>1, <2>2 DEF Types, Connect, ServerUnchanged, netVars, workVars, matchVars, history
  <1>18. CASE \E c \in Conns : \E kind \in LineKinds : SendLine(c, kind)
    <2> SUFFICES ASSUME NEW c \in Conns, NEW kind \in LineKinds, SendLine(c, kind) PROVE Types'
      BY <1>18
    <2>1. sock' \in [Conns -> Socket]
      BY <1>0, SendLineEffect DEF SockAs
    <2>2. ServerUnchanged /\ UNCHANGED backlog
      BY DEF SendLine
    <2> QED BY <1>0, <2>1, <2>2 DEF Types, ServerUnchanged, netVars, workVars, matchVars, history
  <1>19. CASE \E c \in Conns : \E how \in Departures : Leave(c, how)
    <2> SUFFICES ASSUME NEW c \in Conns, NEW how \in Departures, Leave(c, how) PROVE Types'
      BY <1>19
    <2>1. sock' \in [Conns -> Socket]
      BY <1>0, LeaveEffect DEF SockAs
    <2>2. ServerUnchanged /\ UNCHANGED backlog
      BY DEF Leave
    <2> QED BY <1>0, <2>1, <2>2 DEF Types, ServerUnchanged, netVars, workVars, matchVars, history
  <1>20. CASE \E c \in Conns : ReadReplies(c)
    <2> SUFFICES ASSUME NEW c \in Conns, ReadReplies(c) PROVE Types'
      BY <1>20
    <2>1. sock' \in [Conns -> Socket]
      BY <1>0, ReadRepliesEffect DEF PeersKept
    <2>2. ServerUnchanged /\ UNCHANGED backlog
      BY DEF ReadReplies
    <2> QED BY <1>0, <2>1, <2>2 DEF Types, ServerUnchanged, netVars, workVars, matchVars, history
  <1> QED BY <1>1, <1>2, <1>3, <1>4, <1>5, <1>6, <1>7, <1>8, <1>9, <1>10, <1>11, <1>12, <1>13,
          <1>14, <1>15, <1>16, <1>17, <1>18, <1>19, <1>20 DEF Next, Network, Matching, Clients,
          Moves

LEMMA ControlStep == Base /\ [Next]_vars => Control'
  <1> SUFFICES ASSUME Base, [Next]_vars PROVE Control'
    OBVIOUS
  <1>0. Types /\ Control /\ EventsOK /\ Holders /\ Arrivals
    BY DEF Base
  <1>1. CASE Moves
    BY SMTT(30), <1>0, <1>1 DEF Control, Types, Moves, SetupFails, StoreRunning, LaunchMatching, LoopTest, Join,
         EpollInterrupted, EventsDone, TestRunning, TestEmpty, LoopEnds, rest, vars, netVars,
         workVars, matchVars
  <1>2. CASE Cleanup
    BY <1>0, <1>2 DEF Control, Cleanup, workVars, matchVars
  <1>3. CASE EpollWait \/ HangUp
    BY <1>0, <1>3 DEF Control, EpollWait, HangUp, matchVars
  <1>4. CASE NewConnections
    BY <1>0, <1>4 DEF Control, NewConnections, matchVars
  <1>5. CASE PopResponses
    BY <1>0, <1>5 DEF Control, PopResponses, Types, Responses!Take, rest, workVars, matchVars
  <1>6. CASE SkipBlank \/ QueueCommand
    BY <1>0, <1>6 DEF Control, SkipBlank, QueueCommand, HandleLine, RestOfBuffer
  <1>7. CASE RejectLine
    BY <1>0, <1>7 DEF Control, RejectLine, HandleLine, RestOfBuffer, Killed
  <1>8. CASE ClientWrite
    BY <1>0, <1>8 DEF Control, ClientWrite, Killed
  <1>9. CASE PopCommands
    BY <1>0, <1>9 DEF Control, PopCommands, Types, Ingress!Take, netVars, workVars
  <1>10. CASE handle_signal
    BY <1>0, <1>10 DEF Control, handle_signal, Stop, netVars, workVars, matchVars
  <1>11. CASE DropResponse
    <2>1. /\ Len(Tail(drained)) = Len(drained) - 1 /\ Len(drained) \in Nat \ {0}
          /\ net = "deliver" /\ NextResponse
      BY <1>0, <1>11, TailFacts DEF Types, Control, DropResponse
    <2>2. UNCHANGED <<running, after, workVars, match, batch>>
      BY <1>11 DEF DropResponse, rest, matchVars
    <2> QED BY SMTT(30), <1>0, <2>1, <2>2 DEF Control, Types, NextResponse, workVars
  <1>12. CASE DeliverResponse
    <2>1. /\ Len(Tail(drained)) = Len(drained) - 1 /\ Len(drained) \in Nat \ {0}
          /\ net = "deliver" /\ UNCHANGED <<running, after, workVars, batch>>
      BY <1>0, <1>12, DeliverEffect, TailFacts DEF Types
    <2>2. \/ KilledNow
          \/ NextResponse /\ UNCHANGED match
      BY <1>0, <1>12, DeliverEffect
    <2>3. match # "killed"
      BY <1>0, <2>1 DEF Control
    <2>4. CASE KilledNow
      BY <1>0, <2>1, <2>4 DEF Control, KilledNow, workVars
    <2>5. CASE NextResponse /\ UNCHANGED match
      BY SMTT(30), <1>0, <2>1, <2>5 DEF Control, Types, NextResponse, workVars
    <2> QED BY <2>2, <2>4, <2>5
  <1>13. CASE ClientRead
    <2>1. /\ net = "events" /\ net' = "lines"
          /\ UNCHANGED <<running, after, match, drained, batch>>
      BY <1>13 DEF ClientRead, matchVars
    <2> QED BY <1>0, <2>1 DEF Control
  <1>14. CASE WriteOnly
    <2>1. /\ net = "events" /\ net' = "lines"
          /\ UNCHANGED <<running, after, match, drained, batch>>
      BY <1>14 DEF WriteOnly, matchVars
    <2> QED BY <1>0, <2>1 DEF Control
  <1>15. CASE ExecuteCommand
    <2>1. /\ Len(Tail(batch)) = Len(batch) - 1 /\ Len(batch) \in Nat \ {0}
          /\ match = "execute" /\ batch' = Tail(batch)
          /\ match' = IF Len(batch) = 1 THEN "test" ELSE "execute"
      BY <1>0, <1>15, TailFacts DEF Types, Control, ExecuteCommand
    <2>2. UNCHANGED <<running, net, after, workVars, drained>>
      BY <1>15 DEF ExecuteCommand, Responses!Put
    <2> QED BY <1>0, <2>1, <2>2 DEF Control, workVars
  <1>16. CASE Clients
    <2>1. UNCHANGED <<running, net, after, match, drained, batch, events, pending>>
      BY <1>16 DEF Clients, Connect, SendLine, Leave, ReadReplies, ServerUnchanged, netVars, workVars, matchVars
    <2> QED BY <1>0, <2>1 DEF Control
  <1> QED BY <1>1, <1>2, <1>3, <1>4, <1>5, <1>6, <1>7, <1>8, <1>9, <1>10, <1>11, <1>12, <1>13,
          <1>14, <1>15, <1>16 DEF Next, Network, Matching, Moves

LEMMA EventsOKStep == Base /\ [Next]_vars => EventsOK'
  <1> SUFFICES ASSUME Base, [Next]_vars PROVE EventsOK'
    OBVIOUS
  <1>0. Types /\ Control /\ EventsOK /\ Holders /\ Arrivals
    BY DEF Base
  <1>1. CASE Moves
    <2>1. UNCHANGED <<events, cur, clients>>
      BY <1>1, MovesOnly DEF workVars
    <2>2. net' = "lines" => net = "lines"
      BY <1>0, <1>1, MovesPlaces
    <2> QED BY <1>0, <2>1, <2>2 DEF EventsOK
  <1>2. CASE NewConnections
    BY <1>0, <1>2 DEF EventsOK, NewConnections
  <1>3. CASE HangUp
    BY <1>0, <1>3 DEF EventsOK, HangUp, Without, Types
  <1>4. CASE ClientRead
    BY SMTT(30), <1>0, <1>4 DEF EventsOK, ClientRead, Without, Types
  <1>5. CASE WriteOnly
    BY <1>0, <1>5 DEF EventsOK, WriteOnly
  <1>6. CASE SkipBlank \/ QueueCommand \/ PopCommands \/ ExecuteCommand \/ handle_signal
    BY <1>0, <1>6 DEF EventsOK, SkipBlank, QueueCommand, PopCommands, ExecuteCommand,
          handle_signal, HandleLine, Stop, netVars, workVars
  <1>7. CASE Cleanup
    <2>1. /\ net \in {"cleanup", "drain", "deliver"} /\ net' \in {"done", "deliver", "killed", after}
          /\ UNCHANGED events
      BY <1>7 DEF Cleanup, workVars
    <2>2. events = {} /\ net' # "lines"
      BY <1>0, <2>1 DEF Types, Control
    <2> QED BY <2>1, <2>2 DEF EventsOK
  <1>8. CASE PopResponses
    <2>1. /\ net \in {"cleanup", "drain", "deliver"} /\ net' \in {"done", "deliver", "killed", after}
          /\ UNCHANGED events
      BY <1>8 DEF PopResponses, rest, workVars
    <2>2. events = {} /\ net' # "lines"
      BY <1>0, <2>1 DEF Types, Control
    <2> QED BY <2>1, <2>2 DEF EventsOK
  <1>9. CASE DropResponse
    <2>1. /\ net \in {"cleanup", "drain", "deliver"} /\ net' \in {"done", "deliver", "killed", after}
          /\ UNCHANGED events
      BY <1>9 DEF DropResponse, NextResponse, rest, workVars
    <2>2. events = {} /\ net' # "lines"
      BY <1>0, <2>1 DEF Types, Control
    <2> QED BY <2>1, <2>2 DEF EventsOK
  <1>10. CASE DeliverResponse
    <2>1. /\ net \in {"cleanup", "drain", "deliver"} /\ net' \in {"done", "deliver", "killed", after}
          /\ UNCHANGED events
      BY <1>0, <1>10, DeliverEffect DEF NextResponse, KilledNow, workVars
    <2>2. events = {} /\ net' # "lines"
      BY <1>0, <2>1 DEF Types, Control
    <2> QED BY <2>1, <2>2 DEF EventsOK
  <1>11. CASE EpollWait
    <2>1. UNCHANGED clients /\ net' = "events"
      BY <1>11 DEF EpollWait
    <2>2. \A e \in events' : \/ e = [fd |-> 0, mask |-> {"IN"}]
                             \/ /\ e.fd \in DOMAIN clients
                                /\ e = [fd |-> e.fd, mask |-> Mask(clients[e.fd].conn)]
      BY <1>11 DEF EpollWait
    <2>3. 0 \notin DOMAIN clients
      BY <1>0, ConstantFacts DEF Types
    <2>4. \A e \in events' : IF e.fd = 0 THEN e.mask = {"IN"} ELSE e.fd \in DOMAIN clients
      BY <2>2, <2>3
    <2>5. \A e, f \in events' : e.fd = f.fd => e = f
      <3> SUFFICES ASSUME NEW e \in events', NEW f \in events', e.fd = f.fd PROVE e = f
        OBVIOUS
      <3>1. CASE e.fd = 0
        BY <2>2, <2>3, <3>1
      <3>2. CASE e.fd # 0
        BY <2>2, <3>2
      <3> QED BY <3>1, <3>2
    <2> QED BY <2>1, <2>4, <2>5 DEF EventsOK
  <1>12. CASE RejectLine
    <2>1. UNCHANGED <<events, cur>> /\ net = "lines"
      BY <1>0, <1>12, RejectEffect DEF HandleLine
    <2>2. DOMAIN clients \ {cur.fd} \subseteq DOMAIN clients'
      <3>1. CASE cur.fd \in DOMAIN clients /\ Written(cur.fd, Append(clients[cur.fd].out, Rejection))
        BY <3>1, WrittenCloses
      <3>2. CASE UNCHANGED clients
        BY <3>2
      <3> QED BY <1>0, <1>12, <3>1, <3>2, RejectEffect DEF KilledNow
    <2>3. cur.fd # 0 /\ \A e \in events : e.fd # cur.fd
      BY <1>0, <2>1 DEF EventsOK
    <2> QED BY <1>0, <2>1, <2>2, <2>3 DEF EventsOK
  <1>13. CASE ClientWrite
    <2>1. UNCHANGED events /\ net = "lines" /\ net' # "lines"
      BY <1>0, <1>13, ClientWriteEffect DEF KilledNow
    <2>2. DOMAIN clients \ {cur.fd} \subseteq DOMAIN clients'
      <3>1. CASE cur.fd \in DOMAIN clients /\ Written(cur.fd, clients[cur.fd].out)
        BY <3>1, WrittenCloses
      <3>2. CASE UNCHANGED clients
        BY <3>2
      <3> QED BY <1>0, <1>13, <3>1, <3>2, ClientWriteEffect DEF KilledNow
    <2>3. \A e \in events : e.fd # cur.fd
      BY <1>0, <2>1 DEF EventsOK
    <2> QED BY <1>0, <2>1, <2>2, <2>3 DEF EventsOK
  <1>14. CASE Clients
    <2>1. UNCHANGED <<net, events, cur, clients>>
      BY <1>14 DEF Clients, Connect, SendLine, Leave, ReadReplies, ServerUnchanged, netVars, workVars
    <2> QED BY <1>0, <2>1 DEF EventsOK
  <1> QED BY <1>1, <1>2, <1>3, <1>4, <1>5, <1>6, <1>7, <1>8, <1>9, <1>10, <1>11, <1>12, <1>13,
          <1>14 DEF Next, Network, Matching, Moves

LEMMA HoldersStep == Base /\ [Next]_vars => Holders'
  <1> SUFFICES ASSUME Base, [Next]_vars PROVE Holders'
    OBVIOUS
  <1>0. Types /\ Control /\ EventsOK /\ Holders /\ Arrivals
    BY DEF Base
  <1>1. CASE Moves
    <2>1. UNCHANGED <<clients, fdOf, cur>>
      BY <1>1, MovesOnly DEF workVars, history
    <2>2. net' = "lines" => net = "lines"
      BY <1>0, <1>1, MovesPlaces
    <2> QED BY <1>0, <2>1, <2>2, HoldersFrame
  <1>2. CASE SkipBlank \/ QueueCommand \/ PopCommands \/ ExecuteCommand \/ handle_signal
    BY <1>0, <1>2 DEF Holders, SkipBlank, QueueCommand, PopCommands, ExecuteCommand,
          handle_signal, HandleLine, Stop, Latest, Ingress!Take, Responses!Put, netVars,
          workVars, matchVars, peerVars, history
  <1>3. CASE Clients
    BY <1>0, <1>3 DEF Holders, Clients, Connect, SendLine, Leave, ReadReplies, ServerUnchanged,
          Latest, netVars, workVars, matchVars, history
  <1>4. CASE Cleanup
    <2>1. UNCHANGED fdOf /\ net' # "lines" /\ clients' = <<>>
      BY <1>4 DEF Cleanup, peerVars, history
    <2>2. DOMAIN clients' = {}
      BY <2>1
    <2> QED BY <1>0, <2>1, <2>2, HoldersFrame
  <1>5. CASE PopResponses
    <2>1. UNCHANGED <<clients, fdOf>> /\ net' # "lines"
      BY <1>0, <1>5 DEF PopResponses, rest, peerVars, history, Types
    <2> QED BY <1>0, <2>1, HoldersFrame
  <1>6. CASE DropResponse
    <2>1. UNCHANGED <<clients, fdOf>> /\ net' # "lines"
      BY <1>0, <1>6 DEF DropResponse, NextResponse, rest, peerVars, history, Types
    <2> QED BY <1>0, <2>1, HoldersFrame
  <1>7. CASE DeliverResponse
    <2>1. OnlyWrites
      BY <1>0, <1>7, DeliverKeeps
    <2>2. net' = "lines" => net = "lines" /\ cur' = cur
      BY <1>0, <1>7, DeliverEffect DEF NextResponse, KilledNow, workVars, Types
    <2> QED BY <1>0, <2>1, <2>2, HoldersWrites
  <1>8. CASE EpollWait
    <2>1. UNCHANGED <<clients, fdOf>> /\ net' # "lines"
      BY <1>8 DEF EpollWait, history
    <2> QED BY <1>0, <2>1, HoldersFrame
  <1>9. CASE NewConnections
    <2>1. PICK n, low : Accepted(n, low)
      BY <1>9, AcceptEffect
    <2>2. net' # "lines"
      BY <1>9 DEF NewConnections
    <2>3. \A i \in 1 .. n : /\ backlog[i] \in Conns /\ fdOf[backlog[i]] = 0
                            /\ \A d \in Conns : fdOf[d] # 0 => d < backlog[i]
      <3>1. backlog \in Seq(Conns) /\ n \in 0 .. Len(backlog)
        BY <1>0, <2>1 DEF Types, Accepted
      <3>2. \A i \in 1 .. n : i \in 1 .. Len(backlog) /\ backlog[i] \in Conns
        BY <3>1
      <3> QED BY <1>0, <3>2 DEF Arrivals
    <2>4. \A i \in 1 .. n : low[i] \in Fds /\ low[i] \notin DOMAIN clients /\ low[i] # 0
      BY <2>1, ConstantFacts DEF Accepted
    <2>5. \A i, j \in 1 .. n : low[i] = low[j] => i = j
      <3>1. \A i \in 1 .. n : low[i] \in Nat
        BY <2>4, ConstantFacts
      <3>2. n \in Nat /\ \A i, j \in 1 .. n : i < j => low[i] < low[j]
        BY <1>0, <2>1 DEF Accepted, Types
      <3> QED BY <3>1, <3>2
    <2>6. \A d \in Conns : \/ \E i \in 1 .. n : backlog[i] = d /\ fdOf'[d] = low[i]
                           \/ fdOf'[d] = fdOf[d]
      BY <2>1 DEF Accepted
    <2>7. ASSUME NEW fd \in DOMAIN clients, NEW c \in Conns, c = clients[fd].conn
          PROVE  clients'[fd].conn = c /\ fdOf'[c] = fd /\ \A d \in Conns : fdOf'[d] = fd => d <= c
      <3>1. clients'[fd] = clients[fd] /\ fd \in Fds /\ fd # 0
        BY <1>0, <2>1, <2>7, ConstantFacts DEF Accepted, Types
      <3>2. fdOf[c] = fd /\ \A d \in Conns : fdOf[d] = fd => d <= c
        BY <1>0, <2>7 DEF Holders, Latest
      <3>3. fdOf'[c] = fd
        BY <2>3, <2>6, <3>1, <3>2
      <3>4. \A d \in Conns : fdOf'[d] = fd => fdOf[d] = fd
        BY <2>4, <2>6, <2>7
      <3> QED BY <2>7, <3>1, <3>2, <3>3, <3>4
    <2>8. ASSUME NEW i \in 1 .. n
          PROVE  /\ clients'[low[i]].conn = backlog[i] /\ fdOf'[backlog[i]] = low[i]
                 /\ \A d \in Conns : fdOf'[d] = low[i] => d <= backlog[i]
      <3>1. clients'[low[i]] = [conn |-> backlog[i], out |-> <<>>] /\ fdOf'[backlog[i]] = low[i]
        BY <2>1, <2>8 DEF Accepted
      <3>2. ASSUME NEW d \in Conns, fdOf'[d] = low[i] PROVE d <= backlog[i]
        <4>1. backlog[i] \in Nat /\ d \in Nat
          BY <2>3, <2>8, ConstantFacts
        <4>2. CASE \E j \in 1 .. n : backlog[j] = d /\ fdOf'[d] = low[j]
          <5>1. backlog[i] = d
            BY <2>5, <2>8, <3>2, <4>2
          <5> QED BY <4>1, <5>1
        <4>3. CASE fdOf'[d] = fdOf[d]
          <5>1. fdOf[d] # 0
            BY <2>4, <2>8, <3>2, <4>3
          <5>2. d < backlog[i]
            BY <2>3, <2>8, <5>1
          <5> QED BY <4>1, <5>2
        <4> QED BY <2>6, <4>2, <4>3
      <3> QED BY <3>1, <3>2
    <2>9. \A fd \in DOMAIN clients : clients[fd].conn \in Conns
      BY <1>0, ClientTypes
    <2>10. ASSUME NEW fd \in DOMAIN clients'
           PROVE  /\ fdOf'[clients'[fd].conn] = fd
                  /\ \A d \in Conns : fdOf'[d] = fd => d <= clients'[fd].conn
      <3>1. DOMAIN clients' = DOMAIN clients \cup {low[i] : i \in 1 .. n}
        BY <2>1 DEF Accepted
      <3>2. fd \in DOMAIN clients \/ \E i \in 1 .. n : fd = low[i]
        BY <2>10, <3>1
      <3>3. CASE fd \in DOMAIN clients
        BY <2>7, <2>9, <3>3
      <3>4. CASE \E i \in 1 .. n : fd = low[i]
        BY <2>8, <3>4
      <3> QED BY <3>2, <3>3, <3>4
    <2> QED BY <2>2, <2>10 DEF Holders, Latest
  <1>10. CASE HangUp
    <2>1. UNCHANGED fdOf /\ net' # "lines"
      BY <1>10 DEF HangUp, peerVars, history
    <2>2. /\ DOMAIN clients' \subseteq DOMAIN clients
          /\ \A f \in DOMAIN clients' : clients'[f].conn = clients[f].conn
      BY <1>10 DEF HangUp, Without
    <2> QED BY <1>0, <2>1, <2>2, HoldersFrame
  <1>11. CASE ClientRead
    <2>1. PICK e \in events : /\ e.fd \in DOMAIN clients /\ cur' = e
                              /\ ReadsOpen(e) \/ clients' = Without(e.fd)
      BY <1>0, <1>11, ClientReadEffect DEF Base
    <2>2. clients[e.fd].conn \in Conns
      BY <1>0, <2>1, ClientTypes
    <2>3. UNCHANGED fdOf /\ Latest(e.fd, clients[e.fd].conn)
      BY <1>0, <1>11, <2>1 DEF Holders, ClientRead, history
    <2>4. /\ DOMAIN clients' \subseteq DOMAIN clients
          /\ \A f \in DOMAIN clients' : clients'[f] = clients[f]
      BY <2>1 DEF ReadsOpen, Without
    <2>5. \A f \in DOMAIN clients' : Latest(f, clients'[f].conn)
      BY <1>0, <2>4 DEF Holders
    <2> QED BY <2>1, <2>2, <2>3, <2>5 DEF Holders, Latest
  <1>12. CASE WriteOnly
    <2>1. PICK e \in events : e.fd # 0 /\ cur' = e
      BY <1>12 DEF WriteOnly
    <2>2. e.fd \in DOMAIN clients /\ UNCHANGED <<clients, fdOf>>
      BY <1>0, <1>12, <2>1 DEF EventsOK, WriteOnly, peerVars, history
    <2>3. Latest(e.fd, clients[e.fd].conn) /\ clients[e.fd].conn \in Conns
      BY <1>0, <2>2, ClientTypes DEF Holders
    <2> QED BY <1>0, <2>1, <2>2, <2>3 DEF Holders, Latest
  <1>13. CASE RejectLine
    <2>1. OnlyWrites
      BY <1>0, <1>13, RejectKeeps
    <2>2. net' = "lines" => net = "lines" /\ cur' = cur
      BY <1>0, <1>13, RejectEffect DEF HandleLine
    <2> QED BY <1>0, <2>1, <2>2, HoldersWrites
  <1>14. CASE ClientWrite
    <2>1. OnlyWrites
      BY <1>0, <1>14, ClientWriteKeeps
    <2>2. net' # "lines"
      BY <1>0, <1>14, ClientWriteEffect DEF KilledNow
    <2> QED BY <1>0, <2>1, <2>2, HoldersWrites
  <1> QED BY <1>1, <1>2, <1>3, <1>4, <1>5, <1>6, <1>7, <1>8, <1>9, <1>10, <1>11, <1>12, <1>13,
          <1>14 DEF Next, Network, Matching, Moves

LEMMA ArrivalsStep == Base /\ [Next]_vars => Arrivals'
  <1> SUFFICES ASSUME Base, [Next]_vars PROVE Arrivals'
    OBVIOUS
  <1>0. Types /\ Control /\ EventsOK /\ Holders /\ Arrivals
    BY DEF Base
  <1>1. CASE Moves
    <2>1. UNCHANGED <<backlog, sock, fdOf>>
      BY <1>1, MovesOnly DEF history
    <2> QED BY <1>0, <2>1, ArrivalsFrame
  <1>2. CASE Cleanup \/ PopResponses \/ DropResponse \/ HangUp \/ WriteOnly \/ SkipBlank \/
               QueueCommand \/ PopCommands \/ ExecuteCommand \/ handle_signal
    BY <1>0, <1>2 DEF Arrivals, Cleanup, PopResponses, DropResponse, HangUp, WriteOnly,
          SkipBlank, QueueCommand, PopCommands, ExecuteCommand, handle_signal, HandleLine, Stop,
          netVars, rest, peerVars, history
  <1>3. CASE DeliverResponse
    <2>1. OnlyWrites
      BY <1>0, <1>3, DeliverKeeps
    <2> QED BY <1>0, <2>1, ArrivalsWrites
  <1>4. CASE EpollWait
    <2>1. UNCHANGED <<backlog, fdOf>>
          /\ \A c \in Conns : sock'[c].peer = "none" <=> sock[c].peer = "none"
      BY <1>0, <1>4, EpollEffect DEF EpollWait, history, PeersKept
    <2> QED BY <1>0, <2>1, ArrivalsFrame
  <1>5. CASE NewConnections
    <2>1. PICK n, low : Accepted(n, low)
      BY <1>0, <1>5, AcceptEffect DEF Base
    <2>2. PeersKept
      BY <1>0, <1>5, AcceptEffect DEF Base
    <2>3. backlog \in Seq(Conns) /\ n \in 0 .. Len(backlog) /\ backlog' = SubSeq(backlog, n + 1, Len(backlog))
      BY <1>0, <2>1 DEF Types, Accepted
    <2>4. /\ Len(backlog') = Len(backlog) - n
          /\ \A k \in 1 .. Len(backlog) - n : backlog'[k] = backlog[n + k]
      BY <2>3, Cut
    <2>5. \A k \in 1 .. Len(backlog) : /\ backlog[k] \in Conns /\ fdOf[backlog[k]] = 0
                                       /\ sock[backlog[k]].peer # "none"
                                       /\ \A d \in Conns : fdOf[d] # 0 => d < backlog[k]
      BY <1>0, <2>3 DEF Arrivals
    <2>6. \A j, k \in 1 .. Len(backlog) : j < k => backlog[j] < backlog[k]
      BY <1>0 DEF Arrivals
    <2>7. \A d \in Conns : \/ \E i \in 1 .. n : backlog[i] = d
                           \/ fdOf'[d] = fdOf[d]
      BY <2>1 DEF Accepted
    <2>8. ASSUME NEW k \in 1 .. Len(backlog')
          PROVE  /\ fdOf'[backlog'[k]] = 0 /\ sock'[backlog'[k]].peer # "none"
                 /\ \A d \in Conns : fdOf'[d] # 0 => d < backlog'[k]
      <3>1. n + k \in 1 .. Len(backlog) /\ backlog'[k] = backlog[n + k] /\ n + k > n
            /\ \A i \in 1 .. n : i \in 1 .. Len(backlog) /\ i < n + k
        BY SMTT(30), <2>3, <2>4
      <3>2. backlog[n + k] \in Nat /\ \A i \in 1 .. n : backlog[i] < backlog[n + k]
        BY <2>5, <2>6, <3>1, ConstantFacts
      <3>3. \A i \in 1 .. n : backlog[i] # backlog[n + k]
        BY <2>5, <3>1, <3>2, ConstantFacts
      <3>4. fdOf'[backlog[n + k]] = 0 /\ sock'[backlog[n + k]].peer # "none"
        BY <2>2, <2>5, <2>7, <3>1, <3>3 DEF PeersKept
      <3>5. \A d \in Conns : fdOf'[d] # 0 => d < backlog[n + k]
        BY <2>5, <2>7, <3>1, <3>2
      <3> QED BY <3>1, <3>4, <3>5
    <2>9. \A j, k \in 1 .. Len(backlog') : j < k => backlog'[j] < backlog'[k]
      <3> SUFFICES ASSUME NEW j \in 1 .. Len(backlog'), NEW k \in 1 .. Len(backlog'), j < k
                   PROVE  backlog'[j] < backlog'[k]
        OBVIOUS
      <3>1. n + j \in 1 .. Len(backlog) /\ n + k \in 1 .. Len(backlog) /\ n + j < n + k
        BY <2>3, <2>4
      <3> QED BY <2>4, <2>6, <3>1
    <2>10. ASSUME NEW c \in Conns, sock'[c].peer = "none"
           PROVE  fdOf'[c] = 0 /\ \A d \in Conns : d > c => sock'[d].peer = "none"
      <3>1. sock[c].peer = "none"
        BY <2>2, <2>10 DEF PeersKept
      <3>2. fdOf[c] = 0 /\ \A d \in Conns : d > c => sock[d].peer = "none"
        BY <1>0, <3>1 DEF Arrivals
      <3>3. \A i \in 1 .. n : backlog[i] # c
        BY <2>3, <2>5, <3>1
      <3> QED BY <2>2, <2>7, <3>2, <3>3 DEF PeersKept
    <2> QED BY <2>8, <2>9, <2>10 DEF Arrivals
  <1>6. CASE ClientRead
    <2>1. UNCHANGED <<backlog, fdOf>>
      BY <1>6 DEF ClientRead, history
    <2>2. PICK e \in events : /\ e.fd \in DOMAIN clients
                              /\ ReadsOpen(e) \/ UNCHANGED sock
      BY <1>0, <1>6, ClientReadEffect DEF Base
    <2>3. CASE ReadsOpen(e)
      <3>1. \A c \in Conns : sock'[c].peer = "none" <=> sock[c].peer = "none"
        BY <2>3 DEF ReadsOpen, SockAs
      <3> QED BY <1>0, <2>1, <3>1, ArrivalsFrame
    <2>4. CASE UNCHANGED sock
      BY <1>0, <2>1, <2>4, ArrivalsFrame
    <2> QED BY <2>2, <2>3, <2>4
  <1>7. CASE RejectLine
    <2>1. OnlyWrites
      BY <1>0, <1>7, RejectKeeps
    <2> QED BY <1>0, <2>1, ArrivalsWrites
  <1>8. CASE ClientWrite
    <2>1. OnlyWrites
      BY <1>0, <1>8, ClientWriteKeeps
    <2> QED BY <1>0, <2>1, ArrivalsWrites
  <1>9. CASE \E c \in Conns : Connect(c)
    <2> SUFFICES ASSUME NEW c \in Conns, Connect(c) PROVE Arrivals'
      BY <1>9
    <2>1. SockAs(c, "open", sock[c].inbound, sock[c].sent)
      BY <1>0, ConnectEffect
    <2>2. /\ sock[c].peer = "none" /\ \A d \in Conns : d < c => sock[d].peer # "none"
          /\ backlog' = Append(backlog, c) /\ UNCHANGED fdOf
      BY DEF Connect, ServerUnchanged, history
    <2>3. /\ backlog \in Seq(Conns)
          /\ \A k \in 1 .. Len(backlog) : backlog[k] \in Conns /\ backlog[k] # c
      <3>1. backlog \in Seq(Conns)
        BY <1>0 DEF Types
      <3>2. \A k \in 1 .. Len(backlog) : sock[backlog[k]].peer # "none" /\ backlog[k] \in Conns
        BY <1>0, <3>1 DEF Arrivals
      <3> QED BY <2>2, <3>1, <3>2
    <2>4. \A d \in Conns : d # c => sock'[d] = sock[d]
      BY <2>1 DEF SockAs
    <2>5. sock'[c].peer # "none"
      BY <2>1 DEF SockAs
    <2>6. \A d \in Conns : sock[d].peer # "none" => d <= c
      <3> SUFFICES ASSUME NEW d \in Conns, sock[d].peer # "none" PROVE d <= c
        OBVIOUS
      <3>1. c \in Nat /\ d \in Nat
        BY ConstantFacts
      <3> QED BY <1>0, <2>2, <3>1 DEF Arrivals
    <2>7. \A d \in Conns : fdOf[d] # 0 => sock[d].peer # "none" /\ d # c
      BY <1>0, <2>2 DEF Arrivals
    <2>8. \A d \in Conns : sock[d].peer # "none" => d < c
      <3> SUFFICES ASSUME NEW d \in Conns, sock[d].peer # "none" PROVE d < c
        OBVIOUS
      <3>1. c \in Nat /\ d \in Nat /\ d # c /\ d <= c
        BY <2>2, <2>6, ConstantFacts
      <3> QED BY <3>1
    <2>9. \A k \in 1 .. Len(backlog) : sock[backlog[k]].peer # "none"
      BY <1>0 DEF Arrivals
    <2>10. \A k \in 1 .. Len(backlog') : \/ k \in 1 .. Len(backlog) /\ backlog'[k] = backlog[k]
                                         \/ k = Len(backlog) + 1 /\ backlog'[k] = c
      BY <2>2, <2>3
    <2>11. ASSUME NEW k \in 1 .. Len(backlog')
           PROVE  /\ fdOf'[backlog'[k]] = 0 /\ sock'[backlog'[k]].peer # "none"
                  /\ \A d \in Conns : fdOf'[d] # 0 => d < backlog'[k]
      <3>1. CASE k \in 1 .. Len(backlog) /\ backlog'[k] = backlog[k]
        BY <1>0, <2>2, <2>3, <2>4, <3>1 DEF Arrivals
      <3>2. CASE backlog'[k] = c
        BY <1>0, <2>2, <2>5, <2>7, <2>8, <3>2 DEF Arrivals
      <3> QED BY <2>10, <3>1, <3>2
    <2>12. \A j, k \in 1 .. Len(backlog') : j < k => backlog'[j] < backlog'[k]
      <3> SUFFICES ASSUME NEW j \in 1 .. Len(backlog'), NEW k \in 1 .. Len(backlog'), j < k
                   PROVE  backlog'[j] < backlog'[k]
        OBVIOUS
      <3>1. j \in 1 .. Len(backlog) /\ backlog'[j] = backlog[j]
        BY <2>2, <2>3
      <3>2. CASE k \in 1 .. Len(backlog) /\ backlog'[k] = backlog[k]
        BY <1>0, <3>1, <3>2 DEF Arrivals
      <3>3. CASE backlog'[k] = c
        BY <2>3, <2>8, <2>9, <3>1, <3>3
      <3> QED BY <2>10, <3>2, <3>3
    <2>13. ASSUME NEW d \in Conns, sock'[d].peer = "none"
           PROVE  fdOf'[d] = 0 /\ \A f \in Conns : f > d => sock'[f].peer = "none"
      <3>1. d # c /\ sock[d].peer = "none"
        BY <2>4, <2>5, <2>13
      <3>2. c \in Nat /\ d \in Nat /\ ~(d < c)
        BY <2>2, <3>1, ConstantFacts
      <3>3. \A f \in Conns : f > d => f # c /\ sock[f].peer = "none"
        BY <1>0, <3>1, <3>2 DEF Arrivals
      <3>4. fdOf[d] = 0
        BY <1>0, <3>1 DEF Arrivals
      <3> QED BY <2>2, <2>4, <3>3, <3>4
    <2> QED BY <2>11, <2>12, <2>13 DEF Arrivals
  <1>10. CASE \E c \in Conns : \E kind \in LineKinds : SendLine(c, kind)
    <2> SUFFICES ASSUME NEW c \in Conns, NEW kind \in LineKinds, SendLine(c, kind) PROVE Arrivals'
      BY <1>10
    <2>1. UNCHANGED <<backlog, fdOf>> /\ sock[c].peer = "open"
      BY DEF SendLine, ServerUnchanged, history
    <2>2. \A d \in Conns : sock'[d].peer = "none" <=> sock[d].peer = "none"
      BY <1>0, <2>1, SendLineEffect DEF SockAs
    <2> QED BY <1>0, <2>1, <2>2, ArrivalsFrame
  <1>11. CASE \E c \in Conns : \E how \in Departures : Leave(c, how)
    <2> SUFFICES ASSUME NEW c \in Conns, NEW how \in Departures, Leave(c, how) PROVE Arrivals'
      BY <1>11
    <2>1. UNCHANGED <<backlog, fdOf>> /\ sock[c].peer = "open" /\ how # "none"
      BY ConstantFacts DEF Leave, ServerUnchanged, history
    <2>2. \A d \in Conns : sock'[d].peer = "none" <=> sock[d].peer = "none"
      BY <1>0, <2>1, LeaveEffect DEF SockAs
    <2> QED BY <1>0, <2>1, <2>2, ArrivalsFrame
  <1>12. CASE \E c \in Conns : ReadReplies(c)
    <2> SUFFICES ASSUME NEW c \in Conns, ReadReplies(c) PROVE Arrivals'
      BY <1>12
    <2>1. UNCHANGED <<backlog, fdOf>>
      BY DEF ReadReplies, ServerUnchanged, history
    <2>2. \A d \in Conns : sock'[d].peer = "none" <=> sock[d].peer = "none"
      BY <1>0, ReadRepliesEffect DEF PeersKept
    <2> QED BY <1>0, <2>1, <2>2, ArrivalsFrame
  <1> QED BY <1>1, <1>2, <1>3, <1>4, <1>5, <1>6, <1>7, <1>8, <1>9, <1>10, <1>11, <1>12 DEF Next,
          Network, Matching, Clients, Moves

\* Init makes the first layer true.
LEMMA BaseInit == Init => Base
  <1> SUFFICES ASSUME Init PROVE Base
    OBVIOUS
  <1> USE ConstantFacts
  <1>1. /\ <<>> \in Seq(SentLine) /\ <<>> \in Seq(Message) /\ <<>> \in Seq(Conns) /\ <<>> \in Seq(Nat)
        /\ DOMAIN <<>> = {}
    OBVIOUS
  <1>2. Types
    <2>1. sock \in [Conns -> Socket]
      BY <1>1 DEF Init, Socket
    <2>2. NoEvent \in Event
      BY DEF NoEvent, Event
    <2>3. Len(<<>>) = 0 /\ mark \in 0 .. next_sequence /\ next_sequence = Len(asked) + 1
      BY DEF Init
    <2>4. /\ fdOf \in [Conns -> Fds \cup {0}] /\ delivered \in [Conns -> Seq(Message)]
          /\ handled \in [Conns -> Seq(Nat)]
      BY <1>1 DEF Init
    <2>5. running \in BOOLEAN /\ events \subseteq Event /\ DOMAIN clients = {}
      BY <1>1 DEF Init
    <2> QED BY <1>1, <2>1, <2>2, <2>3, <2>4, <2>5 DEF Init, Types
  <1>3. Control /\ EventsOK /\ Holders /\ Arrivals
    BY <1>1 DEF Init, Control, EventsOK, Holders, Arrivals
  <1> QED BY <1>2, <1>3 DEF Base

LEMMA BaseStep == Base /\ [Next]_vars => Base'
  BY TypesStep, ControlStep, EventsOKStep, HoldersStep, ArrivalsStep DEF Base

-----------------------------------------------------------------------------
(* Second layer: the pipeline                                              *)

\* Number of the first command on its way, or the next one if there is none.
Oldest == next_sequence - (Len(drained) + Len(responses) + Len(batch) + Len(ingress))

Numbered(queue, first) == \A k \in 1 .. Len(queue) : queue[k].seq = first + k - 1

Pipe ==
    /\ Oldest > 0
    /\ Numbered(drained, Oldest)
    /\ Numbered(responses, Oldest + Len(drained))
    /\ Numbered(batch, Oldest + Len(drained) + Len(responses))
    /\ Numbered(ingress, next_sequence - Len(ingress))
    /\ match = "exited" => \A k \in 1 .. Len(ingress) : ingress[k].seq >= mark

LEMMA NumberedTail == ASSUME NEW q \in Seq(Message), NEW first \in Int, Numbered(q, first), Len(q) > 0
                      PROVE  Head(q).seq = first /\ Numbered(Tail(q), first + 1)
  <1>1. Head(q).seq = first
    BY TailFacts DEF Numbered
  <1>2. ASSUME NEW k \in 1 .. Len(Tail(q)) PROVE Tail(q)[k].seq = first + 1 + k - 1
    <2>1. k + 1 \in 1 .. Len(q) /\ Tail(q)[k] = q[k + 1] /\ k \in Nat
      BY <1>2, TailFacts
    <2> QED BY <2>1 DEF Numbered
  <1> QED BY <1>1, <1>2 DEF Numbered

LEMMA NumberedCut == ASSUME NEW q \in Seq(Message), NEW first \in Int, Numbered(q, first),
                            NEW n \in 0 .. Len(q)
                     PROVE  /\ Numbered(SubSeq(q, 1, n), first)
                            /\ Numbered(SubSeq(q, n + 1, Len(q)), first + n)
  <1> DEFINE front == SubSeq(q, 1, n)
             back  == SubSeq(q, n + 1, Len(q))
  <1>1. /\ Len(front) = n /\ \A k \in 1 .. n : front[k] = q[k]
        /\ Len(back) = Len(q) - n /\ \A k \in 1 .. Len(q) - n : back[k] = q[n + k]
    BY Cut
  <1> HIDE DEF front, back
  <1>2. Numbered(front, first)
    <2> SUFFICES ASSUME NEW k \in 1 .. Len(front) PROVE front[k].seq = first + k - 1
      BY DEF Numbered
    <2>1. k \in 1 .. Len(q) /\ front[k] = q[k]
      BY <1>1
    <2> QED BY <2>1 DEF Numbered
  <1>3. ASSUME NEW k \in 1 .. Len(back) PROVE back[k].seq = first + n + k - 1
    <2>1. n + k \in 1 .. Len(q) /\ back[k] = q[n + k] /\ n \in Nat /\ k \in Nat
      BY <1>1, <1>3
    <2>2. q[n + k].seq = first + (n + k) - 1
      BY <2>1 DEF Numbered
    <2> QED BY <2>1, <2>2
  <1>4. Numbered(back, first + n)
    BY <1>3 DEF Numbered
  <1> QED BY <1>2, <1>4 DEF front, back

LEMMA NumberedAppend == ASSUME NEW q \in Seq(Message), NEW first \in Int, Numbered(q, first),
                               NEW msg \in Message, msg.seq = first + Len(q)
                        PROVE  Numbered(Append(q, msg), first)
  <1> DEFINE r == Append(q, msg)
  <1>1. /\ Len(r) = Len(q) + 1 /\ r[Len(q) + 1] = msg
        /\ \A k \in 1 .. Len(q) : r[k] = q[k]
    OBVIOUS
  <1> HIDE DEF r
  <1>2. ASSUME NEW k \in 1 .. Len(r) PROVE r[k].seq = first + k - 1
    <2>1. CASE k \in 1 .. Len(q)
      BY <1>1, <2>1 DEF Numbered
    <2>2. CASE k = Len(q) + 1
      BY <1>1, <2>2
    <2> QED BY <1>1, <1>2, <2>1, <2>2
  <1> QED BY <1>2 DEF Numbered, r

LEMMA NumberedJoin == ASSUME NEW p \in Seq(Message), NEW q \in Seq(Message), NEW first \in Int,
                             Numbered(p, first), Numbered(q, first + Len(p))
                      PROVE  /\ p \o q \in Seq(Message) /\ Len(p \o q) = Len(p) + Len(q)
                             /\ Numbered(p \o q, first)
  <1> DEFINE r == p \o q
  <1>1. /\ r \in Seq(Message) /\ Len(r) = Len(p) + Len(q)
        /\ \A k \in 1 .. Len(p) : r[k] = p[k]
        /\ \A k \in Len(p) + 1 .. Len(p) + Len(q) : r[k] = q[k - Len(p)]
    BY Joined
  <1> HIDE DEF r
  <1>2. ASSUME NEW k \in 1 .. Len(r) PROVE r[k].seq = first + k - 1
    <2>1. CASE k \in 1 .. Len(p)
      BY <1>1, <2>1 DEF Numbered
    <2>2. CASE k \in Len(p) + 1 .. Len(p) + Len(q)
      <3>1. k - Len(p) \in 1 .. Len(q) /\ r[k] = q[k - Len(p)]
        BY <1>1, <2>2
      <3>2. q[k - Len(p)].seq = first + Len(p) + (k - Len(p)) - 1
        BY <3>1 DEF Numbered
      <3> QED BY <2>2, <3>1, <3>2
    <2> QED BY <1>1, <2>1, <2>2
  <1> QED BY <1>1, <1>2 DEF Numbered, r

\* The numbers in Pipe.
LEMMA PipeTypes ==
  ASSUME Types
  PROVE  /\ next_sequence \in Nat /\ Oldest \in Int /\ mark \in Nat /\ mark <= next_sequence
         /\ Len(drained) \in Nat /\ Len(responses) \in Nat /\ Len(batch) \in Nat /\ Len(ingress) \in Nat
         /\ drained \in Seq(Message) /\ responses \in Seq(Message)
         /\ batch \in Seq(Message) /\ ingress \in Seq(Message)
  BY DEF Types, Oldest

LEMMA PipeFrame ==
  ASSUME Types, Pipe, UNCHANGED <<next_sequence, drained, responses, batch, ingress>>,
         match' = "exited" => (match = "exited" /\ mark' = mark) \/ Len(ingress) = 0
  PROVE  Pipe'
  BY SMTT(30) DEF Pipe, Oldest, Numbered

\* The next response leaves the pipeline.
LEMMA PipeNextResponse ==
  ASSUME Types, Pipe, NextResponse, Len(drained) > 0, match' \in {match, "killed"},
         UNCHANGED <<next_sequence, responses, batch, ingress, mark>>
  PROVE  Head(drained).seq = Oldest /\ Oldest' = Oldest + 1 /\ Pipe'
  <1>1. drained' = Tail(drained) /\ Len(drained') = Len(drained) - 1
    BY PipeTypes, TailFacts DEF NextResponse
  <1>2. Oldest' = Oldest + 1
    BY <1>1, PipeTypes DEF Oldest
  <1>6. Oldest \in Int /\ Len(drained) \in Nat
    BY PipeTypes
  <1>3. Head(drained).seq = Oldest /\ Numbered(Tail(drained), Oldest + 1)
    BY PipeTypes, NumberedTail DEF Pipe
  <1>4. Numbered(drained, Oldest)'
    BY <1>1, <1>2, <1>3 DEF Numbered
  <1>5. Oldest' + Len(drained') = Oldest + Len(drained)
    <2>1. Len(drained') = Len(drained) - 1
      BY <1>1
    <2> QED BY <2>1, <1>2, <1>6
  <1>7. /\ Oldest' > 0 /\ next_sequence' - Len(ingress') = next_sequence - Len(ingress)
        /\ Oldest' + Len(drained') + Len(responses') = Oldest + Len(drained) + Len(responses)
    BY <1>2, <1>5, <1>6 DEF Pipe
  <1>8. /\ Numbered(responses, Oldest + Len(drained))'
        /\ Numbered(batch, Oldest + Len(drained) + Len(responses))'
        /\ Numbered(ingress, next_sequence - Len(ingress))'
    BY <1>5, <1>7 DEF Pipe, Numbered
  <1>9. match' = "exited" => \A k \in 1 .. Len(ingress') : ingress'[k].seq >= mark'
    BY DEF Pipe
  <1> QED BY <1>2, <1>3, <1>4, <1>7, <1>8, <1>9 DEF Pipe

LEMMA PipeStep == Base /\ Base' /\ Pipe /\ [Next]_vars => Pipe'
  <1> SUFFICES ASSUME Base, Base', Pipe, [Next]_vars PROVE Pipe'
    OBVIOUS
  <1>0. Types /\ Control
    BY DEF Base
  <1>1. CASE Moves
    <2>1. UNCHANGED <<next_sequence, drained, responses, batch, ingress, mark>>
      BY <1>1, MovesOnly DEF history
    <2>2. match' = "exited" => match = "exited" \/ Len(ingress) = 0
      BY <1>0, <1>1 DEF Moves, SetupFails, StoreRunning, LaunchMatching, LoopTest, Join,
            EpollInterrupted, EventsDone, TestRunning, TestEmpty, LoopEnds, rest, matchVars, vars, Types
    <2> QED BY <1>0, <2>1, <2>2, PipeFrame
  <1>2. CASE \/ Cleanup \/ EpollWait \/ NewConnections \/ HangUp \/ ClientRead \/ WriteOnly
             \/ SkipBlank \/ Clients
    <2>1. UNCHANGED <<next_sequence, drained, responses, batch, ingress, match, mark>>
      BY <1>2 DEF Cleanup, EpollWait, NewConnections, HangUp, ClientRead, WriteOnly, SkipBlank,
            HandleLine, Clients, Connect, SendLine, Leave, ReadReplies, ServerUnchanged,
            netVars, matchVars, peerVars, history
    <2> QED BY <1>0, <2>1, PipeFrame
  <1>3. CASE RejectLine \/ ClientWrite
    <2>1. /\ match' \in {match, "killed"}
          /\ UNCHANGED <<next_sequence, drained, responses, batch, ingress, mark>>
      BY <1>0, <1>3, RejectEffect, ClientWriteEffect DEF HandleLine, KilledNow
    <2> QED BY <1>0, <2>1, PipeFrame
  <1>4. CASE PopResponses
    <2>1. PICK n \in 0 .. Min({MaxBatch, Len(responses)}) : Responses!Take(n)
      BY <1>4 DEF PopResponses
    <2>2. n \in 0 .. Len(responses)
      BY <1>0, <2>1, BatchBound, PipeTypes
    <2>3. drained' = SubSeq(responses, 1, n) /\ responses' = SubSeq(responses, n + 1, Len(responses))
      BY <2>1 DEF Responses!Take
    <2>4. Len(drained) = 0 /\ UNCHANGED <<next_sequence, batch, ingress, match, mark>>
      BY <1>0, <1>4 DEF Control, PopResponses, rest, matchVars, peerVars, history
    <2>5. Len(drained') = n /\ Len(responses') = Len(responses) - n
      BY <1>0, <2>2, <2>3, Cut, PipeTypes
    <2>6. Oldest' = Oldest
      BY <1>0, <2>2, <2>4, <2>5, PipeTypes DEF Oldest
    <2>7. Numbered(responses, Oldest)
      BY <1>0, <2>4, PipeTypes DEF Pipe
    <2>8. /\ Numbered(SubSeq(responses, 1, n), Oldest)
          /\ Numbered(SubSeq(responses, n + 1, Len(responses)), Oldest + n)
      BY <1>0, <2>2, <2>7, NumberedCut, PipeTypes
    <2>9. Numbered(drained, Oldest)' /\ Numbered(responses, Oldest + Len(drained))'
      BY <2>3, <2>5, <2>6, <2>8 DEF Numbered
    <2>10. Oldest' + Len(drained') + Len(responses') = Oldest + Len(drained) + Len(responses)
      BY <1>0, <2>2, <2>4, <2>5, <2>6, PipeTypes
    <2> QED BY <2>4, <2>6, <2>9, <2>10 DEF Pipe, Numbered
  <1>5. CASE DropResponse
    <2>1. NextResponse /\ Len(drained) > 0 /\ UNCHANGED <<next_sequence, responses, batch, ingress, match, mark>>
      BY <1>0, <1>5 DEF Control, DropResponse, rest, matchVars, peerVars, history
    <2> QED BY <1>0, <2>1, PipeNextResponse
  <1>6. CASE DeliverResponse
    <2>1. Len(drained) > 0 /\ UNCHANGED <<next_sequence, responses, batch, ingress, mark>>
      BY <1>0, <1>6, DeliverEffect
    <2>2. CASE NextResponse /\ UNCHANGED match
      BY <1>0, <2>1, <2>2, PipeNextResponse
    <2>3. CASE KilledNow /\ UNCHANGED drained
      BY <1>0, <2>1, <2>3, PipeFrame DEF KilledNow
    <2> QED BY <1>0, <1>6, <2>2, <2>3, DeliverEffect
  <1>7. CASE QueueCommand
    <2> DEFINE msg == [seq |-> next_sequence, fd |-> cur.fd]
    <2>1. /\ ingress' = Append(ingress, msg) /\ next_sequence' = next_sequence + 1
          /\ UNCHANGED <<drained, responses, batch, match, mark>>
      BY <1>7 DEF QueueCommand, HandleLine, Ingress!Put
    <2>2. msg \in Message /\ msg.seq = next_sequence
      <3>1. cur.fd \in Fds
        BY <1>7 DEF Base, EventsOK, Types, Event, QueueCommand, HandleLine
      <3> QED BY <1>0, <3>1, PipeTypes DEF Message
    <2> HIDE DEF msg
    <2>3. /\ Len(ingress') = Len(ingress) + 1 /\ Len(drained') = Len(drained)
          /\ Len(responses') = Len(responses) /\ Len(batch') = Len(batch)
          /\ next_sequence' = next_sequence + 1
      BY <1>0, <2>1, <2>2, PipeTypes
    <2>4. Oldest' = Oldest /\ next_sequence' - Len(ingress') = next_sequence - Len(ingress)
      <3>1. Oldest' = Oldest
        BY <1>0, <2>3, PipeTypes DEF Oldest
      <3>2. next_sequence' - Len(ingress') = next_sequence - Len(ingress)
        BY <1>0, <2>3, PipeTypes
      <3> QED BY <3>1, <3>2
    <2>5. Numbered(Append(ingress, msg), next_sequence - Len(ingress))
      BY <1>0, <2>2, NumberedAppend, PipeTypes DEF Pipe
    <2>6. Numbered(ingress, next_sequence - Len(ingress))'
      BY <2>1, <2>4, <2>5 DEF Numbered
    <2>7. match = "exited" => \A k \in 1 .. Len(ingress') : ingress'[k].seq >= mark
      <3> SUFFICES ASSUME match = "exited", NEW k \in 1 .. Len(ingress') PROVE ingress'[k].seq >= mark
        OBVIOUS
      <3>1. CASE k \in 1 .. Len(ingress)
        BY <1>0, <2>1, <2>2, <3>1, PipeTypes DEF Pipe
      <3>2. CASE k = Len(ingress) + 1
        BY <1>0, <2>1, <2>2, <3>2, PipeTypes
      <3> QED BY <1>0, <2>3, <3>1, <3>2, PipeTypes
    <2> QED BY <2>1, <2>4, <2>6, <2>7 DEF Pipe, Numbered
  <1>8. CASE PopCommands
    <2>1. PICK n \in 0 .. Min({MaxBatch, Len(ingress)}) :
               Ingress!Take(n) /\ match' = IF n = 0 THEN "test" ELSE "execute"
      BY <1>8 DEF PopCommands
    <2>2. n \in 0 .. Len(ingress)
      BY <1>0, <2>1, BatchBound, PipeTypes
    <2>3. batch' = SubSeq(ingress, 1, n) /\ ingress' = SubSeq(ingress, n + 1, Len(ingress))
      BY <2>1 DEF Ingress!Take
    <2>4. Len(batch) = 0 /\ match' # "exited" /\ UNCHANGED <<next_sequence, drained, responses, mark>>
      BY <1>0, <1>8, <2>1 DEF Control, PopCommands, netVars, peerVars, history
    <2>5. Len(batch') = n /\ Len(ingress') = Len(ingress) - n
      BY <1>0, <2>2, <2>3, Cut, PipeTypes
    <2>6. Oldest' = Oldest
      BY <1>0, <2>2, <2>4, <2>5, PipeTypes DEF Oldest
    <2>7. /\ Numbered(SubSeq(ingress, 1, n), next_sequence - Len(ingress))
          /\ Numbered(SubSeq(ingress, n + 1, Len(ingress)), next_sequence - Len(ingress) + n)
      BY <1>0, <2>2, NumberedCut, PipeTypes DEF Pipe
    <2>8. /\ Oldest + Len(drained) + Len(responses) = next_sequence - Len(ingress)
          /\ next_sequence - Len(ingress') = next_sequence - Len(ingress) + n
      BY <1>0, <2>2, <2>4, <2>5, PipeTypes DEF Oldest
    <2>9. Numbered(batch, Oldest + Len(drained) + Len(responses))'
          /\ Numbered(ingress, next_sequence - Len(ingress))'
      BY <2>3, <2>4, <2>6, <2>7, <2>8 DEF Numbered
    <2> QED BY <2>4, <2>6, <2>9 DEF Pipe, Numbered
  <1>9. CASE ExecuteCommand
    <2>1. /\ responses' = Append(responses, Head(batch)) /\ batch' = Tail(batch) /\ match' # "exited"
          /\ UNCHANGED <<next_sequence, drained, ingress, mark>>
      BY <1>9 DEF ExecuteCommand, Responses!Put, BatchItem, peerVars, history
    <2>2. Len(batch) > 0
      BY <1>0, <1>9 DEF Control, ExecuteCommand
    <2>3. /\ Head(batch) \in Message /\ Len(batch') = Len(batch) - 1
          /\ Len(responses') = Len(responses) + 1
          /\ Len(drained') = Len(drained) /\ Len(ingress') = Len(ingress)
          /\ next_sequence' = next_sequence
      BY <1>0, <2>1, <2>2, TailFacts, PipeTypes
    <2>4. Oldest' = Oldest
      BY <1>0, <2>3, PipeTypes DEF Oldest
    <2>5. /\ Head(batch).seq = Oldest + Len(drained) + Len(responses)
          /\ Numbered(Tail(batch), Oldest + Len(drained) + Len(responses) + 1)
      BY <1>0, <2>2, NumberedTail, PipeTypes DEF Pipe
    <2>6. Numbered(Append(responses, Head(batch)), Oldest + Len(drained))
      BY <1>0, <2>3, <2>5, NumberedAppend, PipeTypes DEF Pipe
    <2>7. Oldest' + Len(drained') + Len(responses') = Oldest + Len(drained) + Len(responses) + 1
      BY <1>0, <2>1, <2>3, <2>4, PipeTypes
    <2>8. Numbered(responses, Oldest + Len(drained))'
          /\ Numbered(batch, Oldest + Len(drained) + Len(responses))'
      BY <2>1, <2>4, <2>5, <2>6, <2>7 DEF Numbered
    <2> QED BY <2>1, <2>4, <2>8 DEF Pipe, Numbered
  <1>10. CASE handle_signal
    <2>1. /\ mark' = IF running THEN next_sequence ELSE mark
          /\ UNCHANGED <<next_sequence, drained, responses, batch, ingress, match>>
      BY <1>10 DEF handle_signal, Stop, netVars, matchVars
    <2>2. match' = "exited" => match = "exited" /\ mark' = mark
      BY <1>0, <2>1 DEF Control
    <2> QED BY <1>0, <2>1, <2>2, PipeFrame
  <1> QED BY <1>1, <1>2, <1>3, <1>4, <1>5, <1>6, <1>7, <1>8, <1>9, <1>10
          DEF Next, Network, Matching, Moves

-----------------------------------------------------------------------------
(* The theorems of the first two layers                                    *)

LEMMA PlaceInFour ==
  ASSUME NEW p \in Seq(Message), NEW q \in Seq(Message), NEW r \in Seq(Message), NEW s \in Seq(Message),
         NEW first \in Int, Numbered(p, first), Numbered(q, first + Len(p)),
         Numbered(r, first + Len(p) + Len(q)), Numbered(s, first + Len(p) + Len(q) + Len(r))
  PROVE  Numbered(p \o q \o r \o s, first) /\ Len(p \o q \o r \o s) = Len(p) + Len(q) + Len(r) + Len(s)
  <1>1. p \o q \in Seq(Message) /\ Len(p \o q) = Len(p) + Len(q) /\ Numbered(p \o q, first)
    BY NumberedJoin
  <1>2. /\ p \o q \o r \in Seq(Message) /\ Len(p \o q \o r) = Len(p) + Len(q) + Len(r)
        /\ Numbered(p \o q \o r, first)
    <2> DEFINE pq == p \o q
    <2> HIDE DEF pq
    <2>1. pq \in Seq(Message) /\ Len(pq) = Len(p) + Len(q) /\ Numbered(pq, first)
      BY <1>1 DEF pq
    <2>2. Numbered(r, first + Len(pq))
      BY <2>1 DEF Numbered
    <2>3. pq \o r \in Seq(Message) /\ Len(pq \o r) = Len(pq) + Len(r) /\ Numbered(pq \o r, first)
      BY <2>1, <2>2, NumberedJoin
    <2> QED BY <2>1, <2>3 DEF pq
  <1> DEFINE pqr == p \o q \o r
  <1> HIDE DEF pqr
  <1>3. /\ pqr \in Seq(Message) /\ Len(pqr) = Len(p) + Len(q) + Len(r) /\ Numbered(pqr, first)
    BY <1>2 DEF pqr
  <1>4. Numbered(s, first + Len(pqr))
    BY <1>3 DEF Numbered
  <1>5. Numbered(pqr \o s, first) /\ Len(pqr \o s) = Len(pqr) + Len(s)
    BY <1>3, <1>4, NumberedJoin
  <1> QED BY <1>3, <1>5 DEF pqr

\* The commands on their way carry the numbers up to the next one.
LEMMA InFlightNumbered ==
  ASSUME Types, Pipe
  PROVE  /\ Numbered(InFlight, Oldest) /\ InFlight \in Seq(Message)
         /\ Oldest = next_sequence - Len(InFlight)
  <1>1. next_sequence - Len(ingress) = Oldest + Len(drained) + Len(responses) + Len(batch)
    BY PipeTypes DEF Oldest
  <1>2. /\ Numbered(drained, Oldest) /\ Numbered(responses, Oldest + Len(drained))
        /\ Numbered(batch, Oldest + Len(drained) + Len(responses))
        /\ Numbered(ingress, Oldest + Len(drained) + Len(responses) + Len(batch))
    BY <1>1 DEF Pipe
  <1>3. /\ Numbered(InFlight, Oldest)
        /\ Len(InFlight) = Len(drained) + Len(responses) + Len(batch) + Len(ingress)
    BY <1>2, PlaceInFour, PipeTypes DEF InFlight
  <1>4. InFlight \in Seq(Message)
    BY PipeTypes DEF InFlight
  <1> QED BY <1>3, <1>4 DEF Oldest

LEMMA PipeInit == Init => Pipe
  <1> SUFFICES ASSUME Init PROVE Pipe
    OBVIOUS
  <1>1. /\ Len(drained) = 0 /\ Len(responses) = 0 /\ Len(batch) = 0 /\ Len(ingress) = 0
        /\ next_sequence = 1 /\ match = "off"
    BY DEF Init
  <1>2. Oldest = 1
    BY <1>1 DEF Oldest
  <1> QED BY <1>1, <1>2 DEF Pipe, Numbered

\* The two layers are an invariant of the gateway: whatever the threads, the
\* clients, the kernel and stop() do, and in whatever order.
THEOREM GatewayInvariance == Spec => [](Base /\ Pipe)
  <1>1. Init => Base /\ Pipe
    BY BaseInit, PipeInit
  <1>2. (Base /\ Pipe) /\ [Next]_vars => (Base /\ Pipe)'
    BY BaseStep, PipeStep
  <1> QED BY <1>1, <1>2, PTL DEF Spec

\* "Strict ordering: sequence numbers are assigned in the network thread": with
\* every capacity and batch size, the commands between process_client_line and
\* the client are consecutive, none lost, repeated or overtaken.
THEOREM PipelineKeepsOrder == Spec => []PipelineInOrder
  <1>1. Base /\ Pipe => PipelineInOrder
    <2> SUFFICES ASSUME Types, Pipe PROVE PipelineInOrder
      BY DEF Base
    <2> QED BY InFlightNumbered DEF PipelineInOrder, Numbered
  <1> QED BY <1>1, GatewayInvariance, PTL

\* matching_thread_loop ends only when running_ is false and the ingress queue
\* was found empty after that: what was queued when stop() took effect has been
\* executed when start() returns.
THEOREM StopExecutesQueued == Spec => []ExecutedBeforeReturn
  <1>1. Base /\ Pipe => ExecutedBeforeReturn
    <2> SUFFICES ASSUME Base, Pipe, net = "done", NEW msg \in Range(ingress \o batch)
                 PROVE  msg.seq >= mark
      BY DEF ExecutedBeforeReturn
    <2>0. Types /\ Control
      BY DEF Base
    <2>1. match = "exited" /\ Len(batch) = 0
      BY <2>0 DEF Control
    <2>2. ingress \in Seq(Message) /\ batch \in Seq(Message)
      BY <2>0, PipeTypes
    <2>3. ingress \o batch = ingress
      BY <2>1, <2>2
    <2>4. PICK k \in 1 .. Len(ingress) : msg = ingress[k]
      BY <2>2, <2>3 DEF Range
    <2> QED BY <2>1, <2>4 DEF Pipe
  <1> QED BY <1>1, GatewayInvariance, PTL

-----------------------------------------------------------------------------
(* Who holds a descriptor                                                  *)

LEMMA LatestUnique == ASSUME NEW fd, NEW c \in Conns, NEW d \in Conns, Latest(fd, c), Latest(fd, d)
                      PROVE  c = d
  BY ConstantFacts DEF Latest

LEMMA OpenLatest == ASSUME Holders, NEW c \in Conns, Open(c)
                    PROVE  fdOf[c] \in DOMAIN clients /\ clients[fdOf[c]].conn = c /\ Latest(fdOf[c], c)
  BY DEF Holders, Open

LEMMA HolderOpen == ASSUME Types, Holders, NEW fd \in DOMAIN clients
                    PROVE  LET c == clients[fd].conn
                           IN  c \in Conns /\ Open(c) /\ fdOf[c] = fd /\ Latest(fd, c)
  <1>1. clients[fd].conn \in Conns
    BY ClientTypes
  <1> QED BY <1>1 DEF Holders, Latest, Open

\* Two open connections have different descriptors.
LEMMA OpenApart == ASSUME NEW c \in Conns, NEW d \in Conns, Open(c), Open(d), fdOf[c] = fdOf[d]
                   PROVE  c = d
  BY DEF Open

\* With the same connections on the same descriptors, nobody opens.
LEMMA OpenKept == ASSUME UNCHANGED fdOf, DOMAIN clients' \subseteq DOMAIN clients,
                         \A f \in DOMAIN clients' : clients'[f].conn = clients[f].conn,
                         NEW c, Open(c)'
                  PROVE  Open(c)
  BY DEF Open

\* accept() opens the connections that had no descriptor, and no other.
LEMMA AcceptOpens ==
  ASSUME Base, NewConnections
  PROVE  \A c \in Conns : \/ /\ fdOf[c] = 0 /\ fdOf'[c] # 0 /\ fdOf'[c] \in DOMAIN clients'
                             /\ clients'[fdOf'[c]] = [conn |-> c, out |-> <<>>]
                          \/ /\ fdOf'[c] = fdOf[c] /\ Open(c)' = Open(c)
                             /\ Open(c) => clients'[fdOf[c]] = clients[fdOf[c]]
  <1>1. PICK n, low : Accepted(n, low)
    BY AcceptEffect
  <1>2. Types /\ Arrivals
    BY DEF Base
  <1>3. \A i \in 1 .. n : i \in 1 .. Len(backlog) /\ backlog[i] \in Conns
    <2>1. backlog \in Seq(Conns) /\ n \in 0 .. Len(backlog)
      BY <1>1, <1>2 DEF Accepted, Types
    <2> QED BY <2>1
  <1>4. \A i \in 1 .. n : /\ fdOf[backlog[i]] = 0 /\ fdOf'[backlog[i]] = low[i]
                          /\ low[i] \in Fds /\ low[i] \notin DOMAIN clients /\ low[i] \in DOMAIN clients'
                          /\ clients'[low[i]] = [conn |-> backlog[i], out |-> <<>>]
    BY <1>1, <1>2, <1>3 DEF Accepted, Arrivals
  <1> SUFFICES ASSUME NEW c \in Conns
               PROVE  \/ /\ fdOf[c] = 0 /\ fdOf'[c] # 0 /\ fdOf'[c] \in DOMAIN clients'
                         /\ clients'[fdOf'[c]] = [conn |-> c, out |-> <<>>]
                      \/ /\ fdOf'[c] = fdOf[c] /\ Open(c)' = Open(c)
                         /\ Open(c) => clients'[fdOf[c]] = clients[fdOf[c]]
    OBVIOUS
  <1>5. CASE \E i \in 1 .. n : backlog[i] = c
    BY <1>4, <1>5, ConstantFacts
  <1>6. CASE \A i \in 1 .. n : backlog[i] # c
    <2>1. fdOf'[c] = fdOf[c]
      BY <1>1, <1>6 DEF Accepted
    <2>2. /\ DOMAIN clients' = DOMAIN clients \cup {low[i] : i \in 1 .. n}
          /\ \A fd \in DOMAIN clients : clients'[fd] = clients[fd]
      BY <1>1 DEF Accepted
    <2>3. Open(c) => Open(c)' /\ clients'[fdOf[c]] = clients[fdOf[c]]
      BY <2>1, <2>2 DEF Open
    <2>4. ASSUME Open(c)' PROVE Open(c)
      <3>1. fdOf[c] \in DOMAIN clients' /\ clients'[fdOf[c]].conn = c
        BY <2>1, <2>4 DEF Open
      <3>2. \A i \in 1 .. n : fdOf[c] # low[i]
        <4> SUFFICES ASSUME NEW i \in 1 .. n, fdOf[c] = low[i] PROVE FALSE
          OBVIOUS
        <4>1. clients'[fdOf[c]] = [conn |-> backlog[i], out |-> <<>>]
          BY <1>4
        <4>2. backlog[i] = c
          BY <3>1, <4>1
        <4> QED BY <1>6, <4>2
      <3> QED BY <2>2, <3>1, <3>2 DEF Open
    <2> QED BY <2>1, <2>3, <2>4 DEF Open
  <1> QED BY <1>5, <1>6

-----------------------------------------------------------------------------
(* Third layer: lines                                                      *)

\* Lines of c processed, in the socket and, if c is the client being read, still
\* in its read_buffer.
LinesOf(c) ==
    /\ \A k \in 1 .. Len(handled[c]) : handled[c][k] = k
    /\ \A k \in 1 .. Len(sock[c].inbound) :
          sock[c].inbound[k].no = sock[c].sent - Len(sock[c].inbound) + k
    /\ Len(handled[c]) + Len(sock[c].inbound) <= sock[c].sent
    /\ fdOf[c] = 0 => Len(handled[c]) + Len(sock[c].inbound) = sock[c].sent
    /\ Open(c) /\ net # "killed" =>
          Len(handled[c]) + Len(sock[c].inbound)
              + (IF cur.fd = fdOf[c] THEN Len(pending) ELSE 0) = sock[c].sent

\* The lines being processed are the next ones of that client, also when its
\* connection was closed under them.
PendingOf(c) ==
    /\ \A k \in 1 .. Len(pending) : pending[k].no = Len(handled[c]) + k
    /\ Len(handled[c]) + Len(pending) + Len(sock[c].inbound) <= sock[c].sent

Lines ==
    /\ \A c \in Conns : LinesOf(c)
    /\ net = "lines" => \A c \in Conns : Latest(cur.fd, c) => PendingOf(c)

LEMMA LineTypes == ASSUME Types, NEW c \in Conns
                   PROVE  /\ handled[c] \in Seq(Nat) /\ Len(handled[c]) \in Nat
                          /\ sock[c].inbound \in Seq(SentLine) /\ Len(sock[c].inbound) \in Nat
                          /\ sock[c].sent \in Nat
                          /\ pending \in Seq(SentLine) /\ Len(pending) \in Nat
  BY SMTT(30) DEF Types, Socket

LEMMA LinesInit == Init => Lines
  BY DEF Init, Lines, LinesOf, Open, NoEvent

\* Steps that process, read and receive no line.
LEMMA LinesFrame ==
  ASSUME Types, Lines, UNCHANGED <<handled, fdOf>>,
         \A c \in Conns : sock'[c].inbound = sock[c].inbound /\ sock'[c].sent = sock[c].sent,
         \A c \in Conns : Open(c)' => Open(c),
         net' # "killed" => /\ net # "killed"
                            /\ \/ UNCHANGED <<cur, pending>>
                               \/ Len(pending) = 0 /\ Len(pending') = 0,
         net' = "lines" => (net = "lines" /\ UNCHANGED <<cur, pending>>) \/ Len(pending') = 0
  PROVE  Lines'
  <1>1. ASSUME NEW c \in Conns PROVE LinesOf(c)'
    <2>1. LinesOf(c)
      BY DEF Lines
    <2>2. Open(c)' /\ net' # "killed" =>
             Len(handled'[c]) + Len(sock'[c].inbound)
                 + (IF cur'.fd = fdOf'[c] THEN Len(pending') ELSE 0) = sock'[c].sent
      BY <2>1 DEF LinesOf
    <2> QED BY <2>1, <2>2 DEF LinesOf
  <1>2. ASSUME net' = "lines", NEW c \in Conns, Latest(cur.fd, c)' PROVE PendingOf(c)'
    <2>1. CASE net = "lines" /\ UNCHANGED <<cur, pending>>
      BY <1>2, <2>1 DEF Lines, PendingOf, Latest
    <2>2. CASE Len(pending') = 0
      <3>1. Len(handled[c]) + Len(sock[c].inbound) <= sock[c].sent
        BY DEF Lines, LinesOf
      <3>2. Len(handled[c]) \in Nat /\ Len(sock[c].inbound) \in Nat
        BY LineTypes
      <3>5. Len(handled[c]) + 0 + Len(sock[c].inbound) <= sock[c].sent
        <4>1. PICK h \in Nat, i \in Nat : h = Len(handled[c]) /\ i = Len(sock[c].inbound)
          BY <3>2
        <4>2. h + i <= sock[c].sent
          BY <3>1, <4>1
        <4>3. h + 0 + i <= sock[c].sent
          BY <4>2
        <4> QED BY <4>1, <4>3
      <3>3. Len(handled'[c]) + Len(pending') + Len(sock'[c].inbound) <= sock'[c].sent
        BY <2>2, <3>5
      <3>4. \A k \in 1 .. Len(pending') : pending'[k].no = Len(handled'[c]) + k
        BY <2>2
      <3> QED BY <3>3, <3>4 DEF PendingOf
    <2> QED BY <1>2, <2>1, <2>2
  <1> QED BY <1>1, <1>2 DEF Lines

\* One line of the client being read is given to process_client_line.
LEMMA HandleEffect ==
  ASSUME Base, Lines, NEW kind, HandleLine(kind)
  PROVE  /\ net = "lines" /\ UNCHANGED <<cur, fdOf>>
         /\ Sender \in Conns /\ Latest(cur.fd, Sender) /\ PendingOf(Sender)
         /\ Len(pending) > 0 /\ Len(Tail(pending)) = Len(pending) - 1
         /\ \A k \in 1 .. Len(pending) - 1 : Tail(pending)[k] = pending[k + 1]
         /\ handled'[Sender] = Append(handled[Sender], Len(handled[Sender]) + 1)
         /\ \A d \in Conns : d # Sender => handled'[d] = handled[d]
  <1>0. Types /\ Holders
    BY DEF Base
  <1>1. net = "lines" /\ UNCHANGED <<cur, fdOf>> /\ pending # <<>>
        /\ handled' = [handled EXCEPT ![Sender] = Append(@, Head(pending).no)]
    BY DEF HandleLine
  <1>2. Sender \in Conns /\ Latest(cur.fd, Sender)
    BY <1>0, <1>1, SenderLatest
  <1>3. PendingOf(Sender)
    BY <1>1, <1>2 DEF Lines
  <1>4. pending \in Seq(SentLine) /\ Len(pending) > 0
    BY <1>0, <1>1 DEF Types
  <1>5. /\ Head(pending) = pending[1] /\ Len(Tail(pending)) = Len(pending) - 1
        /\ \A k \in 1 .. Len(pending) - 1 : Tail(pending)[k] = pending[k + 1]
    BY <1>4, TailFacts
  <1>6. Head(pending).no = Len(handled[Sender]) + 1
    BY <1>3, <1>4, <1>5 DEF PendingOf
  <1>7. handled \in [Conns -> Seq(Nat)]
    BY <1>0 DEF Types
  <1> QED BY <1>1, <1>2, <1>3, <1>4, <1>5, <1>6, <1>7

LEMMA LinesHandle ==
  ASSUME Base, Lines, NEW kind, HandleLine(kind), PeersKept,
         \A c \in Conns : Open(c)' => Open(c),
         \/ net' = "killed"
         \/ /\ net' = net /\ pending' \in {Tail(pending), <<>>}
            /\ cur.fd \in DOMAIN clients' => pending' = Tail(pending)
  PROVE  Lines'
  <1>0. Types /\ Holders
    BY DEF Base
  <1>1. PICK who \in Conns :
        /\ net = "lines" /\ UNCHANGED <<cur, fdOf>>
        /\ Latest(cur.fd, who) /\ PendingOf(who)
        /\ Len(pending) > 0 /\ Len(Tail(pending)) = Len(pending) - 1
        /\ \A k \in 1 .. Len(pending) - 1 : Tail(pending)[k] = pending[k + 1]
        /\ handled'[who] = Append(handled[who], Len(handled[who]) + 1)
        /\ \A d \in Conns : d # who => handled'[d] = handled[d]
    BY HandleEffect
  <1>2. \A c \in Conns : /\ sock'[c].inbound = sock[c].inbound /\ sock'[c].sent = sock[c].sent
                         /\ LinesOf(c)
    BY DEF PeersKept, Lines
  <1>3. PICK h \in Nat, i \in Nat, p \in Nat, n \in Nat :
           /\ h = Len(handled[who]) /\ i = Len(sock[who].inbound)
           /\ p = Len(pending) /\ n = sock[who].sent
    BY <1>0, <1>1, LineTypes
  <1>10. handled[who] \in Seq(Nat)
    BY <1>0, <1>1, LineTypes
  <1>4. Len(handled'[who]) = h + 1 /\ handled'[who][h + 1] = h + 1
        /\ \A k \in 1 .. h : handled'[who][k] = handled[who][k]
    <2>1. handled'[who] = Append(handled[who], h + 1)
      BY <1>1, <1>3
    <2> QED BY <1>3, <1>10, <2>1
  <1>5. h + p + i <= n /\ p > 0
    BY <1>1, <1>3 DEF PendingOf
  <1>9. Len(sock'[who].inbound) = i /\ sock'[who].sent = n
    BY <1>1, <1>2, <1>3
  <1>11. pending' = Tail(pending) => Len(pending') = p - 1
    BY <1>1, <1>3
  <1>6. LinesOf(who)'
    <2>1. ASSUME NEW k \in 1 .. Len(handled'[who]) PROVE handled'[who][k] = k
      <3>1. \A j \in 1 .. h : handled[who][j] = j
        BY <1>1, <1>2, <1>3 DEF LinesOf
      <3>2. k \in 1 .. h \/ k = h + 1
        BY <1>4
      <3>3. CASE k \in 1 .. h
        BY <1>4, <3>1, <3>3
      <3>4. CASE k = h + 1
        BY <1>4, <3>4
      <3> QED BY <3>2, <3>3, <3>4
    <2>2. Len(handled'[who]) + Len(sock'[who].inbound) <= sock'[who].sent
      <3>1. h + 1 + i <= n
        BY <1>5
      <3> QED BY <1>4, <1>9, <3>1
    <2>3. fdOf'[who] # 0
      BY <1>1 DEF Base, EventsOK, Latest
    <2>4. ASSUME Open(who)', net' # "killed"
          PROVE  Len(handled'[who]) + Len(sock'[who].inbound)
                    + (IF cur'.fd = fdOf'[who] THEN Len(pending') ELSE 0) = sock'[who].sent
      <3>0. cur.fd = fdOf[who] /\ fdOf'[who] = fdOf[who] /\ cur' = cur
        BY <1>1 DEF Latest
      <3>1. cur.fd \in DOMAIN clients'
        BY <2>4, <3>0 DEF Open
      <3>2. Len(pending') = p - 1
        BY <1>11, <2>4, <3>1
      <3>3. h + i + p = n
        <4>1. LinesOf(who) /\ Open(who) /\ net # "killed"
          BY <1>1, <1>2, <2>4
        <4> QED BY <1>3, <3>0, <4>1 DEF LinesOf
      <3>4. cur'.fd = fdOf'[who]
        BY <3>0
      <3>5. h + 1 + i + (p - 1) = n
        BY <3>3
      <3> QED BY <1>4, <1>9, <3>2, <3>4, <3>5
    <2>5. \A k \in 1 .. Len(sock'[who].inbound) :
             sock'[who].inbound[k].no = sock'[who].sent - Len(sock'[who].inbound) + k
      <3>1. LinesOf(who) /\ sock'[who].inbound = sock[who].inbound /\ sock'[who].sent = sock[who].sent
        BY <1>1, <1>2
      <3> QED BY <3>1 DEF LinesOf
    <2> QED BY <2>1, <2>2, <2>3, <2>4, <2>5 DEF LinesOf
  <1>7. ASSUME NEW c \in Conns, c # who PROVE LinesOf(c)'
    <2>1. LinesOf(c) /\ handled'[c] = handled[c] /\ fdOf'[c] = fdOf[c] /\ cur' = cur
      BY <1>1, <1>2, <1>7
    <2>2. sock'[c].inbound = sock[c].inbound /\ sock'[c].sent = sock[c].sent
      BY <1>2
    <2>3. ASSUME Open(c)' PROVE Open(c) /\ cur.fd # fdOf[c]
      <3>1. Open(c)
        BY <2>3
      <3>2. Latest(fdOf[c], c)
        BY <1>0, <3>1, OpenLatest
      <3> QED BY <1>1, <1>7, <3>1, <3>2, LatestUnique
    <2>4. net' # "killed" => net # "killed"
      BY <1>1
    <2> QED BY <2>1, <2>2, <2>3, <2>4 DEF LinesOf
  <1>8. ASSUME net' = "lines", NEW c \in Conns, Latest(cur.fd, c)' PROVE PendingOf(c)'
    <2>1. c = who
      <3>1. Latest(cur.fd, c)
        BY <1>1, <1>8 DEF Latest
      <3> QED BY <1>1, <3>1, LatestUnique
    <2>2. pending' \in {Tail(pending), <<>>}
      BY <1>8
    <2>3. \A k \in 1 .. p : pending[k].no = h + k
      BY <1>1, <1>3 DEF PendingOf
    <2>4. CASE pending' = Tail(pending)
      <3>1. Len(pending') = p - 1
        BY <1>11, <2>4
      <3>2. ASSUME NEW k \in 1 .. Len(pending') PROVE pending'[k].no = Len(handled'[who]) + k
        <4>1. k \in Nat /\ k \in 1 .. p - 1 /\ k + 1 \in 1 .. p
          BY <3>1
        <4>2. pending'[k] = pending[k + 1]
          BY <1>1, <1>3, <2>4, <4>1
        <4>3. pending[k + 1].no = h + (k + 1)
          BY <2>3, <4>1
        <4>4. h + (k + 1) = h + 1 + k
          BY <4>1
        <4> QED BY <1>4, <4>2, <4>3, <4>4
      <3>3. h + 1 + (p - 1) + i <= n
        BY <1>5
      <3>4. Len(handled'[who]) + Len(pending') + Len(sock'[who].inbound) <= sock'[who].sent
        BY <1>4, <1>9, <3>1, <3>3
      <3> QED BY <2>1, <3>2, <3>4 DEF PendingOf
    <2>5. CASE pending' = <<>>
      <3>1. Len(pending') = 0
        BY <2>5
      <3>2. h + 1 + 0 + i <= n
        BY <1>5
      <3>3. Len(handled'[who]) + Len(pending') + Len(sock'[who].inbound) <= sock'[who].sent
        BY <1>4, <1>9, <3>1, <3>2
      <3>4. \A k \in 1 .. Len(pending') : pending'[k].no = Len(handled'[who]) + k
        BY <3>1
      <3> QED BY <2>1, <3>3, <3>4 DEF PendingOf
    <2> QED BY <2>2, <2>4, <2>5
  <1> QED BY <1>6, <1>7, <1>8 DEF Lines

\* The read loop moves everything from the socket into the read_buffer.
LEMMA LinesRead ==
  ASSUME Base, Lines, ClientRead
  PROVE  Lines'
  <1>0. Types /\ Control /\ Holders
    BY DEF Base
  <1>1. PICK e \in events :
           /\ e.fd \in DOMAIN clients /\ cur' = e
           /\ \/ ReadsOpen(e)
              \/ clients' = Without(e.fd) /\ UNCHANGED <<pending, sock>>
    BY ClientReadEffect
  <1>2. net = "events" /\ net' = "lines" /\ UNCHANGED <<handled, fdOf>>
    BY ClientReadEffect DEF history
  <1>3. Len(pending) = 0
    BY <1>0, <1>2 DEF Control
  <1>4. CASE ReadsOpen(e)
    <2>1. PICK who \in Conns : who = clients[e.fd].conn /\ Open(who) /\ fdOf[who] = e.fd /\ Latest(e.fd, who)
      BY <1>0, <1>1, HolderOpen
    <2>2. /\ pending' = sock[who].inbound /\ sock'[who].inbound = <<>> /\ sock'[who].sent = sock[who].sent
          /\ \A d \in Conns : d # who => sock'[d] = sock[d]
          /\ UNCHANGED clients
      BY <1>4, <2>1 DEF ReadsOpen, SockAs
    <2>3. PICK h \in Nat, i \in Nat, n \in Nat :
             h = Len(handled[who]) /\ i = Len(sock[who].inbound) /\ n = sock[who].sent
      BY <1>0, LineTypes
    <2>4. h + i = n /\ \A k \in 1 .. i : sock[who].inbound[k].no = n - i + k
      <3>1. LinesOf(who)
        BY DEF Lines
      <3>2. Len(handled[who]) + Len(sock[who].inbound)
               + (IF cur.fd = fdOf[who] THEN Len(pending) ELSE 0) = sock[who].sent
        BY <1>2, <2>1, <3>1 DEF LinesOf
      <3>3. (IF cur.fd = fdOf[who] THEN Len(pending) ELSE 0) = 0
        BY <1>3
      <3>4. h + i + 0 = n
        BY <2>3, <3>2, <3>3
      <3>5. \A k \in 1 .. i : sock[who].inbound[k].no = n - i + k
        BY <2>3, <3>1 DEF LinesOf
      <3> QED BY <3>4, <3>5
    <2>5. /\ Len(pending') = i /\ Len(sock'[who].inbound) = 0 /\ sock'[who].sent = n
          /\ handled' = handled /\ Len(handled'[who]) = h
      BY <1>2, <2>2, <2>3
    <2>6. LinesOf(who)'
      <3>1. \A k \in 1 .. Len(handled'[who]) : handled'[who][k] = k
        BY <1>2 DEF Lines, LinesOf
      <3>2. \A k \in 1 .. Len(sock'[who].inbound) :
               sock'[who].inbound[k].no = sock'[who].sent - Len(sock'[who].inbound) + k
        BY <2>5
      <3>3. Len(handled'[who]) + Len(sock'[who].inbound) <= sock'[who].sent
        <4>1. h + 0 <= n
          BY <2>4
        <4> QED BY <2>5, <4>1
      <3>4. fdOf'[who] # 0 /\ cur'.fd = fdOf'[who]
        BY <1>0, <1>1, <1>2, <2>1, ClientTypes, ConstantFacts
      <3>5. Len(handled'[who]) + Len(sock'[who].inbound) + Len(pending') = sock'[who].sent
        <4>1. h + 0 + i = n
          BY <2>4
        <4> QED BY <2>5, <4>1
      <3> QED BY <3>1, <3>2, <3>3, <3>4, <3>5 DEF LinesOf
    <2>7. ASSUME NEW c \in Conns, c # who PROVE LinesOf(c)'
      <3>1. LinesOf(c) /\ sock'[c] = sock[c] /\ handled'[c] = handled[c] /\ fdOf'[c] = fdOf[c]
        BY <1>2, <2>2, <2>7 DEF Lines
      <3>2. ASSUME Open(c)' PROVE Open(c) /\ cur'.fd # fdOf[c]
        BY <1>1, <1>2, <2>1, <2>2, <2>7, <3>2, OpenApart DEF Open
      <3>3. Open(c)' => Len(handled[c]) + Len(sock[c].inbound) + 0 = sock[c].sent
        BY <1>2, <1>3, <3>1, <3>2 DEF LinesOf
      <3> QED BY <3>1, <3>2, <3>3 DEF LinesOf
    <2>8. ASSUME NEW c \in Conns, Latest(cur.fd, c)' PROVE PendingOf(c)'
      <3>1. c = who
        <4>1. Latest(e.fd, c)
          BY <1>1, <1>2, <2>8 DEF Latest
        <4> QED BY <2>1, <4>1, LatestUnique
      <3>2. ASSUME NEW k \in 1 .. Len(pending') PROVE pending'[k].no = Len(handled'[who]) + k
        <4>1. k \in 1 .. i /\ k \in Nat
          BY <2>5
        <4>2. pending'[k].no = n - i + k
          BY <2>2, <2>4, <4>1
        <4>3. n - i + k = h + k
          BY <2>4, <4>1
        <4> QED BY <2>5, <4>2, <4>3
      <3>3. Len(handled'[who]) + Len(pending') + Len(sock'[who].inbound) <= sock'[who].sent
        <4>1. h + i + 0 <= n
          BY <2>4
        <4> QED BY <2>5, <4>1
      <3> QED BY <3>1, <3>2, <3>3 DEF PendingOf
    <2> QED BY <2>6, <2>7, <2>8 DEF Lines
  <1>5. CASE clients' = Without(e.fd) /\ UNCHANGED <<pending, sock>>
    <2>1. \A c \in Conns : Open(c)' => Open(c)
      BY <1>2, <1>5 DEF Open, Without
    <2>2. Len(pending') = 0
      BY <1>3, <1>5
    <2> QED BY <1>0, <1>2, <1>3, <1>5, <2>1, <2>2, LinesFrame
  <1> QED BY <1>1, <1>4, <1>5

\* A client sends its next line.
LEMMA LinesSend ==
  ASSUME Base, Lines, NEW who \in Conns, NEW kind \in LineKinds, SendLine(who, kind)
  PROVE  Lines'
  <1>0. Types
    BY DEF Base
  <1>1. UNCHANGED <<handled, fdOf, net, cur, pending, clients>>
    BY DEF SendLine, ServerUnchanged, netVars, workVars, history
  <1> DEFINE line == [kind |-> kind, no |-> sock[who].sent + 1]
  <1>2. /\ sock'[who].inbound = Append(sock[who].inbound, line) /\ sock'[who].sent = sock[who].sent + 1
        /\ \A d \in Conns : d # who => sock'[d] = sock[d]
    BY <1>0, SendLineEffect DEF SockAs
  <1>3. PICK h \in Nat, i \in Nat, p \in Nat, n \in Nat :
           /\ h = Len(handled[who]) /\ i = Len(sock[who].inbound)
           /\ p = Len(pending) /\ n = sock[who].sent
    BY <1>0, LineTypes
  <1>4. line.no = n + 1
    BY <1>3
  <1> HIDE DEF line
  <1>5. /\ Len(sock'[who].inbound) = i + 1 /\ sock'[who].sent = n + 1
        /\ \A k \in 1 .. i : sock'[who].inbound[k] = sock[who].inbound[k]
        /\ sock'[who].inbound[i + 1].no = n + 1
    <2>1. sock[who].inbound \in Seq(SentLine)
      BY <1>0, LineTypes
    <2> QED BY <1>2, <1>3, <1>4, <2>1
  <1>6. handled' = handled /\ fdOf' = fdOf /\ net' = net /\ cur' = cur /\ pending' = pending
        /\ \A c \in Conns : Open(c)' = Open(c)
    BY <1>1 DEF Open
  <1>7. LinesOf(who)'
    <2>1. LinesOf(who)
      BY DEF Lines
    <2>2. \A k \in 1 .. Len(handled'[who]) : handled'[who][k] = k
      BY <1>6, <2>1 DEF LinesOf
    <2>3. ASSUME NEW k \in 1 .. Len(sock'[who].inbound)
          PROVE  sock'[who].inbound[k].no = sock'[who].sent - Len(sock'[who].inbound) + k
      <3>1. k \in 1 .. i + 1 /\ (n + 1) - (i + 1) + k = n - i + k
        BY <1>5
      <3>2. sock'[who].inbound[k].no = n - i + k
        <4>1. CASE k \in 1 .. i
          BY <1>3, <1>5, <2>1, <4>1 DEF LinesOf
        <4>2. CASE k = i + 1
          BY <1>5, <4>2
        <4> QED BY <3>1, <4>1, <4>2
      <3> QED BY <1>5, <3>1, <3>2
    <2>4. h + i <= n
      BY <1>3, <2>1 DEF LinesOf
    <2>5. Len(handled'[who]) + Len(sock'[who].inbound) <= sock'[who].sent
      <3>1. h + (i + 1) <= n + 1
        BY <2>4
      <3> QED BY <1>3, <1>5, <1>6, <3>1
    <2>6. ASSUME fdOf'[who] = 0
          PROVE  Len(handled'[who]) + Len(sock'[who].inbound) = sock'[who].sent
      <3>1. h + i = n
        BY <1>3, <1>6, <2>1, <2>6 DEF LinesOf
      <3>2. h + (i + 1) = n + 1
        BY <3>1
      <3> QED BY <1>3, <1>5, <1>6, <3>2
    <2>7. ASSUME Open(who)', net' # "killed"
          PROVE  Len(handled'[who]) + Len(sock'[who].inbound)
                    + (IF cur'.fd = fdOf'[who] THEN Len(pending') ELSE 0) = sock'[who].sent
      <3>1. PICK q \in Nat : q = IF cur.fd = fdOf[who] THEN Len(pending) ELSE 0
        BY <1>3
      <3>2. h + i + q = n
        BY <1>3, <1>6, <2>1, <2>7, <3>1 DEF LinesOf
      <3>3. h + (i + 1) + q = n + 1
        BY <3>2
      <3>4. q = IF cur'.fd = fdOf'[who] THEN Len(pending') ELSE 0
        BY <1>6, <3>1
      <3> QED BY <1>3, <1>5, <1>6, <3>3, <3>4
    <2> QED BY <2>2, <2>3, <2>5, <2>6, <2>7 DEF LinesOf
  <1>8. ASSUME NEW c \in Conns, c # who PROVE LinesOf(c)'
    <2>1. /\ LinesOf(c) /\ sock'[c] = sock[c] /\ handled'[c] = handled[c] /\ fdOf'[c] = fdOf[c]
          /\ Open(c)' = Open(c) /\ net' = net /\ cur' = cur /\ pending' = pending
      BY <1>2, <1>6, <1>8 DEF Lines
    <2> QED BY <2>1 DEF LinesOf
  <1>9. ASSUME net' = "lines", NEW c \in Conns, Latest(cur.fd, c)' PROVE PendingOf(c)'
    <2>1. PendingOf(c)
      BY <1>6, <1>9 DEF Lines, Latest
    <2>2. CASE c = who
      <3>1. h + p + i <= n
        BY <1>3, <2>1, <2>2 DEF PendingOf
      <3>2. h + p + (i + 1) <= n + 1
        BY <3>1
      <3>3. Len(handled'[who]) + Len(pending') + Len(sock'[who].inbound) <= sock'[who].sent
        BY <1>3, <1>5, <1>6, <3>2
      <3> QED BY <1>6, <2>1, <2>2, <3>3 DEF PendingOf
    <2>3. CASE c # who
      BY <1>2, <1>6, <2>1, <2>3 DEF PendingOf
    <2> QED BY <2>2, <2>3
  <1> QED BY <1>7, <1>8, <1>9 DEF Lines

\* A connection is accepted with all it has sent still in its socket.
LEMMA LinesAccept ==
  ASSUME Base, Lines, NewConnections
  PROVE  Lines'
  <1>0. Types /\ Control
    BY DEF Base
  <1>1. PeersKept /\ net = "events" /\ UNCHANGED <<net, cur, pending, handled>>
    BY AcceptEffect
  <1>2. Len(pending) = 0
    BY <1>0, <1>1 DEF Control
  <1> SUFFICES ASSUME NEW c \in Conns PROVE LinesOf(c)'
    BY <1>1 DEF Lines
  <1>3. /\ LinesOf(c) /\ handled'[c] = handled[c]
        /\ sock'[c].inbound = sock[c].inbound /\ sock'[c].sent = sock[c].sent
    BY <1>1 DEF Lines, PeersKept
  <1>4. PICK h \in Nat, i \in Nat, n \in Nat :
           h = Len(handled[c]) /\ i = Len(sock[c].inbound) /\ n = sock[c].sent
    BY <1>0, LineTypes
  <1>5. (fdOf'[c] = 0 => fdOf[c] = 0) /\ (Open(c)' => Open(c) \/ fdOf[c] = 0)
    BY AcceptOpens
  <1>6. Open(c)' => h + i = n
    <2>1. CASE fdOf[c] = 0
      BY <1>3, <1>4, <2>1 DEF LinesOf
    <2>2. CASE Open(c)
      <3>1. h + i + 0 = n
        BY <1>1, <1>2, <1>3, <1>4, <2>2 DEF LinesOf
      <3> QED BY <3>1
    <2> QED BY <1>5, <2>1, <2>2
  <1>7. Open(c)' => Len(handled'[c]) + Len(sock'[c].inbound)
                       + (IF cur'.fd = fdOf'[c] THEN Len(pending') ELSE 0) = sock'[c].sent
    <2>1. Open(c)' => h + i + 0 = n
      BY <1>6
    <2>2. Len(handled'[c]) = h /\ Len(sock'[c].inbound) = i /\ sock'[c].sent = n /\ Len(pending') = 0
      BY <1>1, <1>2, <1>3, <1>4
    <2> QED BY <2>1, <2>2
  <1> QED BY <1>3, <1>5, <1>7 DEF LinesOf

LEMMA LinesStep == Base /\ Lines /\ [Next]_vars => Lines'
  <1> SUFFICES ASSUME Base, Lines, [Next]_vars PROVE Lines'
    OBVIOUS
  <1>0. Types /\ Control /\ Holders
    BY DEF Base
  <1>1. CASE Moves
    <2>1. UNCHANGED <<handled, fdOf, clients, sock, cur, pending>>
      BY <1>1, MovesOnly DEF history, workVars
    <2>2. /\ net' # "killed" => net # "killed"
          /\ net' = "lines" => net = "lines"
      BY <1>0, <1>1, MovesPlaces DEF Moves, SetupFails, StoreRunning, LaunchMatching, LoopTest, Join,
            EpollInterrupted, EventsDone, TestRunning, TestEmpty, netVars, vars, Control
    <2>3. \A c \in Conns : Open(c)' => Open(c)
      BY <2>1 DEF Open
    <2> QED BY <1>0, <2>1, <2>2, <2>3, LinesFrame
  <1>2. CASE \/ Cleanup \/ PopResponses \/ DropResponse \/ HangUp \/ PopCommands \/ ExecuteCommand
             \/ handle_signal
    <2>1. UNCHANGED <<handled, fdOf, sock, cur, pending>>
      BY <1>2 DEF Cleanup, PopResponses, DropResponse, HangUp, PopCommands, ExecuteCommand,
            handle_signal, Stop, rest, workVars, netVars, peerVars, history
    <2>2. \A c \in Conns : Open(c)' => Open(c)
      <3>1. CASE Cleanup
        <4>1. DOMAIN clients' = {}
          BY <3>1 DEF Cleanup
        <4> QED BY <4>1 DEF Open
      <3>2. CASE HangUp
        BY <2>1, <3>2 DEF HangUp, Open, Without
      <3>3. CASE ~Cleanup /\ ~HangUp
        <4>1. UNCHANGED clients
          BY <1>2, <3>3 DEF PopResponses, DropResponse, PopCommands, ExecuteCommand, handle_signal,
                Stop, rest, netVars
        <4> QED BY <2>1, <4>1 DEF Open
      <3> QED BY <3>1, <3>2, <3>3
    <2>3. net # "killed" /\ (net' = "lines" => net = "lines")
      BY <1>0, <1>2 DEF Cleanup, PopResponses, DropResponse, NextResponse, HangUp, PopCommands,
            ExecuteCommand, handle_signal, Stop, Alive, netVars, Types, Control
    <2> QED BY <1>0, <2>1, <2>2, <2>3, LinesFrame
  <1>3. CASE EpollWait
    <2>1. UNCHANGED <<handled, fdOf, clients, cur, pending>> /\ net = "epoll" /\ net' = "events"
      BY <1>3 DEF EpollWait, history
    <2>2. PeersKept
      BY <1>0, <1>3, EpollEffect
    <2>3. \A c \in Conns : Open(c)' => Open(c)
      BY <2>1 DEF Open
    <2> QED BY <1>0, <2>1, <2>2, <2>3, LinesFrame DEF PeersKept
  <1>4. CASE DeliverResponse
    <2>1. OnlyWrites /\ UNCHANGED <<handled, fdOf, cur, pending>> /\ net = "deliver"
      BY <1>0, <1>4, DeliverKeeps, DeliverEffect DEF workVars
    <2>2. net' # "lines"
      BY <1>0, <1>4, DeliverEffect DEF NextResponse, KilledNow, Types
    <2>3. \A c \in Conns : Open(c)' => Open(c)
      BY <2>1, OpenKept DEF OnlyWrites
    <2> QED BY <1>0, <2>1, <2>2, <2>3, LinesFrame DEF OnlyWrites, PeersKept
  <1>5. CASE WriteOnly
    <2>1. UNCHANGED <<handled, fdOf, clients, sock, pending>> /\ net = "events"
      BY <1>5 DEF WriteOnly, peerVars, history
    <2>2. Len(pending) = 0
      BY <1>0, <2>1 DEF Control
    <2>3. \A c \in Conns : Open(c)' => Open(c)
      BY <2>1 DEF Open
    <2> QED BY <1>0, <2>1, <2>2, <2>3, LinesFrame
  <1>6. CASE ClientWrite
    <2>1. OnlyWrites /\ UNCHANGED <<handled, fdOf, pending>> /\ net = "lines" /\ pending = <<>>
      BY <1>0, <1>6, ClientWriteKeeps, ClientWriteEffect
    <2>2. net' # "lines" /\ Len(pending) = 0 /\ Len(pending') = 0
      BY <1>0, <1>6, <2>1, ClientWriteEffect DEF KilledNow
    <2>3. \A c \in Conns : Open(c)' => Open(c)
      BY <2>1, OpenKept DEF OnlyWrites
    <2> QED BY <1>0, <2>1, <2>2, <2>3, LinesFrame DEF OnlyWrites, PeersKept
  <1>7. CASE NewConnections
    BY <1>7, LinesAccept
  <1>8. CASE ClientRead
    BY <1>8, LinesRead
  <1>9. CASE SkipBlank \/ QueueCommand
    <2>1. PICK kind : HandleLine(kind)
      BY <1>9 DEF SkipBlank, QueueCommand
    <2>2. pending' = Tail(pending) /\ UNCHANGED <<net, clients, sock>>
      BY <1>9 DEF SkipBlank, QueueCommand, RestOfBuffer
    <2>3. PeersKept /\ \A c \in Conns : Open(c)' => Open(c)
      BY <1>0, <2>1, <2>2, SockUnchanged DEF HandleLine, Open
    <2> QED BY <2>1, <2>2, <2>3, LinesHandle
  <1>10. CASE RejectLine
    <2>1. OnlyWrites /\ HandleLine("malformed")
      BY <1>0, <1>10, RejectKeeps, RejectEffect
    <2>2. PeersKept /\ \A c \in Conns : Open(c)' => Open(c)
      BY <2>1, OpenKept DEF OnlyWrites
    <2>3. \/ net' = "killed"
          \/ /\ net' = net /\ pending' \in {Tail(pending), <<>>}
             /\ cur.fd \in DOMAIN clients' => pending' = Tail(pending)
      BY <1>0, <1>10, RejectEffect DEF KilledNow
    <2> QED BY <2>1, <2>2, <2>3, LinesHandle
  <1>11. ASSUME NEW c \in Conns, Connect(c) \/ (\E how \in Departures : Leave(c, how)) \/ ReadReplies(c)
         PROVE  Lines'
    <2>1. UNCHANGED <<handled, fdOf, clients, net, cur, pending>>
      BY <1>11 DEF Connect, Leave, ReadReplies, ServerUnchanged, netVars, workVars, history
    <2>2. \A d \in Conns : sock'[d].inbound = sock[d].inbound /\ sock'[d].sent = sock[d].sent
      <3>1. CASE Connect(c)
        BY <1>0, <3>1, ConnectEffect DEF SockAs
      <3>2. CASE \E how \in Departures : Leave(c, how)
        BY <1>0, <3>2, LeaveEffect DEF SockAs
      <3>3. CASE ReadReplies(c)
        BY <1>0, <3>3, ReadRepliesEffect DEF PeersKept
      <3> QED BY <1>11, <3>1, <3>2, <3>3
    <2>3. \A d \in Conns : Open(d)' => Open(d)
      BY <2>1 DEF Open
    <2> QED BY <1>0, <2>1, <2>2, <2>3, LinesFrame
  <1>12. ASSUME NEW c \in Conns, NEW kind \in LineKinds, SendLine(c, kind) PROVE Lines'
    BY <1>12, LinesSend
  <1> QED BY <1>1, <1>2, <1>3, <1>4, <1>5, <1>6, <1>7, <1>8, <1>9, <1>10, <1>11, <1>12
          DEF Next, Network, Matching, Clients, Moves

-----------------------------------------------------------------------------
(* The theorems of the third layer                                         *)

\* With the third layer (each line is in exactly one place on its way from the
\* socket to process_client_line, in order) the three are an invariant.
THEOREM LinesInvariance == Spec => [](Base /\ Pipe /\ Lines)
  <1>1. Init => Lines
    BY LinesInit
  <1>2. (Base /\ Pipe) /\ Lines /\ [Next]_vars => Lines'
    BY LinesStep
  <1> QED BY <1>1, <1>2, GatewayInvariance, PTL DEF Spec

\* handle_client_read and its line loop give process_client_line each line once
\* and in the order it was sent, however the lines are spread over reads; until
\* the connection closes none is lost.
THEOREM LinesKeepOrder == Spec => []LinesReadInOrder
  <1>1. Types /\ Lines => LinesReadInOrder
    <2> SUFFICES ASSUME Types, Lines, NEW c \in Conns
                 PROVE  /\ handled[c] = [k \in DOMAIN handled[c] |-> k]
                        /\ Open(c) /\ net # "killed" =>
                              Len(handled[c]) + Len(sock[c].inbound)
                                  + (IF cur.fd = fdOf[c] THEN Len(pending) ELSE 0) = sock[c].sent
      BY DEF LinesReadInOrder
    <2>1. LinesOf(c) /\ handled[c] \in Seq(Nat)
      BY LineTypes DEF Lines
    <2>2. handled[c] = [k \in DOMAIN handled[c] |-> k]
      BY <2>1 DEF LinesOf
    <2> QED BY <2>1, <2>2 DEF LinesOf
  <1> QED BY <1>1, LinesInvariance, PTL DEF Base

\* Every value the gateway's variables take is one of those of TcpServer; no
\* queue exceeds its capacity, and no line is processed that was not sent.
THEOREM GatewayTypes == Spec => []TypeOK
  <1>1. Base /\ Lines => TypeOK
    <2> SUFFICES ASSUME Base, Lines PROVE TypeOK
      OBVIOUS
    <2>0. Types /\ Holders
      BY DEF Base
    <2>1. \A fd \in DOMAIN clients : /\ clients[fd].conn \in Conns /\ clients[fd].out \in Seq(Message)
                                     /\ fdOf[clients[fd].conn] = fd
      BY <2>0, ClientTypes DEF Holders, Latest
    <2>2. \A c \in Conns : /\ delivered[c] \in Seq(Message)
                           /\ Len(handled[c]) + Len(sock[c].inbound) <= sock[c].sent
      BY <2>0 DEF Types, Lines, LinesOf
    <2> QED BY <2>0, <2>1, <2>2 DEF Types, TypeOK, Event, SentLine
  <1> QED BY <1>1, LinesInvariance, PTL

-----------------------------------------------------------------------------
(* Fourth layer: replies                                                   *)

\* The commands and responses on their way.
Flying == Range(drained) \cup Range(responses) \cup Range(batch) \cup Range(ingress)

\* What the holder of a descriptor has been answered was asked by it or by an
\* earlier holder.
Routed(c, replies) ==
    \A k \in 1 .. Len(replies) : replies[k].seq # 0 =>
        /\ replies[k].seq < Oldest
        /\ fdOf[asked[replies[k].seq]] = fdOf[c]
        /\ asked[replies[k].seq] <= c

\* The numbered replies ascend, whoever asked.
Ordered(replies) ==
    \A i, j \in 1 .. Len(replies) :
        i < j /\ replies[i].seq # 0 /\ replies[j].seq # 0 => replies[i].seq < replies[j].seq

\* No command of c that has left the pipeline is without its reply.
Complete(c, replies) ==
    \A s \in 1 .. Len(asked) : asked[s] = c /\ s < Oldest =>
        \E k \in 1 .. Len(replies) : replies[k].seq = s

\* No command of c is without its reply when a later one has been answered.
Gapless(c, replies) ==
    \A k \in 1 .. Len(replies), s \in 1 .. Len(asked) :
        /\ replies[k].seq # 0 /\ asked[replies[k].seq] = c
        /\ asked[s] = c /\ s < replies[k].seq
        => \E j \in 1 .. Len(replies) : replies[j].seq = s

RepliesOK(c) ==
    /\ Routed(c, Replies(c)) /\ Ordered(Replies(c))
    /\ Open(c) => Complete(c, Replies(c))
    /\ Gapless(c, delivered[c])
    /\ fdOf[c] = 0 => Len(delivered[c]) = 0

Answers ==
    /\ \A msg \in Flying : fdOf[asked[msg.seq]] = msg.fd
    /\ \A s \in 1 .. Len(asked) : fdOf[asked[s]] # 0
    /\ \A c \in Conns : RepliesOK(c)

\* What a step leaves of the commands asked so far.
Extends ==
    /\ Oldest <= Oldest'
    /\ Len(asked) <= Len(asked')
    /\ \A s \in 1 .. Len(asked) : asked'[s] = asked[s]
    /\ \A s \in 1 .. Len(asked') : s \in 1 .. Len(asked) \/ s >= Oldest'
    /\ \A d \in Conns : fdOf[d] # 0 => fdOf'[d] = fdOf[d]

LEMMA RepliesFacts ==
  Types => \A c \in Conns :
    /\ delivered[c] \in Seq(Message) /\ Replies(c) \in Seq(Message)
    /\ fdOf[c] = 0 => ~Open(c)
    /\ ~Open(c) => Replies(c) = delivered[c]
    /\ Open(c) => /\ clients[fdOf[c]].out \in Seq(Message)
                  /\ Replies(c) = delivered[c] \o clients[fdOf[c]].out
  <1> SUFFICES ASSUME Types, NEW c \in Conns
               PROVE  /\ delivered[c] \in Seq(Message) /\ Replies(c) \in Seq(Message)
                      /\ fdOf[c] = 0 => ~Open(c)
                      /\ ~Open(c) => Replies(c) = delivered[c]
                      /\ Open(c) => /\ clients[fdOf[c]].out \in Seq(Message)
                                    /\ Replies(c) = delivered[c] \o clients[fdOf[c]].out
    OBVIOUS
  <1>1. delivered[c] \in Seq(Message)
    BY DEF Types
  <1>2. Open(c) => clients[fdOf[c]].out \in Seq(Message) /\ fdOf[c] # 0
    BY ClientTypes, ConstantFacts DEF Open
  <1>3. delivered[c] \o <<>> = delivered[c]
    BY <1>1
  <1>4. CASE Open(c)
    <2>1. Replies(c) = delivered[c] \o clients[fdOf[c]].out
      BY <1>4 DEF Replies
    <2>2. delivered[c] \o clients[fdOf[c]].out \in Seq(Message)
      BY <1>1, <1>2, <1>4, Joined
    <2> QED BY <1>1, <1>2, <1>4, <2>1, <2>2
  <1>5. CASE ~Open(c)
    <2>1. Replies(c) = delivered[c]
      BY <1>3, <1>5 DEF Replies
    <2> QED BY <1>1, <1>5, <2>1
  <1> QED BY <1>4, <1>5

LEMMA RepliesFactsNext ==
  (Types => \A c \in Conns :
    /\ delivered[c] \in Seq(Message) /\ Replies(c) \in Seq(Message)
    /\ fdOf[c] = 0 => ~Open(c)
    /\ ~Open(c) => Replies(c) = delivered[c]
    /\ Open(c) => /\ clients[fdOf[c]].out \in Seq(Message)
                  /\ Replies(c) = delivered[c] \o clients[fdOf[c]].out)'
  BY RepliesFacts, PTL

LEMMA MessageFacts == ASSUME NEW R \in Seq(Message), NEW k \in 1 .. Len(R)
                      PROVE  R[k] \in Message /\ R[k].seq \in Nat /\ R[k].fd \in Fds
  <1>1. R[k] \in Message
    OBVIOUS
  <1> QED BY <1>1 DEF Message

\* A number below Oldest is that of a command.
LEMMA AskedFacts == ASSUME Types, Pipe
                    PROVE  /\ asked \in Seq(Conns) /\ Len(asked) \in Nat /\ Oldest \in Nat
                           /\ 0 < Oldest /\ Oldest <= Len(asked) + 1
                           /\ \A s \in Nat : s # 0 /\ s < Oldest => s \in 1 .. Len(asked)
                           /\ \A s \in 1 .. Len(asked) : asked[s] \in Conns
  <1>1. asked \in Seq(Conns) /\ Len(asked) \in Nat /\ next_sequence = Len(asked) + 1
    BY DEF Types
  <1>2. PICK n \in Nat : n = Len(drained) + Len(responses) + Len(batch) + Len(ingress)
    BY PipeTypes
  <1>3. Oldest = next_sequence - n /\ Oldest \in Int /\ Oldest > 0
    BY <1>2, PipeTypes DEF Oldest, Pipe
  <1>4. Oldest <= Len(asked) + 1 /\ Oldest \in Nat
    BY <1>1, <1>3
  <1> QED BY <1>1, <1>3, <1>4

LEMMA RoutedCarries ==
  ASSUME Types, Pipe, Answers, Extends, Oldest' \in Nat, NEW c \in Conns,
         NEW R \in Seq(Message), Routed(c, R), fdOf[c] # 0 \/ Len(R) = 0
  PROVE  Routed(c, R)'
  <1> SUFFICES ASSUME NEW k \in 1 .. Len(R), R[k].seq # 0
               PROVE  /\ R[k].seq < Oldest'
                      /\ fdOf'[asked'[R[k].seq]] = fdOf'[c]
                      /\ asked'[R[k].seq] <= c
    BY DEF Routed
  <1> DEFINE s == R[k].seq
  <1>1. s \in Nat /\ s # 0 /\ s < Oldest /\ fdOf[asked[s]] = fdOf[c] /\ asked[s] <= c
    BY MessageFacts DEF Routed
  <1> HIDE DEF s
  <1>2. Oldest \in Nat /\ s \in 1 .. Len(asked) /\ asked[s] \in Conns
    BY <1>1, AskedFacts
  <1>3. asked'[s] = asked[s] /\ s < Oldest'
    BY <1>1, <1>2 DEF Extends
  <1>4. fdOf[c] # 0 /\ fdOf'[c] = fdOf[c] /\ fdOf'[asked[s]] = fdOf[asked[s]]
    BY <1>1, <1>2 DEF Extends
  <1> QED BY <1>1, <1>3, <1>4 DEF s

LEMMA RoutedAppends ==
  ASSUME NEW c \in Conns, NEW R \in Seq(Message), NEW msg \in Message, Routed(c, R)',
         msg.seq # 0 => /\ msg.seq < Oldest' /\ fdOf'[asked'[msg.seq]] = fdOf'[c]
                        /\ asked'[msg.seq] <= c
  PROVE  Routed(c, Append(R, msg))'
  <1> DEFINE Q == Append(R, msg)
  <1>1. Len(Q) = Len(R) + 1 /\ Q[Len(R) + 1] = msg /\ \A k \in 1 .. Len(R) : Q[k] = R[k]
    OBVIOUS
  <1> HIDE DEF Q
  <1> SUFFICES ASSUME NEW k \in 1 .. Len(Q), Q[k].seq # 0
               PROVE  /\ Q[k].seq < Oldest'
                      /\ fdOf'[asked'[Q[k].seq]] = fdOf'[c]
                      /\ asked'[Q[k].seq] <= c
    BY DEF Routed, Q
  <1>2. CASE k \in 1 .. Len(R)
    BY <1>1, <1>2 DEF Routed
  <1>3. CASE k = Len(R) + 1
    BY <1>1, <1>3
  <1> QED BY <1>1, <1>2, <1>3

LEMMA OrderedAppends ==
  ASSUME NEW R \in Seq(Message), NEW msg \in Message, Ordered(R),
         msg.seq # 0 => \A k \in 1 .. Len(R) : R[k].seq # 0 => R[k].seq < msg.seq
  PROVE  Ordered(Append(R, msg))
  <1> DEFINE Q == Append(R, msg)
  <1>1. Len(Q) = Len(R) + 1 /\ Q[Len(R) + 1] = msg /\ \A k \in 1 .. Len(R) : Q[k] = R[k]
    OBVIOUS
  <1> HIDE DEF Q
  <1> SUFFICES ASSUME NEW i \in 1 .. Len(Q), NEW j \in 1 .. Len(Q), i < j, Q[i].seq # 0, Q[j].seq # 0
               PROVE  Q[i].seq < Q[j].seq
    BY DEF Ordered, Q
  <1>2. i \in 1 .. Len(R)
    BY <1>1
  <1>3. CASE j \in 1 .. Len(R)
    BY <1>1, <1>2, <1>3 DEF Ordered
  <1>4. CASE j = Len(R) + 1
    BY <1>1, <1>2, <1>4
  <1> QED BY <1>1, <1>3, <1>4

\* What an open connection has been sent is the beginning of its replies, and
\* those are complete.
LEMMA PrefixGapless ==
  ASSUME Types', Pipe', NEW c \in Conns, NEW D \in Seq(Message), NEW W \in Seq(Message),
         NEW R, R = D \o W, Routed(c, R)', Ordered(R), Complete(c, R)'
  PROVE  Gapless(c, D)'
  <1>1. R \in Seq(Message) /\ Len(R) = Len(D) + Len(W) /\ \A k \in 1 .. Len(D) : R[k] = D[k]
    BY Joined
  <1> SUFFICES ASSUME NEW k \in 1 .. Len(D), NEW s \in 1 .. Len(asked'),
                      D[k].seq # 0, asked'[D[k].seq] = c, asked'[s] = c, s < D[k].seq
               PROVE  \E j \in 1 .. Len(D) : D[j].seq = s
    BY DEF Gapless
  <1>2. k \in 1 .. Len(R) /\ R[k] = D[k] /\ R[k].seq \in Nat
    BY <1>1, MessageFacts
  <1>3. R[k].seq < Oldest'
    BY <1>2 DEF Routed
  <1>4. Oldest' \in Int
    BY DEF Types, Oldest
  <1>5. s < Oldest'
    BY <1>2, <1>3, <1>4
  <1>6. PICK j \in 1 .. Len(R) : R[j].seq = s
    BY <1>5 DEF Complete
  <1>7. j <= k
    <2> SUFFICES ASSUME k < j PROVE FALSE
      BY <1>1, <1>2
    <2>0. R[k].seq # 0 /\ R[j].seq # 0
      BY <1>2, <1>6
    <2>1. R[k].seq < R[j].seq
      BY <1>2, <1>6, <2>0 DEF Ordered
    <2> QED BY <1>2, <1>6, <2>1
  <1>8. j \in 1 .. Len(D)
    BY <1>1, <1>7
  <1> QED BY <1>1, <1>6, <1>8

\* What a closed connection has been sent does not change any more.
LEMMA GaplessCarries ==
  ASSUME Types, Pipe, Extends, NEW c \in Conns, NEW D \in Seq(Message), Gapless(c, D), Routed(c, D)
  PROVE  Gapless(c, D)'
  <1> SUFFICES ASSUME NEW k \in 1 .. Len(D), NEW s \in 1 .. Len(asked'),
                      D[k].seq # 0, asked'[D[k].seq] = c, asked'[s] = c, s < D[k].seq
               PROVE  \E j \in 1 .. Len(D) : D[j].seq = s
    BY DEF Gapless
  <1>1. D[k].seq \in Nat /\ D[k].seq < Oldest
    BY MessageFacts DEF Routed
  <1>2. D[k].seq \in 1 .. Len(asked) /\ Len(asked) \in Nat
    BY <1>1, AskedFacts
  <1>3. s \in 1 .. Len(asked)
    BY <1>2
  <1>4. asked[D[k].seq] = c /\ asked[s] = c
    BY <1>2, <1>3 DEF Extends
  <1> QED BY <1>3, <1>4 DEF Gapless

\* A connection that got no reply in this step, or was closed in it.
LEMMA RepliesKept ==
  ASSUME Types, Types', Pipe, Pipe', Answers, Extends, NEW c \in Conns,
         ~Open(c)' => delivered'[c] = delivered[c],
         Open(c)' => Replies(c)' = Replies(c),
         Open(c)' => \A s \in 1 .. Len(asked) :
                        asked[s] = c /\ s < Oldest' => Open(c) /\ s < Oldest,
         fdOf'[c] = 0 => fdOf[c] = 0
  PROVE  RepliesOK(c)'
  <1>0. RepliesOK(c) /\ Oldest' \in Nat
    <2>1. Oldest' \in Int /\ Oldest' > 0
      BY DEF Types, Pipe, Oldest
    <2> QED BY <2>1 DEF Answers
  <1>1. CASE Open(c)'
    <2>1. PICK R \in Seq(Message) : R = Replies(c)
      BY RepliesFacts
    <2>2. Replies(c)' = R /\ fdOf'[c] # 0
      BY <1>1, <2>1, RepliesFactsNext
    <2>3. fdOf[c] # 0 \/ Len(R) = 0
      BY <1>0, <2>1, RepliesFacts DEF RepliesOK
    <2>4. Routed(c, R)'
      BY <1>0, <2>1, <2>3, RoutedCarries DEF RepliesOK
    <2>5. Ordered(R)
      BY <1>0, <2>1 DEF RepliesOK
    <2>6. Complete(c, R)'
      <3> SUFFICES ASSUME NEW s \in 1 .. Len(asked'), asked'[s] = c, s < Oldest'
                   PROVE  \E k \in 1 .. Len(R) : R[k].seq = s
        BY DEF Complete
      <3>1. s \in 1 .. Len(asked)
        BY <1>0 DEF Extends
      <3>2. asked[s] = c
        BY <3>1 DEF Extends
      <3>3. Open(c) /\ s < Oldest
        BY <1>1, <3>1, <3>2
      <3> QED BY <1>0, <2>1, <3>1, <3>2, <3>3 DEF RepliesOK, Complete
    <2>7. /\ delivered'[c] \in Seq(Message) /\ clients'[fdOf'[c]].out \in Seq(Message)
          /\ Replies(c)' = delivered'[c] \o clients'[fdOf'[c]].out
      BY <1>1, RepliesFactsNext
    <2>8. Gapless(c, delivered[c])'
      <3>1. PICK D \in Seq(Message), W \in Seq(Message) : D = delivered'[c] /\ R = D \o W
        BY <2>2, <2>7
      <3>2. Gapless(c, D)'
        BY <2>4, <2>5, <2>6, <3>1, PrefixGapless
      <3> QED BY <3>1, <3>2 DEF Gapless
    <2> QED BY <2>2, <2>4, <2>5, <2>6, <2>8 DEF RepliesOK, Routed, Ordered, Complete
  <1>2. CASE ~Open(c)'
    <2>1. PICK D \in Seq(Message) : D = delivered[c] /\ delivered'[c] = D
      BY <1>2, RepliesFacts
    <2>2. Replies(c)' = D
      BY <1>2, <2>1, RepliesFactsNext
    <2>3. Routed(c, D) /\ Ordered(D)
      <3>1. PICK R \in Seq(Message), W \in Seq(Message) : R = Replies(c) /\ R = D \o W
        <4>1. CASE Open(c)
          BY <2>1, <4>1, RepliesFacts
        <4>2. CASE ~Open(c)
          <5>1. Replies(c) = D
            BY <2>1, <4>2, RepliesFacts
          <5>2. <<>> \in Seq(Message) /\ D = D \o <<>>
            OBVIOUS
          <5> QED BY <5>1, <5>2
        <4> QED BY <4>1, <4>2
      <3>2. Routed(c, R) /\ Ordered(R)
        BY <1>0, <3>1 DEF RepliesOK
      <3>3. Len(R) = Len(D) + Len(W) /\ \A k \in 1 .. Len(D) : k \in 1 .. Len(R) /\ R[k] = D[k]
        BY <3>1, Joined
      <3> QED BY <3>2, <3>3 DEF Routed, Ordered
    <2>4. fdOf[c] # 0 \/ Len(D) = 0
      BY <1>0, <2>1 DEF RepliesOK
    <2>5. Routed(c, D)'
      BY <1>0, <2>3, <2>4, RoutedCarries
    <2>6. Gapless(c, D)
      BY <1>0, <2>1 DEF RepliesOK
    <2>7. Gapless(c, D)'
      BY <2>3, <2>6, GaplessCarries
    <2>8. fdOf'[c] = 0 => Len(delivered'[c]) = 0
      BY <2>1, <2>4
    <2> QED BY <1>2, <2>1, <2>2, <2>3, <2>5, <2>7, <2>8 DEF RepliesOK, Routed, Ordered, Gapless
  <1> QED BY <1>1, <1>2

\* A connection that got a reply: a direct REJECT, or the next response.
LEMMA RepliesGrow ==
  ASSUME Types, Types', Pipe, Pipe', Answers, Extends, NEW c \in Conns, NEW msg \in Message,
         Open(c), Open(c)', Replies(c)' = Append(Replies(c), msg),
         \/ msg.seq = 0 /\ Oldest' = Oldest
         \/ /\ msg.seq = Oldest /\ Oldest' = Oldest + 1
            /\ fdOf[asked[Oldest]] = fdOf[c] /\ asked[Oldest] <= c /\ Oldest \in 1 .. Len(asked)
  PROVE  RepliesOK(c)'
  <1>0. RepliesOK(c) /\ Oldest' \in Nat
    <2>1. Oldest' \in Int /\ Oldest' > 0
      BY DEF Types, Pipe, Oldest
    <2> QED BY <2>1 DEF Answers
  <1>1. PICK R \in Seq(Message) : R = Replies(c)
    BY RepliesFacts
  <1>2. PICK Q \in Seq(Message) : Q = Append(R, msg)
    <2>1. Append(R, msg) \in Seq(Message)
      OBVIOUS
    <2> QED BY <2>1
  <1>3. Replies(c)' = Q /\ fdOf[c] # 0 /\ fdOf'[c] # 0
    BY <1>1, <1>2, RepliesFacts, RepliesFactsNext
  <1>4. Routed(c, R) /\ Ordered(R) /\ Complete(c, R)
    BY <1>0, <1>1 DEF RepliesOK
  <1>5. Routed(c, R)'
    BY <1>0, <1>3, <1>4, RoutedCarries
  <1>6. msg.seq # 0 => /\ msg.seq < Oldest' /\ fdOf'[asked'[msg.seq]] = fdOf'[c]
                       /\ asked'[msg.seq] <= c
    <2> SUFFICES ASSUME msg.seq = Oldest, Oldest' = Oldest + 1, fdOf[asked[Oldest]] = fdOf[c],
                        asked[Oldest] <= c, Oldest \in 1 .. Len(asked)
                 PROVE  /\ msg.seq < Oldest' /\ fdOf'[asked'[msg.seq]] = fdOf'[c]
                        /\ asked'[msg.seq] <= c
      OBVIOUS
    <2>1. Oldest \in Nat /\ asked[Oldest] \in Conns
      BY AskedFacts
    <2>2. asked'[Oldest] = asked[Oldest] /\ fdOf'[c] = fdOf[c] /\ fdOf'[asked[Oldest]] = fdOf[asked[Oldest]]
      BY <1>3, <2>1 DEF Extends
    <2> QED BY <2>1, <2>2
  <1>7. Routed(c, Q)'
    <2>1. Routed(c, Append(R, msg))'
      BY <1>5, <1>6, RoutedAppends
    <2> QED BY <1>2, <2>1 DEF Routed
  <1>8. Ordered(Q)
    <2>1. ASSUME msg.seq # 0, NEW k \in 1 .. Len(R), R[k].seq # 0 PROVE R[k].seq < msg.seq
      BY <1>4, <2>1 DEF Routed
    <2> QED BY <1>2, <1>4, <2>1, OrderedAppends
  <1>9. Complete(c, Q)'
    <2> SUFFICES ASSUME NEW s \in 1 .. Len(asked'), asked'[s] = c, s < Oldest'
                 PROVE  \E k \in 1 .. Len(Q) : Q[k].seq = s
      BY DEF Complete
    <2>1. s \in 1 .. Len(asked)
      BY <1>0 DEF Extends
    <2>2. asked[s] = c /\ Oldest \in Nat
      BY <2>1, AskedFacts DEF Extends
    <2>3. /\ Len(Q) = Len(R) + 1 /\ Q[Len(R) + 1] = msg
          /\ \A k \in 1 .. Len(R) : Q[k] = R[k]
      BY <1>2
    <2>4. CASE s < Oldest
      <3>1. PICK k \in 1 .. Len(R) : R[k].seq = s
        BY <1>4, <2>1, <2>2, <2>4 DEF Complete
      <3>2. k \in 1 .. Len(Q) /\ Q[k].seq = s
        BY <2>3, <3>1
      <3> QED BY <3>2
    <2>5. CASE s = msg.seq
      <3>1. Len(R) + 1 \in 1 .. Len(Q)
        BY <2>3
      <3> QED BY <2>3, <2>5, <3>1
    <2>6. s < Oldest \/ s = msg.seq
      BY <2>2
    <2> QED BY <2>4, <2>5, <2>6
  <1>10. Gapless(c, delivered[c])'
    <2>1. PICK D \in Seq(Message), W \in Seq(Message) : D = delivered'[c] /\ Q = D \o W
      BY <1>3, RepliesFactsNext
    <2>2. Gapless(c, D)'
      BY <1>7, <1>8, <1>9, <2>1, PrefixGapless
    <2> QED BY <2>1, <2>2 DEF Gapless
  <1> QED BY <1>3, <1>7, <1>8, <1>9, <1>10 DEF RepliesOK, Routed, Ordered, Complete

\* Parts of a queue hold nothing that was not in it.
LEMMA RangePlaces == ASSUME NEW q \in Seq(Message)
                     PROVE  /\ \A msg \in Range(q) : \E k \in 1 .. Len(q) : q[k] = msg
                            /\ \A k \in 1 .. Len(q) : q[k] \in Range(q)
                            /\ Len(q) = 0 => Range(q) = {}
  BY DEF Range

LEMMA RangeTail == ASSUME NEW q \in Seq(Message), Len(q) > 0
                   PROVE  Head(q) \in Range(q) /\ Range(Tail(q)) \subseteq Range(q)
  <1>1. /\ Head(q) = q[1] /\ Tail(q) \in Seq(Message) /\ Len(Tail(q)) = Len(q) - 1
        /\ \A k \in 1 .. Len(q) - 1 : Tail(q)[k] = q[k + 1]
    BY TailFacts
  <1>2. ASSUME NEW msg \in Range(Tail(q)) PROVE msg \in Range(q)
    <2>1. PICK k \in 1 .. Len(q) - 1 : Tail(q)[k] = msg
      BY <1>1, RangePlaces
    <2>2. k + 1 \in 1 .. Len(q) /\ q[k + 1] = msg
      BY <1>1, <2>1
    <2> QED BY <2>2, RangePlaces
  <1>3. Head(q) \in Range(q)
    BY <1>1, RangePlaces
  <1> QED BY <1>2, <1>3

LEMMA RangeCut == ASSUME NEW q \in Seq(Message), NEW n \in 0 .. Len(q)
                  PROVE  /\ Range(SubSeq(q, 1, n)) \subseteq Range(q)
                         /\ Range(SubSeq(q, n + 1, Len(q))) \subseteq Range(q)
  <1> DEFINE front == SubSeq(q, 1, n)
             back  == SubSeq(q, n + 1, Len(q))
  <1>1. /\ front \in Seq(Message) /\ Len(front) = n /\ \A k \in 1 .. n : front[k] = q[k]
        /\ back \in Seq(Message) /\ Len(back) = Len(q) - n
        /\ \A k \in 1 .. Len(q) - n : back[k] = q[n + k]
    BY Cut
  <1> HIDE DEF front, back
  <1>2. ASSUME NEW msg \in Range(front) PROVE msg \in Range(q)
    <2>1. PICK k \in 1 .. n : front[k] = msg
      BY <1>1, RangePlaces
    <2>2. k \in 1 .. Len(q) /\ q[k] = msg
      BY <1>1, <2>1
    <2> QED BY <2>2, RangePlaces
  <1>3. ASSUME NEW msg \in Range(back) PROVE msg \in Range(q)
    <2>1. PICK k \in 1 .. Len(q) - n : back[k] = msg
      BY <1>1, RangePlaces
    <2>2. n + k \in 1 .. Len(q) /\ q[n + k] = msg
      BY <1>1, <2>1
    <2> QED BY <2>2, RangePlaces
  <1> QED BY <1>2, <1>3 DEF front, back

LEMMA RangeAppend == ASSUME NEW q \in Seq(Message), NEW msg \in Message
                     PROVE  Range(Append(q, msg)) = Range(q) \cup {msg}
  <1> DEFINE Q == Append(q, msg)
  <1>1. /\ Q \in Seq(Message) /\ Len(Q) = Len(q) + 1 /\ Q[Len(q) + 1] = msg
        /\ \A k \in 1 .. Len(q) : Q[k] = q[k]
    OBVIOUS
  <1> HIDE DEF Q
  <1>2. ASSUME NEW m \in Range(Q) PROVE m \in Range(q) \cup {msg}
    <2>1. PICK k \in 1 .. Len(Q) : Q[k] = m
      BY <1>1, RangePlaces
    <2>2. CASE k \in 1 .. Len(q)
      BY <1>1, <2>1, <2>2, RangePlaces
    <2>3. CASE k = Len(q) + 1
      BY <1>1, <2>1, <2>3
    <2> QED BY <1>1, <2>2, <2>3
  <1>3. ASSUME NEW m \in Range(q) PROVE m \in Range(Q)
    <2>1. PICK k \in 1 .. Len(q) : q[k] = m
      BY RangePlaces
    <2>2. k \in 1 .. Len(Q) /\ Q[k] = m
      BY <1>1, <2>1
    <2> QED BY <1>1, <2>2, RangePlaces
  <1>4. msg \in Range(Q)
    <2>1. Len(q) + 1 \in 1 .. Len(Q)
      BY <1>1
    <2> QED BY <1>1, <2>1, RangePlaces
  <1> QED BY <1>2, <1>3, <1>4 DEF Q

\* The commands on their way are numbered, from Oldest.
LEMMA FlyingFacts ==
  ASSUME Types, Pipe, NEW msg \in Flying
  PROVE  /\ msg \in Message /\ msg.seq \in 1 .. Len(asked) /\ Oldest <= msg.seq
         /\ msg.fd \in Fds /\ asked[msg.seq] \in Conns
  <1>1. PICK q \in {drained, responses, batch, ingress} : msg \in Range(q)
    BY DEF Flying
  <1>2. q \in Seq(Message)
    BY <1>1, PipeTypes
  <1>3. PICK k \in 1 .. Len(q) : q[k] = msg
    BY <1>1, <1>2, RangePlaces
  <1>4. PICK first \in Int : /\ Numbered(q, first) /\ Oldest <= first
                             /\ first + Len(q) <= next_sequence
    <2>1. PICK d \in Nat, r \in Nat, b \in Nat, i \in Nat :
             d = Len(drained) /\ r = Len(responses) /\ b = Len(batch) /\ i = Len(ingress)
      BY PipeTypes
    <2>2. next_sequence \in Nat /\ Oldest = next_sequence - (d + r + b + i)
      BY <2>1, PipeTypes DEF Oldest
    <2>3. CASE q = drained
      <3>1. Oldest \in Int /\ Oldest + d <= next_sequence
        BY <2>2
      <3> QED BY <2>1, <2>3, <3>1 DEF Pipe
    <2>4. CASE q = responses
      <3>1. Oldest + d \in Int /\ Oldest <= Oldest + d /\ Oldest + d + r <= next_sequence
        BY <2>2
      <3> QED BY <2>1, <2>4, <3>1 DEF Pipe
    <2>5. CASE q = batch
      <3>1. Oldest + d + r \in Int /\ Oldest <= Oldest + d + r /\ Oldest + d + r + b <= next_sequence
        BY <2>2
      <3> QED BY <2>1, <2>5, <3>1 DEF Pipe
    <2>6. CASE q = ingress
      <3>1. /\ next_sequence - i \in Int /\ Oldest <= next_sequence - i
            /\ next_sequence - i + i <= next_sequence
        BY <2>2
      <3> QED BY <2>1, <2>6, <3>1 DEF Pipe
    <2> QED BY <1>1, <2>3, <2>4, <2>5, <2>6
  <1>5. Oldest \in Nat /\ Oldest > 0 /\ next_sequence = Len(asked) + 1 /\ Len(asked) \in Nat
    BY AskedFacts DEF Types
  <1>6. msg.seq = first + k - 1 /\ Len(q) \in Nat /\ k \in Nat /\ k <= Len(q) /\ 1 <= k
    BY <1>2, <1>3, <1>4 DEF Numbered
  <1>7. msg.seq \in 1 .. Len(asked) /\ Oldest <= msg.seq
    BY <1>4, <1>5, <1>6
  <1> QED BY <1>2, <1>3, <1>7, MessageFacts, AskedFacts

LEMMA AppendJoin == ASSUME NEW p \in Seq(Message), NEW q \in Seq(Message), NEW msg \in Message
                    PROVE  p \o Append(q, msg) = Append(p \o q, msg)
  OBVIOUS

\* What a write to one client does to the replies of each.
LEMMA WrittenReplies ==
  ASSUME Types, Types', Holders, UNCHANGED fdOf, NEW fd \in DOMAIN clients, NEW out,
         Written(fd, out), NEW c \in Conns
  PROVE  IF c = clients[fd].conn
         THEN /\ Open(c) /\ fdOf[c] = fd
              /\ \/ ~Open(c)' /\ delivered'[c] = delivered[c]
                 \/ Open(c)' /\ Replies(c)' = delivered[c] \o out
         ELSE /\ Open(c)' = Open(c) /\ Replies(c)' = Replies(c)
              /\ delivered'[c] = delivered[c]
  <1>1. PICK who \in Conns : who = clients[fd].conn /\ Open(who) /\ fdOf[who] = fd
    BY HolderOpen
  <1>2. CASE Flushed(fd, out)
    <2>1. /\ DOMAIN clients' = DOMAIN clients /\ \A f \in DOMAIN clients : f # fd => clients'[f] = clients[f]
          /\ clients'[fd].conn = who /\ \A d \in Conns : d # who => delivered'[d] = delivered[d]
          /\ delivered'[who] \o clients'[fd].out = delivered[who] \o out
      BY <1>1, <1>2 DEF Flushed
    <2>2. CASE c = who
      <3>1. Open(c)' /\ fdOf'[c] = fd
        BY <1>1, <2>1, <2>2 DEF Open
      <3>2. Replies(c)' = delivered'[c] \o clients'[fdOf'[c]].out
        BY <3>1, RepliesFactsNext
      <3> QED BY <1>1, <2>1, <2>2, <3>1, <3>2
    <2>3. CASE c # who
      <3>1. Open(c) => fdOf[c] # fd
        BY <1>1, <2>3, OpenApart
      <3>2. Open(c)' = Open(c)
        BY <1>1, <2>1, <2>3 DEF Open
      <3>3. Replies(c)' = Replies(c)
        BY <2>1, <2>3, <3>1, <3>2 DEF Replies, Open
      <3> QED BY <1>1, <2>1, <2>3, <3>2, <3>3
    <2> QED BY <2>2, <2>3
  <1>3. CASE clients' = Without(fd) /\ UNCHANGED <<delivered, sock>>
    <2>1. DOMAIN clients' = DOMAIN clients \ {fd} /\ \A f \in DOMAIN clients' : clients'[f] = clients[f]
      BY <1>3 DEF Without
    <2>2. CASE c = who
      BY <1>1, <1>3, <2>1, <2>2 DEF Open
    <2>3. CASE c # who
      <3>1. Open(c) => fdOf[c] # fd
        BY <1>1, <2>3, OpenApart
      <3>2. Open(c)' = Open(c)
        BY <2>1, <3>1 DEF Open
      <3>3. Replies(c)' = Replies(c)
        BY <1>3, <2>1, <3>1, <3>2 DEF Replies, Open
      <3> QED BY <1>1, <1>3, <2>3, <3>2, <3>3
    <2> QED BY <2>2, <2>3
  <1> QED BY <1>2, <1>3 DEF Written

LEMMA ExtendsKept ==
  ASSUME Types, Pipe, UNCHANGED asked, Oldest' \in {Oldest, Oldest + 1},
         \A d \in Conns : fdOf[d] # 0 => fdOf'[d] = fdOf[d]
  PROVE  Extends
  BY AskedFacts DEF Extends

\* Nothing new on its way, no command asked.
LEMMA AnswersFrom ==
  ASSUME Types, Pipe, Answers, Extends, UNCHANGED asked, Flying' \subseteq Flying,
         \A c \in Conns : RepliesOK(c)'
  PROVE  Answers'
  <1>1. ASSUME NEW msg \in Flying' PROVE fdOf'[asked'[msg.seq]] = msg.fd
    <2>1. msg \in Flying /\ msg.fd \in Fds /\ asked[msg.seq] \in Conns /\ asked' = asked
      BY <1>1, FlyingFacts
    <2>2. fdOf[asked[msg.seq]] = msg.fd /\ msg.fd # 0
      BY <2>1, ConstantFacts DEF Answers
    <2> QED BY <2>1, <2>2 DEF Extends
  <1>2. ASSUME NEW s \in 1 .. Len(asked') PROVE fdOf'[asked'[s]] # 0
    <2>1. asked' = asked /\ s \in 1 .. Len(asked) /\ asked[s] \in Conns
      BY <1>2, AskedFacts
    <2>2. fdOf[asked[s]] # 0
      BY <2>1 DEF Answers
    <2> QED BY <2>1, <2>2 DEF Extends
  <1> QED BY <1>1, <1>2 DEF Answers

\* Steps that write to nobody and open no connection.
LEMMA AnswersFrame ==
  ASSUME Types, Types', Pipe, Pipe', Answers, UNCHANGED <<asked, fdOf, delivered>>, Oldest' = Oldest,
         DOMAIN clients' \subseteq DOMAIN clients,
         \A f \in DOMAIN clients' : clients'[f] = clients[f],
         Flying' \subseteq Flying
  PROVE  Answers'
  <1>1. Extends
    BY ExtendsKept
  <1>2. ASSUME NEW c \in Conns PROVE RepliesOK(c)'
    <2>1. Open(c)' => Open(c)
      BY DEF Open
    <2>2. Open(c)' => Replies(c)' = Replies(c)
      BY <2>1 DEF Replies, Open
    <2> QED BY <1>1, <2>1, <2>2, RepliesKept
  <1> QED BY <1>1, <1>2, AnswersFrom

LEMMA PopResponsesFlying ==
  ASSUME Types, Control, PopResponses
  PROVE  Oldest' = Oldest /\ Flying' \subseteq Flying
  <1>1. PICK n \in 0 .. Min({MaxBatch, Len(responses)}) : Responses!Take(n)
    BY DEF PopResponses
  <1>2. n \in 0 .. Len(responses)
    BY <1>1, BatchBound, PipeTypes
  <1>3. drained' = SubSeq(responses, 1, n) /\ responses' = SubSeq(responses, n + 1, Len(responses))
    BY <1>1 DEF Responses!Take
  <1>4. Len(drained) = 0 /\ UNCHANGED <<next_sequence, batch, ingress>>
    BY DEF Control, PopResponses, rest, matchVars
  <1>5. Len(drained') = n /\ Len(responses') = Len(responses) - n
    BY <1>2, <1>3, Cut, PipeTypes
  <1>6. Oldest' = Oldest
    BY <1>2, <1>4, <1>5, PipeTypes DEF Oldest
  <1>7. Range(drained') \subseteq Range(responses) /\ Range(responses') \subseteq Range(responses)
    BY <1>2, <1>3, RangeCut, PipeTypes
  <1> QED BY <1>4, <1>6, <1>7 DEF Flying

LEMMA PopCommandsFlying ==
  ASSUME Types, Control, PopCommands
  PROVE  Oldest' = Oldest /\ Flying' \subseteq Flying
  <1>1. PICK n \in 0 .. Min({MaxBatch, Len(ingress)}) : Ingress!Take(n)
    BY DEF PopCommands
  <1>2. n \in 0 .. Len(ingress)
    BY <1>1, BatchBound, PipeTypes
  <1>3. batch' = SubSeq(ingress, 1, n) /\ ingress' = SubSeq(ingress, n + 1, Len(ingress))
    BY <1>1 DEF Ingress!Take
  <1>4. Len(batch) = 0 /\ UNCHANGED <<next_sequence, drained, responses>>
    BY DEF Control, PopCommands, netVars
  <1>5. Len(batch') = n /\ Len(ingress') = Len(ingress) - n
    BY <1>2, <1>3, Cut, PipeTypes
  <1>6. Oldest' = Oldest
    BY <1>2, <1>4, <1>5, PipeTypes DEF Oldest
  <1>7. Range(batch') \subseteq Range(ingress) /\ Range(ingress') \subseteq Range(ingress)
    BY <1>2, <1>3, RangeCut, PipeTypes
  <1> QED BY <1>4, <1>6, <1>7 DEF Flying

LEMMA ExecuteFlying ==
  ASSUME Types, Control, ExecuteCommand
  PROVE  Oldest' = Oldest /\ Flying' \subseteq Flying
  <1>1. /\ responses' = Append(responses, Head(batch)) /\ batch' = Tail(batch)
        /\ UNCHANGED <<next_sequence, drained, ingress>>
    BY DEF ExecuteCommand, Responses!Put, BatchItem
  <1>2. Len(batch) > 0
    BY DEF Control, ExecuteCommand
  <1>3. /\ Head(batch) \in Message /\ Len(batch') = Len(batch) - 1
        /\ Len(responses') = Len(responses) + 1
        /\ Len(drained') = Len(drained) /\ Len(ingress') = Len(ingress)
        /\ next_sequence' = next_sequence
    BY <1>1, <1>2, TailFacts, PipeTypes
  <1>4. Oldest' = Oldest
    BY <1>3, PipeTypes DEF Oldest
  <1>5. Range(responses') = Range(responses) \cup {Head(batch)}
    BY <1>1, <1>3, RangeAppend, PipeTypes
  <1>6. Head(batch) \in Range(batch) /\ Range(batch') \subseteq Range(batch)
    BY <1>1, <1>2, RangeTail, PipeTypes
  <1> QED BY <1>1, <1>4, <1>5, <1>6 DEF Flying

\* The response in hand is the reply to Oldest.
LEMMA NextResponseFlying ==
  ASSUME Types, Pipe, Answers, NextResponse, Len(drained) > 0, match' \in {match, "killed"},
         UNCHANGED <<next_sequence, responses, batch, ingress, mark>>
  PROVE  LET msg == Head(drained)
         IN  /\ msg.seq = Oldest /\ Oldest' = Oldest + 1 /\ Flying' \subseteq Flying
             /\ Oldest \in 1 .. Len(asked) /\ fdOf[asked[Oldest]] = msg.fd
  <1>1. Head(drained).seq = Oldest /\ Oldest' = Oldest + 1
    BY PipeNextResponse
  <1>2. drained' = Tail(drained)
    BY DEF NextResponse
  <1>3. Head(drained) \in Range(drained) /\ Range(drained') \subseteq Range(drained)
    BY <1>2, RangeTail, PipeTypes
  <1>4. Head(drained) \in Flying /\ Flying' \subseteq Flying
    BY <1>3 DEF Flying
  <1>5. Head(drained).seq \in 1 .. Len(asked) /\ fdOf[asked[Head(drained).seq]] = Head(drained).fd
    BY <1>4, FlyingFacts DEF Answers
  <1> QED BY <1>1, <1>4, <1>5

\* The next response finds no client on its descriptor.
LEMMA AnswersDrop ==
  ASSUME Base, Base', Pipe, Pipe', Answers, DropResponse
  PROVE  Answers'
  <1>0. Types /\ Types' /\ Control
    BY DEF Base
  <1>1. /\ NextResponse /\ Head(drained).fd \notin DOMAIN clients /\ net = "deliver"
        /\ UNCHANGED <<next_sequence, responses, batch, ingress, match, mark, clients, asked, fdOf, delivered>>
    BY DEF DropResponse, rest, matchVars, peerVars, history
  <1>2. Len(drained) > 0
    BY <1>0, <1>1 DEF Control
  <1>3. /\ Head(drained).seq = Oldest /\ Oldest' = Oldest + 1 /\ Flying' \subseteq Flying
        /\ Oldest \in 1 .. Len(asked) /\ fdOf[asked[Oldest]] = Head(drained).fd
    BY <1>0, <1>1, <1>2, NextResponseFlying
  <1>4. Extends
    BY <1>0, <1>1, <1>3, ExtendsKept
  <1>5. ASSUME NEW c \in Conns PROVE RepliesOK(c)'
    <2>1. Open(c)' = Open(c) /\ Replies(c)' = Replies(c)
      BY <1>1 DEF Open, Replies
    <2>2. ASSUME Open(c), NEW s \in 1 .. Len(asked), asked[s] = c, s < Oldest' PROVE s < Oldest
      <3>1. s # Oldest
        BY <1>1, <1>3, <2>2 DEF Open
      <3>2. Oldest \in Nat /\ s \in Nat
        BY <1>0, AskedFacts
      <3> QED BY <1>3, <2>2, <3>1, <3>2
    <2> QED BY <1>0, <1>1, <1>4, <2>1, <2>2, RepliesKept
  <1> QED BY <1>0, <1>1, <1>3, <1>4, <1>5, AnswersFrom

\* The next response goes to the client that holds its descriptor now.
LEMMA AnswersDeliver ==
  ASSUME Base, Base', Pipe, Pipe', Answers, DeliverResponse
  PROVE  Answers'
  <1>0. Types /\ Types' /\ Control /\ Holders
    BY DEF Base
  <1> DEFINE msg == Head(drained)
  <1>1. /\ Len(drained) > 0 /\ msg \in Message /\ msg.fd \in DOMAIN clients
        /\ UNCHANGED <<next_sequence, responses, batch, ingress, asked, fdOf, mark>>
    BY <1>0, DeliverEffect
  <1>2. CASE KilledNow /\ UNCHANGED drained
    <2>1. Oldest' = Oldest /\ Flying' = Flying
      BY <1>1, <1>2 DEF Oldest, Flying
    <2>2. UNCHANGED <<clients, delivered>>
      BY <1>2 DEF KilledNow
    <2> QED BY <1>0, <1>1, <2>1, <2>2, AnswersFrame
  <1>3. CASE /\ Written(msg.fd, Append(clients[msg.fd].out, msg))
             /\ NextResponse /\ UNCHANGED match
    <2>1. /\ msg.seq = Oldest /\ Oldest' = Oldest + 1 /\ Flying' \subseteq Flying
          /\ Oldest \in 1 .. Len(asked) /\ fdOf[asked[Oldest]] = msg.fd
      BY <1>0, <1>1, <1>3, NextResponseFlying
    <2>2. Extends
      BY <1>0, <1>1, <2>1, ExtendsKept
    <2>3. PICK who \in Conns : /\ who = clients[msg.fd].conn /\ Open(who)
                               /\ fdOf[who] = msg.fd /\ Latest(msg.fd, who)
      BY <1>0, <1>1, HolderOpen
    <2>4. asked[Oldest] \in Conns /\ asked[Oldest] <= who
      <3>1. asked[Oldest] \in Conns
        BY <1>0, <2>1, AskedFacts
      <3> QED BY <2>1, <2>3, <3>1 DEF Latest
    <2>5. RepliesOK(who)'
      <3>1. \/ ~Open(who)' /\ delivered'[who] = delivered[who]
            \/ Open(who)' /\ Replies(who)' = delivered[who] \o Append(clients[msg.fd].out, msg)
        BY <1>0, <1>1, <1>3, <2>3, WrittenReplies
      <3>2. CASE ~Open(who)' /\ delivered'[who] = delivered[who]
        BY <1>0, <1>1, <2>2, <3>2, RepliesKept
      <3>3. CASE Open(who)' /\ Replies(who)' = delivered[who] \o Append(clients[msg.fd].out, msg)
        <4>1. /\ Replies(who) = delivered[who] \o clients[msg.fd].out
              /\ delivered[who] \in Seq(Message) /\ clients[msg.fd].out \in Seq(Message)
          BY <1>0, <2>3, RepliesFacts
        <4>3. fdOf[asked[Oldest]] = fdOf[who]
          BY <2>1, <2>3
        <4> HIDE DEF msg
        <4>4. delivered[who] \o Append(clients[msg.fd].out, msg)
                 = Append(delivered[who] \o clients[msg.fd].out, msg)
          BY <1>1, <4>1, AppendJoin
        <4>2. Replies(who)' = Append(Replies(who), msg)
          BY <3>3, <4>1, <4>4
        <4> QED BY <1>0, <1>1, <2>1, <2>2, <2>3, <2>4, <3>3, <4>2, <4>3, RepliesGrow
      <3> QED BY <3>1, <3>2, <3>3
    <2>6. ASSUME NEW c \in Conns, c # who PROVE RepliesOK(c)'
      <3>1. Open(c)' = Open(c) /\ Replies(c)' = Replies(c) /\ delivered'[c] = delivered[c]
        BY <1>0, <1>1, <1>3, <2>3, <2>6, WrittenReplies
      <3>2. ASSUME Open(c), NEW s \in 1 .. Len(asked), asked[s] = c, s < Oldest' PROVE s < Oldest
        <4>1. s # Oldest
          BY <2>1, <2>3, <2>6, <3>2, OpenApart
        <4>2. Oldest \in Nat /\ s \in Nat
          BY <1>0, AskedFacts
        <4> QED BY <2>1, <3>2, <4>1, <4>2
      <3> QED BY <1>0, <1>1, <2>2, <3>1, <3>2, RepliesKept
    <2>7. \A c \in Conns : RepliesOK(c)'
      BY <2>5, <2>6
    <2> QED BY <1>0, <1>1, <2>1, <2>2, <2>7, AnswersFrom
  <1> QED BY <1>0, <1>2, <1>3, DeliverEffect

\* A direct REJECT, or the rest of a write_buffer.
LEMMA AnswersWrite ==
  ASSUME Base, Base', Pipe, Pipe', Answers, Extends, Oldest' = Oldest, UNCHANGED <<asked, fdOf>>,
         Flying' \subseteq Flying, NEW fd \in DOMAIN clients, NEW out, Written(fd, out),
         \/ out = clients[fd].out
         \/ \E msg \in Message : msg.seq = 0 /\ out = Append(clients[fd].out, msg)
  PROVE  Answers'
  <1>0. Types /\ Types' /\ Holders
    BY DEF Base
  <1>1. PICK who \in Conns : who = clients[fd].conn /\ Open(who) /\ fdOf[who] = fd
    BY <1>0, HolderOpen
  <1>2. RepliesOK(who)'
    <2>1. \/ ~Open(who)' /\ delivered'[who] = delivered[who]
          \/ Open(who)' /\ Replies(who)' = delivered[who] \o out
      BY <1>0, <1>1, WrittenReplies
    <2>2. /\ Replies(who) = delivered[who] \o clients[fd].out
          /\ delivered[who] \in Seq(Message) /\ clients[fd].out \in Seq(Message)
      BY <1>0, <1>1, RepliesFacts
    <2>3. CASE ~Open(who)' /\ delivered'[who] = delivered[who]
      BY <1>0, <1>1, <2>3, RepliesKept
    <2>4. CASE /\ Open(who)' /\ Replies(who)' = delivered[who] \o out
               /\ out = clients[fd].out
      BY <1>0, <1>1, <2>2, <2>4, RepliesKept
    <2>5. ASSUME Open(who)', Replies(who)' = delivered[who] \o out,
                 NEW msg \in Message, msg.seq = 0, out = Append(clients[fd].out, msg)
          PROVE  RepliesOK(who)'
      <3>1. Replies(who)' = Append(Replies(who), msg)
        BY <2>2, <2>5, AppendJoin
      <3> QED BY <1>0, <1>1, <2>5, <3>1, RepliesGrow
    <2> QED BY <2>1, <2>3, <2>4, <2>5
  <1>3. ASSUME NEW c \in Conns, c # who PROVE RepliesOK(c)'
    <2>1. Open(c)' = Open(c) /\ Replies(c)' = Replies(c) /\ delivered'[c] = delivered[c]
      BY <1>0, <1>1, <1>3, WrittenReplies
    <2> QED BY <1>0, <2>1, RepliesKept
  <1>4. \A c \in Conns : RepliesOK(c)'
    BY <1>2, <1>3
  <1> QED BY <1>0, <1>4, AnswersFrom

\* A command is numbered and starts on its way.
LEMMA AnswersQueue ==
  ASSUME Base, Base', Pipe, Pipe', Answers, QueueCommand
  PROVE  Answers'
  <1>0. Types /\ Types' /\ Holders /\ EventsOK
    BY DEF Base
  <1>1. PICK who \in Conns : who = Sender /\ Latest(cur.fd, who) /\ net = "lines"
    BY <1>0, SenderLatest DEF QueueCommand, HandleLine
  <1>2. PICK msg : msg = [seq |-> next_sequence, fd |-> cur.fd]
    OBVIOUS
  <1>3. /\ ingress' = Append(ingress, msg) /\ next_sequence' = next_sequence + 1
        /\ asked' = Append(asked, who)
        /\ UNCHANGED <<drained, responses, batch, clients, delivered, fdOf>>
    BY <1>1, <1>2 DEF QueueCommand, HandleLine, Ingress!Put
  <1>4. cur.fd \in Fds /\ fdOf[who] = cur.fd /\ cur.fd # 0
    BY <1>0, <1>1 DEF EventsOK, Types, Event, Latest
  <1>5. msg \in Message /\ msg.seq = next_sequence /\ msg.fd = cur.fd
    BY <1>0, <1>2, <1>4, PipeTypes DEF Message
  <1>6. /\ asked \in Seq(Conns) /\ Len(asked) \in Nat /\ next_sequence = Len(asked) + 1
        /\ Oldest \in Nat /\ Oldest <= Len(asked) + 1
        /\ \A s \in 1 .. Len(asked) : asked[s] \in Conns
    BY <1>0, AskedFacts DEF Types
  <1>7. Oldest' = Oldest
    <2>1. /\ Len(ingress') = Len(ingress) + 1 /\ Len(drained') = Len(drained)
          /\ Len(responses') = Len(responses) /\ Len(batch') = Len(batch)
          /\ next_sequence' = next_sequence + 1
      BY <1>0, <1>3, <1>5, PipeTypes
    <2> QED BY <1>0, <2>1, PipeTypes DEF Oldest
  <1>8. /\ Len(asked') = Len(asked) + 1 /\ asked'[Len(asked) + 1] = who
        /\ \A s \in 1 .. Len(asked) : asked'[s] = asked[s]
    BY <1>3, <1>6
  <1>9. Extends
    BY <1>3, <1>6, <1>7, <1>8 DEF Extends
  <1>10. ASSUME NEW c \in Conns PROVE RepliesOK(c)'
    <2>1. Open(c)' = Open(c) /\ Replies(c)' = Replies(c)
      BY <1>3 DEF Open, Replies
    <2> QED BY <1>0, <1>3, <1>7, <1>9, <2>1, RepliesKept
  <1>11. ASSUME NEW m \in Flying' PROVE fdOf'[asked'[m.seq]] = m.fd
    <2>1. m \in Flying \/ m = msg
      <3>1. Range(ingress') = Range(ingress) \cup {msg}
        BY <1>0, <1>3, <1>5, RangeAppend, PipeTypes
      <3> QED BY <1>3, <1>11, <3>1 DEF Flying
    <2>2. CASE m \in Flying
      <3>1. m.seq \in 1 .. Len(asked) /\ fdOf[asked[m.seq]] = m.fd
        BY <1>0, <2>2, FlyingFacts DEF Answers
      <3> QED BY <1>3, <1>8, <3>1
    <2>3. CASE m = msg
      BY <1>3, <1>4, <1>5, <1>6, <1>8, <2>3
    <2> QED BY <2>1, <2>2, <2>3
  <1>12. ASSUME NEW s \in 1 .. Len(asked') PROVE fdOf'[asked'[s]] # 0
    <2>1. CASE s \in 1 .. Len(asked)
      BY <1>3, <1>8, <2>1 DEF Answers
    <2>2. CASE s = Len(asked) + 1
      BY <1>3, <1>4, <1>8, <2>2
    <2> QED BY <1>6, <1>8, <2>1, <2>2
  <1> QED BY <1>10, <1>11, <1>12 DEF Answers

\* A connection that is accepted has asked and been sent nothing yet.
LEMMA AnswersAccept ==
  ASSUME Base, Base', Pipe, Pipe', Answers, NewConnections
  PROVE  Answers'
  <1>0. Types /\ Types'
    BY DEF Base
  <1>1. UNCHANGED <<drained, next_sequence, batch, ingress, responses, delivered, asked>>
    BY AcceptEffect DEF matchVars
  <1>2. Oldest' = Oldest /\ Flying' = Flying
    BY <1>1 DEF Oldest, Flying
  <1>3. Extends
    BY <1>0, <1>1, <1>2, AcceptOpens, ExtendsKept
  <1>4. ASSUME NEW c \in Conns PROVE RepliesOK(c)'
    <2>1. CASE /\ fdOf[c] = 0 /\ fdOf'[c] # 0 /\ fdOf'[c] \in DOMAIN clients'
               /\ clients'[fdOf'[c]] = [conn |-> c, out |-> <<>>]
      <3>1. Open(c)'
        BY <2>1 DEF Open
      <3>2. delivered[c] \in Seq(Message) /\ Replies(c) = delivered[c]
        BY <1>0, <2>1, RepliesFacts
      <3>3. Replies(c)' = delivered'[c] \o <<>>
        BY <2>1, <3>1 DEF Replies
      <3>4. Replies(c)' = Replies(c)
        BY <1>1, <3>2, <3>3
      <3>5. \A s \in 1 .. Len(asked) : asked[s] # c
        BY <2>1 DEF Answers
      <3> QED BY <1>0, <1>1, <1>3, <2>1, <3>1, <3>4, <3>5, RepliesKept
    <2>2. CASE /\ fdOf'[c] = fdOf[c] /\ Open(c)' = Open(c)
               /\ Open(c) => clients'[fdOf[c]] = clients[fdOf[c]]
      <3>1. Replies(c)' = Replies(c)
        BY <1>1, <2>2 DEF Replies
      <3> QED BY <1>0, <1>1, <1>2, <1>3, <2>2, <3>1, RepliesKept
    <2> QED BY <2>1, <2>2, AcceptOpens
  <1> QED BY <1>0, <1>1, <1>2, <1>3, <1>4, AnswersFrom

LEMMA AnswersStep == Base /\ Base' /\ Pipe /\ Pipe' /\ Answers /\ [Next]_vars => Answers'
  <1> SUFFICES ASSUME Base, Base', Pipe, Pipe', Answers, [Next]_vars PROVE Answers'
    OBVIOUS
  <1>0. Types /\ Types' /\ Control /\ Holders
    BY DEF Base
  <1>1. CASE Moves
    <2>1. UNCHANGED <<drained, responses, batch, ingress, next_sequence, clients, asked, fdOf, delivered>>
      BY <1>1, MovesOnly DEF history
    <2>2. Oldest' = Oldest /\ Flying' = Flying
      BY <2>1 DEF Oldest, Flying
    <2> QED BY <1>0, <2>1, <2>2, AnswersFrame
  <1>2. CASE \/ Cleanup \/ EpollWait \/ HangUp \/ ClientRead \/ WriteOnly \/ SkipBlank
             \/ handle_signal \/ Clients
    <2>1. UNCHANGED <<drained, responses, batch, ingress, next_sequence, asked, fdOf, delivered>>
      BY <1>2 DEF Cleanup, EpollWait, HangUp, ClientRead, WriteOnly, SkipBlank, HandleLine, handle_signal,
            Stop, Clients, Connect, SendLine, Leave, ReadReplies, ServerUnchanged, netVars, matchVars,
            peerVars, history
    <2>2. Oldest' = Oldest /\ Flying' = Flying
      BY <2>1 DEF Oldest, Flying
    <2>3. DOMAIN clients' \subseteq DOMAIN clients /\ \A f \in DOMAIN clients' : clients'[f] = clients[f]
      <3>1. CASE Cleanup
        <4>1. DOMAIN clients' = {}
          BY <3>1 DEF Cleanup
        <4> QED BY <4>1
      <3>2. CASE HangUp
        BY <3>2 DEF HangUp, Without
      <3>3. CASE ClientRead
        BY <3>3, ClientReadEffect DEF ReadsOpen, Without
      <3>4. CASE EpollWait \/ WriteOnly \/ SkipBlank \/ handle_signal \/ Clients
        <4>1. UNCHANGED clients
          BY <3>4 DEF EpollWait, WriteOnly, SkipBlank, handle_signal, Stop, Clients, Connect, SendLine,
                Leave, ReadReplies, ServerUnchanged, netVars
        <4> QED BY <4>1
      <3> QED BY <1>2, <3>1, <3>2, <3>3, <3>4
    <2> QED BY <1>0, <2>1, <2>2, <2>3, AnswersFrame
  <1>3. CASE PopResponses \/ PopCommands \/ ExecuteCommand
    <2>1. UNCHANGED <<clients, asked, fdOf, delivered>>
      BY <1>3 DEF PopResponses, PopCommands, ExecuteCommand, rest, netVars, peerVars, history
    <2>2. Oldest' = Oldest /\ Flying' \subseteq Flying
      BY <1>0, <1>3, PopResponsesFlying, PopCommandsFlying, ExecuteFlying
    <2> QED BY <1>0, <2>1, <2>2, AnswersFrame
  <1>4. CASE DropResponse
    BY <1>4, AnswersDrop
  <1>5. CASE DeliverResponse
    BY <1>5, AnswersDeliver
  <1>6. CASE QueueCommand
    BY <1>6, AnswersQueue
  <1>7. CASE NewConnections
    BY <1>7, AnswersAccept
  <1>8. CASE RejectLine \/ ClientWrite
    <2>1. UNCHANGED <<drained, responses, batch, ingress, next_sequence, asked, fdOf>>
      BY <1>0, <1>8, RejectEffect, ClientWriteEffect DEF HandleLine
    <2>2. Oldest' = Oldest /\ Flying' = Flying
      BY <2>1 DEF Oldest, Flying
    <2>3. Extends
      BY <1>0, <2>1, <2>2, ExtendsKept
    <2>4. CASE UNCHANGED <<clients, delivered>>
      BY <1>0, <2>1, <2>2, <2>4, AnswersFrame
    <2>5. CASE /\ cur.fd \in DOMAIN clients
               /\ \/ Written(cur.fd, clients[cur.fd].out)
                  \/ /\ Rejection \in Message
                     /\ Written(cur.fd, Append(clients[cur.fd].out, Rejection))
      <3>1. Rejection.seq = 0
        BY DEF Rejection
      <3> QED BY <2>1, <2>2, <2>3, <2>5, <3>1, AnswersWrite
    <2>6. CASE RejectLine
      BY <1>0, <2>4, <2>5, <2>6, RejectEffect DEF KilledNow
    <2>7. CASE ClientWrite
      BY <1>0, <2>4, <2>5, <2>7, ClientWriteEffect DEF KilledNow
    <2> QED BY <1>8, <2>6, <2>7
  <1> QED BY <1>1, <1>2, <1>3, <1>4, <1>5, <1>6, <1>7, <1>8
          DEF Next, Network, Matching, Moves

LEMMA AnswersInit == Init => Answers
  <1> SUFFICES ASSUME Init PROVE Answers
    OBVIOUS
  <1>1. /\ Len(drained) = 0 /\ Len(responses) = 0 /\ Len(batch) = 0 /\ Len(ingress) = 0
        /\ asked = <<>> /\ \A c \in Conns : fdOf[c] = 0 /\ delivered[c] = <<>>
    BY DEF Init
  <1>2. Types
    BY BaseInit DEF Base
  <1>3. Flying = {}
    BY <1>1, <1>2, RangePlaces, PipeTypes DEF Flying
  <1>4. ASSUME NEW c \in Conns PROVE RepliesOK(c)
    <2>1. ~Open(c) /\ Replies(c) = delivered[c]
      BY <1>1, <1>2, RepliesFacts
    <2>2. Len(delivered[c]) = 0 /\ Len(Replies(c)) = 0
      BY <1>1, <2>1
    <2> QED BY <2>1, <2>2 DEF RepliesOK, Routed, Ordered, Gapless
  <1> QED BY <1>1, <1>3, <1>4 DEF Answers

\* The inductive invariant of the gateway, all four layers.
THEOREM AnswersInvariance == Spec => [](Base /\ Pipe /\ Lines /\ Answers)
  <1>1. Init => Answers
    BY AnswersInit
  <1>2. Base /\ Base' /\ Pipe /\ Pipe' /\ Answers /\ [Next]_vars => Answers'
    BY AnswersStep
  <1> QED BY <1>1, <1>2, LinesInvariance, PTL DEF Spec

\* What c has been sent, and what it is owed if its connection is open.
LEMMA OwnReplies ==
  ASSUME Types, Pipe, NEW c \in Conns, NEW R \in Seq(Message), Routed(c, R)
  PROVE  /\ Own(c, R) = {i \in 1 .. Len(R) : R[i].seq # 0 /\ asked[R[i].seq] = c}
         /\ \A s \in Answered(c, R) : s \in 1 .. Len(asked) /\ asked[s] = c /\ s < Oldest
         /\ \A s \in 1 .. Len(asked), k \in 1 .. Len(R) :
               asked[s] = c /\ R[k].seq = s => s \in Answered(c, R)
         /\ \A s \in Answered(c, R) : \E k \in 1 .. Len(R) : R[k].seq = s /\ s # 0
  <1>1. Own(c, R) = {i \in 1 .. Len(R) : R[i].seq # 0 /\ asked[R[i].seq] = c}
    BY DEF Own
  <1>2. ASSUME NEW s \in Answered(c, R)
        PROVE  /\ s \in 1 .. Len(asked) /\ asked[s] = c /\ s < Oldest
               /\ \E k \in 1 .. Len(R) : R[k].seq = s /\ s # 0
    <2>1. PICK k \in 1 .. Len(R) : R[k].seq = s /\ s # 0 /\ asked[s] = c
      BY <1>1 DEF Answered
    <2>2. s \in Nat /\ s < Oldest
      BY <2>1, MessageFacts DEF Routed
    <2>3. s \in 1 .. Len(asked)
      BY <2>1, <2>2, AskedFacts
    <2> QED BY <2>1, <2>2, <2>3
  <1>3. ASSUME NEW s \in 1 .. Len(asked), NEW k \in 1 .. Len(R), asked[s] = c, R[k].seq = s
        PROVE  s \in Answered(c, R)
    <2>1. k \in Own(c, R)
      BY <1>1, <1>3
    <2> QED BY <1>3, <2>1 DEF Answered
  <1> QED BY <1>1, <1>2, <1>3

\* drain_response_queue hands each client the replies to its own commands, once
\* each and in the order it sent them, whatever becomes of other clients.
THEOREM RepliesKeepOrder == Spec => []AnsweredInOrder
  <1>1. Base /\ Pipe /\ Answers => AnsweredInOrder
    <2> SUFFICES ASSUME Base, Pipe, Answers, NEW c \in Conns, Open(c)
                 PROVE  /\ Ascending(c, Replies(c))
                        /\ Answered(c, Replies(c)) =
                              {s \in DOMAIN asked : asked[s] = c /\ s < next_sequence - Len(InFlight)}
      BY DEF AnsweredInOrder
    <2>0. Types
      BY DEF Base
    <2>1. PICK R \in Seq(Message) : R = Replies(c)
      BY <2>0, RepliesFacts
    <2>2. Routed(c, R) /\ Ordered(R) /\ Complete(c, R)
      BY <2>1 DEF Answers, RepliesOK
    <2>3. Ascending(c, R)
      BY <2>0, <2>2, OwnReplies DEF Ordered, Ascending
    <2>4. Oldest = next_sequence - Len(InFlight) /\ DOMAIN asked = 1 .. Len(asked)
      BY <2>0, InFlightNumbered, AskedFacts
    <2>5. \A s \in Answered(c, R) : s \in 1 .. Len(asked) /\ asked[s] = c /\ s < Oldest
      BY <2>0, <2>2, OwnReplies
    <2>6. ASSUME NEW s \in 1 .. Len(asked), asked[s] = c, s < Oldest PROVE s \in Answered(c, R)
      <3>1. PICK k \in 1 .. Len(R) : R[k].seq = s
        BY <2>2, <2>6 DEF Complete
      <3> QED BY <2>0, <2>2, <2>6, <3>1, OwnReplies
    <2>7. Answered(c, R) = {s \in DOMAIN asked : asked[s] = c /\ s < next_sequence - Len(InFlight)}
      BY <2>4, <2>5, <2>6
    <2> QED BY <2>1, <2>3, <2>7
  <1> QED BY <1>1, AnswersInvariance, PTL

\* A partial write, a closed connection, stop() and the end of the process cost
\* a client the end of its replies, never one in the middle.
THEOREM RepliesHaveNoGap == Spec => []NoGapInReplies
  <1>1. Base /\ Pipe /\ Answers => NoGapInReplies
    <2> SUFFICES ASSUME Base, Pipe, Answers, NEW c \in Conns
                 PROVE  /\ Ascending(c, delivered[c])
                        /\ \A s \in Answered(c, delivered[c]), earlier \in DOMAIN asked :
                              earlier < s /\ asked[earlier] = c => earlier \in Answered(c, delivered[c])
      BY DEF NoGapInReplies
    <2>0. Types
      BY DEF Base
    <2>1. PICK D \in Seq(Message), W \in Seq(Message) : D = delivered[c] /\ Replies(c) = D \o W
      <3>1. CASE Open(c)
        BY <2>0, <3>1, RepliesFacts
      <3>2. CASE ~Open(c)
        <4>1. delivered[c] \in Seq(Message) /\ Replies(c) = delivered[c]
          BY <2>0, <3>2, RepliesFacts
        <4>2. <<>> \in Seq(Message) /\ delivered[c] = delivered[c] \o <<>>
          BY <4>1
        <4> QED BY <4>1, <4>2
      <3> QED BY <3>1, <3>2
    <2>2. PICK R \in Seq(Message) : R = Replies(c)
      BY <2>0, RepliesFacts
    <2>3. Routed(c, R) /\ Ordered(R) /\ Gapless(c, D)
      BY <2>1, <2>2 DEF Answers, RepliesOK
    <2>4. \A k \in 1 .. Len(D) : k \in 1 .. Len(R) /\ R[k] = D[k]
      BY <2>1, <2>2, Joined
    <2>5. Routed(c, D) /\ Ordered(D)
      BY <2>3, <2>4 DEF Routed, Ordered
    <2>6. Ascending(c, D)
      BY <2>0, <2>5, OwnReplies DEF Ordered, Ascending
    <2>7. ASSUME NEW s \in Answered(c, D), NEW earlier \in DOMAIN asked, earlier < s, asked[earlier] = c
          PROVE  earlier \in Answered(c, D)
      <3>1. earlier \in 1 .. Len(asked)
        BY <2>0, AskedFacts
      <3>2. PICK k \in 1 .. Len(D) : D[k].seq = s /\ s # 0 /\ asked[s] = c
        BY <2>0, <2>5, OwnReplies
      <3>3. PICK j \in 1 .. Len(D) : D[j].seq = earlier
        BY <2>3, <2>7, <3>1, <3>2 DEF Gapless
      <3> QED BY <2>0, <2>5, <2>7, <3>1, <3>3, OwnReplies
    <2> QED BY <2>1, <2>6, <2>7
  <1> QED BY <1>1, AnswersInvariance, PTL

\* A reply reaches a connection that did not ask only when the asking one is
\* closed and its descriptor was given to the other afterwards.
THEOREM StrangersComeLater == Spec => []StrangerOnlyAfterReuse
  <1>1. Base /\ Pipe /\ Answers => StrangerOnlyAfterReuse
    <2> SUFFICES ASSUME Base, Pipe, Answers, NEW c \in Conns, NEW i \in DOMAIN Replies(c),
                        Replies(c)[i].seq # 0, asked[Replies(c)[i].seq] # c
                 PROVE  /\ ~Open(asked[Replies(c)[i].seq])
                        /\ fdOf[asked[Replies(c)[i].seq]] = fdOf[c]
                        /\ asked[Replies(c)[i].seq] < c
      BY DEF StrangerOnlyAfterReuse
    <2>0. Types /\ Holders
      BY DEF Base
    <2>1. PICK R \in Seq(Message) : R = Replies(c)
      BY <2>0, RepliesFacts
    <2>2. i \in 1 .. Len(R) /\ R[i].seq \in Nat /\ R[i].seq # 0
      BY <2>1, MessageFacts
    <2>3. R[i].seq < Oldest /\ fdOf[asked[R[i].seq]] = fdOf[c] /\ asked[R[i].seq] <= c
      BY <2>1, <2>2 DEF Answers, RepliesOK, Routed
    <2>4. PICK a \in Conns : a = asked[R[i].seq]
      BY <2>0, <2>2, <2>3, AskedFacts
    <2>5. a \in Nat /\ c \in Nat /\ a # c /\ a <= c
      BY <2>1, <2>3, <2>4, ConstantFacts
    <2>6. a < c
      BY <2>5
    <2>7. ~Open(a)
      <3> SUFFICES ASSUME Open(a) PROVE FALSE
        OBVIOUS
      <3>1. Latest(fdOf[a], a)
        BY <2>0, OpenLatest
      <3>2. c <= a
        BY <2>3, <2>4, <3>1 DEF Latest
      <3> QED BY <2>5, <2>6, <3>2
    <2> QED BY <2>1, <2>3, <2>4, <2>6, <2>7
  <1> QED BY <1>1, AnswersInvariance, PTL
=============================================================================
