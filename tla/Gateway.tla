------------------------------ MODULE Gateway ------------------------------
(***************************************************************************)
(* TcpServer (src/tcp_server.cpp): a network thread that runs start() and  *)
(* its epoll loop, a matching thread, the two queues between them, the     *)
(* clients on the other side of the sockets, and stop().                   *)
(*                                                                         *)
(* A step is one access to what the threads share (running_, a queue) or   *)
(* one system call with what the thread does next on its own.  The queues  *)
(* are FifoQueues: SpscQueue implements that (SpscQueueProofs), a failed   *)
(* push or pop there being a stutter here, so a thread in a retry loop is  *)
(* a thread whose step is disabled.  What a command does to the book and   *)
(* that its reply is never empty is CommandExecution's subject; here a     *)
(* reply is the message it answers.                                        *)
(***************************************************************************)
EXTENDS Naturals, Sequences, FiniteSets, SequencesExt, FiniteSetsExt

CONSTANTS
    Conns,      \* connections clients may open, 1 .. n in the order they do
    Fds,        \* descriptors the kernel has for them
    Capacity,   \* of each queue
    MaxBatch,   \* 64 in both pop_batch calls
    MaxLines,   \* bound: lines the clients send in all
    LineKinds,  \* which lines they send
    Departures  \* and how they leave

ASSUME GatewayAssumption ==
    /\ Conns = 1 .. Cardinality(Conns)
    /\ IsFiniteSet(Conns) /\ Fds \subseteq Nat \ {0} /\ IsFiniteSet(Fds)
    /\ Capacity \in Nat \ {0} /\ MaxBatch \in Nat \ {0} /\ MaxLines \in Nat
    /\ LineKinds \subseteq {"command", "malformed", "blank"}
    /\ Departures \subseteq {"closed", "reset"}

VARIABLES
    running,        \* running_
    net,            \* where the network thread is
    after,          \* where it goes when the drain it is in is over
    events,         \* epoll events it has not handled yet
    cur,            \* the event it is handling
    pending,        \* complete lines left in that client's read_buffer
    drained,        \* responses popped and not yet handed to their clients
    clients,        \* clients_: descriptor -> connection and write_buffer
    next_sequence,  \* next_sequence_
    match,          \* where the matching thread is
    batch,          \* commands popped and not yet executed
    ingress,        \* ingress_queue_
    responses,      \* response_queue_
    backlog,        \* connections waiting for accept
    sock,           \* the kernel's and the peer's state of each connection
    fdOf,           \* history: descriptor a connection was accepted on, or 0
    delivered,      \* history: replies written to each connection's socket
    asked,          \* history: the connection each command came from, by number
    handled,        \* history: lines of each connection process_client_line was given
    mark            \* history: next_sequence_ when stop() was called

workVars  == <<events, cur, pending>>
matchVars == <<match, batch>>
history   == <<fdOf, delivered, asked, handled, mark>>
peerVars  == <<backlog, sock, history>>
netVars   == <<net, after, workVars, drained, clients, next_sequence>>
rest      == <<workVars, clients, next_sequence, matchVars, ingress, peerVars>>
vars      == <<running, netVars, matchVars, ingress, responses, peerVars>>

Ingress   == INSTANCE FifoQueue WITH waiting <- ingress, batch <- batch, Items <- {}
Responses == INSTANCE FifoQueue WITH waiting <- responses, batch <- drained, Items <- {}

NoEvent == [fd |-> 0, mask |-> {}]

\* IngressMessage and ResponseMessage: what routing looks at.  A direct REJECT
\* goes into the write_buffer without a sequence number: 0 here.
Message == [seq : Nat, fd : Fds]

Init ==
    /\ running = FALSE
    /\ net = "init" /\ after = "loop" /\ events = {} /\ cur = NoEvent
    /\ pending = <<>> /\ drained = <<>> /\ clients = <<>> /\ next_sequence = 1
    /\ match = "off" /\ batch = <<>>
    /\ ingress = <<>> /\ responses = <<>>
    /\ backlog = <<>>
    /\ sock = [c \in Conns |-> [peer |-> "none", inbound |-> <<>>, sent |-> 0,
                                full |-> FALSE, ready |-> FALSE]]
    /\ fdOf = [c \in Conns |-> 0]
    /\ delivered = [c \in Conns |-> <<>>]
    /\ asked = <<>> /\ handled = [c \in Conns |-> <<>>] /\ mark = 0

-----------------------------------------------------------------------------
(* flush_client_write_buffer and close_connection                          *)

Open(c) == fdOf[c] \in DOMAIN clients /\ clients[fdOf[c]].conn = c

Without(fd) == [f \in DOMAIN clients \ {fd} |-> clients[f]]

\* Faulty variant: the buffer is cleared, whatever write() took.
UnsentFaulty(out, k) == <<>>

\* write_buffer.erase(0, sent)
Unsent(out, k) == SubSeq(out, k + 1, Len(out))

\* write() until the buffer is empty or the socket full.  A socket with room
\* takes at least one reply.  A peer that is gone is noticed now or later:
\* write() may still succeed, fail (the connection is closed), or raise
\* SIGPIPE, which nothing in the program handles.
WriteSome(fd, out) ==
    LET c == clients[fd].conn
    IN  IF out = <<>> \/ sock[c].full
        THEN /\ clients' = [clients EXCEPT ![fd].out = Unsent(out, 0)]
             /\ UNCHANGED <<delivered, sock>>
        ELSE \E k \in 1 .. Len(out), full \in BOOLEAN :
                /\ k < Len(out) => full
                /\ delivered' = [delivered EXCEPT ![c] = @ \o SubSeq(out, 1, k)]
                /\ sock' = [sock EXCEPT ![c].full = full]
                /\ clients' = [clients EXCEPT ![fd].out = Unsent(out, k)]

WriteFails(fd, out) ==
    /\ out # <<>>
    /\ sock[clients[fd].conn].peer # "open"
    /\ clients' = Without(fd)
    /\ UNCHANGED <<delivered, sock>>

Killed(fd, out) ==
    /\ out # <<>>
    /\ sock[clients[fd].conn].peer # "open"
    /\ net' = "killed"
    /\ match' = "killed"

-----------------------------------------------------------------------------
(* start(), its loop and its end                                           *)

SetupFails ==
    /\ net = "init"
    /\ net' = "failed"
    /\ UNCHANGED <<running, after, drained, responses, rest>>

StoreRunning ==
    /\ net = "init"
    /\ running' = TRUE
    /\ net' = "launch"
    /\ UNCHANGED <<after, drained, responses, rest>>

LaunchMatching ==
    /\ net = "launch"
    /\ net' = "loop"
    /\ match' = "test"
    /\ UNCHANGED <<running, after, workVars, drained, clients, next_sequence,
                   batch, ingress, responses, peerVars>>

LoopTest ==
    /\ net = "loop"
    /\ IF running THEN net' = "drain" /\ after' = "epoll"
                  ELSE net' = "join" /\ UNCHANGED after
    /\ UNCHANGED <<running, drained, responses, rest>>

Join ==
    /\ net = "join"
    /\ match = "exited"
    /\ net' = "drain"
    /\ after' = "cleanup"
    /\ UNCHANGED <<running, drained, responses, rest>>

Cleanup ==
    /\ net = "cleanup"
    /\ net' = "done"
    /\ clients' = <<>>
    /\ UNCHANGED <<running, after, workVars, drained, next_sequence,
                   matchVars, ingress, responses, peerVars>>

-----------------------------------------------------------------------------
(* drain_response_queue: one pop_batch, then each response in turn         *)

\* The load of tail_ may be stale and hide items, except after join().
PopResponses ==
    /\ net = "drain"
    /\ \E n \in 0 .. Min({MaxBatch, Len(responses)}) :
          /\ after = "cleanup" => n = Min({MaxBatch, Len(responses)})
          /\ Responses!Take(n)
          /\ net' = IF n = 0 THEN after ELSE "deliver"
    /\ UNCHANGED <<running, after, rest>>

NextResponse == drained' = Tail(drained) /\ net' = IF Len(drained) = 1 THEN after ELSE "deliver"

DropResponse ==
    /\ net = "deliver"
    /\ Head(drained).fd \notin DOMAIN clients
    /\ NextResponse
    /\ UNCHANGED <<running, after, responses, rest>>

\* Faulty variant: the first client instead of the one found.
AddresseeFaulty(resp) == Min(DOMAIN clients)

Addressee(resp) == resp.fd

DeliverResponse ==
    /\ net = "deliver"
    /\ Head(drained).fd \in DOMAIN clients
    /\ LET fd  == Addressee(Head(drained))
           out == Append(clients[fd].out, Head(drained))
       IN  \/ /\ WriteSome(fd, out) \/ WriteFails(fd, out)
              /\ NextResponse
              /\ UNCHANGED match
           \/ Killed(fd, out) /\ UNCHANGED <<drained, clients, delivered, sock>>
    /\ UNCHANGED <<running, after, workVars, next_sequence, batch, ingress,
                   responses, backlog, fdOf, asked, handled, mark>>

-----------------------------------------------------------------------------
(* poll_events and its handlers                                            *)

\* What epoll reports of a connection: its level when the edge is taken.
Mask(c) ==
    IF sock[c].peer = "reset" THEN {"HUP"}
    ELSE (IF sock[c].inbound # <<>> \/ sock[c].peer = "closed" THEN {"IN"} ELSE {})
         \cup (IF sock[c].full THEN {} ELSE {"OUT"})

\* The listening socket is level-triggered (fd 0 here), clients are
\* edge-triggered.  MAX_EPOLL_EVENTS exceeds what the model has.
EpollWait ==
    /\ net = "epoll"
    /\ LET up == {fd \in DOMAIN clients : sock[clients[fd].conn].ready}
       IN  /\ events' = {[fd |-> fd, mask |-> Mask(clients[fd].conn)] : fd \in up}
                        \cup (IF backlog = <<>> THEN {} ELSE {[fd |-> 0, mask |-> {"IN"}]})
           /\ sock' = [c \in Conns |-> IF Open(c) THEN [sock[c] EXCEPT !.ready = FALSE]
                                                  ELSE sock[c]]
    /\ net' = "events"
    /\ UNCHANGED <<running, after, cur, pending, drained, clients, next_sequence,
                   matchVars, ingress, responses, backlog, history>>

\* The signal interrupts epoll_wait: n_ready is -1 and no event is taken.
EpollInterrupted ==
    /\ net = "epoll"
    /\ ~running
    /\ net' = "drain"
    /\ after' = "loop"
    /\ UNCHANGED <<running, drained, responses, rest>>

EventsDone ==
    /\ net = "events"
    /\ events = {}
    /\ net' = "drain"
    /\ after' = "loop"
    /\ UNCHANGED <<running, drained, responses, rest>>

\* accept() until it fails, for want of connections or of descriptors; the
\* kernel gives the lowest free descriptor.  EPOLL_CTL_ADD reports a socket
\* that is ready at once.
NewConnections ==
    /\ net = "events"
    /\ \E e \in events :
          /\ e.fd = 0
          /\ events' = events \ {e}
          /\ LET free == Fds \ DOMAIN clients
                 n    == Min({Len(backlog), Cardinality(free)})
                 turn(c) == CHOOSE i \in 1 .. n : backlog[i] = c
                 got  == {backlog[i] : i \in 1 .. n}
             IN  \E low \in [1 .. n -> free] :
                 /\ \A i, j \in 1 .. n : i < j => low[i] < low[j]
                 /\ \A i \in 1 .. n, fd \in free \ Range(low) : low[i] < fd
                 /\ backlog' = SubSeq(backlog, n + 1, Len(backlog))
                 /\ clients' = [fd \in DOMAIN clients \cup Range(low) |->
                       IF fd \in DOMAIN clients THEN clients[fd]
                       ELSE [conn |-> backlog[CHOOSE i \in 1 .. n : low[i] = fd],
                             out |-> <<>>]]
                 /\ fdOf' = [c \in Conns |-> IF c \in got THEN low[turn(c)] ELSE fdOf[c]]
                 /\ sock' = [c \in Conns |-> IF c \in got
                       THEN [sock[c] EXCEPT !.ready = TRUE] ELSE sock[c]]
    /\ UNCHANGED <<running, net, after, cur, pending, drained, next_sequence, matchVars,
                   ingress, responses, delivered, asked, handled, mark>>

HangUp ==
    /\ net = "events"
    /\ \E e \in events :
          /\ "HUP" \in e.mask
          /\ events' = events \ {e}
          /\ clients' = Without(e.fd)
    /\ UNCHANGED <<running, net, after, cur, pending, drained, next_sequence,
                   matchVars, ingress, responses, peerVars>>

\* Faulty variant: a single read, of one line.
ReadableFaulty(inbound) == SubSeq(inbound, 1, 1)

\* What the read loop takes before it meets EAGAIN.
Readable(inbound) == inbound

\* handle_client_read: everything up to EAGAIN, or the end of the connection
\* together with whatever had been read.
ClientRead ==
    /\ net = "events"
    /\ \E e \in events :
          /\ e.fd # 0 /\ "IN" \in e.mask
          /\ events' = events \ {e}
          /\ cur' = e
          /\ LET c == clients[e.fd].conn
                 n == Len(Readable(sock[c].inbound))
             IN  IF sock[c].peer = "open"
                 THEN /\ pending' = Readable(sock[c].inbound)
                      /\ sock' = [sock EXCEPT ![c].inbound = SubSeq(@, n + 1, Len(@))]
                      /\ UNCHANGED clients
                 ELSE /\ clients' = Without(e.fd)
                      /\ UNCHANGED <<pending, sock>>
    /\ net' = "lines"
    /\ UNCHANGED <<running, after, drained, next_sequence, matchVars,
                   ingress, responses, backlog, history>>

WriteOnly ==
    /\ net = "events"
    /\ \E e \in events :
          /\ e.fd # 0 /\ e.mask \cap {"IN", "HUP"} = {}
          /\ events' = events \ {e}
          /\ cur' = e
    /\ net' = "lines"
    /\ UNCHANGED <<running, after, pending, drained, clients, next_sequence,
                   matchVars, ingress, responses, peerVars>>

-----------------------------------------------------------------------------
(* process_client_line, for each line of pending                           *)

\* The connection cur stands for; still known when its client was erased.
Sender == CHOOSE c \in Conns : /\ fdOf[c] = cur.fd
                               /\ \A d \in Conns : fdOf[d] = cur.fd => d <= c

\* Faulty variants: the line is not erased, or the whole buffer is.
RestOfBufferKept == pending
RestOfBufferCleared == <<>>

\* read_buffer.erase(0, newline_pos + 1)
RestOfBuffer == Tail(pending)

\* The next line of the buffer, of this kind, is given to process_client_line.
HandleLine(kind) ==
    /\ net = "lines" /\ pending # <<>>
    /\ Head(pending).kind = kind
    /\ handled' = [handled EXCEPT ![Sender] = Append(@, Head(pending).no)]
    /\ UNCHANGED <<running, after, events, cur, drained, batch, responses,
                   backlog, fdOf, mark>>

SkipBlank ==
    /\ HandleLine("blank")
    /\ pending' = RestOfBuffer
    /\ UNCHANGED <<net, clients, next_sequence, match, ingress, sock, delivered, asked>>

\* The immediate REJECT.  If its flush closes the connection, the line loop
\* goes on with a reference to the erased client: its read_buffer then shows
\* either the remaining lines or nothing, and its descriptor is closed.
RejectLine ==
    /\ HandleLine("malformed")
    /\ IF cur.fd \in DOMAIN clients
       THEN LET out == Append(clients[cur.fd].out, [seq |-> 0, fd |-> cur.fd])
            IN  \/ /\ WriteSome(cur.fd, out)
                   /\ pending' = RestOfBuffer
                   /\ UNCHANGED <<net, match>>
                \/ /\ WriteFails(cur.fd, out)
                   /\ pending' \in {RestOfBuffer, <<>>}
                   /\ UNCHANGED <<net, match>>
                \/ /\ Killed(cur.fd, out)
                   /\ UNCHANGED <<pending, clients, delivered, sock>>
       ELSE pending' = RestOfBuffer /\ UNCHANGED <<net, match, clients, delivered, sock>>
    /\ UNCHANGED <<next_sequence, ingress, asked>>

\* Number the command and push it, spinning while the queue is full.
QueueCommand ==
    /\ HandleLine("command")
    /\ Ingress!Put([seq |-> next_sequence, fd |-> cur.fd])
    /\ asked' = Append(asked, Sender)
    /\ next_sequence' = next_sequence + 1
    /\ pending' = RestOfBuffer
    /\ UNCHANGED <<net, clients, match, sock, delivered>>

\* Faulty variant: EPOLLOUT is ignored.
WantsWriteFaulty == FALSE

\* The event has EPOLLOUT and handle_client_write finds the client.
WantsWrite == "OUT" \in cur.mask /\ cur.fd \in DOMAIN clients

\* The EPOLLOUT half of the event: handle_client_write.
ClientWrite ==
    /\ net = "lines" /\ pending = <<>>
    /\ IF WantsWrite
       THEN LET out == clients[cur.fd].out
            IN  \/ /\ WriteSome(cur.fd, out) \/ WriteFails(cur.fd, out)
                   /\ net' = "events" /\ UNCHANGED match
                \/ Killed(cur.fd, out) /\ UNCHANGED <<clients, delivered, sock>>
       ELSE net' = "events" /\ UNCHANGED <<match, clients, delivered, sock>>
    /\ cur' = NoEvent
    /\ UNCHANGED <<running, after, events, pending, drained, next_sequence, batch,
                   ingress, responses, backlog, fdOf, asked, handled, mark>>

-----------------------------------------------------------------------------
(* matching_thread_loop                                                    *)

TestRunning ==
    /\ match = "test"
    /\ match' = IF running THEN "pop" ELSE "empty"
    /\ UNCHANGED <<running, netVars, batch, ingress, responses, peerVars>>

\* Faulty variants: the loop never ends, or at once when running_ is false.
LoopEndsNever == FALSE
LoopEndsAtOnce == TRUE

LoopEnds == ingress = <<>>

TestEmpty ==
    /\ match = "empty"
    /\ match' = IF LoopEnds THEN "exited" ELSE "pop"
    /\ UNCHANGED <<running, netVars, batch, ingress, responses, peerVars>>

PopCommands ==
    /\ match = "pop"
    /\ \E n \in 0 .. Min({MaxBatch, Len(ingress)}) :
          /\ Ingress!Take(n)
          /\ match' = IF n = 0 THEN "test" ELSE "execute"
    /\ UNCHANGED <<running, netVars, responses, peerVars>>

\* Faulty variant: the batch is taken from its end.
BatchItemFaulty == Last(batch)

\* batch[i]
BatchItem == Head(batch)

\* execute_command and the push of its reply, spinning while the queue is full
ExecuteCommand ==
    /\ match = "execute"
    /\ Responses!Put(BatchItem)
    /\ batch' = Tail(batch)
    /\ match' = IF Len(batch) = 1 THEN "test" ELSE "execute"
    /\ UNCHANGED <<running, net, after, workVars, clients, next_sequence, ingress, peerVars>>

-----------------------------------------------------------------------------
(* stop(), from the signal handler of main.cpp or from another thread      *)

Alive == net \notin {"done", "failed", "killed"}

Stop ==
    /\ running' = FALSE
    /\ mark' = IF running THEN next_sequence ELSE mark
    /\ UNCHANGED <<netVars, matchVars, ingress, responses, backlog, sock,
                   fdOf, delivered, asked, handled>>

\* At any time: before start() has stored TRUE the signal leaves no trace.
handle_signal == Alive /\ Stop

-----------------------------------------------------------------------------
(* The clients                                                             *)

Listening == net \notin {"init", "done", "failed", "killed"}

ServerUnchanged == UNCHANGED <<running, netVars, matchVars, ingress, responses, history>>

Connect(c) ==
    /\ Listening
    /\ sock[c].peer = "none"
    /\ \A d \in Conns : d < c => sock[d].peer # "none"
    /\ sock' = [sock EXCEPT ![c].peer = "open"]
    /\ backlog' = Append(backlog, c)
    /\ ServerUnchanged

\* A line arrives whole: until its newline is there it just waits.
SendLine(c, kind) ==
    /\ Listening
    /\ sock[c].peer = "open"
    /\ MapThenSumSet(LAMBDA d : sock[d].sent, Conns) < MaxLines
    /\ sock' = [sock EXCEPT ![c].inbound = Append(@, [kind |-> kind, no |-> sock[c].sent + 1]),
                            ![c].sent = @ + 1,
                            ![c].ready = TRUE]
    /\ ServerUnchanged /\ UNCHANGED backlog

\* The client shuts its side down, or resets the connection.
Leave(c, how) ==
    /\ Listening
    /\ sock[c].peer = "open"
    /\ sock' = [sock EXCEPT ![c].peer = how, ![c].ready = TRUE]
    /\ ServerUnchanged /\ UNCHANGED backlog

\* The client reads, its socket has room again: an EPOLLOUT edge.
ReadReplies(c) ==
    /\ Listening
    /\ sock[c].full
    /\ sock' = [sock EXCEPT ![c].full = FALSE, ![c].ready = TRUE]
    /\ ServerUnchanged /\ UNCHANGED backlog

-----------------------------------------------------------------------------
Network ==
    \/ SetupFails \/ StoreRunning \/ LaunchMatching \/ LoopTest \/ Join \/ Cleanup
    \/ PopResponses \/ DropResponse \/ DeliverResponse
    \/ EpollWait \/ EpollInterrupted \/ EventsDone \/ NewConnections \/ HangUp
    \/ ClientRead \/ WriteOnly
    \/ SkipBlank \/ RejectLine \/ QueueCommand \/ ClientWrite

Matching == TestRunning \/ TestEmpty \/ PopCommands \/ ExecuteCommand

Clients ==
    \E c \in Conns :
        \/ Connect(c)
        \/ \E kind \in LineKinds : SendLine(c, kind)
        \/ \E how \in Departures : Leave(c, how)
        \/ ReadReplies(c)

Next == Network \/ Matching \/ handle_signal \/ Clients

Spec == Init /\ [][Next]_vars

\* Both threads keep running, a client reads what it is sent, and a thread
\* that polls a queue again and again sees what is in it some time.
FairSpec ==
    /\ Spec
    /\ WF_vars(Network) /\ WF_vars(Matching)
    /\ SF_vars(PopResponses /\ drained' # <<>>)
    /\ SF_vars(PopCommands /\ batch' # <<>>)
    /\ \A c \in Conns : WF_vars(ReadReplies(c))

-----------------------------------------------------------------------------
(* Correctness                                                             *)

TypeOK ==
    /\ running \in BOOLEAN
    /\ net \in {"init", "launch", "loop", "drain", "deliver", "epoll", "events", "lines",
                "join", "cleanup", "done", "failed", "killed"}
    /\ after \in {"loop", "epoll", "cleanup"}
    /\ events \subseteq [fd : Fds \cup {0}, mask : SUBSET {"IN", "OUT", "HUP"}]
    /\ cur \in [fd : Fds \cup {0}, mask : SUBSET {"IN", "OUT", "HUP"}]
    /\ pending \in Seq([kind : LineKinds, no : Nat \ {0}])
    /\ \A q \in {drained, batch, ingress, responses} : q \in Seq(Message)
    /\ Len(ingress) <= Capacity /\ Len(responses) <= Capacity
    /\ DOMAIN clients \subseteq Fds
    /\ \A fd \in DOMAIN clients : clients[fd].conn \in Conns /\ clients[fd].out \in Seq(Message)
    /\ next_sequence = Len(asked) + 1 /\ mark \in 0 .. next_sequence
    /\ match \in {"off", "test", "empty", "pop", "execute", "exited", "killed"}
    /\ backlog \in Seq(Conns) /\ asked \in Seq(Conns)
    /\ fdOf \in [Conns -> Fds \cup {0}]
    /\ \A c \in Conns : /\ delivered[c] \in Seq(Message)
                         /\ Len(handled[c]) + Len(sock[c].inbound) <= sock[c].sent
    /\ \A fd \in DOMAIN clients : fdOf[clients[fd].conn] = fd

\* The commands on their way, the one closest to its client first.
InFlight == drained \o responses \o batch \o ingress

\* The strict ordering the README claims for the matching core: commands pass
\* both queues and both batches in the order process_client_line numbered them,
\* none is skipped and none passes twice.
PipelineInOrder ==
    \A i \in DOMAIN InFlight : InFlight[i].seq = next_sequence - Len(InFlight) + i - 1

\* The replies c has been sent or has in its write_buffer.
Replies(c) == delivered[c] \o (IF Open(c) THEN clients[fdOf[c]].out ELSE <<>>)

\* The places in a list of replies where c is answered a command of its own, and
\* the commands answered there.
Own(c, replies)      == {i \in DOMAIN replies : replies[i].seq # 0 /\ asked[replies[i].seq] = c}
Answered(c, replies) == {replies[i].seq : i \in Own(c, replies)}

Ascending(c, replies) == \A i, j \in Own(c, replies) : i < j => replies[i].seq < replies[j].seq

\* A client whose connection is open has been answered, or has the answer in
\* its write_buffer, for every command it sent that is no longer on its way:
\* once each and in the order it sent them, across partial writes, closes of
\* other connections and descriptors that are used again.
AnsweredInOrder ==
    \A c \in Conns : Open(c) =>
        /\ Ascending(c, Replies(c))
        /\ Answered(c, Replies(c)) =
              {s \in DOMAIN asked : asked[s] = c /\ s < next_sequence - Len(InFlight)}

\* Also when a connection closes, the server stops, or the process is killed,
\* what a client has been sent is the beginning of what it is owed: one final
\* batch of responses, a partial write or a dropped reply cost it the end of
\* its replies, never one in the middle.
NoGapInReplies ==
    \A c \in Conns :
        /\ Ascending(c, delivered[c])
        /\ \A s \in Answered(c, delivered[c]), earlier \in DOMAIN asked :
              earlier < s /\ asked[earlier] = c => earlier \in Answered(c, delivered[c])

\* The lines of a connection are processed once each and in the order they were
\* sent.  Until it closes none is lost: a line is processed, in read_buffer or
\* in the socket.  Lines thrown away at end of file, or with a client that was
\* erased while its lines were processed, are the last ones it sent.
LinesReadInOrder ==
    \A c \in Conns :
        /\ handled[c] = [k \in DOMAIN handled[c] |-> k]
        /\ Open(c) /\ net # "killed" =>
              Len(handled[c]) + Len(sock[c].inbound)
                  + (IF cur.fd = fdOf[c] THEN Len(pending) ELSE 0) = sock[c].sent

\* drain_response_queue routes by descriptor.  A reply reaches a connection
\* that did not ask only when the asking one is closed and its descriptor was
\* given to the other afterwards.
StrangerOnlyAfterReuse ==
    \A c \in Conns : \A i \in DOMAIN Replies(c) :
        LET s == Replies(c)[i].seq
        IN  s # 0 /\ asked[s] # c =>
                /\ ~Open(asked[s])
                /\ fdOf[asked[s]] = fdOf[c]
                /\ asked[s] < c

\* The network thread in the retry loop of process_client_line, the matching
\* thread in that of execute_command.
NetSpins   == net = "lines" /\ pending # <<>> /\ Head(pending).kind = "command"
                  /\ Len(ingress) = Capacity
MatchSpins == match = "execute" /\ Len(responses) = Capacity

\* The states no thread leaves: each waits for the other, or for one that ended.
Stuck ==
    \/ NetSpins /\ (MatchSpins \/ match = "exited")
    \/ net = "join" /\ MatchSpins

\* While the gateway runs, every command is answered on the socket of its
\* client, unless that connection closes: batches, full sockets and
\* edge-triggered events leave no reply behind.  Stuck is the one exception.
EveryReplyArrives ==
    \A s \in 1 .. MaxLines :
        s \in DOMAIN asked ~>
            \/ ~running \/ ~Alive \/ Stuck
            \/ /\ s \in DOMAIN asked
               /\ \/ \E reply \in Range(delivered[asked[s]]) : reply.seq = s
                  \/ ~Open(asked[s])

\* Once stop() has been called on a running gateway, start() returns whatever
\* both threads were doing, unless it is stuck.
StopEnds ==
    (net # "init" /\ ~running) ~> (~Alive \/ Stuck)

\* What arrives on a connection is read, although epoll is edge-triggered and
\* reports it once: the read loop goes on until the socket has nothing left.
EveryLineRead ==
    \A c \in Conns : Open(c) /\ sock[c].inbound # <<>> ~>
        sock[c].inbound = <<>> \/ ~Open(c) \/ ~running \/ ~Alive \/ Stuck

\* Every command that was in the pipeline when stop() took effect has been
\* executed, and its reply has left the matching thread, when start() returns.
\* (Commands queued later may be left: MatchingDrained.)
ExecutedBeforeReturn ==
    net = "done" => \A msg \in Range(ingress \o batch) : msg.seq >= mark

-----------------------------------------------------------------------------
(* What comments say and the code does not do                              *)

\* "Stop matching thread and wait for it to drain": nothing is left in the
\* ingress queue when start() returns.
MatchingDrained == net = "done" => ingress = <<>>

\* "with backpressure yield if full": a push that finds the ingress queue full
\* waits for room, and gets it as long as the gateway is not told to stop.
BackpressureEnds == (NetSpins /\ running) ~> (~NetSpins \/ ~running)

=============================================================================
