# Verification of LLOMS

TLA+ models, TLC runs and TLAPS proofs for the LLOMS order-matching engine. Paths below are
relative to the repository; `PROJECT.json` maps every definition to its lines.

## The system

| Part | State | Operations | Talks to |
|---|---|---|---|
| `StlOrderBook` (`src/stl_order_book.cpp`) | two maps price → list of orders, index id → location | `submit_order`, `cancel_order`, `clear`, queries | called by tests and benchmarks |
| `PoolOrderBook` (`src/pool_order_book.cpp`) | slot vector, free list, linked levels, index id → slot | the same | called by the matching thread |
| `SpscQueue` (`include/spsc_queue.hpp`) | slot ring, `tail_`, `head_` | `push` by one thread, `pop`, `pop_batch`, `empty` by another | network thread ↔ matching thread, twice |
| `Protocol` (`src/protocol.cpp`) | none | `parse_line`, `format_*` | network thread parses, matching thread formats |
| `TcpServer` (`src/tcp_server.cpp`) | clients with read and write buffers, two queues, `running_` | epoll loop, matching loop, `start`, `stop` | sockets, signal handler |
| `main` (`src/main.cpp`) | `g_server` | `handle_signal` → `stop` | `TcpServer` |
| SPSC benchmarks (`benchmarks/benchmark_spsc.cpp`) | credit window `in_flight` | open and closed loop over the queues | two threads |
| `WorkloadGenerator`, engine benchmark (`include/workload.hpp`, `benchmarks/benchmark_engine.cpp`) | pool of active ids, next id | draw limit orders, cancels, sweeps; warmup, `clear`, timed pass | a book |
| Tests, client tool | – | statements of intent | – |

Commands flow from a socket through `parse_line` into the ingress queue; the matching thread
pops batches, executes each command on the pooled book and pushes one response per command into
the response queue, which the network thread drains into the clients' write buffers.

What is hard here:

* the ring's threads compare counters that may be stale and that wrap, and share plain slots;
* the pooled book keeps orders in reused slots under hand-made links: a wrong link or a leaked
  slot shows only many calls later;
* matching sweeps several makers with partial fills and must keep price-time priority;
* the gateway's threads wait on each other through two bounded queues, and stop while busy;
* epoll is edge-triggered and writes are partial: what a handler leaves behind is not reported again;
* the closed-loop benchmark counts its credit in an unsigned number while both its queues move.

What makes each part correct: the STL book trades by price, then arrival, and is never left
crossed; the pooled book behaves as the STL book (the claim of `tests/test_differential.cpp`) and
loses no slot; the ring is a bounded FIFO without data races in which nobody starves; the gateway
answers each command once, to the client that sent it, and stops when told to; the parser accepts
the documented commands and nothing else; the benchmarks execute their whole workload, keep their
window and end; a workload is one the book accepts, and no unit of an order is lost or made.
`PROJECT.json` lists the hazards line by line.

## The modules

| Module | Models |
|---|---|
| `OrderTypes` | `include/types.hpp`, price priority, the map operations both books use |
| `StlOrderBook` | Engine A |
| `StlOrderBookProofs` | the proofs about the STL book |
| `MatchReference` | what matching must compute, from a history of which resting orders came earlier, without lists or loops |
| `PoolOrderBook` | Engine B |
| `PoolImplementsStl` | its link and slot invariants and the refinement mapping to `StlOrderBook` |
| `PoolProofs` | the proofs about the pooled book, on those about the STL book |
| `FifoQueue` | what a queue promises, abstractly |
| `SpscQueue` | the ring, one step per shared access; properties and inductive invariant |
| `SpscQueueProofs` | the proofs about `SpscQueue` |
| `Pipeline` | the two threads of `benchmark_spsc.cpp`, open and closed loop |
| `PipelineProofs` | the proofs about `Pipeline` |
| `Workload` | `WorkloadGenerator::generate` driving the STL book as `run_benchmark` does |
| `WorkloadProofs` | the proofs about `Workload`, on those about the book |
| `Gateway` | `TcpServer` and the signal handler: both threads, both queues, clients, shutdown |
| `GatewayProofs` | the proofs about `Gateway` |
| `CommandExecution` | `execute_command`: the book operations a command makes and its reply; extends `MatchReference` |
| `CommandExecutionProofs` | the proofs about `CommandExecution`, on those about the book |
| `Protocol` | `parse_line` and the documented grammar |
| `ProtocolProofs` | the proofs about `parse_line` |
| `MC*` | TLC instances: symmetry, view, capacity rounding |

### The books

`submit_order` is a loop, so a call is several steps: `SubmitReject`, or `SubmitAccept`, then one
`MatchStep` per trade, then `FinishSubmit`. `taker` is the local `order`; while it is set no other
operation is enabled, because one thread owns the book. `match_buy` and `match_sell` are mirror
images and share one definition over the side. `trades` is `out_trades` (callers pass an empty
vector) and `ret` the return value. The timestamp is left out: neither book reads it.

In `PoolOrderBook`, `nodes` is `nodes_` with slots from 0, `next` serves both as list link and as
free-list link as in the code, `INVALID_IDX` is -1 for the code's 2^32-1, and `allocate_node`,
`free_node`, `append_to_level` and `remove_from_level` are the code's functions as operators on the
slots. `StoreLevel` is the write to the level followed by erasing it when it is empty.
`FirstCapacity` stands for the constant 1024. A level's `price` field always equals its map key and
is not kept twice. `Quantity` sums are taken modulo `QuantityMod` (2^32 in the code).

The queries that take no step are operators on the state (`get_order`, `total_orders`,
`volume_at_price`, `pool_capacity`). The refinement maps the orders in the lists, their order and
the index, so the books also agree on every query these determine: `get_order`, `total_orders`, the
best prices. It does not compare `volume_at_price`, where the books differ (`pool_volume` below).

The list iterator that `order_index_` of the STL book stores is modelled as the place of the id in
the list its entry names. `IndexMatchesQueues` therefore catches a dangling iterator only
indirectly, as an indexed order that this list does not hold exactly once; that an iterator stays
valid while its element is in the list is left to `std::list`.

The refinement mapping of `PoolImplementsStl` follows each level's `next` links to get the STL
book's list, and reads side and price of an indexed order from its slot to get its location.
Steps map one to one.

### The ring

`push` is `PushFull`, or `PushStart`, `PushWrite`, `PushPublish`; `pop_batch` is `PopEmpty`, or
`PopStart`, `PopRead` per item, `PopPublish`; `pop` is a batch of one. `headView` is the set of
stores to `head_` that the producer's next load may return: the last one it saw and all later ones
(coherence), so a load may be arbitrarily stale; `tailView` is the same for the consumer. A thread
loads its own counter exactly. Slots hold one value each: with acquire and release on the counters
plain memory behaves so as long as accesses do not race, and `NoSlotRace` says they do not. A
moved-from slot holds `NoItem`. `push` by copy and by move differ only in what they leave in the
argument; the argument of a failed move-push is untouched, so the callers' retry loops are sound.
Counters are words modulo `Capacity * Laps`; the code has 2^64, a multiple of its power-of-two
capacity.

### The gateway

`net` and `match` say where the two threads are; a step is one access to `running_` or a queue, or
one system call with the thread's own work after it. The queues are two instances of `FifoQueue`:
`FifoRefinement` (below) lets them be abstract. A push that finds a queue full and a pop that finds
nothing are stutters, so a thread in a retry loop is one whose step is disabled (`NetSpins`,
`MatchSpins`). A pop may find fewer items than there are (a stale `tail_`), except after `join()`.

| Code | Actions |
|---|---|
| `start` | `SetupFails`, `StoreRunning`, `LaunchMatching`, `LoopTest`, `Join`, `Cleanup` |
| `drain_response_queue` | `PopResponses`, then `DeliverResponse` or `DropResponse` per response |
| `poll_events` | `EpollWait`, `EpollInterrupted`, `HangUp`, `WriteOnly`, `EventsDone` |
| `handle_new_connection`, `handle_client_read`, `handle_client_write` | `NewConnections`, `ClientRead`, `ClientWrite` |
| `process_client_line` | `SkipBlank`, `RejectLine`, `QueueCommand` |
| `matching_thread_loop`, `execute_command` | `TestRunning`, `TestEmpty`, `PopCommands`, `ExecuteCommand` |
| `stop`, `handle_signal` | `Stop`, `handle_signal` |
| kernel and clients (external) | `Connect`, `SendLine`, `Leave`, `ReadReplies` |

Sockets: `ready` is membership in epoll's ready list (edge-triggered), `Mask` the level it then
reports; the kernel hands out the lowest free descriptor; a write takes at least one reply unless
the socket is `full`. A write to a client that has gone may succeed, fail, or end the process by
SIGPIPE, which nothing handles. A line is only known by its kind and its position in what its
client sent, and a reply by the number of its command. `handled` and `mark` are histories: the
lines `process_client_line` was given, and how many commands there were when `stop()` took effect.
Incomplete lines wait in `read_buffer` and look as if they had not arrived.

When the flush of a REJECT closes the connection, `handle_client_read` goes on with a reference to
the erased client; the model lets it see the remaining lines or none, with a closed descriptor.

`empty()` in the matching loop is exact in the model, and `EmptyIsReliable` of the ring is about
the answer "there is an item" only. A stale answer "empty" lets the thread exit with a
command in the queue, which the model has anyway when the push comes after the exit.

`CommandExecution` is `execute_command` over `StlOrderBook`, which the pooled book implements with
all results. Its `NeverSilent` is why `Gateway` may give each command exactly one reply.

Orders come from `Submittable`: every combination of fields in which the remaining quantity is 0
or the whole quantity. The code's callers of `submit_order` pass the whole quantity; 0, which
`submit_order` replaces by it, is what a caller passes that leaves the field out. `parse_line` lets
through a part of these.

### The benchmarks

In `Pipeline` the ingest thread's loops are single steps: a drain that gets nothing is a stutter,
`wait_for_credit`, `PushRetry` and `LastAcks` are the three places where one that gets something
takes it off `in_flight`. `closed` chooses `run_closed_loop_e2e` or `run_open_loop_throughput`,
`window` its parameter; both stay as chosen. An action is its position in the workload.
`PushRetry` needs no full queue: a push also fails on a stale `head_`. `empty()` is exact in
`TestDone`, because `producer_done` is stored after the last push and loaded before it.

`Workload` extends `StlOrderBook` with the generator. A distribution is the set of values it can
give, so the kind of an action is free wherever the code leaves it to the dice: a cancel or a sweep
needs an active id. The generator never looks at the book, hence an action is applied as it is drawn.
`EndWarmup` is the `clear()` between the passes; the second pass may be any workload, of which the
repetition of the first is one. `run_benchmark` keeps one vector of trades for the run, `traded`,
to which each call adds its own.

### The parser

A token is a keyword, a number by its range (zero, 32 bits, 64 bits), or anything else: more than
`parse_line` can tell apart is not needed. `Documented` is the grammar of the code's comments, each
line with its meaning, defined without looking at the order of the parser's tests.

## The runs

| Run | Checks | Shows |
|---|---|---|
| `stl_commands` | `TypeOK`, `IndexMatchesQueues`, `NeverCrossed`, `PriceTimePriority`, `NeverSilent`, `ReplyAccountsForOrder` | index and lists agree, the book is never crossed between calls, trades are those of the reference; every command is answered, and the answer accounts for the whole order |
| `pool_book` | `PoolTypeOK`, `ListsWellFormed`, `PoolPartition`, `GrowsOnlyWhenFull`, `ImplementsStl` | links sound both ways, each slot either free once or resting once, growth only when full, same behaviour as the STL book |
| `pool_volume` | `VolumeIsRestingQuantity` (violated) | fills do not reduce `total_volume` |
| `spsc_ring` | `TypeOK`, `Bounded`, `NoSlotRace`, `ViewsInWindow`, `EmptyIsReliable`, `ImplementsFifo`, `NobodyStarves` | the ring is a bounded FIFO under stale loads and wrap-around; retried pushes succeed and every item is delivered |
| `gateway_routing` | `TypeOK`, `AnsweredInOrder`, `StrangerOnlyAfterReuse`, `PipelineInOrder`, `LinesReadInOrder`, `ExecutedBeforeReturn` | lines are processed in order, an open connection gets each of its replies once and in order; only a connection on a reused descriptor sees replies of another; what was queued before a stop is executed |
| `gateway_flow` | `NoGapInReplies`, `LinesReadInOrder`, `ExecutedBeforeReturn`, `EveryLineRead`, `EveryReplyArrives`, `StopEnds` | what a client has been sent is the beginning of what it is owed, however the server ends; every line is read, every reply arrives and stopping ends, except in the states of `Stuck` |
| `gateway_drain` | `MatchingDrained` (violated) | commands queued after the matching thread has left |
| `gateway_backpressure` | `BackpressureEnds` (violated) | both threads in their retry loops for ever |
| `protocol_lines` | `ReadsLongestCommand` | the parser reads the longest documented command at the start of a line |
| `protocol_grammar` | `OnlyDocumentedAccepted` (violated) | what follows is ignored |
| `pipeline_window` | `TypeOK`, `UnackedWithinWindow`, `NeverFull`, `AllExecutedInOrder`, `BenchmarkEnds` | the window is kept, `in_flight` is exact, every action is executed once and in order, and the benchmark ends even when the window exceeds the queues |
| `workload_book` | `ActivePool`, `EveryUnitAccounted`, `AllAccepted`, `CancelMissesOnlyFilled` | the generator's idea of the live orders is right but for fills; every order is accepted, also with the warmup's ids; every unit is traded, resting or cancelled |

Bounds. `stl_commands`: four ids, prices 0 (invalid for a limit order) to 2, quantities to 3: three
makers on one level or spread over two, cancels in the middle, a fourth order sweeping them with a
partial fill at the end, ids reused. `pool_book`: three ids and a pool that starts empty, so it
grows from zero and doubles twice; three orders on one level give a head, a middle and a tail to
remove. Ids are symmetric in both. Their views, and that of `workload_book`, merge states that
differ in data no step branches on (orders left in free slots, `total_volume`, results of the
finished call); a property about such data is an action property, which looks at the step that
produces them, and the volume run uses no view.
`spsc_ring`: a requested capacity of 3 (rounded up to 4), words of 8, two item values, batches of
up to 3, so the ring is full, empty and wrapped in every phase of both calls. Two item values
suffice to see a lost, repeated or swapped item.
`gateway_routing`: two connections and two descriptors, two lines, queues of two places, both ways
of leaving: enough for a command in flight while its connection closes, its descriptor is accepted
again and the new client sends its own. `gateway_flow`: one connection, queues of one place,
batches of two, four lines: the fewest that put one item in each queue, one in the matching
thread's hands and one in the network thread's, which is the mutual wait. `protocol_lines`: all
lines of up to six tokens. `pipeline_window`: nine actions through queues of two places and a batch
of three, windows of 1, 2, 3 and 9: below, at and above the capacity, and the last more than both
queues and the batch hold together, so that a push has to drain. `workload_book`: five actions
after a warmup of any five, prices clamped at the middle, at it and above it, lots of 1 and 2, so
that half a lot is nothing: three makers and a sweep, or cancels out of a pool of three.
The gateway runs do not check deadlock: the server may end, and `Stuck` names where it must not be;
nor do the parser's, whose lines end.

Fairness. `spsc_ring`: each call in progress runs on; the consumer polls for ever
(`matching_thread_loop`); the producer calls again after a failed push (the retry loops in
`process_client_line` and `execute_command`); and a store becomes visible to the other thread in
finite time, which the C++ standard asks of atomics. Without the last a spinning thread could read
a stale counter for ever. `gateway_flow`, `gateway_backpressure`: both threads run, a client reads
what it is sent, and a thread that polls a queue again and again finds what is in it some time
(strong fairness of the successful pops, for the same reason as above). `pipeline_window`: both
threads run, and the same for the matching thread's pops; fruitless drains and pushes of the ingest
thread are no steps, so its weak fairness says of them that they get through some time. Nothing is
assumed of clients sending or leaving, nor of signals.

Every property of a passing run is known to fail for a faulty variant of the code kept next to the
original (names with `Faulty` or `_faulty`, or with what is wrong, as `EnqueueWhole`).

## Where the code and its claims differ

`pool_volume`: `match_buy` and `match_sell` take the traded quantity off the maker but not off
`level.total_volume` (`src/pool_order_book.cpp:146`, `:185`), and `remove_from_level` (`:80`) then
subtracts the remainder of a filled maker, which is zero. `volume_at_price` therefore over-reports
from the first fill until the level is erased. `tests/test_stl_order_book.cpp:208` asserts the
exact value of the STL book; `tests/test_differential.cpp` compares the two books and does not
compare volumes.

`gateway_backpressure`: `process_client_line` spins on a full ingress queue
(`src/tcp_server.cpp:281`) without draining responses, and `execute_command` spins on a full
response queue (`:345`). Both can be full at once, when the lines of one `poll_events` fill them.

`gateway_drain`: "Stop matching thread and wait for it to drain" (`:121`) does not hold: the
matching thread exits on `running_` false and an empty queue (`:290`) although the network thread
may still be queueing commands. The same holds of "Drain final responses" (`:126`), which takes one
batch of 64. `Stuck` also names two ways for a stop not to end: `join()` (`:123`) while the
matching thread waits for room in the response queue, and a full ingress queue after it has left.

`protocol_grammar`: an unknown sixth token makes a LIMIT order (`src/protocol.cpp:100`), and tokens
after a complete command are ignored.

Without a promise in the code to hold it against, the model also has: complete lines dropped when
the end of the connection is read with them (`:229`), a signal lost before `running_` is stored,
SIGPIPE (`:375`), and a reply handed to the new holder of a descriptor (`:358`).

## What is proved

`SpscQueueProofs`, for every set of items, every `Capacity` of at least 1, every word size that is
a multiple of it by at least 2, and every batch limit (`SpscAssumption`):

* `Invariance`: `Spec => []IndInv`;
* `TypeCorrect`, `BoundedOccupancy`, `LoadsInWindow`, `RaceFreedom`, `EmptyReliable`: the safety
  properties of `spsc_ring`;
* `FifoRefinement`: `Spec => ImplementsFifo`.

`Bounded` alone is not inductive: `push` compares with a `head_` it loaded earlier, so one needs
that everything it may still load, counted from there, leaves room (`ViewsInWindow`), that loads
during a push are no older than the one it tested, and that a pop took no more than every `tail_`
it may load allows. The ring lemmas reduce unsigned arithmetic to this window; `SlotsDiffer`, that
counters less than a capacity apart have different slots, is where divisibility of the word size
is used. For the refinement `ContentsFacts` gives each element of the abstract queue as a slot or
an item of the batch in progress, and one lemma per effective step compares the queues position by
position.

`PipelineProofs`, for every number of actions, capacity, window and batch sizes
(`PipelineAssumption`): `PipelineInvariance`, from which follow `PipelineTypes`, `WindowKept`,
`WindowFitsQueues` and `ExecutedInOrder`, the safety properties of `pipeline_window`. The invariant
says position by position that history, batch and ingress queue are the first `i` actions, which
gives the order; that the thread positions fit the counts (`Progress`), which gives completeness at
the end; and that between the credit test and its push one credit is still free (`Credit`), without
which the window would not be inductive.

`StlOrderBookProofs`, for every set of ids, every finite set of prices and all quantities below the
width of the counter (`OrderTypesAssumption`): `BookInvariance`, and from it `BookTypes`,
`IndexAgrees` and `BookNeverCrossed`. The run looks at the book between calls; the invariant has to
hold inside `submit_order` too, so `Uncrossed` is stated for every step and the order in work
(`TakerOK`) is known not to be in the book. `IndexMatchesQueues` is inductive only with `Listed`:
that the ids of a list differ and the index sends each of them to that very list, without which a
removal could take the wrong node. The invariant is stated on maps, lists and index as arguments
(`BookOK(books, index)`), so that three lemmas (one order less, one more, one changed) serve every
action. `BestExists` stands for the order of `std::map`: a finite non-empty set of prices has a best
one, by the well-foundedness of inclusion, since no induction is available. It is why prices are
finitely many, which they are in a `uint64_t`.

`CommandExecutionProofs` and `WorkloadProofs` first show that their drivers do nothing to the book
but the book's own steps (`CommandsDriveBook`, `WorkloadDrivesBook`), so that all of the above holds
for them (`CommandsKeepBook`).

For commands, `ExecInvariance` adds two parts to the book's invariant:

* `Turns`: each list is in the order in which its orders came to rest, and the history names nobody
  who is gone. From it, the order the matching loop takes is the
  one before all other makers (`BestIsFirst`), and what is ahead of every other maker shrinks by
  exactly what is traded (`FilledAhead`). Hence `TradesByPriority`: every iteration of the loop makes
  the one trade that `MatchReference` owes, and what is left owed is what the next ones make.
* `InWork`: what the order in work has traded and what it still wants are what it asked for. Hence
  `CommandsAnswered`, since before the first trade the order is whole and so has a rest to report,
  and `RepliesAccount`.

Both are about sums. A sum is the community modules' fold over a finite set, a recursive function
chosen by its equation; that there is one, that it is unique where it matters and that an element
can be taken out of it (`SumWithout`) is proved from smallest counterexamples, that is, from the
well-foundedness of inclusion among the parts of a finite set, in place of an induction.

For workloads of any length: `PoolExact`, that swap-and-pop keeps the pool of active ids exact;
`WorkloadAccepted`; `UnitsAccounted`, that each unit of a limit order is traded, resting or
cancelled; and `CancelsMissFilled`, that a cancel misses only what has been filled. The account has
to be kept inside a call too (`UnitsOK`), where the order in work is neither resting nor returned,
and is stated with what `get_order` finds (`Left`), so that it reads off the book what a cancel takes
away. `WorkloadDrivesBook` is not mere inclusion of actions: that a drawn order is one of the book's
orders, with an id not yet issued, comes from the invariant (`IdsOK`). `DrawnPricesAssumption` says
that the prices the generator draws are among `Prices`, all of which fit a `uint64_t`.

`PoolProofs`, for every initial and first capacity (`PoolAssumption`), set of ids, finite set of
prices and all quantities, proves every property of `pool_book`. Links say nothing by themselves,
so the invariant (`PoolInvariance`) says that there are lists which they spell (`Structure`): one of
the free slots and one per level, sharing no slot and leaving none out. What each helper of the code
does to those lists is a lemma over plain parameters (with results named `Unlinked`, `Freed`,
`Appended`, `Released`, `Rested`), growth included, and the actions are put together from them. `remove_from_level` relies
on the order being in the list of its own side and price, which the links alone do not give. It is
not proved again: the STL book's invariant, read through the refinement mapping, is part of
`PoolInv`, and so the refinement is proved together with the invariant it needs. From it follow

* `PoolTypes`, `ListsSound`, `PoolPartitioned` and `GrowthOnlyWhenFull`;
* `PoolRefinesStl`: `Spec => ImplementsStl`, results and trades included, and with them the queries
  other than `volume_at_price`;
* `PoolNeverCrossed` and `PoolIndexAgrees`, which the pooled book inherits from the STL book.

`ProtocolProofs`, for lines of any length: `ParserReadsLongest`. `DocumentedTokens` says of the
grammar, token by token, which lines it has; the rest compares that with the parser's tests by the
first token of the line.

`GatewayProofs`, for any number of connections, descriptors and lines, any
capacity and batch size (`GatewayAssumption`), prove every safety property of the two gateway runs.
The inductive invariant is built in four layers, each proved with the ones before it:

* `Base`: types; where a thread is and what it has in hand (`Control`); one event per descriptor, of
  a client that is there (`EventsOK`); the holder of a descriptor is the last connection that was
  given it (`Holders`); connections are accepted in the order in which they were made (`Arrivals`).
  The last two are what makes "reuse" a statement about connection numbers.
* `Pipe`: the four containers hold consecutive numbers that end below `next_sequence`, and once the
  matching thread has exited everything still queued is younger than the stop. Hence
  `PipelineKeepsOrder` and `StopExecutesQueued`.
* `Lines`: each line a client sent is processed, in hand or in the socket, in order. The part about
  lines in hand must speak of the last holder of the descriptor, not of an open client, because
  `handle_client_read` goes on after a failed REJECT has closed the connection. Hence
  `LinesKeepOrder` and `GatewayTypes`.
* `Answers`: what a connection has been sent ascends over all commands, not only its own; every reply
  it has was asked for by it or by an earlier holder of its descriptor; an open one has all its
  replies, a closed one no gap. `AnsweredInOrder` alone is not inductive: the next reply is known to
  be the youngest only because all of them are below the oldest command on its way. Hence
  `RepliesKeepOrder`, `RepliesHaveNoGap` and `StrangersComeLater`.

Each layer was first checked as an invariant of small instances. Connections are numbered in the
order in which they are made and there are finitely many of them and of descriptors, which the
kernel's lowest-free rule needs.

Every safety property of a passing run is thus proved, and so are the two refinements. Only
model-checked, because out of the provers' reach:

* liveness (`NobodyStarves`, `EveryLineRead`, `EveryReplyArrives`, `StopEnds`, `BenchmarkEnds`),
  which needs fairness and `ENABLED`;
* that `round_up_power_of_two` yields a power of two, a recursive definition: the proofs about the
  ring take any capacity of at least 1.

## Not modelled

Left out for good: sockets and epoll beyond what the gateway observes; text formatting and the
splitting of lines into tokens; argument parsing and banners; timestamps, latency statistics and
their printing (`calculate_stats`, `compute_latency_stats`, pure arithmetic on measurements); the
random numbers of the workload generator beyond their ranges, so no share of a kind of action is
modelled; `size()` of the ring and the monitoring getters, which no thread of the program calls
while the gateway runs; the tests and the Python client, which are read as statements of intent.
Larger gateway instances (three lines over two connections) also pass but take minutes; several
clients under load while a stop arrives are covered only as far as two connections go.
