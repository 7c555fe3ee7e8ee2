# TLA+ verification of TycheEngine

TycheEngine connects trading modules (processes or shared libraries) through a
central engine: events are broadcast to subscribers through per-topic queues, and
jobs ("callback" requests) are routed to one handler whose response returns to the
requester. The engine exists in C++ (`src/src/tyche/cpp/engine`) and in Python
(`src/src/tyche/engine.py`); module clients exist in C++, Python and Rust.

This directory holds TLA+ models of its concurrent parts, the TLC configurations
that check them on small instances, and TLAPS proofs for all instances.

## Inventory

| Component | State | Operations | What is hard | What makes it correct |
|---|---|---|---|---|
| Ring buffer, topic queue (`ring_buffer.h`, `topic_queue.*`) | `_write_pos`, `_read_pos`, one sequence number and one item per slot, drop counter | `try_push`, `push_overwrite`, `push_blocking`, `pop`; `put`, `get` | lock-free; producers race producers and the consumer; full and empty by comparing sequence numbers of different laps | no data race on a slot, FIFO, no loss, "full" only when full, no endless spin |
| Job router (`engine.cpp`, `_job_router_worker`) | `_pending_jobs`, `_job_tracking`, `_job_round_robin` | handle a request, a response, a timeout event, a recovery event | four other threads change handler and job tables between its critical sections | one answer per request, tables consistent, jobs reach available handlers |
| Timeout worker, heartbeat receiver, monitor, registration (`engine.cpp`, `heartbeat_manager.cpp`) | handler tables, availability, liveness counters, event queues | scan, recover, expire, register | decisions on state that is stale when it is acted on | no action on behalf of a job or module that has moved on |
| Event path (`engine.cpp`, `sharded_topic_map.cpp`) | map of topic queues with last-access times, egress wakeup flag | proxy enqueues, egress drains, monitor collects idle queues | raw pointers across the collector, check then erase | no use of an erased queue, no event lost with a collected queue |
| Engine process (`main.cpp`, `engine.cpp`) | `_running`, the ZeroMQ context, the worker threads | configure, `start_nonblocking`, `run`, signal handler, `stop`, destructor | a signal at any moment of the main thread; joins in the right order | no thread outlives what it uses; shutdown completes |
| Shared-memory queue (`shared_memory_queue.cpp`) | slots in a shared segment | `write`, `read` | two processes, no lock | FIFO |
| Shared-memory bridge (`shared_memory_bridge.cpp`) | loaded modules with library, queue and thread; raw queues | load, unload, start, stop, worker loop | joins under a lock that the worker needs; foreign code that may not return | nothing unmapped while in use; what is read is forwarded; stop ends |
| Module client (`module.cpp`; also `module.py`, `module.rs`) | sockets, threads, pending requests by correlation id | `start`, `stop`, `send_event`, `request_event`, receiver loops, handlers | a response races the time-out and `stop`; a handler that requests blocks its own receiver | genuine results, jobs answered, `stop` returns |
| CTP gateway (`ctp_gateway.cpp`, `md_spi.cpp`, `td_spi.cpp`) | API handles, sessions, running flags, option buffer, counters | start with retries, log-in, quote callback, dispatch loop, stop | a foreign thread calls back during start and stop; reconnection; a full buffer | quotes accounted for, sessions subscribed, stop ends |
| Messages (`message.cpp`) | none | `serialize`, `deserialize` | types that the wire does not tell apart, keys that are not strings, 64-bit integers | a message survives a hop |
| Dead letters (`dead_letter_store.cpp`), admin query | one file per day | `persist`, `replay` | two writers, a reader without a lock, midnight, a write that nobody checks | replay returns what was written |
| Python engine (`engine.py`, `heartbeat.py`) | as the C++ engine, with other locks | as the C++ engine | time-outs and recoveries run on their own threads and send themselves | as the C++ engine |
| Greeks engine, static data, helpers | data | pricing, storage | sequential | out of scope (numbers, files) |

Interaction: modules register and send heartbeats over ZeroMQ sockets, one engine
thread per socket; threads share the tables above under `_modules_lock` (module and
handler tables) and `_job_lock` (jobs), and hand events to the router through two
locked queues. Topic queues are the only lock-free structure: the event proxy and the
shared-memory bridge put, the egress worker gets.

`PROJECT.json` lists the components, the hazards with their lines, the map from
definitions to code, the runs, mutants, findings and theorems.

## Modules

| Module | Models |
|---|---|
| `BoundedQueue` | the abstract promise of a topic queue: bounded FIFO, refuse only when full |
| `DroppingQueue` | the same under DROP_OLDEST: producers may drop from the head, and nowhere else |
| `RingBuffer` | `RingBuffer` and `TopicQueue`, one action per atomic access |
| `MCRingBuffer` | constants for its runs |
| `RingBufferProofs` | the theorems about `RingBuffer` |
| `JobRouter` | job routing in the C++ engine, one action per critical section |
| `JobService` | the abstract promise of the job service: who may answer a request, how often, and until when it is offered |
| `MCJobRouter` | constants for its runs |
| `JobRouterProofs` | the theorems about `JobRouter` |
| `EventPath` | registration, heartbeats, monitor and the event queues of the C++ engine, one action per critical section |
| `MCEventPath` | constants for its runs |
| `EventPathProofs` | the theorems about `EventPath` |
| `ShmQueue` | `SharedMemoryQueue::write` and `read`, one action per shared access |
| `ShmQueueProofs` | the theorems about `ShmQueue` |
| `ModuleClient`, `MCModuleClient` | the C++ module client, one action per critical section |
| `ModuleClientProofs` | the theorems about `ModuleClient` |
| `EngineShell`, `MCEngineShell` | the engine process from configuration to exit, and the shared-memory bridge |
| `EngineShellProofs` | the theorems about `EngineShell` |
| `Gateway`, `MCGateway` | the CTP gateway with its callback objects |
| `GatewayProofs` | the theorems about `Gateway` |
| `Codec` | messages, msgpack objects and JSON records, as functions |
| `DeadLetterStore` | the dead-letter store, its two writers and its reader |
| `DeadLetterProofs` | the theorems about `DeadLetterStore` |
| `DeadLetters`, `MCDeadLetters` | the store with the messages it gets, over `Codec` |

How they fit together: `ModuleClient` assumes of the engine what `JobRouter` shows
(`AtMostOneAnswer`) and provides the requesters that `JobRouter` takes as given.
`EngineShell` starts and stops the workers whose inner life is in `JobRouter` and
`EventPath`; its queues do what `ShmQueueProofs` shows of `ShmQueue`: they take in as many
messages as they have slots, deliver these in order, and after that deliver them again while the
writer spins (finding 2). `Gateway` starts and stops the `ModuleClient` it derives from. Its option
buffer and the topic queues of `EventPath` are `RingBuffer`'s under DROP_OLDEST with a concurrent
pop, in the few steps between which the race of finding 1 lies.
`DeadLetters` takes the messages that `JobRouter` and the egress worker of `EventPath` give up.

### RingBuffer

Variables carry the names of the members they model. Each producer has a program
counter `pc` naming its next shared access, and the locals `pos` (of `try_push`) and
`rpos` (of `push_overwrite`); the consumer has `cpc`, `cpos` and `result`. The three
outcomes of the comparison in `try_push` are `SlotFree`, `SlotTaken` and the `Full...`
actions, which continue as the strategy of `TopicQueue::put` says: count and drop
(`FullDropNewest`), try again (`FullBlockProducer`), or discard the oldest
(`FullDropOldest`, then `LoadReadPos` ... `ReleaseDiscarded`). `ClaimFails` is enabled
even if the position has not moved, because the compare-exchange is the weak form.

`Slot::data` is not atomic. `Move` therefore may return `Torn` when a producer is at its
write of the same slot, and `NoDataRace` states that this never happens. `log`,
`delivered` and `discarded` are history variables.

`Exclusive` is TRUE where the users keep `push_overwrite` and `pop` apart, as the
comment of `push_overwrite` asks; then a put and a get exclude each other.

Abstractions: interleaving is sequentially consistent (the code's release stores and
acquire loads of `sequence` order the accesses of `data`; the relaxed position
counters could in addition be seen late, which the model covers only as far as the
interleaving does); positions do not wrap at 2^64; capacity is any number from 2 up, of
which the code uses the powers of two. The copying overload of `try_push` is the same
algorithm.

### JobRouter

The router thread has a program point `at`: it receives one message (`RejectRequest`,
`ReceiveRequest` then `QueueRequest` or `DispatchRequest`, `ReceiveResponse`,
`ReceiveNothing`), drains the timeout events and processes them (`SkipTimeout`,
`GiveUp`, or `RunTimeout`, `MarkUnavailable`, `ReadAvailable`, then `Redispatch` or
`PutBack`), drains the recovery events and processes them (`BeginRecovery`,
`RetryWaiting`, then as above), and starts over. Between any two of these steps the
timeout worker (`Scan`, `PushTimeouts`), the heartbeat receiver
(`ReportAvailability`, `RecoverHandler`, `PushRecovery`), the monitor (`Unregister`,
`ClearHandler`) and the registration (`Register`) take theirs. Each action is one
critical section of the code, or several of which only the router can see the middle.

A tracked job is its handler: a module, `NoHandler` (an empty `handler_id`: the job
waits) or `Untracked` (no entry). `inbox` holds the copies of jobs that modules may
still answer, however late.

Abstractions: time-outs may strike at any moment, since nothing relates the moments
of dispatch, scan and handling to each other; the events of one scan come in hash-table
order, that is, any; correlation ids are unique (they are generated so) and present;
a module id is registered once, since `_create_module_id` makes a fresh one. Requesters
are external: `RequestJob` stands for `request_event` in another process. Sending never
fails (`zmq_send_frames` drops messages to unknown identities silently; a job sent to
a module that is gone is one that is never answered, which the model has).

### EventPath

The same engine seen from the event side. `AskToJoin` and `SendReplies` are
`_registration_worker`, `RegisterModule` and `RegisterMonitor` the two critical sections in which
`_registration_egress_worker` enters a module into the tables and into the heartbeat manager,
`Heartbeat` is the update of the liveness counter, and the monitor goes round `Tick`,
`Unregister`, `ReadClock`, `SeeActive`, `SweepSnapshot`, then `KeepQueue` or `FindIdle` and
`EraseIdle` for each topic, and `SweepDone`. The two senders (`_enqueue_from_xsub` and
`inject_event`) look a queue up, put, and touch the topic, each under locks of its own; the egress
worker copies the map (`EgressSnapshot`) and empties queue by queue (`EgressGet`, `EgressPop`,
`EgressTouch`, `EgressNext`). A snapshot lists the topics in an order that the hash table fixes
and nobody chooses; `todo` and `sweep` therefore are a function on the topics still to be visited
and a set of topics, of which `First` is the next.

Queues are numbered in the order of their creation, so that a queue that was erased and
the next one of the same topic are told apart; `held` are the queues that the snapshots
of the egress worker and of the monitor own through their shared pointers.

Abstractions: of a time stamp only three values matter, `zero` (never set; the monitor
takes it for now), `old` (the TTL has run out at the monitor's last reading of the clock) and
`recent`. Stamps may grow old at any reading of the clock; with `Stalls` = FALSE only those
of topics that no sender is working on, that is, no sender stands still for a TTL of a
minute. A module that stops sends no more heartbeats; lost heartbeats are ones that are
never taken. Dead letters and the forwarding to subscribers' sockets are left out. A put into a
queue that has been freed is modelled by one of its outcomes, a lost event; `ProxyPointerValid` says
whether it can happen.

A queue is a sequence of events, pushed and popped in the steps that matter to each other. A put
under DROP_OLDEST is `Put`, or `FindFull` and `Discard` and then again; a pop is `EgressGet`,
which sees the oldest event (`popped`), and `EgressPop`, which takes it. If a sender has discarded
that event in between, the queue is in `raced`: the pop may get hold of a newer event of the same
slot, later pops may find nothing (`FindsNothing`), and no push into the queue has to return,
which is what finding 1 shows of `RingBuffer`. `EventsDrained` therefore leaves out events that
are `Wedged` in such a queue or on the way there, beside those that were dropped and those whose
queue was collected (`Stranded`). How the race comes about access by access is `RingBuffer`'s
subject.

### ShmQueue

One writer and one reader, the only use the header allows. A call refused before it
touches the segment (invalid queue, oversized message) is left out. Positions are naturals,
those of the code wrap at 2^32.

### ModuleClient

The owner goes through `Start`, `Registered` or `RegistrationFails`, `SetupJobs`, then `Stop`,
the three `Joins`, `WakePending` and `CloseSockets`. Whoever runs user code (an application
thread, or a receiver thread in a handler) may call `send_event` (`SendEvent`, `Publish`) or
`request_event` (`RequestEvent`, `InsertPending`, `SendRequest` or `SendThrows`, then `WaitReady`
or `WaitTimesOut`). A handler that requests keeps its receiver thread at `"handler"`, so that the
job receiver cannot take in the very response it waits for.

A send on the DEALER socket of heartbeats or jobs has no time-out: it waits while the engine does
not read. A thread in such a send is at `"send"`, between `HeartbeatDue` and `HeartbeatSent`, and
between `JobHandled` and `ResponseSent`; the send may also throw (`ResponseThrows`, `Interrupted`,
`SendThrows`), which the loops swallow. A response whose send threw is not sent again.
`TakenJobsAnswered` and `StopReturns` say what this leaves: a taken job is answered unless the
send of its response throws or the job receiver stays in a send for good, and `stop()` returns
unless a thread that it joins does.

Abstractions: correlation ids are distinct; a wait may run out at any moment; of a payload
only whether a response wrote it. An application thread that has passed the check of
`send_event` when `stop()` closes the socket ends at `"lost"`: it dereferences a null pointer.
The handler tables do not change after `start()`.

### EngineShell

`main` is the main thread, `stop_at` the signal handler on that thread: while it is at work,
`MainAt` keeps main where it is. The bridge's worker goes round `BeginPass`, `PollQueue`,
`ReadQueue`, `Forward`, `PollRaws`, `EndPass`, and holds `modules_lock` while it polls module
queues. `unload_module` is called by nobody in the repository; here a program
that embeds the engine calls it on a thread of its own. `forwarded` and `skipped` are history
variables that count what became of each message that was read for the first time. A crash is
`main = "crashed"`: a thread object destroyed while joinable, a worker that starts on a context that
is gone, or a worker that cannot bind its socket (`BindThrows`: no handler around the bind, so the
process ends; `bind_failed` remembers it).

A queue has `Capacity` slots, and `reads` counts what `read()` has returned. After one lap
(`Lapped`) there is always another old message to read, so that the bridge stays at that queue and
the others starve, and a module that writes once more spins in `write()` (`WriteSpins`) and does
not return. `RawForwarded` and `ShutdownCompletes` are stated up to these. What a worker does
between its bind and its end is elsewhere; in particular one that finding 1 wedges in a put is not
modelled here, and would keep `stop()` at its join.

### Gateway

The main thread starts the gateway (`StartBase`, queries with retries, `InitTd`, `WaitForLogin`,
`InitMd`, `LaunchDispatch`), waits for `g_shutdown`, and stops it (`Stop`, `JoinDispatch`,
`CleanupMd`, `CleanupTd`, `StopBase`). The vendor's thread runs the log-in callbacks and
`on_quote_received`; the dispatch thread collects batches, sends them, and drains the buffer.
`discarded`, `drain_lost` and `published` are history variables. That the front forgets the
subscriptions of a session when it ends is how the callback object uses the API: it asks
for everything again after each log-in.

`push_overwrite` runs on the vendor's thread beside the pop of the dispatch thread. Both are split
where they meet: `popping` says how far the pop is (nothing, an item seen, an item seen that was
discarded since), and `raced` that a discard and a pop have met. After that `QuotesAccounted`
keeps only what survives finding 1: nothing is handled twice or out of nowhere, and the drop
counter is not short of what was discarded; and `push_overwrite` need not return. `GatewayStops`
takes the return of the base class's `stop()` for granted, whose exception is in `StopReturns`.

A callback that is under way, or begins, while `cleanup_ctp` destroys its object is
undefined behaviour: it may go on or end the process (`CallbackCrashes`), and `overtaken`
remembers it.

### Codec and DeadLetters

A value is a type, a number for its content, and elements. `Pack` and `Unpack` keep of each C++
type what `pack_any` and `unpack_object` keep; integers have 2 bits for `int` and 3 for the 64-bit
types, so that the cast to `int` loses something. A map of the program is a function of its keys;
a map on the wire is a sequence of entries whose keys are of any type and may repeat, the later
one counting. `deserialize` skips entries of the message and of the payload whose key is not a
string; in a nested map `unpack_object` reads such a key as a string without looking (`Misread`).
This is undefined: either the key becomes some text of `Texts`, the same for all such keys of a
frame, or the program ends. `CodecExact` says that whatever `deserialize` returned goes through
further hops unchanged, and that a value arrives as its receiver should see it (`Arrival`) exactly
if it is `Kept`: all but types that `pack_any` does not know and integers too long for an `int`.
`Codec` is recursive over nested values and therefore outside the prover's reach; `CodecExact` is
checked over all scalars and over lists and maps of them, nested twice, and over frames with
missing, repeated and mistyped fields and keys.

`DeadLetterStore` needs nothing of this: a record is its writer and number, its file, the date
stamped on it, its topic, and the topics that its payload mentions to the filter (`PickFile` takes
them as a parameter, any set of topics). `persist` is `PickFile` (the date, for the file name),
`Stamp` (the clock again), `BeginAppend` and `EndAppend` (a record in two parts, since a long one
is more than a stream's buffer) under the lock. Nobody looks at the stream after the write:
`AppendFails` leaves the first part in the file, as a crash would, and the next record is glued to
it. A file is therefore a sequence of pieces, of which only whole ones end with a newline, and a
line is what is between two newlines. `replay` reads line after line and file after file without
the lock, while the files grow; it may see a part of a record, or several parts in front of a
whole one. `Escape` gives the text of a topic in JSON: the filter compares that with the topic as
it was given, and so does not find topics that JSON does not write as they are. `ReplayExact` says
what is true of all this. A filter with quotes in it that matches across two fields is left out.
`DeadLetters` puts the two together: in `WireSpec` the mentioned topics are those of the message
as it was deserialised and turned into JSON, so every behaviour of `WireSpec` is one of `Spec`
with two more variables.

## Runs

| Run | Instance | Shows |
|---|---|---|
| `ring_mpsc` | 2 producers with 3 puts each, 2 slots, DROP_NEWEST and BLOCK_PRODUCER; 68,584 states | type, no data race, FIFO, no loss, full only when full, `size()` bound, all puts complete, implements `BoundedQueue` with its fairness |
| `ring_overwrite` | 2 producers with 3 puts each, 2 slots, DROP_OLDEST, pop kept apart; 97,623 states | no data race, every put returns, implements `DroppingQueue` |
| `ring_wedge` | 1 producer, 2 slots, DROP_OLDEST, pop concurrent | **violation**: a put never returns |
| `router_safety` | 1 reporting module, 2 jobs; 829,776 states | type, tables consistent, at most one answer, recovery copies valid, implements `JobService` |
| `router_retry` | 2 modules, 1 job; 170,584 states | retry avoids timed-out handlers, every request answered unless handlers flap |
| `event_path` | 1 module, 1 topic, 2 events (proxy and bridge), queue of 1, liveness 2; 749,154 states | type, every module in the tables is monitored, stamps do not pile up, silent modules go, events are drained unless a discard met a pop, idle queues are collected |
| `event_pointer` | the same, `Stalls` = FALSE | **violation**: the proxy puts into a queue that is gone |
| `shm_lap` | 2 slots, 3 writes | **violation**: the reader gets a message twice |
| `module_client` | 1 application thread beside the receivers, 2 requests, 2 jobs (one without handler); 191,483 states | the sockets of handlers stay open, results are genuine, no forgotten entries, taken jobs are answered and `stop` returns as far as sends do |
| `engine_shell` | 2 modules (one that cannot be told to stop), 1 raw queue, 1 worker, 2 slots per queue, 1 signal; 351,331 states | modules outlive their users, what is read is forwarded, clean shutdown, shutdown completes, raw queues are served until a queue has gone around |
| `gateway` | 1 product with futures and options, buffer of 2, 3 quotes, 1 reconnection; 312,857 states | quotes accounted for, counted as sent means published, sessions subscribed, the gateway stops |
| `dead_letters` | 2 writers with a record each, 3 topics (one of which JSON escapes), 1 midnight; 1,050,541 states | the codec is exact on what it keeps, replay is exact |

Why the bounds are enough. Two slots and six items make three laps: every slot is reused, stale
positions of one and two laps occur, and both producers race at every access. The theorems below
remove the bounds of the safety properties: here, in the router, the event path, the module
client, the engine process, the gateway and the dead-letter store, of all but `CodecExact`. In the
router a job meets time-outs, retries, recoveries, expiry and late responses in any number and
order; `MaxScans` = 1 bounds only the queue of undrained scans, and with a scan in the router's
batch and one just found, up to three events of one job are under way. A second job is needed for
recovery batches and event order (`router_safety`), a second module for round-robin and retry
(`router_retry`).

In the event path one topic suffices because the steps of different topics do not
interact; it is created up to three times, so a queue, its successor and leftover
stamps meet. Liveness 2 is the least with which heartbeats keep a module alive. A queue
of one item makes the second event drop the first; the code's smallest capacity is two, with which
the same happens one event later.

In the module client two requests let a handler and an application thread wait at the
same time, and a response reach a request that has timed out. In the engine process one
worker stands for ten, which do not interact there; of the modules one obeys and one does
not, one has static topics and one needs them in the message. Two slots per queue are the fewest
that the code has, and enough for a lap, for old messages and for a module that spins. A buffer of
two ticks and three quotes make the buffer run over, with the dispatch thread making room, or being
overtaken in its pop, at every point. A bounded number of quotes stands for a front that pauses: one
that never does keeps the draining dispatch thread at work (see below).

In the dead-letter store two records are enough for one that is cut short and one glued to it; the
three topics are one that JSON writes as it is and two that it escapes, of which one is what the
other looks like in JSON: a filter for the former finds the latter.

`CHECK_DEADLOCK FALSE` stands where the system may stop: a module that was stopped, a process
that has ended, a store to which nobody writes any more.

Every property has a mutant, a small change of one action under which TLC finds the
property violated; mutants stand next to the definition they change and are marked as
such.

## Fairness

`RingBuffer`: threads keep running (weak fairness of each producer and of the consumer, whose
worker loop never ends), and a compare-exchange that is tried again and again with a matching
value eventually succeeds (strong fairness of `Claim`, which the weak compare-exchange of real
processors provides). `JobRouter`: every engine thread keeps running; a request that ZeroMQ holds
for the router is eventually received although other messages compete (fair queueing of a ROUTER
socket: strong fairness per request); an overdue job is found by some scan. `EventPath`: every
engine thread keeps running (none waits for anything but short locks), and time passes: a stamp
that is not renewed is eventually too old (strong fairness of the clock reading that finds it so).
Nothing is assumed of handlers, heartbeats and registrations: a handler may hang, a heartbeat may
stop. A push into a queue in which a discard has met a pop need not return (`Progress`).
`ModuleClient`: threads keep running, waits run out, and a handler makes finitely many calls
before it returns (strong fairness of its return). Nothing is assumed of the engine: it need not
answer, and it need not read, so that no send has to return. `EngineShell`: threads keep running,
a worker binds or throws, a thread that waits for a mutex which becomes free again and again gets
it (strong fairness of the handler and of the bridge's loop), and a module with a stop function
returns after it was called, unless it spins in `write()`; a module without one may run forever.
`Gateway`: its own threads keep running and waits end, but `push_overwrite` need not return after
a race; the front, the engine and the user do as they please.

## Findings

1. `ring_buffer.h:154` against `:117`. `push_overwrite` is said to be safe for a single
   producer. It is not with a concurrent `pop`, whose plain store can take `_read_pos`
   back behind a discard; then `pop` sees an empty queue and the producer spins for
   good. The engine's topic queues all use DROP_OLDEST, and the CTP gateway's option
   queue calls `push_overwrite` directly.
2. `shared_memory_queue.cpp:231`. The number that marks a slot free is one too high and
   reads as published: after one lap the reader takes old messages for new ones and the
   writer spins.
3. `engine.cpp:310`. The event proxy keeps a plain pointer to a queue, which the monitor may
   erase between the lookup and the put: it has found the queue idle just before the
   event came. The egress worker guards itself against this with a shared pointer, as its
   comment says.

Seen on the way, not stated as a run:

- Job router. `docs/spec/TycheEngine.md:152` promises a `run_timeout` error when all handlers
  are exhausted; `engine.cpp:766` puts the job back, and a heartbeat of the hung handler gets
  it dispatched there again, forever (hence the exception in `AnsweredUnlessFlapping`).
  `:148` promises that a job reaches an available handler; a handler that becomes free by its
  availability report (`engine.cpp:565`) wakes no waiting job.
- Event path. A queue that was created by a registration and never used keeps the stamp
  0.0 and is never collected (`IdleQueueCollected` leaves it out); the collector decides on
  the active topics before it erases, so a module that registers in between is without its
  queue until the next event of the topic creates one; `_egress_wakeup_flag` is set and
  never read; events of the shared-memory bridge are queued and drained but not sent to
  subscribers.
- Module client. `module.h:102` says that `request_event` returns the response payload or
  throws; a caller that `stop()` wakes gets an empty payload. An entry whose send threw stays
  until the next `stop()`. A response whose send throws is lost (`module.cpp:647`). No socket has a
  send time-out: if the engine stops reading, a thread that `stop()` joins may wait for good.
- Engine process. A signal before `_running` is set is lost although "Press Ctrl+C to stop." is
  already on the screen (`g_shutdown_requested` is read nowhere); one during `start_nonblocking`
  takes the context from workers that are still to start. If starting fails, loaded modules are
  destroyed with their threads joinable. A port that is taken ends the process from inside a
  worker thread (`engine.cpp:347`), without a word about which. On Windows the handler runs on its
  own thread and may still be in `stop()` when main destroys the engine.
- Bridge. `shared_memory_bridge.h:38` says that a raw bridge forwards all messages to a fixed
  topic; a message whose first bytes parse as a topic goes to that one. A module without a stop
  function makes `stop()` wait forever. Two modules of one queue name replace a running thread
  object. A producer that is never out of work keeps the worker at its queue, and so does, for
  good, a queue that has gone once around (finding 2): the other queues starve.
- Gateway. `option_dropped_count_` also counts when the dispatch thread has made room in
  between; `tick_stale_` is never reset; the comment at `ctp_gateway.cpp:496` says that the
  buffer is drained after CTP has stopped, yet the API is released only after that, so quotes
  that come later stay in the buffer; a log-in that is refused is not tried again in the session;
  several payload keys that the callback looks up differ from those that the conversion
  writes, so that these fields of option ticks are 0.
- Messages. `message.h:62` lists `int64_t` and `uint64_t` among what `pack_any` supports; the
  receiver casts every integer to `int`. In a nested map, `message.cpp:83` reads a key as a string
  whatever its type, while line 238 checks the keys of the payload.
- Dead letters. The write at `dead_letter_store.cpp:51` is not checked: after a full disk or a
  crash the next record continues a broken line. The filter at line 120 looks for the topic as it
  was given in lines that hold the escaped one (line 40), so topics with quotes, backslashes or
  control characters are never found. `any_to_json` writes null for a vector of strings; the topic
  filter also matches a key "topic" of the payload; a record stamped after midnight may be in the
  file of the day before.

## Proofs

`RingBufferProofs` proves, for every set of producers, capacity from 2 up and number of
puts, from the named assumptions on the constants in `RingBuffer`:

- `TypeCorrect`: `TypeOK` is invariant, under all strategies;
- for queues whose users keep pop apart from put if they overwrite
  (`"DROP_OLDEST" \in Strategies => Exclusive`; nothing is asked of the other two strategies):
  `RaceFree`, `InOrder`, `NoLoss` and `SizeBounded`, the invariants of `ring_mpsc` and
  `ring_overwrite`, and `DroppingRefinement`: the specification implies `DroppingQueue`'s;
- for queues that never overwrite (`"DROP_OLDEST" \notin Strategies`): `FullIsFull`, and
  `Refinement`: the specification implies `BoundedQueue`'s, fairness aside.

None of these invariants is inductive. The inductive invariant `IInv` says: the
positions from `Freed` (what was popped or discarded) to `write_pos` form a window no
longer than one lap (`WindowInv`); each position in it is either published, or held by
exactly one producer that has claimed it; each slot outside it carries the sequence
number of its next lap, or is that of a position which a producer has discarded and still
has to release (`WindowInv`, `ProducerInv`, `ConsumerInv`, `OverwriteInv`); each published
slot holds the item that the history gives its position (`DataInv`), and all that is behind
`_read_pos` was delivered in order or discarded (`HistoryInv`). Since the window is
no longer than a lap, different positions in it have different slots (`SlotInjective`,
`WindowSlots`): that is why a write never meets a read. A stale `pos` is harmless
because sequence numbers only grow: `pos` compares equal only when it is still the
next position to claim. A stale `rpos` is harmless because `_read_pos` only grows, so that the
compare-exchange succeeds only on the item that was seen published; this is what a concurrent
pop breaks, whose plain store takes `_read_pos` back (finding 1), and where `ApartInv` is used.
Several producers may have discarded and not yet released at once, in any order: the window then
ends short of a lap, and the slot in between is neither free nor taken. That is why
`FullOnlyWhenFull` is stated for the other strategies only.

Both refinements map the abstract queue to the window, `log` from `Freed` to `write_pos`, and what
was taken to the delivered items and, once pop has released its slot, the one it holds. `Claim`
accepts, `FullDropNewest` refuses, `Release` takes, and the compare-exchange of `Discard`, not the
release of the slot after it, drops the oldest; all else stutters. That `Claim` finds room in the
abstract queue is `RoomToClaim`; that `Release` takes the head, and that what it takes is intact,
is `DataInv`. A producer drops because it found no room a moment ago, and others may have made
some since: `DropOldest` asks for a queue that is not empty, and not for a full one.

`ModuleClientProofs` proves, for any application threads, jobs and bounds on requests,
starts and assignments, from `ClientAssumption`:

- `ClientTypeCorrect`: `TypeOK` is invariant;
- `HandlersKeepTheirSockets`: `HandlerSocketsOpen`;
- `ResultsAreGenuine`: `ResultsGenuine`;
- `PendingHasCaller`: `NoOrphans`.

None of these is inductive either. `IInv` adds what ties them to the rest of the client.
`LifeInv`: the owner's place in start() and stop() determines which threads can exist and which
sockets are open, since sockets open before the threads start and close after the joins.
`HandlerInv`: a receiver thread is in a call only while it runs a handler, so a join that returned
means that no call of that thread is in progress. `CallInv`: a correlation id belongs to one
caller, has no outcome while it does, and is unknown to the engine before the send, so no response
can precede the call's own entry. `RequestInv`: `ready` means a response or a wake-up by stop(),
and each outcome agrees with the flags; `AssignedInv` counts a job on the way, in hand, answered
and given up after a throwing send, which bounds the responses. Application threads are the
exception that `HandlerSocketsOpen` leaves out: nobody joins them.

`JobRouterProofs` proves, for any modules, topics, jobs and bounds, from the assumptions of
`JobRouter`:

- `RouterTypeCorrect`, `TablesAgree` (`PendingIsTracked`), `OneAnswer` (`AtMostOneAnswer`),
  `CopiesValid` (`RecoveryCopiesValid`), `TimedOutAvoided` (`NeverToTimedOut`);
- `JobsServed`: `JobRouter` implements `JobService`, with `issued` for what was asked and
  `inbox` for what was offered.

`IInv` joins these invariants to what ties them together. `RouterInv`: the router's program
point tells what it has in hand, since it keeps a job, the handler that failed it, and copies of
waiting jobs across the critical sections in which the other threads move. `HandInv`: what is in
hand is out of `_job_tracking`, so that neither a scan nor a recovery can produce the same job
again. `LifeInv`: a job is not yet requested, on its way, being routed, pending or answered, and
has no answer before the last; this is why a late response finds no pending entry and the second
answer cannot be given. `OfferInv`: what a module still holds is pending or answered, so that a
response is either the answer or too late. The refinement then maps each critical section to one
step of `JobService` (`RequestJob` asks, the dispatches offer, `ReceiveResponse` responds or
drops a late response, `RejectRequest` and `GiveUp` fail) and all others to stuttering; that a
dispatch never offers an answered job rests on `PendingIsTracked` and `HandInv`.

`EngineShellProofs` proves, for any modules, raw queues, workers, messages and signals, from
`NoneAssumption` and the other assumptions of `EngineShell`: `ShellTypeCorrect`,
`ModulesOutliveUsers` (`ModuleOutlivesItsUsers`), `NothingReadIsLost` (`ReadIsForwarded`) and
`ShutdownIsClean` (`CleanShutdown`). `IInv` needs `LockInv` (who holds `_modules_lock` is where
its program point says), `PollInv` (the bridge looks at module queues only under that lock, and
what it has in hand comes from the queue it polls), `ThreadInv` (a run function is at work only in
a loaded module), `LifeInv` (where main and the signal handler are tells which threads exist) and
`CleanInv` (as long as no signal cuts a start short and every socket was bound, `stop()` runs only
in the middle of `run()`, and each of its points leaves nothing of what the joins before it have
ended). `ReadIsForwarded` itself is part of `IInv`: that old messages come only after all
`Capacity` first reads keeps the account exact.

`GatewayProofs` proves, for any products, buffer and batch sizes, and numbers of quotes and
reconnections, from `GatewayAssumption`: `GatewayTypeCorrect`, `EveryQuoteAccounted`
(`QuotesAccounted`), `SentMeansPublished` (`SentIsPublished`) and `LoggedInIsSubscribed`
(`SessionSubscribed`). `IInv` adds `BatchInv` (a batch exists only between its first tick and its
send), `PopInv` (what a pop has seen is in the buffer until `push_overwrite` discards it),
`BalanceInv` and `DropInv` (`QuotesAccounted`, with the tick that a pop has in hand after it was
discarded: that is what keeps the account one-sided after a race), `MainInv` (the main thread's
place tells which threads and objects exist), `BaseInv` (while the module is stopped nobody is
left to send: otherwise a tick would be counted and not published), `CallbackInv` (a callback
under way has its objects, unless clean-up overtook it) and `SessionInv` (no session without an
API).

`EventPathProofs` proves, for any modules, topics, events and queue depth, from the assumptions of
`EventPath` (modules and events are finite in number):

- `NoModuleUnwatched` (`EveryModuleMonitored`), which needs `OneAtATime`: one registration is under
  way at a time and the monitor works its list off before it makes the next;
- `StampsDoNotGrow` (`StampsBounded`), which needs `StampInv`: a topic without a queue has at most
  the one stamp that a late touch has left behind, which the next creation of the queue takes
  along;
- `EventPathTypeCorrect` (`TypeOK`). Its one hard conjunct is the bound on `created`, the number
  of queues ever made. `CreatedBound` is the count behind it: a queue is made by an event that
  finds none or by an interface of a module that registers, so `created`, with what the
  registrations still waiting may add, is at most one per event sent and one per topic and module
  that asked to join;
- `EveryEventInOnePlace` (`Accounted`, `Once`): an event given to the engine is in a sender's
  hand, in a queue, taken, or dropped. It is never in two slots, nor in a hand or among the
  dropped and in a slot (`Distinct`, `Apart`); and as long as no sender has discarded what a pop
  was about to take, no event that was taken is in a queue or among the dropped (`TakenOnce`).
  After such a race an event may be both dropped and taken (finding 1). Queues are erased under
  their senders, so the queue may be one that nobody will empty (finding 3): the theorem says that
  the event is not duplicated by the queue's successor either.

`EInv`, which contains `IInv`, is inductive; `InHand` ties a sender's event to the queue it looked
up, `PopInv` the event that a pop has seen to the head of the queue it works on.

`DeadLetterProofs` proves, for any writers, topics, days and numbers of records, from
`StoreAssumption`:

- `ReplayIsExact` (`ReplayExact`): a finished replay holds what was on disk as a whole and asked
  for when it began, or as many lines as were asked for; each record once, in the order of the
  files, and parts only of records that were not on disk as a whole when it began;
- `FilesOnlyGrow`: no step removes or moves a record, or changes one that is whole or was given up;
- `FilesInOrder`: a record is in the file of the day on which it was persisted, once, and the one
  that a writer is at work on is the last of its file. Others may be incomplete too: those whose
  write failed.

`StoreInv` is about the writers: the lock gives `InHandLast`, and the count of calls tells the
records of one writer apart (`NoRepetition`). `ReplayInv` is about the reader, which has no lock.
`Complete`: what qualifies and was there at the beginning is among the results or still ahead, in
a file yet to come or further down in the current one. `ReadSoFar`: what is among the results is
behind. `ResultsRight`: each line is as it should be (`LineRight`), and so is each pair
(`InOrder`). None of these is disturbed by writers, because files only grow at their ends.

`ShmQueueProofs` proves, for any number of slots from 2 up, what is left of the queue's promise
with the wrong number of finding 2: `OneLapOnly` (`write` accepts at most as many messages as
there are slots, in the life of the queue) and `FirstLapIntact` (the first that many messages that
`read` returns are the accepted ones, intact and in order). `WriterInv` says why: a slot that was
handed back carries a number above every position the writer can still reach. The number of slots
is a hypothesis of the theorems.

Only model-checked, and why:

- liveness (`PutsComplete`, `PutReturns`, `AnsweredUnlessFlapping`, `TakenJobsAnswered`,
  `StopReturns`, `ShutdownCompletes`, `RawForwarded`, `GatewayStops`, `SilentModuleRemoved`,
  `EventsDrained`, `IdleQueueCollected`, and the fairness part of `ImplementsBoundedQueue`), which
  is outside the prover's reach;
- `CodecExact`: `Codec` is recursive, over nested values;
- the violation runs, which are counterexamples and need no proof.

## Not modelled

- The Python engine and the Python and Rust clients. They repeat the C++ design with other
  locks; a faithful model needs modules of its own.
- Black-Scholes pricing, static-data storage, configuration and command-line parsing, logging:
  sequential, numeric, or pure input and output.
- The byte level of msgpack and the flat message format; `serialize_tls` and `serialize_into`
  write the same fields as `serialize`.
- Admin queries other than DEAD_LETTERS: each copies a table under its lock.
- `ObjectPool` and `RcuSnapshot`: used by tests only. `QuoteValidator`: called by nobody.
- The headers under `modules/ctp_gateway_cpp/include/ctp` are two thirds of the implementation
  lines of the repository. They declare the vendor's API, which `Gateway` treats as external.

## Open

1. `PyJobs`: the Python engine's job handlers, whose time-outs and recoveries run on their
   own threads, and its backpressure.
2. An abstract `Callback` (one request, one outcome) that `JobRouter`, through `JobService`,
   and `ModuleClient` should implement together.
3. The ring buffer under a weak memory model: the relaxed loads of the position counters.
