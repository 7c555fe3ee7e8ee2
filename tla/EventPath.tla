------------------------------ MODULE EventPath ------------------------------
(***************************************************************************)
(* The C++ engine's module registry and its per-topic event queues         *)
(* (engine.cpp, sharded_topic_map.cpp, heartbeat_manager.cpp).             *)
(*                                                                         *)
(* Its threads share these tables and interleave at their lock boundaries: *)
(*   - _registration_worker and _registration_egress_worker;               *)
(*   - _heartbeat_receive_worker, which keeps modules alive;               *)
(*   - _monitor_worker, which unregisters silent modules and then collects *)
(*     the queues of topics that nobody uses;                              *)
(*   - _event_proxy_worker and the shared-memory bridge, which put events; *)
(*   - _event_egress_worker, which drains all queues.                      *)
(*                                                                         *)
(* Events of the proxy also go straight to the subscribers; that leaves no *)
(* trace in the engine and is left out.  What unregister_module does to    *)
(* jobs is in JobRouter.                                                   *)
(***************************************************************************)
EXTENDS Naturals, Sequences, FiniteSets

CONSTANTS
  Modules,     \* module ids; the engine makes a fresh one per registration
  TopicSeq,    \* the topics, in the order of their buckets
  Interfaces,  \* <<pattern, topic>> pairs a module declares
  Events,      \* the events that are sent, each once: numbers, in the order of a sender
  TopicOf,     \* the topic of an event
  SenderOf,    \* the thread that brings it in
  Liveness,    \* HEARTBEAT_LIVENESS_DEFAULT
  Depth,       \* _queue_capacity; RingBuffer makes it a power of two, which nothing here uses
  Stalls,      \* whether a sender may stand still for longer than the TTL
  NoQueue,     \* the topic has no entry in the map
  NoEvent      \* a sender between two events

Topics == {TopicSeq[i] : i \in DOMAIN TopicSeq}
Patterns == {"ON", "SEND", "HANDLE", "REQUEST"}

\* A queue is created at most once for an event and once for an interface.
Queues == 1..(Cardinality(Events) + Cardinality(Modules) * Cardinality(Topics))

ASSUME ConstantsAssumption ==
  /\ TopicSeq \in Seq(Topics)
  /\ \A i, j \in DOMAIN TopicSeq : TopicSeq[i] = TopicSeq[j] => i = j
  /\ Interfaces \in [Modules -> SUBSET (Patterns \X Topics)]
  /\ TopicOf \in [Events -> Topics]
  /\ SenderOf \in [Events -> {"proxy", "bridge"}]
  /\ Liveness \in Nat \ {0} /\ Depth \in Nat \ {0} /\ Stalls \in BOOLEAN
  /\ NoQueue \notin Nat /\ NoEvent \notin Events
  /\ Events \subseteq Nat /\ IsFiniteSet(Events) /\ IsFiniteSet(Modules)

Senders == {"proxy", "bridge"}

VARIABLES
  running,      \* modules whose process has not stopped
  asked,        \* modules that have sent their registration
  reg_in,       \* _reg_in_queue
  reg_out,      \* _reg_out_queue
  joined,       \* modules that have received their id
  modules,      \* _modules, and with it the subscriber and producer tables
  registering,  \* in the tables, not yet known to the heartbeat manager
  monitors,     \* HeartbeatManager::_monitors: liveness, 0 when there is none
  queues,       \* ShardedTopicQueueMap: the queue of each topic
  created,      \* how many queues were created
  contents,     \* the items of each queue, collected ones included
  stamps,       \* last_access_times: the entries of each topic, the first counts
  sent,         \* events handed to the engine
  hand,         \* per sender: program point, event and queue
  eat,          \* egress worker: program point
  todo,         \* egress worker: topics of its snapshot still to be drained, with their queues
  taken,        \* events the egress worker has taken
  popped,       \* the event that its pop has seen and is about to take
  raced,        \* queues of which a sender has discarded what a pop was about to take
  dropped,      \* events that were the oldest of a full queue
  held,         \* queues the egress worker's and the monitor's snapshots own
  mat,          \* monitor: program point
  expired,      \* monitor: modules to unregister
  active,       \* monitor: active_topics
  sweep         \* monitor: topics of its snapshot still to be looked at

joinVars == <<running, asked, reg_in, reg_out, joined>>
registryVars == <<modules, registering, monitors>>
queueVars == <<queues, created, contents, stamps, raced>>
senderVars == <<sent, hand, dropped>>
egressVars == <<eat, todo, taken, popped>>
monitorVars == <<mat, expired, active, sweep>>
vars == <<joinVars, registryVars, queueVars, senderVars, egressVars, monitorVars, held>>

Idle == [at |-> "idle", event |-> NoEvent, queue |-> NoQueue]

Init ==
  /\ running = Modules /\ asked = {} /\ reg_in = <<>> /\ reg_out = <<>> /\ joined = {}
  /\ modules = {} /\ registering = {} /\ monitors = [m \in Modules |-> 0]
  /\ queues = [t \in Topics |-> NoQueue] /\ created = 0
  /\ contents = [q \in Queues |-> <<>>]
  /\ stamps = [t \in Topics |-> <<>>]
  /\ sent = {} /\ hand = [s \in Senders |-> Idle]
  /\ eat = "get" /\ todo = [t \in {} |-> NoQueue] /\ taken = {} /\ dropped = {}
  /\ popped = NoEvent /\ raced = {}
  /\ mat = "tick" /\ expired = {} /\ active = {} /\ sweep = {}
  /\ held = [w \in {"egress", "monitor"} |-> {}]

\* Topics in _topic_subscribers or _topic_producers; a handler counts as neither.
ActiveTopics ==
  {t \in Topics : \E m \in modules, p \in Patterns \ {"HANDLE"} :
                     <<p, t>> \in Interfaces[m]}

-----------------------------------------------------------------------------
(* The map of queues.  Time is abstracted: a stamp is "zero" when it was    *)
(* never set, "old" when it is more than the TTL before the moment at which *)
(* the monitor last read the clock, and "recent" otherwise.                 *)

\* get_or_create, for the topics ts, one after the other.
GetOrCreate(ts) ==
  LET new == {t \in ts : queues[t] = NoQueue}
      Rank(t) == Cardinality({u \in new : \E i, j \in DOMAIN TopicSeq :
                                i <= j /\ TopicSeq[i] = u /\ TopicSeq[j] = t})
  IN /\ queues' = [t \in Topics |-> IF t \in new THEN created + Rank(t) ELSE queues[t]]
     /\ created' = created + Cardinality(new)
     /\ stamps' = [t \in Topics |-> IF t \in new THEN Append(stamps[t], "zero") ELSE stamps[t]]

\* touch sets the first entry, and adds one if there is none.
Touch(t) ==
  stamps' = [stamps EXCEPT ![t] = <<"recent">> \o (IF @ = <<>> THEN @ ELSE Tail(@))]

LastAccess(t) == IF stamps[t] = <<>> THEN "zero" ELSE Head(stamps[t])

\* Mutant of Erase: the stamps stay behind.
EraseQueueOnly(t) ==
  /\ queues' = [queues EXCEPT ![t] = NoQueue]
  /\ UNCHANGED stamps

\* erase removes the queue and every stamp of the topic.
Erase(t) ==
  /\ queues' = [queues EXCEPT ![t] = NoQueue]
  /\ stamps' = [stamps EXCEPT ![t] = <<>>]

\* The topics that have a queue.  The buckets are locked one after the other; a
\* step that falls between two of them is taken as before or after the snapshot,
\* for a thread touches one topic at a time.
Snapshot == {t \in Topics : queues[t] # NoQueue}

\* A snapshot is gone through bucket by bucket: t comes first of ts.
First(t, ts) ==
  t \in ts /\ \A i, j \in DOMAIN TopicSeq : TopicSeq[i] = t /\ TopicSeq[j] \in ts => i <= j

-----------------------------------------------------------------------------
(* Modules, their registration and their heartbeats                        *)

\* A module sends REGISTER; _registration_worker queues it.
AskToJoin(m) ==
  /\ m \in running \ asked
  /\ asked' = asked \cup {m}
  /\ reg_in' = Append(reg_in, m)
  /\ UNCHANGED <<running, reg_out, joined, registryVars, queueVars, senderVars,
                 egressVars, monitorVars, held>>

\* _registration_egress_worker takes a request, makes up an id and calls
\* register_module: the tables and the queues of all interfaces, under
\* _modules_lock ...  (Messages other than REGISTER are thrown away.)
RegisterModule ==
  /\ reg_in # <<>> /\ registering = {}
  /\ LET m == Head(reg_in) IN
       /\ modules' = modules \cup {m}
       /\ registering' = {m}
       /\ GetOrCreate({t \in Topics : \E p \in Patterns : <<p, t>> \in Interfaces[m]})
  /\ reg_in' = Tail(reg_in)
  /\ UNCHANGED <<running, asked, reg_out, joined, monitors, contents, raced, senderVars,
                 egressVars, monitorVars, held>>

MonitorFrom(m, grace) ==
  /\ m \in registering
  /\ monitors' = [monitors EXCEPT ![m] = grace]
  /\ registering' = {}
  /\ reg_out' = Append(reg_out, m)
  /\ UNCHANGED <<running, asked, reg_in, joined, modules, queueVars, senderVars,
                 egressVars, monitorVars, held>>

\* Mutant of RegisterMonitor: no monitor is made.
RegisterUnmonitored(m) == MonitorFrom(m, 0)

\* ... then the heartbeat manager, with twice the liveness; the reply is queued.
RegisterMonitor(m) == MonitorFrom(m, 2 * Liveness)

\* _registration_worker sends the queued replies.
SendReplies ==
  /\ reg_out # <<>>
  /\ joined' = joined \cup {reg_out[i] : i \in DOMAIN reg_out}
  /\ reg_out' = <<>>
  /\ UNCHANGED <<running, asked, reg_in, registryVars, queueVars, senderVars,
                 egressVars, monitorVars, held>>

RenewTo(m, liveness) ==
  /\ m \in running \cap joined
  /\ monitors[m] > 0
  /\ monitors' = [monitors EXCEPT ![m] = liveness]
  /\ UNCHANGED <<joinVars, modules, registering, queueVars, senderVars, egressVars,
                 monitorVars, held>>

\* Mutant of Heartbeat: heartbeats add up.
HeartbeatAddsUp(m) == RenewTo(m, monitors[m] + Liveness)

\* A heartbeat renews the monitor of its sender, if there still is one.
Heartbeat(m) == RenewTo(m, Liveness)

\* A module's process stops, and the last of its heartbeats has arrived.  One
\* that stops before it has asked to join is one that never asks.
Stop(m) ==
  /\ m \in running \cap asked
  /\ running' = running \ {m}
  /\ UNCHANGED <<asked, reg_in, reg_out, joined, registryVars, queueVars, senderVars,
                 egressVars, monitorVars, held>>

-----------------------------------------------------------------------------
(* The event proxy (_enqueue_from_xsub) and the bridge (inject_event_raw)  *)

\* Sender s looks the queue of event e up, or creates it.  The proxy keeps a
\* plain pointer to it, the bridge a shared one.
Lookup(s, e) ==
  /\ s = SenderOf[e] /\ hand[s] = Idle /\ e \notin sent
  /\ \A f \in Events : f < e /\ SenderOf[f] = s => f \in sent
  /\ sent' = sent \cup {e}
  /\ GetOrCreate({TopicOf[e]})
  /\ hand' = [hand EXCEPT ![s] = [at |-> "put", event |-> e, queue |-> queues'[TopicOf[e]]]]
  /\ UNCHANGED <<joinVars, registryVars, contents, raced, dropped, egressVars, monitorVars, held>>

\* RingBuffer::push_overwrite, in the steps that another thread can fall between.
\* There is room: the item goes in.  One put into a queue that is out of the map
\* is lost; if the queue has been freed as well, this is the outcome in which the
\* write hits memory that nobody uses.
Put(s) ==
  LET q == hand[s].queue IN
    /\ hand[s].at = "put" /\ Len(contents[q]) < Depth
    /\ contents' = [contents EXCEPT ![q] = Append(@, hand[s].event)]
    /\ hand' = [hand EXCEPT ![s].at = "touch"]
    /\ UNCHANGED <<joinVars, registryVars, queues, created, stamps, raced, sent, dropped,
                   egressVars, monitorVars, held>>

\* There is none: try_push fails ...
FindFull(s) ==
  /\ hand[s].at = "put" /\ Len(contents[hand[s].queue]) = Depth
  /\ hand' = [hand EXCEPT ![s].at = "full"]
  /\ UNCHANGED <<joinVars, registryVars, queueVars, sent, dropped, egressVars, monitorVars, held>>

\* ... the oldest item is discarded, even if there is room by now and even if the
\* pop of the egress worker has seen it and is about to take it, and the push is
\* tried again.
Discard(s) ==
  LET q == hand[s].queue
      oldest == {contents[q][i] : i \in {1} \cap DOMAIN contents[q]}
  IN /\ hand[s].at = "full"
     /\ contents' = [contents EXCEPT ![q] = IF @ = <<>> THEN @ ELSE Tail(@)]
     /\ dropped' = dropped \cup oldest
     /\ raced' = IF popped \in oldest THEN raced \cup {q} ELSE raced
     /\ hand' = [hand EXCEPT ![s].at = "put"]
     /\ UNCHANGED <<joinVars, registryVars, queues, created, stamps, sent, egressVars,
                    monitorVars, held>>

\* The topic is touched, whichever queue it has by now.
TouchAfterPut(s) ==
  /\ hand[s].at = "touch"
  /\ Touch(TopicOf[hand[s].event])
  /\ hand' = [hand EXCEPT ![s] = Idle]
  /\ UNCHANGED <<joinVars, registryVars, queues, created, contents, raced, sent, dropped,
                 egressVars, monitorVars, held>>

-----------------------------------------------------------------------------
(* _event_egress_worker                                                    *)

EgressFrom(ts) ==
  /\ eat = "get" /\ DOMAIN todo = {}
  /\ todo' = [t \in ts |-> queues[t]]
  /\ held' = [held EXCEPT !["egress"] = {queues[t] : t \in ts}]
  /\ UNCHANGED <<joinVars, registryVars, queueVars, senderVars, eat, taken, popped,
                 monitorVars>>

\* Mutant of EgressSnapshot: the last bucket is left out.
EgressSnapshotShort ==
  EgressFrom({t \in Snapshot : \E u \in Snapshot \ {t} : ~First(u, {t, u})})

\* The worker is done with a copy of the map, waits and takes another.
EgressSnapshot == EgressFrom(Snapshot)

\* RingBuffer::pop, in two steps: it sees the oldest item ...
EgressGet ==
  /\ eat = "get"
  /\ \E t \in DOMAIN todo : /\ First(t, DOMAIN todo) /\ contents[todo[t]] # <<>>
                           /\ popped' = Head(contents[todo[t]])
  /\ eat' = "pop"
  /\ UNCHANGED <<joinVars, registryVars, queueVars, senderVars, todo, taken, monitorVars, held>>

\* ... and takes it.  If a sender has discarded it in between, its slot may hold a
\* newer item by now, of which the pop then gets hold.  (An item that has waited
\* too long is written to a file, which changes nothing here.)
EgressPop ==
  /\ eat = "pop"
  /\ \E t \in DOMAIN todo : First(t, DOMAIN todo) /\
       LET q == todo[t]
           there == contents[q] # <<>> /\ Head(contents[q]) = popped
       IN /\ contents' = [contents EXCEPT ![q] = IF there THEN Tail(@) ELSE @]
          /\ \E e \in {popped} \cup {contents[q][i] : i \in DOMAIN contents[q]} :
               (there => e = popped) /\ taken' = taken \cup {e}
  /\ eat' = "touch" /\ popped' = NoEvent
  /\ UNCHANGED <<joinVars, registryVars, queues, created, stamps, raced, senderVars, todo,
                 monitorVars, held>>

\* The topic is touched after every item, even if its queue is gone by now.
EgressTouch ==
  /\ eat = "touch"
  /\ \E t \in DOMAIN todo : First(t, DOMAIN todo) /\ Touch(t)
  /\ eat' = "get"
  /\ UNCHANGED <<joinVars, registryVars, queues, created, contents, raced, senderVars, todo,
                 taken, popped, monitorVars, held>>

\* A pop finds nothing in an empty queue; nor may it in one that a sender is busy
\* with, where an item not yet published hides what is behind it; nor in one that
\* an earlier race has left with a slot that never becomes ready.
FindsNothing(q) ==
  \/ contents[q] = <<>>
  \/ \E s \in Senders : hand[s].queue = q
  \/ q \in raced

EgressSkip(t, stamp) ==
  /\ eat = "get" /\ First(t, DOMAIN todo) /\ FindsNothing(todo[t])
  /\ stamp
  /\ todo' = [u \in DOMAIN todo \ {t} |-> todo[u]]
  /\ UNCHANGED <<joinVars, registryVars, queues, created, contents, raced, senderVars, eat,
                 taken, popped, monitorVars, held>>

\* Mutant of EgressNext: an empty queue is touched too.
EgressNextTouches == \E t \in DOMAIN todo : EgressSkip(t, Touch(t))

\* Nothing is found: on to the next queue.
EgressNext == \E t \in DOMAIN todo : EgressSkip(t, UNCHANGED stamps)

-----------------------------------------------------------------------------
(* _monitor_worker                                                         *)

TickAll(report) ==
  /\ mat = "tick"
  /\ monitors' = [m \in Modules |-> IF monitors[m] > 0 THEN monitors[m] - 1 ELSE 0]
  /\ expired' = report
  /\ mat' = "expire"
  /\ UNCHANGED <<joinVars, modules, registering, queueVars, senderVars, egressVars,
                 active, sweep, held>>

\* Mutant of Tick: the removed monitors are not returned.
TickUnreported == TickAll({})

\* tick_all: every monitor is one beat older, the ones that run out are removed.
Tick == TickAll({m \in Modules : monitors[m] = 1})

\* unregister_module: first the tables, then the heartbeat manager, which has
\* nothing left to forget.
Unregister(m) ==
  /\ mat = "expire" /\ m \in expired
  /\ modules' = modules \ {m}
  /\ expired' = expired \ {m}
  /\ UNCHANGED <<joinVars, registering, monitors, queueVars, senderVars, egressVars,
                 mat, active, sweep, held>>

\* now = _now(): by this moment some stamps have outlived the TTL.  Without
\* Stalls, none that a sender is about to renew: what a sender has set out on
\* before the TTL ran out it has done by then.
ReadClock(aged) ==
  /\ mat = "expire" /\ expired = {}
  /\ \A t \in aged :
       /\ LastAccess(t) = "recent"
       /\ Stalls \/ \A s \in Senders : hand[s] # Idle => TopicOf[hand[s].event] # t
  /\ stamps' = [t \in Topics |-> IF t \in aged THEN <<"old">> \o Tail(stamps[t])
                                 ELSE stamps[t]]
  /\ mat' = "active"
  /\ UNCHANGED <<joinVars, registryVars, queues, created, contents, raced, senderVars,
                 egressVars, expired, active, sweep, held>>

\* The topics in use, under _modules_lock ...
SeeActive ==
  /\ mat = "active"
  /\ active' = ActiveTopics
  /\ mat' = "snapshot"
  /\ UNCHANGED <<joinVars, registryVars, queueVars, senderVars, egressVars,
                 expired, sweep, held>>

\* ... then the queues ...
SweepSnapshot ==
  /\ mat = "snapshot"
  /\ sweep' = Snapshot
  /\ held' = [held EXCEPT !["monitor"] = {queues[t] : t \in Topics} \ {NoQueue}]
  /\ mat' = "sweep"
  /\ UNCHANGED <<joinVars, registryVars, queueVars, senderVars, egressVars,
                 expired, active>>

\* ... of which the ones in use or not idle for long are kept ...
KeepQueue ==
  /\ mat = "sweep"
  /\ \E t \in sweep : /\ First(t, sweep) /\ (t \in active \/ LastAccess(t) # "old")
                      /\ sweep' = sweep \ {t}
  /\ UNCHANGED <<joinVars, registryVars, queueVars, senderVars, egressVars,
                 mat, expired, active, held>>

\* ... and the others found idle ...
FindIdle ==
  /\ mat = "sweep"
  /\ \E t \in sweep : First(t, sweep) /\ t \notin active /\ LastAccess(t) = "old"
  /\ mat' = "erase"
  /\ UNCHANGED <<joinVars, registryVars, queueVars, senderVars, egressVars,
                 expired, active, sweep, held>>

\* ... and erased, in a critical section of its own.
EraseIdle ==
  /\ mat = "erase"
  /\ \E t \in sweep : First(t, sweep) /\ Erase(t) /\ sweep' = sweep \ {t}
  /\ mat' = "sweep"
  /\ UNCHANGED <<joinVars, registryVars, created, contents, raced, senderVars, egressVars,
                 expired, active, held>>

\* The worker leaves the block and sleeps: its snapshots are gone.
SweepDone ==
  /\ mat = "sweep" /\ sweep = {}
  /\ mat' = "tick"
  /\ active' = {}
  /\ held' = [held EXCEPT !["monitor"] = {}]
  /\ UNCHANGED <<joinVars, registryVars, queueVars, senderVars, egressVars,
                 expired, sweep>>

-----------------------------------------------------------------------------
Registration ==
  \/ RegisterModule \/ SendReplies
  \/ \E m \in Modules : RegisterMonitor(m)

Sender(s) == Put(s) \/ FindFull(s) \/ Discard(s) \/ TouchAfterPut(s)

Egress == EgressSnapshot \/ EgressGet \/ EgressPop \/ EgressTouch \/ EgressNext

Monitor ==
  \/ Tick \/ SeeActive \/ SweepSnapshot \/ KeepQueue \/ FindIdle \/ EraseIdle \/ SweepDone
  \/ \E m \in Modules : Unregister(m)
  \/ \E aged \in SUBSET Topics : ReadClock(aged)

Environment ==
  \/ \E m \in Modules : AskToJoin(m) \/ Heartbeat(m) \/ Stop(m)
  \/ \E s \in Senders, e \in Events : Lookup(s, e)

Next ==
  \/ Registration \/ Egress \/ Monitor \/ Environment
  \/ \E s \in Senders : Sender(s)

\* Time passes: a stamp that is not renewed outlives the TTL.
TimePasses(t) == \E aged \in SUBSET Topics : t \in aged /\ ReadClock(aged)

\* A push into a queue that was raced for may never come to an end.
Progress(s) == Sender(s) /\ (hand[s].at = "touch" \/ hand[s].queue \notin raced)

Fairness ==
  /\ WF_vars(Registration) /\ WF_vars(Egress) /\ WF_vars(Monitor)
  /\ \A s \in Senders : WF_vars(Progress(s))
  /\ \A t \in Topics : SF_vars(TimePasses(t))

Spec == Init /\ [][Next]_vars /\ Fairness

-----------------------------------------------------------------------------
(* Properties                                                              *)

\* The type of the variables.
TypeOK ==
  /\ running \subseteq Modules /\ asked \subseteq Modules /\ joined \subseteq Modules
  /\ reg_in \in Seq(Modules) /\ reg_out \in Seq(Modules)
  /\ modules \subseteq Modules /\ registering \subseteq Modules
  /\ monitors \in [Modules -> 0..(2 * Liveness)]
  /\ queues \in [Topics -> Queues \cup {NoQueue}] /\ created \in 0..Cardinality(Queues)
  /\ contents \in [Queues -> Seq(Events)] /\ \A q \in Queues : Len(contents[q]) <= Depth
  /\ stamps \in [Topics -> Seq({"zero", "recent", "old"})]
  /\ sent \subseteq Events /\ taken \subseteq sent /\ dropped \subseteq sent
  /\ hand \in [Senders -> [at : {"idle", "put", "full", "touch"}, event : Events \cup {NoEvent},
                           queue : Queues \cup {NoQueue}]]
  /\ eat \in {"get", "pop", "touch"} /\ popped \in Events \cup {NoEvent} /\ raced \subseteq Queues
  /\ DOMAIN todo \subseteq Topics /\ todo \in [DOMAIN todo -> Queues]
  /\ mat \in {"tick", "expire", "active", "snapshot", "sweep", "erase"}
  /\ expired \subseteq Modules /\ active \subseteq Topics /\ sweep \subseteq Topics
  /\ held \in [{"egress", "monitor"} -> SUBSET Queues]

\* A module in the tables has a monitor, or is about to get one from
\* register_module, or is on the monitor's list: the tables and the heartbeat
\* manager are two structures with a lock each, and a module known to the first
\* only would stay there for good (engine.cpp, register_module and tick_all).
EveryModuleMonitored ==
  \A m \in modules : monitors[m] > 0 \/ m \in registering \/ m \in expired

\* A topic has at most two stamps, one of them if a touch came after its queue
\* was erased, and a queue is never without: a bucket's stamps do not grow with
\* the number of times a topic comes and goes (sharded_topic_map.cpp).
StampsBounded ==
  \A t \in Topics : Len(stamps[t]) <= 2 /\ (queues[t] # NoQueue => stamps[t] # <<>>)

\* A module that has stopped leaves the tables, even if it stopped between its
\* request and the reply (engine.cpp, _monitor_worker).
SilentModuleRemoved == \A m \in Modules : []<>(m \in running \/ m \notin modules)

\* An event that reached a queue nobody drains any more.
Stranded(e) ==
  \E q \in Queues :
     /\ \E i \in DOMAIN contents[q] : contents[q][i] = e
     /\ \A t \in Topics : queues[t] # q
     /\ \A t \in DOMAIN todo : todo[t] # q

\* An event that is in a queue that was raced for, or on its way there.
Wedged(e) ==
  \E q \in raced :
     \/ \E i \in DOMAIN contents[q] : contents[q][i] = e
     \/ \E s \in Senders : hand[s].event = e /\ hand[s].queue = q

\* Every event given to the engine is taken by the egress worker, with three
\* exceptions: it was dropped from a full queue, its queue was collected on its
\* way, or a sender has discarded from its queue what the worker's pop was about
\* to take, after which the ring buffer may be stuck.  Otherwise there is always a
\* later moment at which no event waits (engine.cpp, _event_egress_worker against
\* the senders, _monitor_worker and register_module).
EventsDrained ==
  []<>(\A e \in sent : e \in taken \cup dropped \/ Stranded(e) \/ Wedged(e))

\* The collector works: a queue that was used once does not stay for good when
\* its topic has neither subscriber nor producer.  (One that was never used
\* keeps the stamp 0.0, which the monitor reads as now, and does stay.)
IdleQueueCollected ==
  \A t \in Topics :
     []<>(t \in ActiveTopics \/ queues[t] = NoQueue \/ LastAccess(t) = "zero")

\* The queue that the event proxy is about to write to exists: it is in the map
\* or some thread's shared pointer keeps it.
ProxyPointerValid ==
  hand["proxy"].at \in {"put", "full"} =>
    LET q == hand["proxy"].queue IN
      \/ \E t \in Topics : queues[t] = q
      \/ \E w \in DOMAIN held : q \in held[w]
      \/ hand["bridge"].at # "idle" /\ hand["bridge"].queue = q
=============================================================================
