----------------------------- MODULE EngineShell -----------------------------
(***************************************************************************)
(* The engine process (main.cpp): configuration of the shared-memory       *)
(* bridge, start_nonblocking, run, the signal handler that calls stop(),   *)
(* and the destructors; and the bridge itself (shared_memory_bridge.cpp)   *)
(* with the modules it loads from libraries.                               *)
(*                                                                         *)
(* The handler of a POSIX signal runs on the main thread, so that main     *)
(* stands still while the handler is in stop().  What the engine's worker  *)
(* threads do is in the other modules; here they bind their sockets and    *)
(* run until _running is false.                                            *)
(*                                                                         *)
(* A shared-memory queue does here what ShmQueueProofs shows of its slots. *)
(* It takes in at most Capacity messages in its life.  read() returns them *)
(* in order; when it has returned Capacity messages it returns the old     *)
(* ones again and again, and a writer that comes back spins.               *)
(***************************************************************************)
EXTENDS Naturals

CONSTANTS
  Modules,       \* shm_modules of the configuration, by queue name
  Raws,          \* shm_bridges of the configuration, by queue name
  Static,        \* modules configured with zmq_topics
  Unstoppable,   \* modules that do not export a stop function
  Workers,       \* the engine's worker threads
  Capacity,      \* slots of a shared-memory queue
  Used,          \* bound: the queues that messages are written to
  MaxSignals,    \* bound: signals delivered to the process
  None

ASSUME ShellAssumption ==
  /\ Static \subseteq Modules /\ Unstoppable \subseteq Modules
  /\ Modules \cap Raws = {} /\ None \notin Modules \cup Raws
  /\ Used \subseteq Modules \cup Raws
  /\ Capacity \in Nat \ {0, 1} /\ MaxSignals \in Nat

Queues == Modules \cup Raws
StopPoints == {"bridge", "stop_modules", "join_bridge", "join_modules", "workers"}
LockHolders == {"stop", "bridge", "unload"}

ASSUME NoneAssumption == None \notin StopPoints \cup LockHolders

VARIABLES
  \* main.cpp and TycheEngine
  main,            \* where the main thread is
  g_engine,        \* whether g_engine points to the engine
  running,         \* TycheEngine::_running
  zmq_ctx,         \* whether _zmq_ctx exists
  unlaunched,      \* workers start_nonblocking has yet to launch
  worker,          \* the thread of a worker
  stop_at,         \* where the signal handler is in TycheEngine::stop
  signals,         \* signals delivered so far
  start_cut,       \* a signal found start_nonblocking at work, or that threw
  bind_failed,     \* a worker could not bind its socket
  \* SharedMemoryBridge
  bridge_running,  \* SharedMemoryBridge::_running
  engine,          \* whether _engine is set
  bridge,          \* where the bridge's worker thread is
  to_poll,         \* queues it has yet to look at in this pass
  polled,          \* the queue it empties
  in_hand,         \* whether it has read a message and not yet forwarded it
  modules_lock,    \* who holds _modules_lock
  unconfigured,    \* modules load_module has not been called for
  modules,         \* _modules
  thread,          \* the thread in a module's run function
  told,            \* modules whose stop function was called
  unloading,       \* the module that unload_module waits for
  \* messages
  written,         \* messages that write() took in
  reads,           \* messages that read() returned; Lapped(q) if old ones again
  forwarded,       \* messages handed to inject_event_raw, each counted once
  skipped          \* messages read and dropped for want of a topic, counted once

mainVars == <<main, g_engine, start_cut, bind_failed>>
engineVars == <<running, zmq_ctx, unlaunched, worker, stop_at, signals>>
pollVars == <<bridge, to_poll, polled, in_hand>>
moduleVars == <<unconfigured, modules, thread, told, unloading>>
messageVars == <<written, reads, forwarded, skipped>>
vars == <<mainVars, engineVars, bridge_running, engine, pollVars, modules_lock, moduleVars,
          messageVars>>

Init ==
  /\ main = "configure" /\ g_engine = FALSE /\ start_cut = FALSE /\ bind_failed = FALSE
  /\ running = FALSE /\ zmq_ctx = FALSE
  /\ unlaunched = Workers /\ worker = [w \in Workers |-> "none"]
  /\ stop_at = None /\ signals = 0
  /\ bridge_running = FALSE /\ engine = FALSE
  /\ bridge = "none" /\ to_poll = {} /\ polled = None /\ in_hand = FALSE
  /\ modules_lock = None
  /\ unconfigured = Modules /\ modules = {} /\ told = {} /\ unloading = None
  /\ thread = [m \in Modules |-> "none"]
  /\ written = [q \in Queues |-> 0] /\ reads = [q \in Queues |-> 0]
  /\ forwarded = [q \in Queues |-> 0] /\ skipped = [q \in Queues |-> 0]

-----------------------------------------------------------------------------
(* Configuration and start, on the main thread                             *)

Alive == main \notin {"exited", "crashed"}
MainAt(here) == main = here /\ stop_at = None

\* load_module, called by configure.  A library that does not load or lacks
\* init or run, a queue that cannot be created, and an init that returns an
\* error leave nothing behind.
LoadModule(m, loads) ==
  /\ MainAt("configure") /\ m \in unconfigured
  /\ unconfigured' = unconfigured \ {m}
  /\ IF loads
       THEN /\ modules_lock = None
            /\ modules' = modules \cup {m}
            /\ thread' = [thread EXCEPT ![m] = "run"]
       ELSE UNCHANGED <<modules, thread>>
  /\ UNCHANGED <<mainVars, engineVars, bridge_running, engine, pollVars, modules_lock, told,
                 unloading, messageVars>>

SetGlobalEngine ==
  /\ MainAt("configure") /\ unconfigured = {}
  /\ g_engine' = TRUE
  /\ main' = "start"
  /\ UNCHANGED <<start_cut, bind_failed, engineVars, bridge_running, engine, pollVars,
                 modules_lock, moduleVars, messageVars>>

StartNonblocking ==
  /\ MainAt("start")
  /\ zmq_ctx' = TRUE /\ running' = TRUE
  /\ main' = "launch"
  /\ UNCHANGED <<g_engine, start_cut, bind_failed, unlaunched, worker, stop_at, signals,
                 bridge_running, engine, pollVars, modules_lock, moduleVars, messageVars>>

\* The context cannot be created: the exception leaves run(), and the engine
\* that was never started is destroyed.
StartThrows ==
  /\ MainAt("start")
  /\ main' = "destroy" /\ start_cut' = TRUE
  /\ UNCHANGED <<g_engine, bind_failed, engineVars, bridge_running, engine, pollVars, modules_lock,
                 moduleVars, messageVars>>

LaunchWorker(w) ==
  /\ MainAt("launch") /\ w \in unlaunched
  /\ unlaunched' = unlaunched \ {w}
  /\ worker' = [worker EXCEPT ![w] = "bind"]
  /\ UNCHANGED <<mainVars, running, zmq_ctx, stop_at, signals, bridge_running, engine, pollVars,
                 modules_lock, moduleVars, messageVars>>

\* A worker begins with _zmq_ctx->ctx, which a stop() in the middle of the start
\* has taken away.
Bind(w) ==
  /\ worker[w] = "bind"
  /\ IF zmq_ctx
       THEN /\ worker' = [worker EXCEPT ![w] = "loop"]
            /\ UNCHANGED main
       ELSE /\ main' = "crashed"
            /\ UNCHANGED worker
  /\ UNCHANGED <<g_engine, start_cut, bind_failed, running, zmq_ctx, unlaunched, stop_at, signals,
                 bridge_running, engine, pollVars, modules_lock, moduleVars, messageVars>>

\* The address is in use: seven of the ten workers bind before any try block, so
\* that the exception leaves the thread and ends the process.
BindThrows(w) ==
  /\ worker[w] = "bind" /\ zmq_ctx
  /\ main' = "crashed" /\ bind_failed' = TRUE
  /\ UNCHANGED <<g_engine, start_cut, engineVars, bridge_running, engine, pollVars, modules_lock,
                 moduleVars, messageVars>>

StartBridge ==
  /\ MainAt("launch") /\ unlaunched = {}
  /\ engine' = TRUE /\ bridge_running' = TRUE
  /\ bridge' = "top"
  /\ main' = "run"
  /\ UNCHANGED <<g_engine, start_cut, bind_failed, engineVars, to_poll, polled, in_hand,
                 modules_lock, moduleVars, messageVars>>

\* run() looks at _running every 100 ms.
RunReturns ==
  /\ MainAt("run") /\ ~running
  /\ g_engine' = FALSE
  /\ main' = "destroy"
  /\ UNCHANGED <<start_cut, bind_failed, engineVars, bridge_running, engine, pollVars,
                 modules_lock, moduleVars, messageVars>>

\* ~TycheEngine.  _running is false by now.  _threads goes first, then the
\* bridge, which stops if it runs; a thread that nobody joined ends the process.
DestroyEngine ==
  /\ MainAt("destroy")
  /\ IF bridge_running /\ \A w \in Workers : worker[w] = "none"
       THEN /\ stop_at' = "bridge"
            /\ UNCHANGED main
       ELSE /\ main' = IF /\ \A w \in Workers : worker[w] = "none"
                         /\ bridge = "none" /\ modules = {}
                       THEN "exited" ELSE "crashed"
            /\ UNCHANGED stop_at
  /\ UNCHANGED <<g_engine, start_cut, bind_failed, running, zmq_ctx, unlaunched, worker, signals,
                 bridge_running, engine, pollVars, modules_lock, moduleVars, messageVars>>

-----------------------------------------------------------------------------
(* The signal handler                                                      *)

\* g_shutdown_requested is set and read nowhere, so that a signal before
\* _running is set has no effect.
SignalIgnored ==
  /\ signals < MaxSignals
  /\ ~(g_engine /\ running)
  /\ signals' = signals + 1
  /\ UNCHANGED <<mainVars, running, zmq_ctx, unlaunched, worker, stop_at, bridge_running, engine,
                 pollVars, modules_lock, moduleVars, messageVars>>

SignalStops ==
  /\ signals < MaxSignals
  /\ g_engine /\ running
  /\ signals' = signals + 1
  /\ running' = FALSE
  /\ stop_at' = "bridge"
  /\ start_cut' = (start_cut \/ main = "launch")
  /\ UNCHANGED <<main, g_engine, bind_failed, zmq_ctx, unlaunched, worker, bridge_running, engine,
                 pollVars, modules_lock, moduleVars, messageVars>>

\* SharedMemoryBridge::stop returns at once if the bridge does not run.
StopBridge ==
  /\ stop_at = "bridge"
  /\ bridge_running' = FALSE
  /\ stop_at' = IF bridge_running THEN "stop_modules" ELSE "workers"
  /\ UNCHANGED <<mainVars, running, zmq_ctx, unlaunched, worker, signals, engine, pollVars,
                 modules_lock, moduleVars, messageVars>>

\* Mutant of StopModules: the stop functions are not called.
StopModulesSilently ==
  /\ stop_at = "stop_modules" /\ modules_lock = None
  /\ stop_at' = "join_bridge"
  /\ UNCHANGED <<mainVars, running, zmq_ctx, unlaunched, worker, signals, bridge_running, engine,
                 pollVars, modules_lock, moduleVars, messageVars>>

StopModules ==
  /\ stop_at = "stop_modules" /\ modules_lock = None
  /\ told' = told \cup (modules \ Unstoppable)
  /\ stop_at' = "join_bridge"
  /\ UNCHANGED <<mainVars, running, zmq_ctx, unlaunched, worker, signals, bridge_running, engine,
                 pollVars, modules_lock, unconfigured, modules, thread, unloading, messageVars>>

JoinBridge ==
  /\ stop_at = "join_bridge"
  /\ bridge \in {"none", "ended"}
  /\ bridge' = "none"
  /\ stop_at' = "join_modules"
  /\ UNCHANGED <<mainVars, running, zmq_ctx, unlaunched, worker, signals, bridge_running, engine,
                 to_poll, polled, in_hand, modules_lock, moduleVars, messageVars>>

\* A LoadedModule is destroyed: its library is closed and its queue unmapped.
Drop(gone) ==
  /\ modules' = modules \ gone
  /\ thread' = [m \in Modules |->
                  IF m \in gone /\ thread[m] = "returned" THEN "none" ELSE thread[m]]

\* The threads of all modules are joined and the modules cleared under the lock.
JoinModules ==
  /\ stop_at = "join_modules"
  /\ \/ /\ modules_lock = None
        /\ modules_lock' = "stop"
        /\ UNCHANGED <<modules, thread, engine, stop_at>>
     \/ /\ modules_lock = "stop"
        /\ \A m \in modules : thread[m] = "returned"
        /\ Drop(modules)
        /\ modules_lock' = None
        /\ engine' = FALSE
        /\ stop_at' = "workers"
  /\ UNCHANGED <<mainVars, running, zmq_ctx, unlaunched, worker, signals, bridge_running, pollVars,
                 unconfigured, told, unloading, messageVars>>

StopWorkers(may_reset) ==
  /\ stop_at = "workers"
  /\ may_reset
  /\ worker' = [w \in Workers |-> IF worker[w] = "ended" THEN "none" ELSE worker[w]]
  /\ zmq_ctx' = FALSE
  /\ stop_at' = None
  /\ UNCHANGED <<mainVars, running, unlaunched, signals, bridge_running, engine, pollVars,
                 modules_lock, moduleVars, messageVars>>

\* Mutant of JoinWorkers: the context is reset without waiting for the workers.
JoinWorkersNot == StopWorkers(TRUE)

\* Join every worker, clear the list, reset the context.
JoinWorkers == StopWorkers(\A w \in Workers : worker[w] \in {"none", "ended"})

\* A worker waits for at most its poll interval before it looks at _running; an
\* error of its socket may end its loop before (the event proxy, for one).
WorkerEnds(w) ==
  /\ worker[w] = "loop"
  /\ worker' = [worker EXCEPT ![w] = "ended"]
  /\ UNCHANGED <<mainVars, running, zmq_ctx, unlaunched, stop_at, signals, bridge_running, engine,
                 pollVars, modules_lock, moduleVars, messageVars>>

-----------------------------------------------------------------------------
(* The bridge's worker loop                                                *)

\* The loop condition, then the lock.
BeginPass ==
  /\ \/ /\ bridge = "top"
        /\ bridge' = IF bridge_running THEN "lock" ELSE "ended"
        /\ UNCHANGED <<modules_lock, to_poll>>
     \/ /\ bridge = "lock" /\ modules_lock = None
        /\ modules_lock' = "bridge"
        /\ bridge' = "modules"
        /\ to_poll' = modules
  /\ UNCHANGED <<mainVars, engineVars, bridge_running, engine, polled, in_hand, moduleVars,
                 messageVars>>

PollQueue(q) ==
  /\ q \in to_poll /\ polled = None
  /\ to_poll' = to_poll \ {q}
  /\ polled' = q
  /\ UNCHANGED <<mainVars, engineVars, bridge_running, engine, bridge, in_hand, modules_lock,
                 moduleVars, messageVars>>

\* read() has returned every message there will be, and returns the old ones.
Lapped(q) == reads[q] > Capacity

\* After the first lap every slot looks published.  Laps are counted modulo one.
Available(q) == reads[q] < written[q] \/ reads[q] >= Capacity
NextRead(n) == IF n = 2 * Capacity THEN Capacity + 1 ELSE n + 1

\* Read until the queue is empty or the bridge is stopped.
ReadQueue ==
  /\ polled # None /\ ~in_hand
  /\ IF bridge_running /\ Available(polled)
       THEN /\ in_hand' = TRUE
            /\ reads' = [reads EXCEPT ![polled] = NextRead(@)]
            /\ UNCHANGED polled
       ELSE /\ polled' = None
            /\ UNCHANGED <<reads, in_hand>>
  /\ UNCHANGED <<mainVars, engineVars, bridge_running, engine, bridge, to_poll, modules_lock,
                 moduleVars, written, forwarded, skipped>>

\* A module without zmq_topics needs a topic in the message, which _parse_topic
\* may or may not find; a raw bridge falls back on its configured topic; static
\* topics ignore what the message says.
HasTopic(q, parsed) == q \in Static \/ q \in Raws \/ parsed

\* _forward_to_zmq injects nothing once _engine is null.
Forward(parsed) ==
  /\ in_hand
  /\ IF HasTopic(polled, parsed)
       THEN /\ forwarded' = [forwarded EXCEPT ![polled] =
                                IF engine /\ ~Lapped(polled) THEN @ + 1 ELSE @]
            /\ UNCHANGED skipped
       ELSE /\ skipped' = [skipped EXCEPT ![polled] = IF Lapped(polled) THEN @ ELSE @ + 1]
            /\ UNCHANGED forwarded
  /\ in_hand' = FALSE
  /\ UNCHANGED <<mainVars, engineVars, bridge_running, engine, bridge, to_poll, polled,
                 modules_lock, moduleVars, written, reads>>

PollRaws(lock_left) ==
  /\ bridge = "modules" /\ to_poll = {} /\ polled = None
  /\ modules_lock' = lock_left
  /\ bridge' = "raws"
  /\ to_poll' = Raws
  /\ UNCHANGED <<mainVars, engineVars, bridge_running, engine, polled, in_hand, moduleVars,
                 messageVars>>

EndPass ==
  /\ bridge = "raws" /\ to_poll = {} /\ polled = None
  /\ bridge' = "top"
  /\ UNCHANGED <<mainVars, engineVars, bridge_running, engine, to_poll, polled, in_hand,
                 modules_lock, moduleVars, messageVars>>

-----------------------------------------------------------------------------
(* unload_module, on a thread of a program that embeds the engine          *)

UnloadModule(m) ==
  /\ main \in {"configure", "start", "launch", "run"}
  /\ modules_lock = None /\ m \in modules
  /\ modules_lock' = "unload"
  /\ told' = told \cup ({m} \ Unstoppable)
  /\ unloading' = m
  /\ UNCHANGED <<mainVars, engineVars, bridge_running, engine, pollVars, unconfigured, modules,
                 thread, messageVars>>

UnloadDoneIf(ended) ==
  /\ unloading # None
  /\ ended
  /\ Drop({unloading})
  /\ modules_lock' = None /\ unloading' = None
  /\ UNCHANGED <<mainVars, engineVars, bridge_running, engine, pollVars, unconfigured, told,
                 messageVars>>

\* Mutant of UnloadDone: the module's thread is not joined.
UnloadDoneDetached == UnloadDoneIf(TRUE)

\* The lock is held from the stop function to the end of the join.
UnloadDone == UnloadDoneIf(thread[unloading] = "returned")

-----------------------------------------------------------------------------
(* The modules' own code, and the processes that write to raw queues       *)

\* write() takes a message in until every slot has been used once; after that it
\* returns false, which changes nothing, or spins.
Write(q) ==
  /\ q \in Used /\ q \in Raws \cup {m \in modules : thread[m] = "run"}
  /\ written[q] < Capacity
  /\ written' = [written EXCEPT ![q] = @ + 1]
  /\ UNCHANGED <<mainVars, engineVars, bridge_running, engine, pollVars, modules_lock, moduleVars,
                 reads, forwarded, skipped>>

\* The next slot was read once: its number is past the writer's position, and
\* write() tries again for good.
WriteSpins(m) ==
  /\ m \in Used /\ thread[m] = "run"
  /\ written[m] = Capacity /\ reads[m] > 0
  /\ thread' = [thread EXCEPT ![m] = "spin"]
  /\ UNCHANGED <<mainVars, engineVars, bridge_running, engine, pollVars, modules_lock,
                 unconfigured, modules, told, unloading, messageVars>>

\* run returns when the module was told to stop, or by itself.
ModuleReturns(m) ==
  /\ thread[m] = "run"
  /\ thread' = [thread EXCEPT ![m] = "returned"]
  /\ UNCHANGED <<mainVars, engineVars, bridge_running, engine, pollVars, modules_lock,
                 unconfigured, modules, told, unloading, messageVars>>

ModuleObeys(m) == m \in told /\ ModuleReturns(m)

\* Mutant of BridgeLoop: the lock is kept while the raw queues are polled.
BridgeLoopKeepsLock ==
  \/ BeginPass \/ ReadQueue \/ EndPass
  \/ \E parsed \in BOOLEAN : Forward(parsed)
  \/ \E q \in Queues : PollQueue(q)
  \/ PollRaws("bridge")

BridgeLoop ==
  \/ BeginPass \/ ReadQueue \/ EndPass
  \/ \E parsed \in BOOLEAN : Forward(parsed)
  \/ \E q \in Queues : PollQueue(q)
  \/ PollRaws(None)

Main ==
  \/ SetGlobalEngine \/ StartNonblocking \/ StartBridge \/ RunReturns \/ DestroyEngine
  \/ \E m \in Modules, loads \in BOOLEAN : LoadModule(m, loads)
  \/ \E w \in Workers : LaunchWorker(w)

\* Mutant of Handler: _engine is cleared before the bridge's thread is joined.
HandlerForgetsEngine ==
  \/ StopBridge \/ StopModules \/ JoinModules \/ JoinWorkers
  \/ JoinBridge
  \/ /\ stop_at = "join_bridge" /\ engine
     /\ engine' = FALSE
     /\ UNCHANGED <<mainVars, engineVars, bridge_running, pollVars, modules_lock, moduleVars,
                    messageVars>>

Handler == StopBridge \/ StopModules \/ JoinBridge \/ JoinModules \/ JoinWorkers

\* Nothing happens in a process that has ended.
Next ==
  /\ Alive
  /\ \/ Main \/ StartThrows
     \/ SignalIgnored \/ SignalStops \/ Handler
     \/ \E w \in Workers : Bind(w) \/ BindThrows(w) \/ WorkerEnds(w)
     \/ BridgeLoop
     \/ \E m \in Modules : UnloadModule(m) \/ ModuleReturns(m) \/ WriteSpins(m)
     \/ UnloadDone
     \/ \E q \in Queues : Write(q)

Spec == Init /\ [][Next]_vars

\* Threads keep running and mutexes are fair enough that a thread gets a lock
\* that is free again and again.  A module that exports a stop function returns
\* from run after it was called, unless it spins in write().  No signal and no
\* message has to come.
Fairness ==
  /\ WF_vars(Alive /\ Main) /\ SF_vars(Alive /\ Handler)
  /\ \A w \in Workers : WF_vars(Alive /\ (Bind(w) \/ (~running /\ WorkerEnds(w))))
  /\ SF_vars(Alive /\ BridgeLoop)
  /\ WF_vars(Alive /\ UnloadDone)
  /\ \A m \in Modules : WF_vars(Alive /\ ModuleObeys(m))

FairSpec == Spec /\ Fairness

-----------------------------------------------------------------------------
(* Properties                                                              *)

\* Every variable of the process holds what its C++ counterpart holds.
TypeOK ==
  /\ main \in {"configure", "start", "launch", "run", "destroy", "exited", "crashed"}
  /\ {g_engine, start_cut, bind_failed, running, zmq_ctx, bridge_running, engine, in_hand}
       \subseteq BOOLEAN
  /\ unlaunched \subseteq Workers /\ worker \in [Workers -> {"none", "bind", "loop", "ended"}]
  /\ stop_at \in StopPoints \cup {None}
  /\ signals \in 0..MaxSignals
  /\ bridge \in {"none", "top", "lock", "modules", "raws", "ended"}
  /\ to_poll \subseteq Queues /\ polled \in Queues \cup {None}
  /\ modules_lock \in LockHolders \cup {None}
  /\ modules \subseteq Modules /\ unconfigured \subseteq Modules /\ told \subseteq Modules
  /\ unloading \in Modules \cup {None}
  /\ thread \in [Modules -> {"none", "run", "spin", "returned"}]
  /\ \A n \in {written, forwarded, skipped} : n \in [Queues -> 0..Capacity]
  /\ reads \in [Queues -> 0..(2 * Capacity)]

\* A module's library is not closed and its queue is not unmapped while its run
\* function is at work, nor while the bridge reads that queue: unload_module and
\* stop() take a module out only between these uses.
ModuleOutlivesItsUsers ==
  /\ \A m \in Modules : thread[m] \in {"run", "spin"} => m \in modules
  /\ polled \in Modules => polled \in modules

\* A message that the bridge has taken from a queue reaches the engine, unless it
\* came without a topic to a module that has none configured: stop() cannot
\* detach the engine between the read and the injection.  Each message counts
\* when it is read for the first time; old messages come again only after the
\* queue has taken in, and the bridge has read, all it ever will.
ReadIsForwarded ==
  \A q \in Queues :
    /\ forwarded[q] + skipped[q] + (IF polled = q /\ in_hand /\ ~Lapped(q) THEN 1 ELSE 0)
         = IF Lapped(q) THEN Capacity ELSE reads[q]
    /\ reads[q] <= written[q] \/ (Lapped(q) /\ written[q] = Capacity)

\* Unless a signal came while start_nonblocking was at work, or that threw, or a
\* worker could not bind its socket, the process leaves main with every thread
\* joined, and no worker outlives the ZeroMQ context its sockets belong to.
CleanShutdown ==
  start_cut \/ bind_failed \/ /\ main # "crashed"
                              /\ \A w \in Workers : worker[w] \in {"bind", "loop"} => zmq_ctx

\* A signal that stop() acts upon ends the process, whatever the bridge, its
\* modules and unload_module are doing, and even if the bridge reads old messages
\* without end; unless a module goes on running because it has no stop function,
\* or because it spins in a write to a queue that has gone once around.
ShutdownCompletes ==
  (stop_at = "bridge")
    ~> \/ ~Alive
       \/ \E m \in Modules : thread[m] = "spin" \/ (m \in Unstoppable /\ thread[m] = "run")

\* What a process wrote to a raw queue is forwarded while the bridge runs, also
\* when unload_module holds _modules_lock, unless it waits there for a module
\* that cannot return.  The other exception is a queue that has gone once around:
\* read() always has another message of it, and the bridge never leaves it.
RawForwarded ==
  \A q \in Raws : \A n \in 1..Capacity :
    (bridge_running /\ written[q] >= n)
      ~> \/ forwarded[q] >= n \/ ~bridge_running \/ ~Alive
         \/ \E m \in Modules : unloading = m /\ (m \in Unstoppable \/ thread[m] = "spin")
         \/ \E p \in Queues : Lapped(p)
=============================================================================
