-------------------------- MODULE EngineShellProofs --------------------------
(***************************************************************************)
(* Theorems about EngineShell, for any modules, raw queues, workers and    *)
(* bounds: a module outlives its users, no message is lost between the     *)
(* read and the injection, and the shutdown is clean.                      *)
(***************************************************************************)
EXTENDS EngineShell, TLAPS

\* Who holds _modules_lock is where the holder's program point says.
LockInv ==
  /\ modules_lock = "bridge" <=> bridge = "modules"
  /\ modules_lock = "unload" <=> unloading # None
  /\ modules_lock = "stop" => stop_at = "join_modules"
  /\ unloading # None => unloading \in modules

\* The bridge looks at a module's queue only while it holds _modules_lock.
PollInv ==
  /\ bridge = "modules" => to_poll \subseteq modules /\ polled \in modules \cup {None}
  /\ bridge = "raws" => to_poll \subseteq Raws /\ polled \in Raws \cup {None}
  /\ bridge \notin {"modules", "raws"} => to_poll = {} /\ polled = None
  /\ polled = None => ~in_hand

\* A module's run function is at work only while the module is loaded.
ThreadInv == \A m \in Modules : thread[m] \in {"run", "spin"} => m \in modules

\* Where main and the signal handler are tells what runs; and the engine stays
\* attached for as long as the bridge's thread exists.
LifeInv ==
  /\ main \in {"configure", "start"} => stop_at = None
  /\ main \in {"configure", "start", "launch"} => bridge = "none" /\ ~bridge_running
  /\ running => stop_at = None /\ main \in {"launch", "run", "crashed"} /\ zmq_ctx
  /\ running /\ main = "run" => bridge_running
  /\ stop_at \in StopPoints \ {"bridge"} => ~bridge_running
  /\ stop_at = "join_modules" => bridge = "none"
  /\ bridge # "none" => engine

NoWorkers == \A w \in Workers : worker[w] = "none"
BridgeGone == bridge = "none" /\ modules = {} /\ ~bridge_running

\* As long as no start was cut short and every socket could be bound, stop() runs in
\* the middle of run() only, and when it is over nothing is left.
CleanInv ==
  ~start_cut /\ ~bind_failed =>
    /\ main # "crashed"
    /\ main \in {"configure", "start"} => NoWorkers
    /\ main = "launch" => running
    /\ stop_at # None => main = "run" /\ zmq_ctx
    /\ stop_at = "bridge" => bridge_running
    /\ stop_at = "workers" => BridgeGone
    /\ main \in {"run", "destroy", "exited"} /\ ~running /\ stop_at = None
         => BridgeGone /\ NoWorkers

IInv == TypeOK /\ LockInv /\ PollInv /\ ThreadInv /\ LifeInv /\ CleanInv /\ ReadIsForwarded

\* TypeOK by the part of the process that the variables belong to.
MainType ==
  /\ main \in {"configure", "start", "launch", "run", "destroy", "exited", "crashed"}
  /\ {g_engine, start_cut, bind_failed, running, zmq_ctx, bridge_running, engine}
       \subseteq BOOLEAN
  /\ unlaunched \subseteq Workers /\ worker \in [Workers -> {"none", "bind", "loop", "ended"}]
  /\ stop_at \in StopPoints \cup {None}
  /\ signals \in 0..MaxSignals

BridgeType ==
  /\ bridge \in {"none", "top", "lock", "modules", "raws", "ended"}
  /\ to_poll \subseteq Queues /\ polled \in Queues \cup {None} /\ in_hand \in BOOLEAN
  /\ modules_lock \in LockHolders \cup {None}

ModuleType ==
  /\ modules \subseteq Modules /\ unconfigured \subseteq Modules /\ told \subseteq Modules
  /\ unloading \in Modules \cup {None}
  /\ thread \in [Modules -> {"none", "run", "spin", "returned"}]

QueueType == written \in [Queues -> 0..Capacity] /\ reads \in [Queues -> 0..(2 * Capacity)]
CountType == forwarded \in [Queues -> Nat] /\ skipped \in [Queues -> Nat]

\* One queue's part of ReadIsForwarded: f forwarded, s skipped, h in hand for the
\* first time, r read, w written.
First(r) == IF r > Capacity THEN Capacity ELSE r
Balanced(f, s, h, r, w) ==
  /\ f + s + h = First(r)
  /\ r <= w \/ (r > Capacity /\ w = Capacity)
Fresh(q) == IF polled = q /\ in_hand /\ ~Lapped(q) THEN 1 ELSE 0
Balance(q) == Balanced(forwarded[q], skipped[q], Fresh(q), reads[q], written[q])

USE ShellAssumption, NoneAssumption

\* ReadIsForwarded, queue by queue.
LEMMA BalanceIs == ReadIsForwarded <=> \A q \in Queues : Balance(q)
BY DEF ReadIsForwarded, Balance, Balanced, First, Fresh, Lapped

\* The numbers of one queue.
LEMMA CountsAreNats ==
  ASSUME TypeOK, NEW q \in Queues
  PROVE  /\ forwarded[q] \in Nat /\ skipped[q] \in Nat /\ Fresh(q) \in {0, 1}
         /\ reads[q] \in 0..(2 * Capacity) /\ written[q] \in 0..Capacity
BY DEF TypeOK, Fresh

\* A read that finds something: a new message, or an old one after the first lap.
LEMMA ReadBalances ==
  ASSUME NEW f \in Nat, NEW s \in Nat, NEW r \in 0..(2 * Capacity), NEW w \in 0..Capacity,
         Balanced(f, s, 0, r, w), r < w \/ r >= Capacity
  PROVE  /\ Balanced(f, s, IF NextRead(r) > Capacity THEN 0 ELSE 1, NextRead(r), w)
         /\ NextRead(r) \in 0..(2 * Capacity)
<1>1. NextRead(r) \in 0..(2 * Capacity)
  BY DEF NextRead
<1>2. CASE r < Capacity
  <2>1. NextRead(r) = r + 1 /\ ~(r + 1 > Capacity) /\ ~(r > Capacity)
    BY <1>2 DEF NextRead
  <2> QED
    BY <1>1, <1>2, <2>1 DEF Balanced, First
<1>3. CASE r >= Capacity
  <2>1. NextRead(r) > Capacity /\ w = Capacity
    BY <1>3 DEF NextRead, Balanced
  <2>2. f + s + 0 = Capacity
    BY <1>3 DEF Balanced, First
  <2> QED
    BY <1>1, <2>1, <2>2 DEF Balanced, First
<1> QED
  BY <1>2, <1>3

\* A message in hand is counted if it is in hand for the first time.
LEMMA ForwardBalances ==
  ASSUME NEW f \in Nat, NEW s \in Nat, NEW h \in {0, 1}, NEW r \in 0..(2 * Capacity),
         NEW w \in 0..Capacity, Balanced(f, s, h, r, w)
  PROVE  Balanced(f + h, s, 0, r, w) /\ Balanced(f, s + h, 0, r, w)
BY DEF Balanced, First

\* A message that is taken in makes no difference to those that were read.
LEMMA WriteBalances ==
  ASSUME NEW f \in Nat, NEW s \in Nat, NEW h \in {0, 1}, NEW r \in 0..(2 * Capacity),
         NEW w \in 0..Capacity, w < Capacity, Balanced(f, s, h, r, w)
  PROVE  Balanced(f, s, h, r, w + 1)
BY DEF Balanced, First

\* What was counted is bounded by the slots.
LEMMA BalanceBounds ==
  ASSUME NEW f \in Nat, NEW s \in Nat, NEW h \in {0, 1}, NEW r \in 0..(2 * Capacity),
         NEW w \in 0..Capacity, Balanced(f, s, h, r, w)
  PROVE  f \in 0..Capacity /\ s \in 0..Capacity
BY DEF Balanced, First

\* The process starts with nothing loaded, launched or written.
LEMMA InitHolds == Init => IInv
<1> SUFFICES ASSUME Init PROVE IInv
  OBVIOUS
<1>1. TypeOK
  <2>1. /\ \A n \in {written, forwarded, skipped} : n \in [Queues -> 0..Capacity]
        /\ reads \in [Queues -> 0..(2 * Capacity)]
    BY DEF Init
  <2>2. polled \in Queues \cup {None} /\ to_poll \subseteq Queues /\ signals \in 0..MaxSignals
    BY DEF Init
  <2>3. /\ worker \in [Workers -> {"none", "bind", "loop", "ended"}]
        /\ thread \in [Modules -> {"none", "run", "spin", "returned"}]
    BY DEF Init
  <2>4. {g_engine, start_cut, bind_failed, running, zmq_ctx, bridge_running, engine, in_hand}
          \subseteq BOOLEAN
    BY DEF Init
  <2> QED
    BY <2>1, <2>2, <2>3, <2>4 DEF Init, TypeOK
<1>2. LockInv /\ PollInv /\ ThreadInv /\ LifeInv /\ CleanInv
  BY DEF Init, LockInv, PollInv, ThreadInv, LifeInv, CleanInv, NoWorkers, StopPoints,
     LockHolders
<1>3. ReadIsForwarded
  BY DEF Init, ReadIsForwarded, Lapped
<1> QED
  BY <1>1, <1>2, <1>3 DEF IInv

\* The main thread, the handler and the workers.
LEMMA MainTypeStep == IInv /\ [Next]_vars => MainType'
<1> SUFFICES ASSUME IInv, [Next]_vars PROVE MainType'
  OBVIOUS
<1> USE DEF IInv
<1>1. ASSUME UNCHANGED <<main, g_engine, start_cut, bind_failed, running, zmq_ctx,
   bridge_running, engine, unlaunched, worker, stop_at, signals>> PROVE MainType'
  BY <1>1 DEF MainType, TypeOK, StopPoints
<1>2. ASSUME SetGlobalEngine PROVE MainType'
  BY <1>2 DEF SetGlobalEngine, MainAt, engineVars, MainType, TypeOK, StopPoints
<1>3. ASSUME StartNonblocking PROVE MainType'
  BY <1>3 DEF StartNonblocking, MainAt, MainType, TypeOK, StopPoints
<1>4. ASSUME StartThrows PROVE MainType'
  BY <1>4 DEF StartThrows, MainAt, engineVars, MainType, TypeOK, StopPoints
<1>5. ASSUME NEW w \in Workers, LaunchWorker(w) PROVE MainType'
  BY <1>5 DEF LaunchWorker, MainAt, mainVars, MainType, TypeOK, StopPoints
<1>6. ASSUME StartBridge PROVE MainType'
  BY <1>6 DEF StartBridge, MainAt, engineVars, MainType, TypeOK, StopPoints
<1>7. ASSUME RunReturns PROVE MainType'
  BY <1>7 DEF RunReturns, MainAt, engineVars, MainType, TypeOK, StopPoints
<1>8. ASSUME DestroyEngine PROVE MainType'
  BY <1>8 DEF DestroyEngine, MainAt, MainType, TypeOK, StopPoints
<1>9. ASSUME SignalIgnored PROVE MainType'
  BY <1>9 DEF SignalIgnored, mainVars, MainType, TypeOK, StopPoints
<1>10. ASSUME SignalStops PROVE MainType'
  <2>1. {g_engine, start_cut, bind_failed, running, zmq_ctx, bridge_running, engine}'
          \subseteq BOOLEAN
    <3>1. start_cut' \in BOOLEAN
      BY <1>10, Zenon DEF SignalStops
    <3> QED
      BY <1>10, <3>1 DEF SignalStops, TypeOK
  <2> QED
    BY <1>10, <2>1 DEF SignalStops, MainType, TypeOK, StopPoints
<1>11. ASSUME StopBridge PROVE MainType'
  BY <1>11 DEF StopBridge, mainVars, MainType, TypeOK, StopPoints
<1>12. ASSUME StopModules PROVE MainType'
  BY <1>12 DEF StopModules, mainVars, MainType, TypeOK, StopPoints
<1>13. ASSUME JoinBridge PROVE MainType'
  BY <1>13 DEF JoinBridge, mainVars, MainType, TypeOK, StopPoints
<1>14. ASSUME JoinModules PROVE MainType'
  BY <1>14 DEF JoinModules, Drop, mainVars, MainType, TypeOK, StopPoints
<1>15. ASSUME JoinWorkers PROVE MainType'
  BY <1>15 DEF JoinWorkers, StopWorkers, mainVars, MainType, TypeOK, StopPoints
<1>16. ASSUME NEW w \in Workers, WorkerEnds(w) PROVE MainType'
  BY <1>16 DEF WorkerEnds, mainVars, MainType, TypeOK, StopPoints
<1>17. ASSUME NEW w \in Workers, Bind(w) PROVE MainType'
  BY <1>17 DEF Bind, MainType, TypeOK, StopPoints
<1>18. ASSUME NEW w \in Workers, BindThrows(w) PROVE MainType'
  BY <1>18 DEF BindThrows, engineVars, MainType, TypeOK, StopPoints
<1> QED
  BY <1>1, <1>2, <1>3, <1>4, <1>5, <1>6, <1>7, <1>8, <1>9, <1>10, <1>11, <1>12, <1>13,
     <1>14, <1>15, <1>16, <1>17, <1>18
     DEF Next, Main, Handler, BridgeLoop, LoadModule, MainAt, BeginPass,
     PollQueue, ReadQueue, Forward, PollRaws, EndPass, UnloadModule, UnloadDone,
     UnloadDoneIf, Drop, Write, WriteSpins, ModuleReturns, vars, mainVars, engineVars, pollVars,
     moduleVars, messageVars

\* The bridge's thread and the lock.
LEMMA BridgeTypeStep == IInv /\ [Next]_vars => BridgeType'
<1> SUFFICES ASSUME IInv, [Next]_vars PROVE BridgeType'
  OBVIOUS
<1> USE DEF IInv
<1>1. ASSUME UNCHANGED <<bridge, to_poll, polled, in_hand, modules_lock>> PROVE BridgeType'
  BY <1>1 DEF BridgeType, TypeOK, Queues, LockHolders
<1>2. ASSUME StartBridge PROVE BridgeType'
  BY <1>2 DEF StartBridge, MainAt, BridgeType, TypeOK, Queues, LockHolders
<1>3. ASSUME JoinBridge PROVE BridgeType'
  BY <1>3 DEF JoinBridge, BridgeType, TypeOK, Queues, LockHolders
<1>4. ASSUME JoinModules PROVE BridgeType'
  BY <1>4 DEF JoinModules, Drop, pollVars, BridgeType, TypeOK, Queues, LockHolders
<1>5. ASSUME BeginPass PROVE BridgeType'
  BY <1>5 DEF BeginPass, BridgeType, TypeOK, Queues, LockHolders
<1>6. ASSUME NEW q \in Queues, PollQueue(q) PROVE BridgeType'
  BY <1>6 DEF PollQueue, BridgeType, TypeOK, Queues, LockHolders
<1>7. ASSUME ReadQueue PROVE BridgeType'
  BY <1>7 DEF ReadQueue, BridgeType, TypeOK, Queues, LockHolders
<1>8. ASSUME NEW parsed \in BOOLEAN, Forward(parsed) PROVE BridgeType'
  BY <1>8 DEF Forward, BridgeType, TypeOK, Queues, LockHolders
<1>9. ASSUME PollRaws(None) PROVE BridgeType'
  BY <1>9 DEF PollRaws, BridgeType, TypeOK, Queues, LockHolders
<1>10. ASSUME EndPass PROVE BridgeType'
  BY <1>10 DEF EndPass, BridgeType, TypeOK, Queues, LockHolders
<1>11. ASSUME NEW m \in Modules, UnloadModule(m) PROVE BridgeType'
  BY <1>11 DEF UnloadModule, pollVars, BridgeType, TypeOK, Queues, LockHolders
<1>12. ASSUME UnloadDone PROVE BridgeType'
  BY <1>12 DEF UnloadDone, UnloadDoneIf, Drop, pollVars, BridgeType, TypeOK, Queues,
     LockHolders
<1> QED
  BY <1>1, <1>2, <1>3, <1>4, <1>5, <1>6, <1>7, <1>8, <1>9, <1>10, <1>11, <1>12 DEF Next, Main,
     Handler, BridgeLoop, LoadModule, MainAt, SetGlobalEngine, StartNonblocking, StartThrows,
     LaunchWorker, RunReturns, DestroyEngine, SignalIgnored, SignalStops, StopBridge,
     StopModules, JoinWorkers, StopWorkers, Bind, BindThrows, WorkerEnds, Write, WriteSpins,
     ModuleReturns, vars, mainVars, engineVars, pollVars, moduleVars, messageVars

\* The loaded modules.
LEMMA ModuleTypeStep == IInv /\ [Next]_vars => ModuleType'
<1> SUFFICES ASSUME IInv, [Next]_vars PROVE ModuleType'
  OBVIOUS
<1> USE DEF IInv
<1>1. ASSUME UNCHANGED <<modules, unconfigured, told, unloading, thread>> PROVE ModuleType'
  BY <1>1 DEF ModuleType, TypeOK
<1>2. ASSUME NEW m \in Modules, NEW loads \in BOOLEAN, LoadModule(m, loads) PROVE
   ModuleType'
  BY <1>2 DEF LoadModule, MainAt, ModuleType, TypeOK
<1>3. ASSUME StopModules PROVE ModuleType'
  BY <1>3 DEF StopModules, ModuleType, TypeOK
<1>4. ASSUME JoinModules PROVE ModuleType'
  BY <1>4 DEF JoinModules, Drop, ModuleType, TypeOK
<1>5. ASSUME NEW m \in Modules, UnloadModule(m) PROVE ModuleType'
  BY <1>5 DEF UnloadModule, ModuleType, TypeOK
<1>6. ASSUME UnloadDone PROVE ModuleType'
  BY <1>6 DEF UnloadDone, UnloadDoneIf, Drop, ModuleType, TypeOK
<1>7. ASSUME NEW m \in Modules, ModuleReturns(m) \/ WriteSpins(m) PROVE ModuleType'
  BY <1>7 DEF ModuleReturns, WriteSpins, ModuleType, TypeOK
<1> QED
  BY <1>1, <1>2, <1>3, <1>4, <1>5, <1>6, <1>7 DEF Next, Main, Handler, BridgeLoop,
     SetGlobalEngine, MainAt, StartNonblocking, StartThrows, LaunchWorker, StartBridge,
     RunReturns, DestroyEngine, SignalIgnored, SignalStops, StopBridge, JoinBridge, JoinWorkers,
     StopWorkers, Bind, BindThrows, WorkerEnds, BeginPass, PollQueue, ReadQueue, Forward,
     PollRaws, EndPass, Write, vars, mainVars, engineVars, pollVars, moduleVars, messageVars

\* The shared-memory queues.
LEMMA QueueTypeStep == IInv /\ [Next]_vars => QueueType'
<1> SUFFICES ASSUME IInv, [Next]_vars PROVE QueueType'
  OBVIOUS
<1> USE DEF IInv
<1>1. ASSUME UNCHANGED <<written, reads>> PROVE QueueType'
  BY <1>1 DEF QueueType, TypeOK
<1>2. ASSUME ReadQueue PROVE QueueType'
  <2>1. \A n \in 0..(2 * Capacity) : NextRead(n) \in 0..(2 * Capacity)
    BY DEF NextRead
  <2>2. reads' \in [Queues -> 0..(2 * Capacity)]
    BY <1>2, <2>1 DEF ReadQueue, TypeOK
  <2> QED
    BY <1>2, <2>2 DEF ReadQueue, QueueType, TypeOK
<1>3. ASSUME NEW q \in Queues, Write(q) PROVE QueueType'
  <2>1. written' \in [Queues -> 0..Capacity]
    BY <1>3 DEF Write, TypeOK
  <2> QED
    BY <1>3, <2>1 DEF Write, QueueType, TypeOK
<1> QED
  BY <1>1, <1>2, <1>3 DEF Next, Main, Handler, BridgeLoop, LoadModule, MainAt,
     SetGlobalEngine, StartNonblocking, StartThrows, LaunchWorker, StartBridge, RunReturns,
     DestroyEngine, SignalIgnored, SignalStops, StopBridge, StopModules, JoinBridge,
     JoinModules, JoinWorkers, StopWorkers, Bind, BindThrows, WorkerEnds, BeginPass, PollQueue,
     Forward, PollRaws, EndPass, UnloadModule, UnloadDone, UnloadDoneIf, WriteSpins,
     ModuleReturns, vars, mainVars, engineVars, pollVars, moduleVars, messageVars

\* Forwarding counts the message in hand unless it is an old one.
LEMMA ForwardCounts ==
  ASSUME IInv, NEW parsed \in BOOLEAN, Forward(parsed)
  PROVE  /\ polled \in Queues /\ Fresh(polled) \in {0, 1}
         /\ \/ /\ forwarded' = [forwarded EXCEPT ![polled] = @ + Fresh(polled)]
               /\ skipped' = skipped
            \/ /\ skipped' = [skipped EXCEPT ![polled] = @ + Fresh(polled)]
               /\ forwarded' = forwarded
         /\ UNCHANGED <<polled, reads, written>> /\ ~in_hand'
<1> USE DEF IInv
<1>1. polled \in Queues /\ engine /\ in_hand
  BY DEF Forward, PollInv, LifeInv, TypeOK
<1>2. Fresh(polled) = IF Lapped(polled) THEN 0 ELSE 1
  BY <1>1 DEF Fresh
<1>3. \A q \in Queues : forwarded[q] + 0 = forwarded[q] /\ skipped[q] + 0 = skipped[q]
  BY DEF TypeOK
<1> QED
  BY <1>1, <1>2, <1>3 DEF Forward

\* The counters.
LEMMA CountTypeStep == IInv /\ [Next]_vars => CountType'
<1> SUFFICES ASSUME IInv, [Next]_vars PROVE CountType'
  OBVIOUS
<1>1. ASSUME UNCHANGED <<forwarded, skipped>> PROVE CountType'
  BY <1>1 DEF CountType, TypeOK, IInv
<1>2. ASSUME NEW parsed \in BOOLEAN, Forward(parsed) PROVE CountType'
  <2>1. forwarded \in [Queues -> Nat] /\ skipped \in [Queues -> Nat]
    BY DEF TypeOK, IInv
  <2> QED
    BY <1>2, <2>1, ForwardCounts DEF CountType
<1> QED
  BY <1>1, <1>2 DEF Next, Main, Handler, BridgeLoop, LoadModule, MainAt,
     SetGlobalEngine, StartNonblocking, StartThrows, LaunchWorker, StartBridge, RunReturns,
     DestroyEngine, SignalIgnored, SignalStops, StopBridge, StopModules, JoinBridge,
     JoinModules, JoinWorkers, StopWorkers, Bind, BindThrows, WorkerEnds, BeginPass, PollQueue,
     ReadQueue, PollRaws, EndPass, UnloadModule, UnloadDone, UnloadDoneIf, Write, WriteSpins,
     ModuleReturns, vars, mainVars, engineVars, pollVars, moduleVars, messageVars

\* Every critical section starts with a free lock.
LEMMA LockStep == IInv /\ [Next]_vars => LockInv'
<1> SUFFICES ASSUME IInv, [Next]_vars PROVE LockInv'
  OBVIOUS
<1> USE DEF IInv
<1>1. ASSUME UNCHANGED <<modules_lock, bridge, unloading, stop_at, modules>> PROVE LockInv'
  BY <1>1 DEF LockInv, LifeInv, TypeOK, LockHolders, StopPoints
<1>2. ASSUME NEW m \in Modules, NEW loads \in BOOLEAN, LoadModule(m, loads) PROVE LockInv'
  BY <1>2 DEF LoadModule, MainAt, engineVars, pollVars, LockInv, LifeInv, TypeOK,
     LockHolders, StopPoints
<1>3. ASSUME StartBridge PROVE LockInv'
  BY <1>3 DEF StartBridge, MainAt, engineVars, moduleVars, LockInv, LifeInv, TypeOK,
     LockHolders, StopPoints
<1>4. ASSUME DestroyEngine PROVE LockInv'
  BY <1>4 DEF DestroyEngine, MainAt, pollVars, moduleVars, LockInv, LifeInv, TypeOK,
     LockHolders, StopPoints
<1>5. ASSUME SignalStops PROVE LockInv'
  BY <1>5 DEF SignalStops, pollVars, moduleVars, LockInv, LifeInv, TypeOK, LockHolders,
     StopPoints
<1>6. ASSUME StopBridge PROVE LockInv'
  BY <1>6 DEF StopBridge, pollVars, moduleVars, LockInv, LifeInv, TypeOK, LockHolders,
     StopPoints
<1>7. ASSUME StopModules PROVE LockInv'
  BY <1>7 DEF StopModules, pollVars, LockInv, LifeInv, TypeOK, LockHolders, StopPoints
<1>8. ASSUME JoinBridge PROVE LockInv'
  BY <1>8 DEF JoinBridge, moduleVars, LockInv, LifeInv, TypeOK, LockHolders, StopPoints
<1>9. ASSUME JoinModules PROVE LockInv'
  BY <1>9 DEF JoinModules, Drop, pollVars, LockInv, LifeInv, TypeOK, LockHolders, StopPoints
<1>10. ASSUME JoinWorkers PROVE LockInv'
  BY <1>10 DEF JoinWorkers, StopWorkers, pollVars, moduleVars, LockInv, LifeInv, TypeOK,
     LockHolders, StopPoints
<1>11. ASSUME BeginPass PROVE LockInv'
  BY <1>11 DEF BeginPass, engineVars, moduleVars, LockInv, LifeInv, TypeOK, LockHolders,
     StopPoints
<1>12. ASSUME PollRaws(None) PROVE LockInv'
  BY <1>12 DEF PollRaws, engineVars, moduleVars, LockInv, LifeInv, TypeOK, LockHolders,
     StopPoints
<1>13. ASSUME EndPass PROVE LockInv'
  BY <1>13 DEF EndPass, engineVars, moduleVars, LockInv, LifeInv, TypeOK, LockHolders,
     StopPoints
<1>14. ASSUME NEW m \in Modules, UnloadModule(m) PROVE LockInv'
  BY <1>14 DEF UnloadModule, engineVars, pollVars, LockInv, LifeInv, TypeOK, LockHolders,
     StopPoints
<1>15. ASSUME UnloadDone PROVE LockInv'
  BY <1>15 DEF UnloadDone, UnloadDoneIf, Drop, engineVars, pollVars, LockInv, LifeInv,
     TypeOK, LockHolders, StopPoints
<1> QED
  BY <1>1, <1>2, <1>3, <1>4, <1>5, <1>6, <1>7, <1>8, <1>9, <1>10, <1>11, <1>12, <1>13, <1>14,
     <1>15 DEF Next, Main, Handler, BridgeLoop, SetGlobalEngine, MainAt, StartNonblocking,
     StartThrows, LaunchWorker, RunReturns, SignalIgnored, Bind, BindThrows, WorkerEnds,
     PollQueue, ReadQueue, Forward, Write, WriteSpins, ModuleReturns, vars, mainVars,
     engineVars, pollVars, moduleVars, messageVars

\* A module is taken out of _modules under the lock that the bridge polls under.
LEMMA PollStep == IInv /\ [Next]_vars => PollInv'
<1> SUFFICES ASSUME IInv, [Next]_vars PROVE PollInv'
  OBVIOUS
<1> USE DEF IInv
<1>1. ASSUME UNCHANGED <<bridge, to_poll, polled, in_hand, modules>> PROVE PollInv'
  BY <1>1 DEF PollInv, LockInv, LifeInv, TypeOK, LockHolders, Queues
<1>2. ASSUME NEW m \in Modules, NEW loads \in BOOLEAN, LoadModule(m, loads) PROVE PollInv'
  BY <1>2 DEF LoadModule, MainAt, pollVars, PollInv, LockInv, LifeInv, TypeOK, LockHolders,
     Queues
<1>3. ASSUME StartBridge PROVE PollInv'
  BY <1>3 DEF StartBridge, MainAt, moduleVars, PollInv, LockInv, LifeInv, TypeOK,
     LockHolders, Queues
<1>4. ASSUME JoinBridge PROVE PollInv'
  BY <1>4 DEF JoinBridge, moduleVars, PollInv, LockInv, LifeInv, TypeOK, LockHolders,
     Queues
<1>5. ASSUME JoinModules PROVE PollInv'
  BY <1>5 DEF JoinModules, Drop, pollVars, PollInv, LockInv, LifeInv, TypeOK, LockHolders,
     Queues
<1>6. ASSUME BeginPass PROVE PollInv'
  BY <1>6 DEF BeginPass, moduleVars, PollInv, LockInv, LifeInv, TypeOK, LockHolders, Queues
<1>7. ASSUME NEW q \in Queues, PollQueue(q) PROVE PollInv'
  BY <1>7 DEF PollQueue, moduleVars, PollInv, LockInv, LifeInv, TypeOK, LockHolders, Queues
<1>8. ASSUME ReadQueue PROVE PollInv'
  BY <1>8 DEF ReadQueue, moduleVars, PollInv, LockInv, LifeInv, TypeOK, LockHolders, Queues
<1>9. ASSUME NEW parsed \in BOOLEAN, Forward(parsed) PROVE PollInv'
  BY <1>9 DEF Forward, moduleVars, PollInv, LockInv, LifeInv, TypeOK, LockHolders, Queues
<1>10. ASSUME PollRaws(None) PROVE PollInv'
  BY <1>10 DEF PollRaws, moduleVars, PollInv, LockInv, LifeInv, TypeOK, LockHolders, Queues
<1>11. ASSUME EndPass PROVE PollInv'
  BY <1>11 DEF EndPass, moduleVars, PollInv, LockInv, LifeInv, TypeOK, LockHolders, Queues
<1>12. ASSUME UnloadDone PROVE PollInv'
  BY <1>12 DEF UnloadDone, UnloadDoneIf, Drop, pollVars, PollInv, LockInv, LifeInv, TypeOK,
     LockHolders, Queues
<1> QED
  BY <1>1, <1>2, <1>3, <1>4, <1>5, <1>6, <1>7, <1>8, <1>9, <1>10, <1>11, <1>12 DEF Next, Main,
     Handler, BridgeLoop, SetGlobalEngine, MainAt, StartNonblocking, StartThrows, LaunchWorker,
     RunReturns, DestroyEngine, SignalIgnored, SignalStops, StopBridge, StopModules,
     JoinWorkers, StopWorkers, Bind, BindThrows, WorkerEnds, UnloadModule, Write, WriteSpins,
     ModuleReturns, vars, mainVars, engineVars, pollVars, moduleVars, messageVars

\* A module is taken out of _modules only after its run function returned.
LEMMA ThreadStep == IInv /\ [Next]_vars => ThreadInv'
<1> SUFFICES ASSUME IInv, [Next]_vars PROVE ThreadInv'
  OBVIOUS
<1> USE DEF IInv
<1>1. ASSUME UNCHANGED <<thread, modules>> PROVE ThreadInv'
  BY <1>1 DEF ThreadInv, LockInv, TypeOK
<1>2. ASSUME NEW m \in Modules, NEW loads \in BOOLEAN, LoadModule(m, loads) PROVE ThreadInv'
  BY <1>2 DEF LoadModule, MainAt, ThreadInv, LockInv, TypeOK
<1>3. ASSUME JoinModules PROVE ThreadInv'
  BY <1>3 DEF JoinModules, Drop, ThreadInv, LockInv, TypeOK
<1>4. ASSUME UnloadDone PROVE ThreadInv'
  BY <1>4 DEF UnloadDone, UnloadDoneIf, Drop, ThreadInv, LockInv, TypeOK
<1>5. ASSUME NEW m \in Modules, ModuleReturns(m) \/ WriteSpins(m) PROVE ThreadInv'
  BY <1>5 DEF ModuleReturns, WriteSpins, ThreadInv, LockInv, TypeOK
<1> QED
  BY <1>1, <1>2, <1>3, <1>4, <1>5 DEF Next, Main, Handler, BridgeLoop, SetGlobalEngine, MainAt,
     StartNonblocking, StartThrows, LaunchWorker, StartBridge, RunReturns, DestroyEngine,
     SignalIgnored, SignalStops, StopBridge, StopModules, JoinBridge, JoinWorkers, StopWorkers,
     Bind, BindThrows, WorkerEnds, BeginPass, PollQueue, ReadQueue, Forward, PollRaws, EndPass,
     UnloadModule, Write, vars, mainVars, engineVars, pollVars, moduleVars, messageVars

\* stop() works down its list, and the bridge's thread is joined before _engine is cleared.
LEMMA LifeStep == IInv /\ [Next]_vars => LifeInv'
<1> SUFFICES ASSUME IInv, [Next]_vars PROVE LifeInv'
  OBVIOUS
<1> USE DEF IInv
<1>1. ASSUME UNCHANGED <<main, stop_at, bridge, bridge_running, running, engine, zmq_ctx>>
   PROVE LifeInv'
  BY <1>1 DEF LifeInv, TypeOK, StopPoints
<1>2. ASSUME SetGlobalEngine PROVE LifeInv'
  BY <1>2 DEF SetGlobalEngine, MainAt, engineVars, pollVars, LifeInv, TypeOK, StopPoints
<1>3. ASSUME StartNonblocking PROVE LifeInv'
  BY <1>3 DEF StartNonblocking, MainAt, pollVars, LifeInv, TypeOK, StopPoints
<1>4. ASSUME StartThrows PROVE LifeInv'
  BY <1>4 DEF StartThrows, MainAt, engineVars, pollVars, LifeInv, TypeOK, StopPoints
<1>5. ASSUME NEW w \in Workers, LaunchWorker(w) PROVE LifeInv'
  BY <1>5 DEF LaunchWorker, MainAt, mainVars, pollVars, LifeInv, TypeOK, StopPoints
<1>6. ASSUME StartBridge PROVE LifeInv'
  BY <1>6 DEF StartBridge, MainAt, engineVars, LifeInv, TypeOK, StopPoints
<1>7. ASSUME RunReturns PROVE LifeInv'
  BY <1>7 DEF RunReturns, MainAt, engineVars, pollVars, LifeInv, TypeOK, StopPoints
<1>8. ASSUME DestroyEngine PROVE LifeInv'
  BY <1>8 DEF DestroyEngine, MainAt, pollVars, LifeInv, TypeOK, StopPoints
<1>9. ASSUME SignalStops PROVE LifeInv'
  BY <1>9 DEF SignalStops, pollVars, LifeInv, TypeOK, StopPoints
<1>10. ASSUME StopBridge PROVE LifeInv'
  BY <1>10 DEF StopBridge, mainVars, pollVars, LifeInv, TypeOK, StopPoints
<1>11. ASSUME StopModules PROVE LifeInv'
  BY <1>11 DEF StopModules, mainVars, pollVars, LifeInv, TypeOK, StopPoints
<1>12. ASSUME JoinBridge PROVE LifeInv'
  BY <1>12 DEF JoinBridge, mainVars, LifeInv, TypeOK, StopPoints
<1>13. ASSUME JoinModules PROVE LifeInv'
  BY <1>13 DEF JoinModules, Drop, mainVars, pollVars, LifeInv, TypeOK, StopPoints
<1>14. ASSUME JoinWorkers PROVE LifeInv'
  BY <1>14 DEF JoinWorkers, StopWorkers, mainVars, pollVars, LifeInv, TypeOK, StopPoints
<1>15. ASSUME BeginPass PROVE LifeInv'
  BY <1>15 DEF BeginPass, mainVars, engineVars, LifeInv, TypeOK, StopPoints
<1>16. ASSUME PollRaws(None) PROVE LifeInv'
  BY <1>16 DEF PollRaws, mainVars, engineVars, LifeInv, TypeOK, StopPoints
<1>17. ASSUME EndPass PROVE LifeInv'
  BY <1>17 DEF EndPass, mainVars, engineVars, LifeInv, TypeOK, StopPoints
<1>18. ASSUME NEW w \in Workers, Bind(w) PROVE LifeInv'
  BY <1>18 DEF Bind, pollVars, LifeInv, TypeOK, StopPoints
<1>19. ASSUME NEW w \in Workers, BindThrows(w) PROVE LifeInv'
  BY <1>19 DEF BindThrows, engineVars, pollVars, LifeInv, TypeOK, StopPoints
<1> QED
  BY <1>1, <1>2, <1>3, <1>4, <1>5, <1>6, <1>7, <1>8, <1>9, <1>10, <1>11, <1>12, <1>13,
     <1>14, <1>15, <1>16, <1>17, <1>18, <1>19 DEF Next, Main, Handler, BridgeLoop, LoadModule,
     MainAt, SignalIgnored, WorkerEnds, PollQueue, ReadQueue, Forward, UnloadModule, UnloadDone,
     UnloadDoneIf, Drop, Write, WriteSpins, ModuleReturns, vars, mainVars, engineVars, pollVars,
     moduleVars, messageVars

\* A stop() that found the engine running leaves nothing behind.
LEMMA CleanStep == IInv /\ [Next]_vars => CleanInv'
<1> SUFFICES ASSUME IInv, [Next]_vars PROVE CleanInv'
  OBVIOUS
<1> USE DEF IInv
<1>1. ASSUME UNCHANGED <<start_cut, bind_failed, main, running, zmq_ctx, worker, stop_at, bridge,
   bridge_running, modules>> PROVE CleanInv'
  BY <1>1 DEF CleanInv, LifeInv, TypeOK, StopPoints, NoWorkers, BridgeGone
<1>2. ASSUME NEW m \in Modules, NEW loads \in BOOLEAN, LoadModule(m, loads) PROVE CleanInv'
  BY <1>2 DEF LoadModule, MainAt, mainVars, engineVars, pollVars, CleanInv, LifeInv, TypeOK,
     StopPoints, NoWorkers, BridgeGone
<1>3. ASSUME SetGlobalEngine PROVE CleanInv'
  BY <1>3 DEF SetGlobalEngine, MainAt, engineVars, pollVars, moduleVars, CleanInv, LifeInv,
     TypeOK, StopPoints, NoWorkers, BridgeGone
<1>4. ASSUME StartNonblocking PROVE CleanInv'
  BY <1>4 DEF StartNonblocking, MainAt, pollVars, moduleVars, CleanInv, LifeInv, TypeOK,
     StopPoints, NoWorkers, BridgeGone
<1>5. ASSUME StartThrows PROVE CleanInv'
  BY <1>5 DEF StartThrows, MainAt, engineVars, pollVars, moduleVars, CleanInv, LifeInv,
     TypeOK, StopPoints, NoWorkers, BridgeGone
<1>6. ASSUME NEW w \in Workers, LaunchWorker(w) PROVE CleanInv'
  BY <1>6 DEF LaunchWorker, MainAt, mainVars, pollVars, moduleVars, CleanInv, LifeInv, TypeOK,
     StopPoints, NoWorkers, BridgeGone
<1>7. ASSUME StartBridge PROVE CleanInv'
  BY <1>7 DEF StartBridge, MainAt, engineVars, moduleVars, CleanInv, LifeInv, TypeOK,
     StopPoints, NoWorkers, BridgeGone
<1>8. ASSUME RunReturns PROVE CleanInv'
  BY <1>8 DEF RunReturns, MainAt, engineVars, pollVars, moduleVars, CleanInv, LifeInv,
     TypeOK, StopPoints, NoWorkers, BridgeGone
<1>9. ASSUME DestroyEngine PROVE CleanInv'
  BY <1>9 DEF DestroyEngine, MainAt, pollVars, moduleVars, CleanInv, LifeInv, TypeOK,
     StopPoints, NoWorkers, BridgeGone
<1>10. ASSUME SignalStops PROVE CleanInv'
  BY <1>10 DEF SignalStops, pollVars, moduleVars, CleanInv, LifeInv, TypeOK, StopPoints,
     NoWorkers, BridgeGone
<1>11. ASSUME StopBridge PROVE CleanInv'
  BY <1>11 DEF StopBridge, mainVars, pollVars, moduleVars, CleanInv, LifeInv, TypeOK,
     StopPoints, NoWorkers, BridgeGone
<1>12. ASSUME StopModules PROVE CleanInv'
  BY <1>12 DEF StopModules, mainVars, pollVars, CleanInv, LifeInv, TypeOK, StopPoints,
     NoWorkers, BridgeGone
<1>13. ASSUME JoinBridge PROVE CleanInv'
  BY <1>13 DEF JoinBridge, mainVars, moduleVars, CleanInv, LifeInv, TypeOK, StopPoints,
     NoWorkers, BridgeGone
<1>14. ASSUME JoinModules PROVE CleanInv'
  BY <1>14 DEF JoinModules, Drop, mainVars, pollVars, CleanInv, LifeInv, TypeOK, StopPoints,
     NoWorkers, BridgeGone
<1>15. ASSUME JoinWorkers PROVE CleanInv'
  BY <1>15 DEF JoinWorkers, StopWorkers, mainVars, pollVars, moduleVars, CleanInv, LifeInv,
     TypeOK, StopPoints, NoWorkers, BridgeGone
<1>16. ASSUME NEW w \in Workers, WorkerEnds(w) PROVE CleanInv'
  BY <1>16 DEF WorkerEnds, mainVars, pollVars, moduleVars, CleanInv, LifeInv, TypeOK,
     StopPoints, NoWorkers, BridgeGone
<1>17. ASSUME BeginPass PROVE CleanInv'
  BY <1>17 DEF BeginPass, mainVars, engineVars, moduleVars, CleanInv, LifeInv, TypeOK,
     StopPoints, NoWorkers, BridgeGone
<1>18. ASSUME PollRaws(None) PROVE CleanInv'
  BY <1>18 DEF PollRaws, mainVars, engineVars, moduleVars, CleanInv, LifeInv, TypeOK,
     StopPoints, NoWorkers, BridgeGone
<1>19. ASSUME EndPass PROVE CleanInv'
  BY <1>19 DEF EndPass, mainVars, engineVars, moduleVars, CleanInv, LifeInv, TypeOK,
     StopPoints, NoWorkers, BridgeGone
<1>20. ASSUME UnloadDone PROVE CleanInv'
  BY <1>20 DEF UnloadDone, UnloadDoneIf, Drop, mainVars, engineVars, pollVars, CleanInv,
     LifeInv, TypeOK, StopPoints, NoWorkers, BridgeGone
<1>21. ASSUME NEW w \in Workers, Bind(w) PROVE CleanInv'
  BY <1>21 DEF Bind, Next, Alive, pollVars, moduleVars, CleanInv, LifeInv, TypeOK, StopPoints,
     NoWorkers, BridgeGone
<1>22. ASSUME NEW w \in Workers, BindThrows(w) PROVE CleanInv'
  BY <1>22 DEF BindThrows, CleanInv
<1> QED
  BY <1>1, <1>2, <1>3, <1>4, <1>5, <1>6, <1>7, <1>8, <1>9, <1>10, <1>11, <1>12, <1>13, <1>14,
     <1>15, <1>16, <1>17, <1>18, <1>19, <1>20, <1>21, <1>22 DEF Next, Main, Handler, BridgeLoop,
     SignalIgnored, PollQueue, ReadQueue, Forward, UnloadModule, Write, WriteSpins,
     ModuleReturns, vars, mainVars, engineVars, pollVars, moduleVars, messageVars

\* Each message is counted once, when it is read for the first time.
LEMMA ForwardedStep == IInv /\ [Next]_vars => ReadIsForwarded'
<1> SUFFICES ASSUME IInv, [Next]_vars PROVE ReadIsForwarded'
  OBVIOUS
<1> USE DEF IInv
<1>1. ASSUME UNCHANGED <<written, reads, forwarded, skipped, polled, in_hand>>
   PROVE ReadIsForwarded'
  BY <1>1 DEF ReadIsForwarded, Lapped
<1>2. ASSUME NEW q \in Queues, PollQueue(q) PROVE ReadIsForwarded'
  BY <1>2 DEF PollQueue, messageVars, PollInv, ReadIsForwarded, Lapped
<1>3. ASSUME ReadQueue PROVE ReadIsForwarded'
  <2>1. CASE bridge_running /\ Available(polled)
    <3>1. /\ polled \in Queues /\ polled' = polled /\ ~in_hand /\ in_hand'
          /\ reads' = [reads EXCEPT ![polled] = NextRead(@)]
          /\ UNCHANGED <<forwarded, skipped, written>>
      BY <1>3, <2>1 DEF ReadQueue, TypeOK
    <3>2. ASSUME NEW q \in Queues PROVE Balance(q)'
      <4>1. /\ forwarded[q] \in Nat /\ skipped[q] \in Nat
            /\ reads[q] \in 0..(2 * Capacity) /\ written[q] \in 0..Capacity
        BY CountsAreNats
      <4>2. Balanced(forwarded[q], skipped[q], 0, reads[q], written[q])
        BY <3>1, BalanceIs DEF Balance, Fresh
      <4>3. CASE q = polled
        <5>1. reads'[q] = NextRead(reads[q])
          BY <3>1, <4>3 DEF TypeOK
        <5>2. Fresh(q)' = IF NextRead(reads[q]) > Capacity THEN 0 ELSE 1
          BY <3>1, <4>3, <5>1 DEF Fresh, Lapped
        <5>3. reads[q] < written[q] \/ reads[q] >= Capacity
          BY <2>1, <4>3 DEF Available
        <5> QED
          BY <3>1, <4>1, <4>2, <5>1, <5>2, <5>3, ReadBalances DEF Balance
      <4>4. CASE q # polled
        <5>1. reads'[q] = reads[q] /\ Fresh(q)' = 0
          BY <3>1, <4>4 DEF TypeOK, Fresh
        <5> QED
          BY <3>1, <4>2, <5>1 DEF Balance
      <4> QED
        BY <4>3, <4>4
    <3> QED
      BY <3>2, BalanceIs DEF ReadIsForwarded, Balance, Balanced, First, Fresh, Lapped
  <2>2. CASE ~(bridge_running /\ Available(polled))
    <3>1. /\ UNCHANGED <<written, reads, forwarded, skipped, in_hand>> /\ ~in_hand
      BY <1>3, <2>2 DEF ReadQueue
    <3> QED
      BY <3>1 DEF ReadIsForwarded, Lapped
  <2> QED
    BY <2>1, <2>2
<1>4. ASSUME NEW parsed \in BOOLEAN, Forward(parsed) PROVE ReadIsForwarded'
  <2>1. /\ polled \in Queues /\ Fresh(polled) \in {0, 1}
        /\ \/ /\ forwarded' = [forwarded EXCEPT ![polled] = @ + Fresh(polled)]
              /\ skipped' = skipped
           \/ /\ skipped' = [skipped EXCEPT ![polled] = @ + Fresh(polled)]
              /\ forwarded' = forwarded
        /\ UNCHANGED <<polled, reads, written>> /\ ~in_hand'
    BY <1>4, ForwardCounts
  <2>2. ASSUME NEW q \in Queues PROVE Balance(q)'
    <3>1. /\ forwarded[q] \in Nat /\ skipped[q] \in Nat /\ Fresh(q) \in {0, 1}
          /\ reads[q] \in 0..(2 * Capacity) /\ written[q] \in 0..Capacity
      BY CountsAreNats
    <3>2. Balanced(forwarded[q], skipped[q], Fresh(q), reads[q], written[q])
      BY BalanceIs DEF Balance
    <3>3. Fresh(q)' = 0
      BY <2>1 DEF Fresh
    <3>4. CASE q = polled
      <4>1. \/ /\ forwarded'[q] = forwarded[q] + Fresh(q)
               /\ skipped'[q] = skipped[q]
            \/ /\ forwarded'[q] = forwarded[q]
               /\ skipped'[q] = skipped[q] + Fresh(q)
        BY <2>1, <3>4 DEF TypeOK
      <4> QED
        BY <2>1, <3>1, <3>2, <3>3, <4>1, ForwardBalances DEF Balance
    <3>5. CASE q # polled
      <4>1. forwarded'[q] = forwarded[q] /\ skipped'[q] = skipped[q] /\ Fresh(q) = 0
        BY <2>1, <3>5 DEF TypeOK, Fresh
      <4> QED
        BY <2>1, <3>2, <3>3, <4>1 DEF Balance
    <3> QED
      BY <3>4, <3>5
  <2> QED
    BY <2>2 DEF ReadIsForwarded, Balance, Balanced, First, Fresh, Lapped
<1>5. ASSUME NEW p \in Queues, Write(p) PROVE ReadIsForwarded'
  <2>1. /\ written' = [written EXCEPT ![p] = @ + 1] /\ written[p] < Capacity
        /\ UNCHANGED <<polled, in_hand, reads, forwarded, skipped>>
    BY <1>5 DEF Write, pollVars
  <2>2. ASSUME NEW q \in Queues PROVE Balance(q)'
    <3>1. /\ forwarded[q] \in Nat /\ skipped[q] \in Nat /\ Fresh(q) \in {0, 1}
          /\ reads[q] \in 0..(2 * Capacity) /\ written[q] \in 0..Capacity
      BY CountsAreNats
    <3>2. Balanced(forwarded[q], skipped[q], Fresh(q), reads[q], written[q])
      BY BalanceIs DEF Balance
    <3>3. Fresh(q)' = Fresh(q)
      BY <2>1 DEF Fresh, Lapped
    <3>4. CASE q = p
      <4>1. written'[q] = written[q] + 1
        BY <2>1, <3>4 DEF TypeOK
      <4> QED
        BY <2>1, <3>1, <3>2, <3>3, <3>4, <4>1, WriteBalances DEF Balance
    <3>5. CASE q # p
      <4>1. written'[q] = written[q]
        BY <2>1, <3>5 DEF TypeOK
      <4> QED
        BY <2>1, <3>2, <3>3, <4>1 DEF Balance
    <3> QED
      BY <3>4, <3>5
  <2> QED
    BY <2>2 DEF ReadIsForwarded, Balance, Balanced, First, Fresh, Lapped
<1> QED
  BY <1>1, <1>2, <1>3, <1>4, <1>5 DEF Next, Main, Handler, BridgeLoop,
     LoadModule, MainAt, SetGlobalEngine, StartNonblocking, StartThrows, LaunchWorker,
     StartBridge, RunReturns, DestroyEngine, SignalIgnored, SignalStops, StopBridge,
     StopModules, JoinBridge, JoinModules, JoinWorkers, StopWorkers, Bind, BindThrows,
     WorkerEnds, BeginPass, PollRaws, EndPass, UnloadModule, UnloadDone, UnloadDoneIf,
     WriteSpins, ModuleReturns, vars, mainVars, engineVars, pollVars, moduleVars, messageVars

\* The counters of what was read are bounded by the slots.
LEMMA BoundStep ==
  IInv /\ [Next]_vars =>
    forwarded' \in [Queues -> 0..Capacity] /\ skipped' \in [Queues -> 0..Capacity]
<1> SUFFICES ASSUME IInv, [Next]_vars
             PROVE  forwarded' \in [Queues -> 0..Capacity] /\ skipped' \in [Queues -> 0..Capacity]
  OBVIOUS
<1>1. QueueType' /\ CountType' /\ ReadIsForwarded'
  BY QueueTypeStep, CountTypeStep, ForwardedStep
<1>2. ASSUME NEW q \in Queues
      PROVE  forwarded'[q] \in 0..Capacity /\ skipped'[q] \in 0..Capacity
  <2>1. /\ forwarded'[q] \in Nat /\ skipped'[q] \in Nat
        /\ reads'[q] \in 0..(2 * Capacity) /\ written'[q] \in 0..Capacity
    BY <1>1 DEF QueueType, CountType
  <2>2. PICK h \in {0, 1} : Balanced(forwarded'[q], skipped'[q], h, reads'[q], written'[q])
    BY <1>1 DEF ReadIsForwarded, Balanced, First, Lapped
  <2> QED
    BY <2>1, <2>2, BalanceBounds
<1> QED
  BY <1>1, <1>2 DEF CountType

\* The inductive invariant holds in every state of every behaviour.
LEMMA IInvAlways == Spec => []IInv
<1>1. IInv /\ [Next]_vars => TypeOK'
  <2> SUFFICES ASSUME IInv, [Next]_vars PROVE TypeOK'
    OBVIOUS
  <2>1. MainType' /\ BridgeType' /\ ModuleType' /\ QueueType'
    BY MainTypeStep, BridgeTypeStep, ModuleTypeStep, QueueTypeStep
  <2> QED
    BY <2>1, BoundStep DEF TypeOK, MainType, BridgeType, ModuleType, QueueType
<1>2. IInv /\ [Next]_vars => IInv'
  BY <1>1, LockStep, PollStep, ThreadStep, LifeStep, CleanStep, ForwardedStep DEF IInv
<1> QED
  BY InitHolds, <1>2, PTL DEF Spec

-----------------------------------------------------------------------------
(* The theorems                                                            *)

\* Every variable of the process keeps its type; above all, no more messages are
\* counted as forwarded or skipped than a queue has slots.
THEOREM ShellTypeCorrect == Spec => []TypeOK
BY IInvAlways, PTL DEF IInv

\* No library is closed and no queue unmapped under the thread that runs the
\* module or under the bridge that reads its queue.
THEOREM ModulesOutliveUsers == Spec => []ModuleOutlivesItsUsers
<1>1. IInv => ModuleOutlivesItsUsers
  BY DEF IInv, TypeOK, PollInv, ThreadInv, ModuleOutlivesItsUsers
<1> QED
  BY IInvAlways, <1>1, PTL

\* Every message that read() returns for the first time is forwarded, skipped or in
\* the bridge's hand: stop() and unload_module lose none that was read.  Old
\* messages come again only from a queue that has gone once around.
THEOREM NothingReadIsLost == Spec => []ReadIsForwarded
BY IInvAlways, PTL DEF IInv

\* Unless the start was cut short or a socket could not be bound, the process ends
\* with every thread joined, and no worker outlives the ZeroMQ context.
THEOREM ShutdownIsClean == Spec => []CleanShutdown
<1>1. IInv => CleanShutdown
  BY DEF IInv, TypeOK, LifeInv, CleanInv, NoWorkers, CleanShutdown, StopPoints
<1> QED
  BY IInvAlways, <1>1, PTL
==============================================================================
