--------------------------- MODULE JobRouterProofs ---------------------------
(***************************************************************************)
(* Theorems about JobRouter, for any modules, topics, jobs and bounds: the *)
(* types, the agreement of _pending_jobs and _job_tracking, one answer per *)
(* request, what a job may never be sent to, and that the router           *)
(* implements JobService.                                                  *)
(***************************************************************************)
EXTENDS JobRouter, TLAPS, FiniteSetTheorems, SequenceTheorems

\* Registrations are counted, so there are finitely many at any time.
FiniteInv == IsFiniteSet(modules) /\ IsFiniteSet(former) /\ IsFiniteSet(available)

\* The router's program point tells what it has in hand: a job, the handler that
\* failed it, and copies of waiting jobs only while it works on a recovery.
RouterInv ==
  /\ job # NoJob <=> at \in {"route", "mark", "retry", "redispatch"}
  /\ at = "mark" => info_handler \in Modules
  /\ at \notin {"mark", "retry", "redispatch"} => info_handler = NoHandler
  /\ waiting # {} => \/ at = "recoveries"
                     \/ at \in {"retry", "redispatch"} /\ info_handler = NoHandler

\* A job in the router's hands is out of _job_tracking.
HandInv == \A c \in Jobs : InHand(c) => tracking[c] = Untracked

\* The life of a job: not yet requested, on its way to the router, being routed,
\* pending, answered.  It has no answer before the last.
LifeInv ==
  \A c \in Jobs :
    /\ c \notin issued => c \notin requests /\ c \notin pending /\ c # job /\ answers[c] = <<>>
    /\ c \in requests => c \notin pending /\ c # job /\ answers[c] = <<>>
    /\ at = "route" /\ c = job => c \notin pending /\ answers[c] = <<>>
    /\ c \in pending => answers[c] = <<>>

\* A module that has a job got it before its requester was answered.
OfferInv == \A m \in Modules, c \in Jobs : <<m, c>> \in inbox => c \in pending \/ answers[c] # <<>>

IInv ==
  /\ TypeOK /\ FiniteInv /\ RouterInv /\ HandInv /\ LifeInv /\ OfferInv
  /\ PendingIsTracked /\ AtMostOneAnswer /\ RecoveryCopiesValid /\ NeverToTimedOut

\* TypeOK by the threads and locks that own the variables.
RegistryType ==
  /\ modules \subseteq Modules /\ former \subseteq Modules
  /\ order \in [Modules -> Nat]
  /\ unavailable \subseteq Modules \X Topics /\ busy \subseteq Modules \X Topics
  /\ beat \in Beats /\ expiring \subseteq Modules
TableType ==
  /\ pending \subseteq Jobs
  /\ tracking \in [Jobs -> Modules \cup {NoHandler, Untracked}]
  /\ round_robin \in [Topics -> Nat]
QueueType ==
  /\ timeout_events \in Seq(SUBSET TimeoutEvents) /\ recovery_events \in Seq(RecoveryEvents)
  /\ timeout_batch \in Seq(SUBSET TimeoutEvents) /\ recovery_batch \in Seq(RecoveryEvents)
  /\ found \subseteq TimeoutEvents
HandType ==
  /\ at \in RouterPoints
  /\ job \in Jobs \cup {NoJob} /\ info_handler \in Modules \cup {NoHandler}
  /\ available \subseteq Modules /\ waiting \subseteq Jobs
WorldType ==
  /\ issued \subseteq Jobs /\ requests \subseteq Jobs
  /\ inbox \subseteq Modules \X Jobs
  /\ answers \in [Jobs -> Seq(Answers)] /\ dead_letters \subseteq Jobs

-----------------------------------------------------------------------------
(* Facts the steps share                                                   *)

USE JobsAssumption, NullAssumption

\* TypeOK is the conjunction of its parts.
LEMMA TypeParts ==
  TypeOK <=> RegistryType /\ TableType /\ QueueType /\ HandType /\ WorldType
BY DEF TypeOK, RegistryType, TableType, QueueType, HandType, WorldType

\* The handlers that are found available are registered modules.
LEMMA AvailableRegistered ==
  ASSUME NEW t, modules \subseteq Modules, IsFiniteSet(modules)
  PROVE  AvailableHandlers(t) \subseteq Modules /\ IsFiniteSet(AvailableHandlers(t))
BY FS_Subset DEF AvailableHandlers, JobHandlers

\* The round-robin counter stays a number: a choice is made among someone.
LEMMA RoundRobinNat ==
  ASSUME NEW S, IsFiniteSet(S), NEW h \in S, NEW n \in Nat
  PROVE  (n % Cardinality(S)) + 1 \in Nat
<1>1. Cardinality(S) \in Nat /\ Cardinality(S) # 0
  BY FS_CardinalityType, FS_EmptySet
<1> QED
  BY <1>1

\* Taking a time-out event leaves a batch.
LEMMA NextTimeoutType ==
  ASSUME QueueType, NEW ev, NextTimeout(ev)
  PROVE  timeout_batch' \in Seq(SUBSET TimeoutEvents) /\ ev \in TimeoutEvents
<1>1. timeout_batch \in Seq(SUBSET TimeoutEvents) /\ timeout_batch # <<>>
  BY DEF QueueType, NextTimeout
<1>2. /\ Head(timeout_batch) \in SUBSET TimeoutEvents
      /\ Tail(timeout_batch) \in Seq(SUBSET TimeoutEvents)
  BY <1>1, HeadTailProperties
<1>3. <<Head(timeout_batch) \ {ev}>> \in Seq(SUBSET TimeoutEvents)
  BY <1>2
<1>4. <<Head(timeout_batch) \ {ev}>> \o Tail(timeout_batch) \in Seq(SUBSET TimeoutEvents)
  BY <1>2, <1>3, ConcatProperties
<1> QED
  BY <1>2, <1>4 DEF NextTimeout

\* A time-out event names a job.
LEMMA EventJob == ASSUME NEW ev \in TimeoutEvents PROVE ev.job \in Jobs /\ ev.reason \in Answers
BY DEF TimeoutEvents, Answers

-----------------------------------------------------------------------------
(* The invariant holds initially and is preserved by every step            *)

\* An answer is added to those of its job, and to no other's.
LEMMA AnswerEffect ==
  ASSUME IInv, NEW c \in Jobs, NEW what \in Answers, Answer(c, what)
  PROVE  /\ answers'[c] = Append(answers[c], what) /\ answers'[c] # <<>>
         /\ answers[c] = <<>> => answers' = [answers EXCEPT ![c] = <<what>>]
         /\ \A d \in Jobs \ {c} : answers'[d] = answers[d]
<1>1. answers \in [Jobs -> Seq(Answers)]
  BY DEF IInv, TypeOK
<1>2. Append(answers[c], what) # <<>>
  BY <1>1, AppendProperties
<1>3. answers[c] = <<>> => Append(answers[c], what) = <<what>>
  OBVIOUS
<1> QED
  BY <1>1, <1>2, <1>3 DEF Answer

\* Nothing is registered, requested or tracked at first.
LEMMA InitHolds == Init => IInv
<1> SUFFICES ASSUME Init PROVE IInv
  OBVIOUS
<1>1. TypeOK
  BY DEF Init, TypeOK, RouterPoints, Beats, NoBeat
<1>2. FiniteInv
  BY FS_EmptySet DEF Init, FiniteInv
<1>3. RouterInv /\ HandInv /\ LifeInv /\ OfferInv
  BY DEF Init, RouterInv, HandInv, LifeInv, OfferInv, InHand
<1>4. PendingIsTracked /\ AtMostOneAnswer /\ RecoveryCopiesValid /\ NeverToTimedOut
  BY DEF Init, PendingIsTracked, AtMostOneAnswer, RecoveryCopiesValid, NeverToTimedOut, InHand
<1> QED
  BY <1>1, <1>2, <1>3, <1>4 DEF IInv

\* Only modules that are or were registered get into the module tables.
LEMMA RegistryTypeStep == IInv /\ [Next]_vars => RegistryType'
<1> SUFFICES ASSUME IInv, [Next]_vars PROVE RegistryType'
  OBVIOUS
<1> USE DEF IInv
<1>1. ASSUME UNCHANGED <<modules, former, order, unavailable, busy, beat, expiring>> PROVE
   RegistryType'
  BY <1>1 DEF RegistryType, TypeOK
<1>2. ASSUME MarkUnavailable PROVE RegistryType'
  <2>1. info_handler \in Modules /\ TopicOf[job] \in Topics
    BY <1>2 DEF MarkUnavailable, RouterInv, TypeOK
  <2> QED
    BY <1>2, <2>1 DEF MarkUnavailable, workerVars, RegistryType, TypeOK
<1>3. ASSUME NEW m \in Modules, ReportAvailability(m) PROVE RegistryType'
  <2>1. PICK full \in SUBSET Handles[m] : busy' = {b \in busy : b[1] # m} \cup ({m} \X full)
    BY <1>3 DEF ReportAvailability
  <2>2. busy' \subseteq Modules \X Topics
    BY <2>1 DEF TypeOK
  <2>3. beat' \in Beats
    BY <1>3 DEF ReportAvailability, Beats
  <2> QED
    BY <1>3, <2>2, <2>3 DEF ReportAvailability, RegistryType, TypeOK
<1>4. ASSUME NEW m \in Modules, RecoverHandler(m) PROVE RegistryType'
  <2>1. beat' \in Beats
    BY <1>4 DEF RecoverHandler, Beats
  <2> QED
    BY <1>4, <2>1 DEF RecoverHandler, RegistryType, TypeOK
<1>5. ASSUME PushRecovery PROVE RegistryType'
  <2>1. beat' \in Beats
    BY <1>5 DEF PushRecovery, Beats
  <2> QED
    BY <1>5, <2>1 DEF PushRecovery, moduleVars, RegistryType, TypeOK
<1>6. ASSUME NEW m \in Modules, Register(m) PROVE RegistryType'
  <2>1. Cardinality(modules \cup former) \in Nat
    BY FS_Union, FS_CardinalityType DEF FiniteInv
  <2>2. order' \in [Modules -> Nat]
    BY <1>6, <2>1 DEF Register, TypeOK
  <2> QED
    BY <1>6, <2>2 DEF Register, workerVars, RegistryType, TypeOK
<1>7. ASSUME NEW m \in Modules, Unregister(m) PROVE RegistryType'
  BY <1>7 DEF Unregister, RegistryType, TypeOK
<1>8. ASSUME NEW m \in Modules, ClearHandler(m) PROVE RegistryType'
  BY <1>8 DEF ClearHandler, moduleVars, RegistryType, TypeOK
<1> QED
  BY <1>1, <1>2, <1>3, <1>4, <1>5, <1>6, <1>7, <1>8 DEF Next, Receive, Router, RequestJob,
     RejectRequest, Answer, ReceiveRequest, ReceiveResponse, ForwardResponse,
     ReceiveNothing, QueueRequest, DispatchRequest, Dispatch, DrainTimeouts, SkipTimeout,
     NextTimeout, RunTimeout, TakeOverdue, GiveUp, Fail, ReadAvailable, Redispatch, Return,
     PutBack, PutBackWith, DrainRecoveries, BeginRecovery, CopyJobs, RecoveriesDone,
     RetryWaiting, Scan, ScanOver, PushTimeouts, vars, moduleVars, jobVars, queueVars,
     handVars, batchVars, routerVars, workerVars, worldVars

\* A job is tracked with a module that was found available, or as waiting.
LEMMA TableTypeStep == IInv /\ [Next]_vars => TableType'
<1> SUFFICES ASSUME IInv, [Next]_vars PROVE TableType'
  OBVIOUS
<1> USE DEF IInv
<1>1. ASSUME UNCHANGED <<pending, tracking, round_robin>> PROVE TableType'
  BY <1>1 DEF TableType, TypeOK, RouterInv
<1>2. ASSUME NEW m \in Modules, NEW c \in Jobs, ReceiveResponse(m, c) PROVE TableType'
  BY <1>2 DEF ReceiveResponse, ForwardResponse, Answer, TableType, TypeOK, RouterInv
<1>3. ASSUME QueueRequest PROVE TableType'
  BY <1>3 DEF QueueRequest, TableType, TypeOK, RouterInv
<1>4. ASSUME DispatchRequest PROVE TableType'
  <2>1. PICK h \in available : Dispatch(h)
    BY <1>4 DEF DispatchRequest
  <2>2. job \in Jobs /\ TopicOf[job] \in Topics /\ h \in Modules
    BY <1>4 DEF DispatchRequest, RouterInv, TypeOK
  <2>3. (round_robin[TopicOf[job]] % Cardinality(available)) + 1 \in Nat
    BY <2>2, RoundRobinNat DEF FiniteInv, TypeOK
  <2>4. round_robin' \in [Topics -> Nat]
    BY <2>1, <2>2, <2>3 DEF Dispatch, TypeOK
  <2> QED
    BY <1>4, <2>1, <2>2, <2>4 DEF DispatchRequest, Dispatch, TableType, TypeOK
<1>5. ASSUME RunTimeout PROVE TableType'
  BY <1>5 DEF RunTimeout, TakeOverdue, NextTimeout, TableType, TypeOK, RouterInv
<1>6. ASSUME GiveUp PROVE TableType'
  BY <1>6 DEF GiveUp, Fail, NextTimeout, Answer, TableType, TypeOK, RouterInv
<1>7. ASSUME Redispatch PROVE TableType'
  <2>1. PICK h \in available : Dispatch(h)
    BY <1>7 DEF Redispatch
  <2>2. job \in Jobs /\ TopicOf[job] \in Topics /\ h \in Modules
    BY <1>7 DEF Redispatch, RouterInv, TypeOK
  <2>3. (round_robin[TopicOf[job]] % Cardinality(available)) + 1 \in Nat
    BY <2>2, RoundRobinNat DEF FiniteInv, TypeOK
  <2>4. round_robin' \in [Topics -> Nat]
    BY <2>1, <2>2, <2>3 DEF Dispatch, TypeOK
  <2> QED
    BY <1>7, <2>1, <2>2, <2>4 DEF Redispatch, Dispatch, TableType, TypeOK
<1>8. ASSUME PutBack PROVE TableType'
  BY <1>8 DEF PutBack, PutBackWith, Return, TableType, TypeOK, RouterInv
<1>9. ASSUME NEW c \in Jobs, RetryWaiting(c) PROVE TableType'
  BY <1>9 DEF RetryWaiting, TableType, TypeOK, RouterInv
<1>10. ASSUME NEW m \in Modules, ClearHandler(m) PROVE TableType'
  BY <1>10 DEF ClearHandler, TableType, TypeOK, RouterInv
<1> QED
  BY <1>1, <1>2, <1>3, <1>4, <1>5, <1>6, <1>7, <1>8, <1>9, <1>10 DEF Next, Receive, Router,
     RequestJob, RejectRequest, Answer, ReceiveRequest, ReceiveNothing, DrainTimeouts,
     SkipTimeout, NextTimeout, MarkUnavailable, ReadAvailable, DrainRecoveries,
     BeginRecovery, CopyJobs, RecoveriesDone, Scan, ScanOver, PushTimeouts,
     ReportAvailability, RecoverHandler, PushRecovery, Register, Unregister, vars,
     moduleVars, jobVars, queueVars, handVars, batchVars, routerVars, workerVars, worldVars

\* The queues between the threads carry what was put into them.
LEMMA QueueTypeStep == IInv /\ [Next]_vars => QueueType'
<1> SUFFICES ASSUME IInv, [Next]_vars PROVE QueueType'
  OBVIOUS
<1> USE DEF IInv
<1>1. ASSUME UNCHANGED <<timeout_events, recovery_events, timeout_batch, recovery_batch,
   found>> PROVE QueueType'
  BY <1>1 DEF QueueType, TypeOK
<1>2. ASSUME DrainTimeouts PROVE QueueType'
  BY <1>2 DEF DrainTimeouts, workerVars, QueueType, TypeOK
<1>3. ASSUME SkipTimeout PROVE QueueType'
  <2>1. PICK ev \in TimeoutEvents : NextTimeout(ev)
    BY <1>3 DEF SkipTimeout
  <2>2. timeout_batch' \in Seq(SUBSET TimeoutEvents)
    BY <2>1, NextTimeoutType, TypeParts
  <2> QED
    BY <1>3, <2>2 DEF SkipTimeout, queueVars, workerVars, QueueType, TypeOK
<1>4. ASSUME RunTimeout PROVE QueueType'
  <2>1. PICK ev \in TimeoutEvents : NextTimeout(ev)
    BY <1>4 DEF RunTimeout, TakeOverdue
  <2>2. timeout_batch' \in Seq(SUBSET TimeoutEvents)
    BY <2>1, NextTimeoutType, TypeParts
  <2> QED
    BY <1>4, <2>2 DEF RunTimeout, TakeOverdue, queueVars, workerVars, QueueType, TypeOK
<1>5. ASSUME GiveUp PROVE QueueType'
  <2>1. PICK ev \in TimeoutEvents : NextTimeout(ev)
    BY <1>5 DEF GiveUp, Fail
  <2>2. timeout_batch' \in Seq(SUBSET TimeoutEvents)
    BY <2>1, NextTimeoutType, TypeParts
  <2> QED
    BY <1>5, <2>2 DEF GiveUp, Fail, queueVars, workerVars, QueueType, TypeOK
<1>6. ASSUME DrainRecoveries PROVE QueueType'
  BY <1>6 DEF DrainRecoveries, workerVars, QueueType, TypeOK
<1>7. ASSUME BeginRecovery PROVE QueueType'
  BY <1>7 DEF BeginRecovery, CopyJobs, queueVars, workerVars, QueueType, TypeOK
<1>8. ASSUME NEW late \in SUBSET Jobs, Scan(late) PROVE QueueType'
  <2>1. found' \subseteq TimeoutEvents
    BY <1>8 DEF Scan, ScanOver, TimeoutEvents, Reasons
  <2> QED
    BY <1>8, <2>1 DEF Scan, ScanOver, queueVars, routerVars, batchVars, QueueType, TypeOK
<1>9. ASSUME PushTimeouts PROVE QueueType'
  BY <1>9 DEF PushTimeouts, routerVars, batchVars, QueueType, TypeOK
<1>10. ASSUME PushRecovery PROVE QueueType'
  <2>1. beat.topics \in RecoveryEvents
    BY <1>10 DEF PushRecovery, TypeOK, Beats, NoBeat, RecoveryEvents
  <2>2. recovery_events' \in Seq(RecoveryEvents)
    BY <1>10, <2>1 DEF PushRecovery, TypeOK
  <2> QED
    BY <1>10, <2>2 DEF PushRecovery, routerVars, batchVars, QueueType, TypeOK
<1> QED
  BY <1>1, <1>2, <1>3, <1>4, <1>5, <1>6, <1>7, <1>8, <1>9, <1>10 DEF Next, Receive, Router,
     RequestJob, RejectRequest, Answer, ReceiveRequest, ReceiveResponse, ForwardResponse,
     ReceiveNothing, QueueRequest, DispatchRequest, Dispatch, MarkUnavailable,
     ReadAvailable, Redispatch, Return, PutBack, PutBackWith, RecoveriesDone, RetryWaiting,
     ReportAvailability, RecoverHandler, Register, Unregister, ClearHandler, vars,
     moduleVars, jobVars, queueVars, handVars, batchVars, routerVars, workerVars, worldVars

\* The router has jobs and modules in hand.
LEMMA HandTypeStep == IInv /\ [Next]_vars => HandType'
<1> SUFFICES ASSUME IInv, [Next]_vars PROVE HandType'
  OBVIOUS
<1> USE DEF IInv
<1>1. ASSUME UNCHANGED <<at, job, info_handler, available, waiting>> PROVE HandType'
  BY <1>1 DEF HandType, TypeOK, RouterPoints
<1>2. ASSUME NEW c \in Jobs, RejectRequest(c) PROVE HandType'
  BY <1>2 DEF RejectRequest, Answer, handVars, batchVars, HandType, TypeOK, RouterPoints
<1>3. ASSUME NEW c \in Jobs, ReceiveRequest(c) PROVE HandType'
  BY <1>3, AvailableRegistered DEF ReceiveRequest, batchVars, HandType, TypeOK,
     RouterPoints, FiniteInv
<1>4. ASSUME NEW m \in Modules, NEW c \in Jobs, ReceiveResponse(m, c) PROVE HandType'
  BY <1>4 DEF ReceiveResponse, ForwardResponse, Answer, handVars, batchVars, HandType,
     TypeOK, RouterPoints
<1>5. ASSUME ReceiveNothing PROVE HandType'
  BY <1>5 DEF ReceiveNothing, handVars, batchVars, HandType, TypeOK, RouterPoints
<1>6. ASSUME QueueRequest PROVE HandType'
  BY <1>6 DEF QueueRequest, batchVars, HandType, TypeOK, RouterPoints
<1>7. ASSUME DispatchRequest PROVE HandType'
  BY <1>7 DEF DispatchRequest, Dispatch, batchVars, HandType, TypeOK, RouterPoints
<1>8. ASSUME DrainTimeouts PROVE HandType'
  BY <1>8 DEF DrainTimeouts, handVars, HandType, TypeOK, RouterPoints
<1>9. ASSUME RunTimeout PROVE HandType'
  BY <1>9, EventJob DEF RunTimeout, TakeOverdue, NextTimeout, HandType, TypeOK, RouterPoints
<1>10. ASSUME MarkUnavailable PROVE HandType'
  BY <1>10 DEF MarkUnavailable, handVars, batchVars, HandType, TypeOK, RouterPoints
<1>11. ASSUME ReadAvailable PROVE HandType'
  BY <1>11, AvailableRegistered DEF ReadAvailable, batchVars, HandType, TypeOK,
     RouterPoints, FiniteInv
<1>12. ASSUME Redispatch PROVE HandType'
  BY <1>12 DEF Redispatch, Dispatch, Return, batchVars, HandType, TypeOK, RouterPoints
<1>13. ASSUME PutBack PROVE HandType'
  BY <1>13 DEF PutBack, PutBackWith, Return, batchVars, HandType, TypeOK, RouterPoints
<1>14. ASSUME DrainRecoveries PROVE HandType'
  BY <1>14 DEF DrainRecoveries, handVars, HandType, TypeOK, RouterPoints
<1>15. ASSUME BeginRecovery PROVE HandType'
  BY <1>15 DEF BeginRecovery, CopyJobs, handVars, HandType, TypeOK, RouterPoints
<1>16. ASSUME RecoveriesDone PROVE HandType'
  BY <1>16 DEF RecoveriesDone, handVars, batchVars, HandType, TypeOK, RouterPoints
<1>17. ASSUME NEW c \in Jobs, RetryWaiting(c) PROVE HandType'
  BY <1>17 DEF RetryWaiting, HandType, TypeOK, RouterPoints
<1> QED
  BY <1>1, <1>2, <1>3, <1>4, <1>5, <1>6, <1>7, <1>8, <1>9, <1>10, <1>11, <1>12, <1>13,
     <1>14, <1>15, <1>16, <1>17 DEF Next, Receive, Router, RequestJob, SkipTimeout,
     NextTimeout, GiveUp, Fail, Answer, Scan, ScanOver, PushTimeouts, ReportAvailability,
     RecoverHandler, PushRecovery, Register, Unregister, ClearHandler, vars, moduleVars,
     jobVars, queueVars, handVars, batchVars, routerVars, workerVars, worldVars

\* What is sent is a request, a job for a module, or one of the answers.
LEMMA WorldTypeStep == IInv /\ [Next]_vars => WorldType'
<1> SUFFICES ASSUME IInv, [Next]_vars PROVE WorldType'
  OBVIOUS
<1> USE DEF IInv
<1>1. ASSUME UNCHANGED <<issued, requests, inbox, answers, dead_letters>> PROVE WorldType'
  BY <1>1 DEF WorldType, TypeOK, RouterInv, Answers
<1>2. ASSUME NEW c \in Jobs, RequestJob(c) PROVE WorldType'
  BY <1>2 DEF RequestJob, WorldType, TypeOK, RouterInv, Answers
<1>3. ASSUME NEW c \in Jobs, RejectRequest(c) PROVE WorldType'
  BY <1>3 DEF RejectRequest, Answer, WorldType, TypeOK, RouterInv, Answers
<1>4. ASSUME NEW c \in Jobs, ReceiveRequest(c) PROVE WorldType'
  BY <1>4 DEF ReceiveRequest, WorldType, TypeOK, RouterInv, Answers
<1>5. ASSUME NEW m \in Modules, NEW c \in Jobs, ReceiveResponse(m, c) PROVE WorldType'
  <2>1. answers' \in [Jobs -> Seq(Answers)]
    <3>1. "response" \in Answers
      BY DEF Answers
    <3>2. \/ answers' = [answers EXCEPT ![c] = Append(@, "response")]
          \/ answers' = answers
      BY <1>5 DEF ReceiveResponse, ForwardResponse, Answer
    <3>3. Append(answers[c], "response") \in Seq(Answers)
      BY <3>1, AppendProperties DEF TypeOK
    <3> QED
      BY <3>2, <3>3 DEF TypeOK
  <2>2. inbox' \subseteq Modules \X Jobs
    BY <1>5 DEF ReceiveResponse, ForwardResponse, TypeOK
  <2> QED
    BY <1>5, <2>1, <2>2 DEF ReceiveResponse, ForwardResponse, WorldType, TypeOK
<1>6. ASSUME DispatchRequest PROVE WorldType'
  BY <1>6 DEF DispatchRequest, Dispatch, WorldType, TypeOK, RouterInv, Answers
<1>7. ASSUME GiveUp PROVE WorldType'
  <2>1. PICK ev \in TimeoutEvents : Fail(ev, pending \ {ev.job})
    BY <1>7 DEF GiveUp
  <2>2. ev.job \in Jobs /\ ev.reason \in Answers
    BY EventJob
  <2>3. answers' \in [Jobs -> Seq(Answers)]
    BY <2>1, <2>2 DEF Fail, Answer, TypeOK
  <2> QED
    BY <2>1, <2>2, <2>3 DEF Fail, WorldType, TypeOK
<1>8. ASSUME Redispatch PROVE WorldType'
  BY <1>8 DEF Redispatch, Dispatch, Return, WorldType, TypeOK, RouterInv, Answers
<1> QED
  BY <1>1, <1>2, <1>3, <1>4, <1>5, <1>6, <1>7, <1>8 DEF Next, Receive, Router,
     ReceiveNothing, QueueRequest, DrainTimeouts, SkipTimeout, NextTimeout, RunTimeout,
     TakeOverdue, MarkUnavailable, ReadAvailable, PutBack, PutBackWith, Return,
     DrainRecoveries, BeginRecovery, CopyJobs, RecoveriesDone, RetryWaiting, Scan, ScanOver,
     PushTimeouts, ReportAvailability, RecoverHandler, PushRecovery, Register, Unregister,
     ClearHandler, vars, moduleVars, jobVars, queueVars, handVars, batchVars, routerVars,
     workerVars, worldVars

\* A registration adds one module, and a list of handlers is part of the registry.
LEMMA FiniteStep == IInv /\ [Next]_vars => FiniteInv'
<1> SUFFICES ASSUME IInv, [Next]_vars PROVE FiniteInv'
  OBVIOUS
<1> USE DEF IInv
<1>1. ASSUME UNCHANGED <<modules, former, available>> PROVE FiniteInv'
  BY <1>1 DEF FiniteInv
<1>2. ASSUME NEW c \in Jobs, ReceiveRequest(c) PROVE FiniteInv'
  BY <1>2, AvailableRegistered DEF ReceiveRequest, moduleVars, FiniteInv, TypeOK
<1>3. ASSUME DispatchRequest PROVE FiniteInv'
  BY <1>3, FS_EmptySet DEF DispatchRequest, Dispatch, moduleVars, FiniteInv
<1>4. ASSUME ReadAvailable PROVE FiniteInv'
  BY <1>4, AvailableRegistered DEF ReadAvailable, moduleVars, FiniteInv, TypeOK
<1>5. ASSUME Redispatch PROVE FiniteInv'
  BY <1>5, FS_EmptySet DEF Redispatch, Dispatch, Return, moduleVars, FiniteInv
<1>6. ASSUME PutBack PROVE FiniteInv'
  BY <1>6, FS_EmptySet DEF PutBack, PutBackWith, Return, moduleVars, FiniteInv
<1>7. ASSUME NEW m \in Modules, Register(m) PROVE FiniteInv'
  BY <1>7, FS_AddElement DEF Register, routerVars, handVars, FiniteInv
<1>8. ASSUME NEW m \in Modules, Unregister(m) PROVE FiniteInv'
  BY <1>8, FS_AddElement, FS_RemoveElement DEF Unregister, routerVars, handVars, FiniteInv
<1> QED
  BY <1>1, <1>2, <1>3, <1>4, <1>5, <1>6, <1>7, <1>8 DEF Next, Receive, Router, RequestJob,
     RejectRequest, Answer, ReceiveResponse, ForwardResponse, ReceiveNothing, QueueRequest,
     DrainTimeouts, SkipTimeout, NextTimeout, RunTimeout, TakeOverdue, GiveUp, Fail,
     MarkUnavailable, DrainRecoveries, BeginRecovery, CopyJobs, RecoveriesDone,
     RetryWaiting, Scan, ScanOver, PushTimeouts, ReportAvailability, RecoverHandler,
     PushRecovery, ClearHandler, vars, moduleVars, jobVars, queueVars, handVars, batchVars,
     routerVars, workerVars, worldVars

\* The router takes things in hand and puts them down together.
LEMMA RouterStep == IInv /\ [Next]_vars => RouterInv'
<1> SUFFICES ASSUME IInv, [Next]_vars PROVE RouterInv'
  OBVIOUS
<1> USE DEF IInv
<1>1. ASSUME UNCHANGED <<at, job, info_handler, waiting>> PROVE RouterInv'
  BY <1>1 DEF RouterInv, TypeOK
<1>2. ASSUME NEW c \in Jobs, RejectRequest(c) PROVE RouterInv'
  BY <1>2 DEF RejectRequest, Answer, handVars, batchVars, RouterInv, TypeOK
<1>3. ASSUME NEW c \in Jobs, ReceiveRequest(c) PROVE RouterInv'
  BY <1>3 DEF ReceiveRequest, batchVars, RouterInv, TypeOK
<1>4. ASSUME NEW m \in Modules, NEW c \in Jobs, ReceiveResponse(m, c) PROVE RouterInv'
  BY <1>4 DEF ReceiveResponse, ForwardResponse, Answer, handVars, batchVars, RouterInv,
     TypeOK
<1>5. ASSUME ReceiveNothing PROVE RouterInv'
  BY <1>5 DEF ReceiveNothing, handVars, batchVars, RouterInv, TypeOK
<1>6. ASSUME QueueRequest PROVE RouterInv'
  BY <1>6 DEF QueueRequest, batchVars, RouterInv, TypeOK
<1>7. ASSUME DispatchRequest PROVE RouterInv'
  BY <1>7 DEF DispatchRequest, Dispatch, batchVars, RouterInv, TypeOK
<1>8. ASSUME DrainTimeouts PROVE RouterInv'
  BY <1>8 DEF DrainTimeouts, handVars, RouterInv, TypeOK
<1>9. ASSUME RunTimeout PROVE RouterInv'
  BY <1>9, EventJob DEF RunTimeout, TakeOverdue, NextTimeout, RouterInv, TypeOK
<1>10. ASSUME MarkUnavailable PROVE RouterInv'
  BY <1>10 DEF MarkUnavailable, handVars, batchVars, RouterInv, TypeOK
<1>11. ASSUME ReadAvailable PROVE RouterInv'
  BY <1>11 DEF ReadAvailable, batchVars, RouterInv, TypeOK
<1>12. ASSUME Redispatch PROVE RouterInv'
  BY <1>12 DEF Redispatch, Dispatch, Return, batchVars, RouterInv, TypeOK
<1>13. ASSUME PutBack PROVE RouterInv'
  BY <1>13 DEF PutBack, PutBackWith, Return, batchVars, RouterInv, TypeOK
<1>14. ASSUME DrainRecoveries PROVE RouterInv'
  BY <1>14 DEF DrainRecoveries, handVars, RouterInv, TypeOK
<1>15. ASSUME BeginRecovery PROVE RouterInv'
  BY <1>15 DEF BeginRecovery, CopyJobs, handVars, RouterInv, TypeOK
<1>16. ASSUME RecoveriesDone PROVE RouterInv'
  BY <1>16 DEF RecoveriesDone, handVars, batchVars, RouterInv, TypeOK
<1>17. ASSUME NEW c \in Jobs, RetryWaiting(c) PROVE RouterInv'
  BY <1>17 DEF RetryWaiting, RouterInv, TypeOK
<1> QED
  BY <1>1, <1>2, <1>3, <1>4, <1>5, <1>6, <1>7, <1>8, <1>9, <1>10, <1>11, <1>12, <1>13,
     <1>14, <1>15, <1>16, <1>17 DEF Next, Receive, Router, RequestJob, SkipTimeout,
     NextTimeout, GiveUp, Fail, Answer, Scan, ScanOver, PushTimeouts, ReportAvailability,
     RecoverHandler, PushRecovery, Register, Unregister, ClearHandler, vars, moduleVars,
     jobVars, queueVars, handVars, batchVars, routerVars, workerVars, worldVars

\* Nobody else tracks a job that the router has in hand.
LEMMA HandStep == IInv /\ [Next]_vars => HandInv'
<1> SUFFICES ASSUME IInv, [Next]_vars PROVE HandInv'
  OBVIOUS
<1> USE DEF IInv
<1>1. ASSUME UNCHANGED <<at, job, tracking>> PROVE HandInv'
  BY <1>1 DEF HandInv, InHand, RouterInv, TypeOK
<1>2. ASSUME NEW c \in Jobs, RejectRequest(c) PROVE HandInv'
  BY <1>2 DEF RejectRequest, Answer, jobVars, handVars, HandInv, InHand, RouterInv, TypeOK
<1>3. ASSUME NEW c \in Jobs, ReceiveRequest(c) PROVE HandInv'
  BY <1>3 DEF ReceiveRequest, jobVars, HandInv, InHand, RouterInv, TypeOK
<1>4. ASSUME NEW m \in Modules, NEW c \in Jobs, ReceiveResponse(m, c) PROVE HandInv'
  BY <1>4 DEF ReceiveResponse, ForwardResponse, Answer, handVars, HandInv, InHand,
     RouterInv, TypeOK
<1>5. ASSUME ReceiveNothing PROVE HandInv'
  BY <1>5 DEF ReceiveNothing, jobVars, handVars, HandInv, InHand, RouterInv, TypeOK
<1>6. ASSUME QueueRequest PROVE HandInv'
  BY <1>6 DEF QueueRequest, HandInv, InHand, RouterInv, TypeOK
<1>7. ASSUME DispatchRequest PROVE HandInv'
  BY <1>7 DEF DispatchRequest, Dispatch, HandInv, InHand, RouterInv, TypeOK
<1>8. ASSUME DrainTimeouts PROVE HandInv'
  BY <1>8 DEF DrainTimeouts, jobVars, handVars, HandInv, InHand, RouterInv, TypeOK
<1>9. ASSUME RunTimeout PROVE HandInv'
  BY <1>9 DEF RunTimeout, TakeOverdue, NextTimeout, HandInv, InHand, RouterInv, TypeOK
<1>10. ASSUME GiveUp PROVE HandInv'
  BY <1>10 DEF GiveUp, Fail, NextTimeout, Answer, handVars, HandInv, InHand, RouterInv,
     TypeOK
<1>11. ASSUME MarkUnavailable PROVE HandInv'
  BY <1>11 DEF MarkUnavailable, jobVars, handVars, HandInv, InHand, RouterInv, TypeOK
<1>12. ASSUME ReadAvailable PROVE HandInv'
  BY <1>12 DEF ReadAvailable, jobVars, HandInv, InHand, RouterInv, TypeOK
<1>13. ASSUME Redispatch PROVE HandInv'
  BY <1>13 DEF Redispatch, Dispatch, Return, HandInv, InHand, RouterInv, TypeOK
<1>14. ASSUME PutBack PROVE HandInv'
  BY <1>14 DEF PutBack, PutBackWith, Return, HandInv, InHand, RouterInv, TypeOK
<1>15. ASSUME DrainRecoveries PROVE HandInv'
  BY <1>15 DEF DrainRecoveries, jobVars, handVars, HandInv, InHand, RouterInv, TypeOK
<1>16. ASSUME RecoveriesDone PROVE HandInv'
  BY <1>16 DEF RecoveriesDone, jobVars, handVars, HandInv, InHand, RouterInv, TypeOK
<1>17. ASSUME NEW c \in Jobs, RetryWaiting(c) PROVE HandInv'
  BY <1>17 DEF RetryWaiting, HandInv, InHand, RouterInv, TypeOK
<1>18. ASSUME NEW m \in Modules, ClearHandler(m) PROVE HandInv'
  BY <1>18 DEF ClearHandler, routerVars, handVars, HandInv, InHand, RouterInv, TypeOK
<1> QED
  BY <1>1, <1>2, <1>3, <1>4, <1>5, <1>6, <1>7, <1>8, <1>9, <1>10, <1>11, <1>12, <1>13,
     <1>14, <1>15, <1>16, <1>17, <1>18 DEF Next, Receive, Router, RequestJob, SkipTimeout,
     NextTimeout, BeginRecovery, CopyJobs, Scan, ScanOver, PushTimeouts, ReportAvailability,
     RecoverHandler, PushRecovery, Register, Unregister, vars, moduleVars, jobVars,
     queueVars, handVars, batchVars, routerVars, workerVars, worldVars

\* A job goes through its life in one direction.
LEMMA LifeStep == IInv /\ [Next]_vars => LifeInv'
<1> SUFFICES ASSUME IInv, [Next]_vars PROVE LifeInv'
  OBVIOUS
<1> USE DEF IInv
<1>1. ASSUME UNCHANGED <<at, job, issued, requests, pending, answers>> PROVE LifeInv'
  BY <1>1 DEF LifeInv, RouterInv, PendingIsTracked, InHand, TypeOK
<1>2. ASSUME NEW c \in Jobs, RequestJob(c) PROVE LifeInv'
  BY <1>2 DEF RequestJob, jobVars, routerVars, handVars, LifeInv, RouterInv,
     PendingIsTracked, InHand, TypeOK
<1>3. ASSUME NEW c \in Jobs, RejectRequest(c) PROVE LifeInv'
  BY <1>3 DEF RejectRequest, Answer, jobVars, handVars, LifeInv, RouterInv,
     PendingIsTracked, InHand, TypeOK
<1>4. ASSUME NEW c \in Jobs, ReceiveRequest(c) PROVE LifeInv'
  BY <1>4 DEF ReceiveRequest, jobVars, LifeInv, RouterInv, PendingIsTracked, InHand, TypeOK
<1>5. ASSUME NEW m \in Modules, NEW c \in Jobs, ReceiveResponse(m, c) PROVE LifeInv'
  BY <1>5 DEF ReceiveResponse, ForwardResponse, Answer, handVars, LifeInv, RouterInv,
     PendingIsTracked, InHand, TypeOK
<1>6. ASSUME ReceiveNothing PROVE LifeInv'
  BY <1>6 DEF ReceiveNothing, jobVars, handVars, worldVars, LifeInv, RouterInv,
     PendingIsTracked, InHand, TypeOK
<1>7. ASSUME QueueRequest PROVE LifeInv'
  BY <1>7 DEF QueueRequest, worldVars, LifeInv, RouterInv, PendingIsTracked, InHand, TypeOK
<1>8. ASSUME DispatchRequest PROVE LifeInv'
  BY <1>8 DEF DispatchRequest, Dispatch, LifeInv, RouterInv, PendingIsTracked, InHand,
     TypeOK
<1>9. ASSUME DrainTimeouts PROVE LifeInv'
  BY <1>9 DEF DrainTimeouts, jobVars, handVars, worldVars, LifeInv, RouterInv,
     PendingIsTracked, InHand, TypeOK
<1>10. ASSUME RunTimeout PROVE LifeInv'
  BY <1>10 DEF RunTimeout, TakeOverdue, NextTimeout, worldVars, LifeInv, RouterInv,
     PendingIsTracked, InHand, TypeOK
<1>11. ASSUME GiveUp PROVE LifeInv'
  BY <1>11 DEF GiveUp, Fail, NextTimeout, Answer, handVars, LifeInv, RouterInv,
     PendingIsTracked, InHand, TypeOK
<1>12. ASSUME MarkUnavailable PROVE LifeInv'
  BY <1>12 DEF MarkUnavailable, jobVars, handVars, worldVars, LifeInv, RouterInv,
     PendingIsTracked, InHand, TypeOK
<1>13. ASSUME ReadAvailable PROVE LifeInv'
  BY <1>13 DEF ReadAvailable, jobVars, worldVars, LifeInv, RouterInv, PendingIsTracked,
     InHand, TypeOK
<1>14. ASSUME Redispatch PROVE LifeInv'
  BY <1>14 DEF Redispatch, Dispatch, Return, LifeInv, RouterInv, PendingIsTracked, InHand,
     TypeOK
<1>15. ASSUME PutBack PROVE LifeInv'
  BY <1>15 DEF PutBack, PutBackWith, Return, worldVars, LifeInv, RouterInv,
     PendingIsTracked, InHand, TypeOK
<1>16. ASSUME DrainRecoveries PROVE LifeInv'
  BY <1>16 DEF DrainRecoveries, jobVars, handVars, worldVars, LifeInv, RouterInv,
     PendingIsTracked, InHand, TypeOK
<1>17. ASSUME RecoveriesDone PROVE LifeInv'
  BY <1>17 DEF RecoveriesDone, jobVars, handVars, worldVars, LifeInv, RouterInv,
     PendingIsTracked, InHand, TypeOK
<1>18. ASSUME NEW c \in Jobs, RetryWaiting(c) PROVE LifeInv'
  BY <1>18 DEF RetryWaiting, worldVars, LifeInv, RouterInv, RecoveryCopiesValid,
     PendingIsTracked, InHand, TypeOK
<1> QED
  BY <1>1, <1>2, <1>3, <1>4, <1>5, <1>6, <1>7, <1>8, <1>9, <1>10, <1>11, <1>12, <1>13,
     <1>14, <1>15, <1>16, <1>17, <1>18 DEF Next, Receive, Router, SkipTimeout, NextTimeout,
     BeginRecovery, CopyJobs, Scan, ScanOver, PushTimeouts, ReportAvailability,
     RecoverHandler, PushRecovery, Register, Unregister, ClearHandler, vars, moduleVars,
     jobVars, queueVars, handVars, batchVars, routerVars, workerVars, worldVars

\* A job that leaves _pending_jobs is answered.
LEMMA OfferStep == IInv /\ [Next]_vars => OfferInv'
<1> SUFFICES ASSUME IInv, [Next]_vars PROVE OfferInv'
  OBVIOUS
<1> USE DEF IInv
<1>1. ASSUME UNCHANGED <<inbox, pending, answers>> PROVE OfferInv'
  BY <1>1 DEF OfferInv, PendingIsTracked, InHand, RouterInv, TypeOK
<1>2. ASSUME NEW c \in Jobs, RejectRequest(c) PROVE OfferInv'
  <2>1. /\ answers'[c] = Append(answers[c], "no_handler") /\ Append(answers[c], "no_handler") # <<>>
        /\ \A d \in Jobs \ {c} : answers'[d] = answers[d]
    BY <1>2, AnswerEffect DEF RejectRequest, Answers
  <2> QED
    BY <1>2, <2>1 DEF RejectRequest, jobVars, OfferInv
<1>3. ASSUME NEW m \in Modules, NEW c \in Jobs, ReceiveResponse(m, c) PROVE OfferInv'
  <2>1. CASE c \in pending
    <3>1. answers'[c] # <<>> /\ \A d \in Jobs \ {c} : answers'[d] = answers[d]
      BY <1>3, <2>1, AnswerEffect DEF ReceiveResponse, ForwardResponse, Answers
    <3>2. inbox' \subseteq inbox /\ pending' = pending \ {c}
      BY <1>3, <2>1 DEF ReceiveResponse, ForwardResponse
    <3> QED
      BY <3>1, <3>2 DEF OfferInv
  <2>2. CASE c \notin pending
    BY <1>3, <2>2 DEF ReceiveResponse, ForwardResponse, OfferInv
  <2> QED
    BY <2>1, <2>2
<1>4. ASSUME QueueRequest PROVE OfferInv'
  BY <1>4 DEF QueueRequest, worldVars, OfferInv, PendingIsTracked, InHand, RouterInv, TypeOK
<1>5. ASSUME DispatchRequest PROVE OfferInv'
  BY <1>5 DEF DispatchRequest, Dispatch, OfferInv, PendingIsTracked, InHand, RouterInv,
     TypeOK
<1>6. ASSUME GiveUp PROVE OfferInv'
  <2>1. PICK ev \in TimeoutEvents : Fail(ev, pending \ {ev.job})
    BY <1>6 DEF GiveUp
  <2>2. ev.job \in Jobs /\ ev.reason \in Answers
    BY EventJob
  <2>3. answers'[ev.job] # <<>> /\ \A d \in Jobs \ {ev.job} : answers'[d] = answers[d]
    BY <2>1, <2>2, AnswerEffect DEF Fail
  <2> QED
    BY <2>1, <2>3 DEF Fail, OfferInv
<1>7. ASSUME Redispatch PROVE OfferInv'
  BY <1>7 DEF Redispatch, Dispatch, Return, OfferInv, PendingIsTracked, InHand, RouterInv,
     TypeOK
<1> QED
  BY <1>1, <1>2, <1>3, <1>4, <1>5, <1>6, <1>7 DEF Next, Receive, Router, RequestJob,
     ReceiveRequest, ReceiveNothing, DrainTimeouts, SkipTimeout, NextTimeout, RunTimeout,
     TakeOverdue, MarkUnavailable, ReadAvailable, PutBack, PutBackWith, Return,
     DrainRecoveries, BeginRecovery, CopyJobs, RecoveriesDone, RetryWaiting, Scan, ScanOver,
     PushTimeouts, ReportAvailability, RecoverHandler, PushRecovery, Register, Unregister,
     ClearHandler, vars, moduleVars, jobVars, queueVars, handVars, batchVars, routerVars,
     workerVars, worldVars

\* _pending_jobs and _job_tracking change together.
LEMMA PendingStep == IInv /\ [Next]_vars => PendingIsTracked'
<1> SUFFICES ASSUME IInv, [Next]_vars PROVE PendingIsTracked'
  OBVIOUS
<1> USE DEF IInv
<1>1. ASSUME UNCHANGED <<at, job, pending, tracking>> PROVE PendingIsTracked'
  BY <1>1 DEF PendingIsTracked, InHand, HandInv, RouterInv, TypeOK
<1>2. ASSUME NEW c \in Jobs, RejectRequest(c) PROVE PendingIsTracked'
  BY <1>2 DEF RejectRequest, Answer, jobVars, handVars, PendingIsTracked, InHand, HandInv,
     RouterInv, TypeOK
<1>3. ASSUME NEW c \in Jobs, ReceiveRequest(c) PROVE PendingIsTracked'
  BY <1>3 DEF ReceiveRequest, jobVars, PendingIsTracked, InHand, HandInv, RouterInv, TypeOK
<1>4. ASSUME NEW m \in Modules, NEW c \in Jobs, ReceiveResponse(m, c) PROVE
   PendingIsTracked'
  BY <1>4 DEF ReceiveResponse, ForwardResponse, Answer, handVars, PendingIsTracked, InHand,
     HandInv, RouterInv, TypeOK
<1>5. ASSUME ReceiveNothing PROVE PendingIsTracked'
  BY <1>5 DEF ReceiveNothing, jobVars, handVars, PendingIsTracked, InHand, HandInv,
     RouterInv, TypeOK
<1>6. ASSUME QueueRequest PROVE PendingIsTracked'
  BY <1>6 DEF QueueRequest, PendingIsTracked, InHand, HandInv, RouterInv, TypeOK
<1>7. ASSUME DispatchRequest PROVE PendingIsTracked'
  BY <1>7 DEF DispatchRequest, Dispatch, PendingIsTracked, InHand, HandInv, RouterInv,
     TypeOK
<1>8. ASSUME DrainTimeouts PROVE PendingIsTracked'
  BY <1>8 DEF DrainTimeouts, jobVars, handVars, PendingIsTracked, InHand, HandInv,
     RouterInv, TypeOK
<1>9. ASSUME RunTimeout PROVE PendingIsTracked'
  BY <1>9 DEF RunTimeout, TakeOverdue, NextTimeout, PendingIsTracked, InHand, HandInv,
     RouterInv, TypeOK
<1>10. ASSUME GiveUp PROVE PendingIsTracked'
  BY <1>10 DEF GiveUp, Fail, NextTimeout, Answer, handVars, PendingIsTracked, InHand,
     HandInv, RouterInv, TypeOK
<1>11. ASSUME MarkUnavailable PROVE PendingIsTracked'
  BY <1>11 DEF MarkUnavailable, jobVars, handVars, PendingIsTracked, InHand, HandInv,
     RouterInv, TypeOK
<1>12. ASSUME ReadAvailable PROVE PendingIsTracked'
  BY <1>12 DEF ReadAvailable, jobVars, PendingIsTracked, InHand, HandInv, RouterInv, TypeOK
<1>13. ASSUME Redispatch PROVE PendingIsTracked'
  BY <1>13 DEF Redispatch, Dispatch, Return, PendingIsTracked, InHand, HandInv, RouterInv,
     TypeOK
<1>14. ASSUME PutBack PROVE PendingIsTracked'
  BY <1>14 DEF PutBack, PutBackWith, Return, PendingIsTracked, InHand, HandInv, RouterInv,
     TypeOK
<1>15. ASSUME DrainRecoveries PROVE PendingIsTracked'
  BY <1>15 DEF DrainRecoveries, jobVars, handVars, PendingIsTracked, InHand, HandInv,
     RouterInv, TypeOK
<1>16. ASSUME RecoveriesDone PROVE PendingIsTracked'
  BY <1>16 DEF RecoveriesDone, jobVars, handVars, PendingIsTracked, InHand, HandInv,
     RouterInv, TypeOK
<1>17. ASSUME NEW c \in Jobs, RetryWaiting(c) PROVE PendingIsTracked'
  BY <1>17 DEF RetryWaiting, PendingIsTracked, InHand, HandInv, RouterInv,
     RecoveryCopiesValid, TypeOK
<1>18. ASSUME NEW m \in Modules, ClearHandler(m) PROVE PendingIsTracked'
  BY <1>18 DEF ClearHandler, routerVars, handVars, PendingIsTracked, InHand, HandInv,
     RouterInv, TypeOK
<1> QED
  BY <1>1, <1>2, <1>3, <1>4, <1>5, <1>6, <1>7, <1>8, <1>9, <1>10, <1>11, <1>12, <1>13,
     <1>14, <1>15, <1>16, <1>17, <1>18 DEF Next, Receive, Router, RequestJob, SkipTimeout,
     NextTimeout, BeginRecovery, CopyJobs, Scan, ScanOver, PushTimeouts, ReportAvailability,
     RecoverHandler, PushRecovery, Register, Unregister, vars, moduleVars, jobVars,
     queueVars, handVars, batchVars, routerVars, workerVars, worldVars

\* Only a job without an answer is answered.
LEMMA AnswerStep == IInv /\ [Next]_vars => AtMostOneAnswer'
<1> SUFFICES ASSUME IInv, [Next]_vars PROVE AtMostOneAnswer'
  OBVIOUS
<1> USE DEF IInv
<1>1. ASSUME UNCHANGED <<answers>> PROVE AtMostOneAnswer'
  BY <1>1 DEF AtMostOneAnswer, LifeInv, PendingIsTracked, TypeOK
<1>2. ASSUME NEW c \in Jobs, RejectRequest(c) PROVE AtMostOneAnswer'
  BY <1>2 DEF RejectRequest, Answer, AtMostOneAnswer, LifeInv, PendingIsTracked, TypeOK
<1>3. ASSUME NEW m \in Modules, NEW c \in Jobs, ReceiveResponse(m, c) PROVE AtMostOneAnswer'
  <2>1. CASE c \in pending
    <3>1. answers[c] = <<>> /\ answers' = [answers EXCEPT ![c] = Append(@, "response")]
      BY <1>3, <2>1 DEF ReceiveResponse, ForwardResponse, Answer, LifeInv
    <3>2. Len(answers'[c]) = 1
      BY <3>1 DEF TypeOK
    <3> QED
      BY <3>1, <3>2 DEF AtMostOneAnswer, TypeOK
  <2>2. CASE c \notin pending
    BY <1>3, <2>2 DEF ReceiveResponse, ForwardResponse, AtMostOneAnswer
  <2> QED
    BY <2>1, <2>2
<1>4. ASSUME GiveUp PROVE AtMostOneAnswer'
  BY <1>4 DEF GiveUp, Fail, NextTimeout, Answer, AtMostOneAnswer, LifeInv, PendingIsTracked,
     TypeOK
<1> QED
  BY <1>1, <1>2, <1>3, <1>4 DEF Next, Receive, Router, RequestJob, ReceiveRequest,
     ReceiveNothing, QueueRequest, DispatchRequest, Dispatch, DrainTimeouts, SkipTimeout,
     NextTimeout, RunTimeout, TakeOverdue, MarkUnavailable, ReadAvailable, Redispatch,
     Return, PutBack, PutBackWith, DrainRecoveries, BeginRecovery, CopyJobs, RecoveriesDone,
     RetryWaiting, Scan, ScanOver, PushTimeouts, ReportAvailability, RecoverHandler,
     PushRecovery, Register, Unregister, ClearHandler, vars, moduleVars, jobVars, queueVars,
     handVars, batchVars, routerVars, workerVars, worldVars

\* While a recovery is under way, no other thread gives a waiting job a handler.
LEMMA CopiesStep == IInv /\ [Next]_vars => RecoveryCopiesValid'
<1> SUFFICES ASSUME IInv, [Next]_vars PROVE RecoveryCopiesValid'
  OBVIOUS
<1> USE DEF IInv
<1>1. ASSUME UNCHANGED <<waiting, tracking>> PROVE RecoveryCopiesValid'
  BY <1>1 DEF RecoveryCopiesValid, HandInv, InHand, RouterInv, TypeOK
<1>2. ASSUME NEW m \in Modules, NEW c \in Jobs, ReceiveResponse(m, c) PROVE
   RecoveryCopiesValid'
  BY <1>2 DEF ReceiveResponse, ForwardResponse, Answer, batchVars, RecoveryCopiesValid,
     HandInv, InHand, RouterInv, TypeOK
<1>3. ASSUME QueueRequest PROVE RecoveryCopiesValid'
  BY <1>3 DEF QueueRequest, batchVars, RecoveryCopiesValid, HandInv, InHand, RouterInv,
     TypeOK
<1>4. ASSUME DispatchRequest PROVE RecoveryCopiesValid'
  BY <1>4 DEF DispatchRequest, Dispatch, batchVars, RecoveryCopiesValid, HandInv, InHand,
     RouterInv, TypeOK
<1>5. ASSUME RunTimeout PROVE RecoveryCopiesValid'
  BY <1>5 DEF RunTimeout, TakeOverdue, NextTimeout, RecoveryCopiesValid, HandInv, InHand,
     RouterInv, TypeOK
<1>6. ASSUME GiveUp PROVE RecoveryCopiesValid'
  BY <1>6 DEF GiveUp, Fail, NextTimeout, Answer, RecoveryCopiesValid, HandInv, InHand,
     RouterInv, TypeOK
<1>7. ASSUME Redispatch PROVE RecoveryCopiesValid'
  BY <1>7 DEF Redispatch, Dispatch, Return, batchVars, RecoveryCopiesValid, HandInv, InHand,
     RouterInv, TypeOK
<1>8. ASSUME PutBack PROVE RecoveryCopiesValid'
  BY <1>8 DEF PutBack, PutBackWith, Return, batchVars, RecoveryCopiesValid, HandInv, InHand,
     RouterInv, TypeOK
<1>9. ASSUME BeginRecovery PROVE RecoveryCopiesValid'
  BY <1>9 DEF BeginRecovery, CopyJobs, jobVars, RecoveryCopiesValid, HandInv, InHand,
     RouterInv, TypeOK
<1>10. ASSUME NEW c \in Jobs, RetryWaiting(c) PROVE RecoveryCopiesValid'
  BY <1>10 DEF RetryWaiting, RecoveryCopiesValid, HandInv, InHand, RouterInv, TypeOK
<1>11. ASSUME NEW m \in Modules, ClearHandler(m) PROVE RecoveryCopiesValid'
  BY <1>11 DEF ClearHandler, routerVars, batchVars, RecoveryCopiesValid, HandInv, InHand,
     RouterInv, TypeOK
<1> QED
  BY <1>1, <1>2, <1>3, <1>4, <1>5, <1>6, <1>7, <1>8, <1>9, <1>10, <1>11 DEF Next, Receive,
     Router, RequestJob, RejectRequest, Answer, ReceiveRequest, ReceiveNothing,
     DrainTimeouts, SkipTimeout, NextTimeout, MarkUnavailable, ReadAvailable,
     DrainRecoveries, RecoveriesDone, Scan, ScanOver, PushTimeouts, ReportAvailability,
     RecoverHandler, PushRecovery, Register, Unregister, vars, moduleVars, jobVars,
     queueVars, handVars, batchVars, routerVars, workerVars, worldVars

\* Handlers are marked by the router only, and not while it holds a list of them.
LEMMA TimedOutStep == IInv /\ [Next]_vars => NeverToTimedOut'
<1> SUFFICES ASSUME IInv, [Next]_vars PROVE NeverToTimedOut'
  OBVIOUS
<1> USE DEF IInv
<1>1. ASSUME UNCHANGED <<at, job, available, unavailable>> PROVE NeverToTimedOut'
  BY <1>1 DEF NeverToTimedOut, RouterInv, AvailableHandlers, IsHandlerAvailable, TypeOK
<1>2. ASSUME NEW c \in Jobs, RejectRequest(c) PROVE NeverToTimedOut'
  BY <1>2 DEF RejectRequest, Answer, moduleVars, handVars, NeverToTimedOut, RouterInv,
     AvailableHandlers, IsHandlerAvailable, TypeOK
<1>3. ASSUME NEW c \in Jobs, ReceiveRequest(c) PROVE NeverToTimedOut'
  BY <1>3 DEF ReceiveRequest, moduleVars, NeverToTimedOut, RouterInv, AvailableHandlers,
     IsHandlerAvailable, TypeOK
<1>4. ASSUME NEW m \in Modules, NEW c \in Jobs, ReceiveResponse(m, c) PROVE NeverToTimedOut'
  BY <1>4 DEF ReceiveResponse, ForwardResponse, Answer, moduleVars, handVars,
     NeverToTimedOut, RouterInv, AvailableHandlers, IsHandlerAvailable, TypeOK
<1>5. ASSUME ReceiveNothing PROVE NeverToTimedOut'
  BY <1>5 DEF ReceiveNothing, moduleVars, handVars, NeverToTimedOut, RouterInv,
     AvailableHandlers, IsHandlerAvailable, TypeOK
<1>6. ASSUME QueueRequest PROVE NeverToTimedOut'
  BY <1>6 DEF QueueRequest, moduleVars, NeverToTimedOut, RouterInv, AvailableHandlers,
     IsHandlerAvailable, TypeOK
<1>7. ASSUME DispatchRequest PROVE NeverToTimedOut'
  BY <1>7 DEF DispatchRequest, Dispatch, moduleVars, NeverToTimedOut, RouterInv,
     AvailableHandlers, IsHandlerAvailable, TypeOK
<1>8. ASSUME DrainTimeouts PROVE NeverToTimedOut'
  BY <1>8 DEF DrainTimeouts, moduleVars, handVars, NeverToTimedOut, RouterInv,
     AvailableHandlers, IsHandlerAvailable, TypeOK
<1>9. ASSUME RunTimeout PROVE NeverToTimedOut'
  BY <1>9 DEF RunTimeout, TakeOverdue, NextTimeout, moduleVars, NeverToTimedOut, RouterInv,
     AvailableHandlers, IsHandlerAvailable, TypeOK
<1>10. ASSUME MarkUnavailable PROVE NeverToTimedOut'
  BY <1>10 DEF MarkUnavailable, handVars, NeverToTimedOut, RouterInv, AvailableHandlers,
     IsHandlerAvailable, TypeOK
<1>11. ASSUME ReadAvailable PROVE NeverToTimedOut'
  BY <1>11 DEF ReadAvailable, moduleVars, NeverToTimedOut, RouterInv, AvailableHandlers,
     IsHandlerAvailable, TypeOK
<1>12. ASSUME Redispatch PROVE NeverToTimedOut'
  BY <1>12 DEF Redispatch, Dispatch, Return, moduleVars, NeverToTimedOut, RouterInv,
     AvailableHandlers, IsHandlerAvailable, TypeOK
<1>13. ASSUME PutBack PROVE NeverToTimedOut'
  BY <1>13 DEF PutBack, PutBackWith, Return, moduleVars, NeverToTimedOut, RouterInv,
     AvailableHandlers, IsHandlerAvailable, TypeOK
<1>14. ASSUME DrainRecoveries PROVE NeverToTimedOut'
  BY <1>14 DEF DrainRecoveries, moduleVars, handVars, NeverToTimedOut, RouterInv,
     AvailableHandlers, IsHandlerAvailable, TypeOK
<1>15. ASSUME RecoveriesDone PROVE NeverToTimedOut'
  BY <1>15 DEF RecoveriesDone, moduleVars, handVars, NeverToTimedOut, RouterInv,
     AvailableHandlers, IsHandlerAvailable, TypeOK
<1>16. ASSUME NEW c \in Jobs, RetryWaiting(c) PROVE NeverToTimedOut'
  BY <1>16 DEF RetryWaiting, moduleVars, NeverToTimedOut, RouterInv, AvailableHandlers,
     IsHandlerAvailable, TypeOK
<1>17. ASSUME NEW m \in Modules, RecoverHandler(m) PROVE NeverToTimedOut'
  BY <1>17 DEF RecoverHandler, routerVars, handVars, NeverToTimedOut, RouterInv,
     AvailableHandlers, IsHandlerAvailable, TypeOK
<1>18. ASSUME NEW m \in Modules, Unregister(m) PROVE NeverToTimedOut'
  BY <1>18 DEF Unregister, routerVars, handVars, NeverToTimedOut, RouterInv,
     AvailableHandlers, IsHandlerAvailable, TypeOK
<1> QED
  BY <1>1, <1>2, <1>3, <1>4, <1>5, <1>6, <1>7, <1>8, <1>9, <1>10, <1>11, <1>12, <1>13,
     <1>14, <1>15, <1>16, <1>17, <1>18 DEF Next, Receive, Router, RequestJob, SkipTimeout,
     NextTimeout, GiveUp, Fail, Answer, BeginRecovery, CopyJobs, Scan, ScanOver,
     PushTimeouts, ReportAvailability, PushRecovery, Register, ClearHandler, vars,
     moduleVars, jobVars, queueVars, handVars, batchVars, routerVars, workerVars, worldVars

\* The inductive invariant holds in every state of every behaviour.
LEMMA IInvAlways == Spec => []IInv
<1>1. IInv /\ [Next]_vars => TypeOK'
  BY RegistryTypeStep, TableTypeStep, QueueTypeStep, HandTypeStep, WorldTypeStep
     DEF TypeOK, RegistryType, TableType, QueueType, HandType, WorldType
<1>2. IInv /\ [Next]_vars => IInv'
  BY <1>1, FiniteStep, RouterStep, HandStep, LifeStep, OfferStep, PendingStep, AnswerStep,
     CopiesStep, TimedOutStep DEF IInv
<1> QED
  BY InitHolds, <1>2, PTL DEF Spec

-----------------------------------------------------------------------------
(* The theorems                                                            *)

\* Every table, queue and local variable keeps its type; above all, only real
\* module ids are ever marked unavailable or listed as available.
THEOREM RouterTypeCorrect == Spec => []TypeOK
BY IInvAlways, PTL DEF IInv

\* _pending_jobs and _job_tracking never drift apart, although process_timeout
\* and process_recovery take a job out of one of them between critical sections.
THEOREM TablesAgree == Spec => []PendingIsTracked
BY IInvAlways, PTL DEF IInv

\* A requester gets at most one answer.
THEOREM OneAnswer == Spec => []AtMostOneAnswer
BY IInvAlways, PTL DEF IInv

\* The copies that process_recovery works on are still true when it uses them.
THEOREM CopiesValid == Spec => []RecoveryCopiesValid
BY IInvAlways, PTL DEF IInv

\* The list of handlers that retry_job and handle_request use after they have
\* released _modules_lock holds none that has timed out.
THEOREM TimedOutAvoided == Spec => []NeverToTimedOut
BY IInvAlways, PTL DEF IInv

\* Every step of the router and of the threads around it is a step of JobService
\* or leaves all that JobService speaks of as it was.
LEMMA ServiceStep == IInv /\ [Next]_vars => [Service!Next]_(Service!vars)
<1> SUFFICES ASSUME IInv, [Next]_vars PROVE [Service!Next]_(Service!vars)
  OBVIOUS
<1> USE DEF IInv
<1>1. ASSUME UNCHANGED <<issued, inbox, answers>> PROVE UNCHANGED Service!vars
  BY <1>1 DEF Service!vars
<1>2. ASSUME NEW c \in Jobs, RequestJob(c) PROVE Service!Ask(c)
  BY <1>2 DEF RequestJob, Service!Ask
<1>3. ASSUME NEW c \in Jobs, RejectRequest(c) PROVE Service!Fail(c, "no_handler")
  <2>1. c \in issued /\ answers[c] = <<>>
    BY <1>3 DEF RejectRequest, LifeInv
  <2>2. answers' = [answers EXCEPT ![c] = <<"no_handler">>]
    BY <1>3, <2>1, AnswerEffect DEF RejectRequest, Answers
  <2> QED
    BY <1>3, <2>1, <2>2 DEF RejectRequest, Service!Fail, Service!Open
<1>4. ASSUME NEW c \in Jobs, NEW m \in Modules, ReceiveResponse(m, c)
      PROVE  Service!Respond(m, c) \/ Service!RespondLate(m, c) \/ UNCHANGED Service!vars
  <2>1. CASE c \in pending
    <3>1. c \in issued /\ answers[c] = <<>>
      BY <2>1 DEF LifeInv
    <3>2. answers' = [answers EXCEPT ![c] = <<"response">>]
      BY <1>4, <2>1, <3>1, AnswerEffect DEF ReceiveResponse, ForwardResponse, Answers
    <3>3. Service!Respond(m, c)
      BY <1>4, <3>1, <3>2 DEF ReceiveResponse, ForwardResponse, Service!Respond, Service!Open
    <3> QED
      BY <3>3
  <2>2. CASE c \notin pending
    <3>1. answers[c] # <<>>
      BY <1>4, <2>2 DEF ReceiveResponse, ForwardResponse, OfferInv
    <3> QED
      BY <1>4, <2>2, <3>1 DEF ReceiveResponse, ForwardResponse, Service!RespondLate, Service!vars
  <2> QED
    BY <2>1, <2>2
<1>5. ASSUME NEW h \in available, Dispatch(h), at \in {"route", "redispatch"},
             UNCHANGED <<issued, answers>>
      PROVE  Service!Offer(h, job) /\ job \in Jobs /\ h \in Modules
  <2>1. job \in Jobs /\ h \in Modules
    BY <1>5 DEF RouterInv, TypeOK
  <2>2. job \in issued /\ answers[job] = <<>>
    BY <1>5, <2>1 DEF RouterInv, LifeInv, PendingIsTracked, InHand
  <2> QED
    BY <1>5, <2>1, <2>2 DEF Dispatch, Service!Offer, Service!Open
<1>6. CASE DispatchRequest \/ Redispatch
  <2>1. PICK h \in available : Service!Offer(h, job) /\ job \in Jobs /\ h \in Modules
    BY <1>5, <1>6 DEF DispatchRequest, Redispatch
  <2> QED
    BY <2>1 DEF Service!Next
<1>7. CASE GiveUp
  <2>1. PICK ev \in TimeoutEvents : Fail(ev, pending \ {ev.job})
    BY <1>7 DEF GiveUp
  <2>2. ev.job \in Jobs /\ ev.reason \in Reasons /\ ev.reason \in Answers
    BY DEF TimeoutEvents, Answers
  <2>3. ev.job \in issued /\ answers[ev.job] = <<>>
    BY <2>1, <2>2 DEF Fail, LifeInv, PendingIsTracked
  <2>4. answers' = [answers EXCEPT ![ev.job] = <<ev.reason>>]
    BY <2>1, <2>2, <2>3, AnswerEffect DEF Fail
  <2>5. Service!Fail(ev.job, ev.reason)
    BY <2>1, <2>3, <2>4 DEF Fail, Service!Fail, Service!Open
  <2> QED
    BY <2>2, <2>5 DEF Service!Next
<1>8. ASSUME \A c \in Jobs : /\ ~RequestJob(c) /\ ~RejectRequest(c)
                             /\ \A m \in Modules : ~ReceiveResponse(m, c),
             ~DispatchRequest, ~Redispatch, ~GiveUp
      PROVE  UNCHANGED <<issued, inbox, answers>>
  BY <1>8 DEF Next, Receive, Router, vars, worldVars, ReceiveRequest, ReceiveNothing,
     QueueRequest, DrainTimeouts, SkipTimeout, RunTimeout, TakeOverdue, MarkUnavailable,
     ReadAvailable, PutBack, PutBackWith, DrainRecoveries, BeginRecovery, CopyJobs,
     RecoveriesDone, RetryWaiting, Scan, ScanOver, PushTimeouts, ReportAvailability,
     RecoverHandler, PushRecovery, Register, Unregister, ClearHandler
<1>9. ASSUME NEW c \in Jobs, RequestJob(c) \/ RejectRequest(c) PROVE Service!Next
  BY <1>2, <1>3, <1>9 DEF Service!Next
<1>10. ASSUME NEW c \in Jobs, NEW m \in Modules, ReceiveResponse(m, c)
       PROVE  Service!Next \/ UNCHANGED Service!vars
  BY <1>4, <1>10 DEF Service!Next
<1> QED
  BY <1>1, <1>6, <1>7, <1>8, <1>9, <1>10

\* The job router implements JobService: each requester gets at most one answer, a
\* genuine one, and an answered job is never sent to a handler again.
THEOREM JobsServed == Spec => ImplementsJobService
<1>1. Init => Service!Init
  BY DEF Init, Service!Init
<1> QED
  BY <1>1, IInvAlways, ServiceStep, PTL DEF Spec, ImplementsJobService, Service!Spec
==============================================================================
