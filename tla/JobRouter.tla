------------------------------ MODULE JobRouter ------------------------------
(***************************************************************************)
(* Callback jobs in the C++ engine (engine.cpp): how a request finds a     *)
(* handler, what happens when the handler does not answer, and how the     *)
(* answer finds its requester.                                             *)
(*                                                                         *)
(* Five threads share the state and interleave at their lock boundaries:   *)
(*   - the job router (_job_router_worker), which owns the ROUTER socket;  *)
(*   - the timeout worker (_job_timeout_worker), which detects overdue     *)
(*     jobs and queues an event for the router;                            *)
(*   - the heartbeat receiver (_heartbeat_receive_worker), which makes a   *)
(*     handler available again and queues a recovery event;                *)
(*   - the monitor (_monitor_worker), which unregisters silent modules;    *)
(*   - the registration worker (register_module).                          *)
(*                                                                         *)
(* Time is abstracted: a job may be found overdue at any moment, because   *)
(* nothing relates the moments of a dispatch, a scan and a timeout.        *)
(***************************************************************************)
EXTENDS Naturals, Sequences, FiniteSets

CONSTANTS
  Modules,     \* module ids; the engine makes a fresh one per registration
  Topics,      \* job topics
  Jobs,        \* correlation ids, each requested once
  TopicOf,     \* the topic of a job
  Handles,     \* the topics a module declares with pattern HANDLE
  Reporters,   \* modules whose heartbeats carry an availability map
  MaxScans,    \* bound: scans with timeouts, queued and not yet drained
  NoHandler,   \* JobTrackingInfo::handler_id is empty: the job waits
  Untracked,   \* the job has no entry in _job_tracking
  NoJob        \* the router has no job in hand

ASSUME JobsAssumption ==
  /\ TopicOf \in [Jobs -> Topics]
  /\ Handles \in [Modules -> SUBSET Topics]
  /\ Reporters \subseteq Modules
  /\ MaxScans \in Nat
ASSUME NullAssumption ==
  /\ NoHandler \notin Modules /\ Untracked \notin Modules /\ NoHandler # Untracked
  /\ NoJob \notin Jobs

Reasons == {"run_timeout", "wait_timeout"}
Answers == Reasons \cup {"response", "no_handler"}
TimeoutEvents == [job : Jobs, reason : Reasons]

\* A RecoveryEvent is its recovered_topics; its module id is only logged.
RecoveryEvents == SUBSET Topics

VARIABLES
  \* under _modules_lock
  modules,         \* _modules: registered now
  former,          \* modules that were unregistered; they may still be running
  order,           \* when a module was registered: _job_handlers keeps this order
  unavailable,     \* _unavailable_handlers
  busy,            \* _module_availability: the entries that say false
  \* under _job_lock
  pending,         \* _pending_jobs: jobs whose requester is still to be answered
  tracking,        \* _job_tracking: the handler of a job, NoHandler or Untracked
  round_robin,     \* _job_round_robin
  \* inter-thread queues
  timeout_events,  \* _job_timeout_events: the events of one scan after another's
  recovery_events, \* _recovery_events
  \* local to the router
  at,              \* program point
  job,             \* the job in hand
  info_handler,    \* info.handler_id: its handler, when that one has timed out
  available,       \* its available handlers, as read under _modules_lock
  timeout_batch,   \* timeout events drained and not yet processed
  recovery_batch,  \* recovery events drained and not yet processed
  waiting,         \* waiting jobs the current recovery event has still to retry
  \* local to the other threads
  found,           \* overdue jobs found by the running scan
  beat,            \* the heartbeat being handled
  expiring,        \* modules removed by unregister_module, jobs not yet cleared
  \* the network and the outside world
  issued,          \* jobs ever requested
  requests,        \* requests on their way to the router
  inbox,           \* <<m, c>>: module m has copies of job c and the router has
                   \* not received all its responses
  answers,         \* what was sent to the job's requester
  dead_letters     \* jobs handed to the dead-letter store

moduleVars == <<modules, former, order, unavailable, busy>>
jobVars == <<pending, tracking, round_robin>>
queueVars == <<timeout_events, recovery_events>>
handVars == <<job, info_handler, available>>
batchVars == <<timeout_batch, recovery_batch, waiting>>
routerVars == <<at, handVars, batchVars>>
workerVars == <<found, beat, expiring>>
worldVars == <<issued, requests, inbox, answers, dead_letters>>
vars == <<moduleVars, jobVars, queueVars, routerVars, workerVars, worldVars>>

RouterPoints == {"recv", "route", "drain", "timeouts", "mark", "retry",
                 "redispatch", "recoveries"}

NoBeat == [at |-> "idle"]
Beats == {NoBeat} \cup [at : {"recover"}, module : Modules]
                  \cup [at : {"push"}, topics : SUBSET Topics]

Init ==
  /\ modules = {} /\ former = {}
  /\ order = [m \in Modules |-> 0]
  /\ unavailable = {} /\ busy = {}
  /\ pending = {}
  /\ tracking = [c \in Jobs |-> Untracked]
  /\ round_robin = [t \in Topics |-> 0]
  /\ timeout_events = <<>> /\ recovery_events = <<>>
  /\ at = "recv" /\ job = NoJob /\ info_handler = NoHandler /\ available = {}
  /\ timeout_batch = <<>> /\ recovery_batch = <<>> /\ waiting = {}
  /\ found = {} /\ beat = NoBeat /\ expiring = {}
  /\ issued = {} /\ requests = {} /\ inbox = {}
  /\ answers = [c \in Jobs |-> <<>>]
  /\ dead_letters = {}

Answer(c, what) == answers' = [answers EXCEPT ![c] = Append(@, what)]

\* _job_handlers[t], kept in step with _modules under the same lock.
JobHandlers(t) == {m \in modules : t \in Handles[m]}

\* Mutant: the marks that time-outs leave are not looked at.
IgnoresTimeouts(m, t) == <<m, t>> \notin busy

\* _is_handler_available
IsHandlerAvailable(m, t) == <<m, t>> \notin unavailable /\ <<m, t>> \notin busy

AvailableHandlers(t) == {m \in JobHandlers(t) : IsHandlerAvailable(m, t)}

-----------------------------------------------------------------------------
(* Requesters                                                              *)

\* A module calls request_event.
RequestJob(c) ==
  /\ c \notin issued
  /\ issued' = issued \cup {c}
  /\ requests' = requests \cup {c}
  /\ UNCHANGED <<moduleVars, jobVars, queueVars, routerVars, workerVars,
                 inbox, answers, dead_letters>>

-----------------------------------------------------------------------------
(* The job router: one message, then the timeouts, then the recoveries     *)

\* retry_job's and handle_request's round-robin choice among `available`:
\* the one at index _job_round_robin % size, in registration order.
Chosen(h) ==
  /\ h \in available
  /\ Cardinality({m \in available : order[m] < order[h]}) =
       round_robin[TopicOf[job]] % Cardinality(available)

\* The job in hand is tracked with handler h and sent to it.
Dispatch(h) ==
  /\ Chosen(h)
  /\ round_robin' = [round_robin EXCEPT ![TopicOf[job]] =
                       (@ % Cardinality(available)) + 1]
  /\ tracking' = [tracking EXCEPT ![job] = h]
  /\ inbox' = inbox \cup {<<h, job>>}

\* handle_request when nobody handles the topic: an error, no trace left.
RejectRequest(c) ==
  /\ at = "recv" /\ c \in requests
  /\ JobHandlers(TopicOf[c]) = {}
  /\ requests' = requests \ {c}
  /\ Answer(c, "no_handler")
  /\ at' = "drain"
  /\ UNCHANGED <<moduleVars, jobVars, queueVars, handVars, batchVars, workerVars,
                 issued, inbox, dead_letters>>

\* handle_request reads the handlers under _modules_lock ...
ReceiveRequest(c) ==
  /\ at = "recv" /\ c \in requests
  /\ JobHandlers(TopicOf[c]) # {}
  /\ requests' = requests \ {c}
  /\ job' = c
  /\ available' = AvailableHandlers(TopicOf[c])
  /\ at' = "route"
  /\ UNCHANGED <<moduleVars, jobVars, queueVars, info_handler, batchVars, workerVars,
                 issued, inbox, answers, dead_letters>>

\* ... and tracks the job under _job_lock: as waiting ...
QueueRequest ==
  /\ at = "route" /\ available = {}
  /\ pending' = pending \cup {job}
  /\ tracking' = [tracking EXCEPT ![job] = NoHandler]
  /\ at' = "drain" /\ job' = NoJob
  /\ UNCHANGED <<moduleVars, round_robin, queueVars, info_handler, available, batchVars,
                 workerVars, worldVars>>

\* ... or with a handler, to which it is sent.
DispatchRequest ==
  /\ at = "route"
  /\ \E h \in available : Dispatch(h)
  /\ pending' = pending \cup {job}
  /\ at' = "drain" /\ job' = NoJob /\ available' = {}
  /\ UNCHANGED <<moduleVars, queueVars, info_handler, batchVars, workerVars,
                 issued, requests, answers, dead_letters>>

\* handle_response for the answer of module m, however late and whether m was
\* unregistered or its job given to another: the first response to a pending
\* job is forwarded, any other is dropped.  `left` remains in _job_tracking.
ForwardResponse(m, c, left) ==
  /\ at = "recv" /\ <<m, c>> \in inbox
  /\ inbox' \in {inbox, inbox \ {<<m, c>>}}
  /\ \/ /\ c \in pending
        /\ pending' = pending \ {c}
        /\ tracking' = [tracking EXCEPT ![c] = left]
        /\ Answer(c, "response")
     \/ c \notin pending /\ UNCHANGED <<pending, tracking, answers>>
  /\ at' = "drain"
  /\ UNCHANGED <<moduleVars, round_robin, queueVars, handVars, batchVars, workerVars,
                 issued, requests, dead_letters>>

\* Mutant: an answered job stays in _job_tracking.
AnsweredStaysTracked(m, c) == ForwardResponse(m, c, tracking[c])

ReceiveResponse(m, c) == ForwardResponse(m, c, Untracked)

\* recv_multipart timed out.
ReceiveNothing ==
  /\ at = "recv"
  /\ at' = "drain"
  /\ UNCHANGED <<moduleVars, jobVars, queueVars, handVars, batchVars, workerVars, worldVars>>

DrainTimeouts ==
  /\ at = "drain"
  /\ timeout_batch' = timeout_events
  /\ timeout_events' = <<>>
  /\ at' = "timeouts"
  /\ UNCHANGED <<moduleVars, jobVars, recovery_events, handVars, recovery_batch,
                 waiting, workerVars, worldVars>>

\* process_timeout takes the next event of the batch, ev.  The events of one
\* scan are in hash-table order, which can be any.
NextTimeout(ev) ==
  /\ at = "timeouts"
  /\ timeout_batch # <<>> /\ ev \in Head(timeout_batch)
  /\ timeout_batch' = IF Head(timeout_batch) = {ev} THEN Tail(timeout_batch)
                      ELSE <<Head(timeout_batch) \ {ev}>> \o Tail(timeout_batch)

\* The job was answered in the meantime.
SkipTimeout ==
  /\ \E ev \in TimeoutEvents :
        NextTimeout(ev) /\ tracking[ev.job] = Untracked
  /\ UNCHANGED <<moduleVars, jobVars, queueVars, at, handVars, recovery_batch, waiting,
                 workerVars, worldVars>>

\* The router takes a job in hand whose handler, one of `handlers`, is overdue.
TakeOverdue(handlers) ==
  /\ \E ev \in TimeoutEvents :
        /\ NextTimeout(ev)
        /\ ev.reason = "run_timeout" /\ tracking[ev.job] \in handlers
        /\ job' = ev.job
        /\ info_handler' = tracking[ev.job]
        /\ tracking' = [tracking EXCEPT ![ev.job] = Untracked]
  /\ at' = "mark"
  /\ UNCHANGED <<moduleVars, pending, round_robin, queueVars, available, recovery_batch,
                 waiting, workerVars, worldVars>>

\* Mutant: the job may have lost its handler since the scan, unnoticed.
RunTimeoutUnassigned == TakeOverdue(Modules \cup {NoHandler})

RunTimeout == TakeOverdue(Modules)

\* The job waited too long, or it lost its handler since it was found overdue:
\* its requester gets the error.  `left` is what stays in _pending_jobs.
Fail(ev, left) ==
  /\ NextTimeout(ev)
  /\ tracking[ev.job] # Untracked
  /\ ~ (ev.reason = "run_timeout" /\ tracking[ev.job] \in Modules)
  /\ tracking' = [tracking EXCEPT ![ev.job] = Untracked]
  /\ pending' = left
  /\ dead_letters' = dead_letters \cup {c \in {ev.job} : ev.reason = "wait_timeout"}
  /\ Answer(ev.job, ev.reason)
  /\ UNCHANGED <<moduleVars, round_robin, queueVars, at, handVars, recovery_batch,
                 waiting, workerVars, issued, requests, inbox>>

\* Mutant: the requester of a failed job stays in _pending_jobs.
GiveUpStillPending == \E ev \in TimeoutEvents : Fail(ev, pending)

GiveUp == \E ev \in TimeoutEvents : Fail(ev, pending \ {ev.job})

\* _unavailable_handlers[handler].insert(topic), under _modules_lock
MarkUnavailable ==
  /\ at = "mark"
  /\ unavailable' = unavailable \cup {<<info_handler, TopicOf[job]>>}
  /\ at' = "retry"
  /\ UNCHANGED <<modules, former, order, busy, jobVars, queueVars, handVars, batchVars,
                 workerVars, worldVars>>

\* retry_job returns to process_timeout or to process_recovery, the only one to
\* call it with a job that has no handler.
Return ==
  /\ at' = IF info_handler = NoHandler THEN "recoveries" ELSE "timeouts"
  /\ job' = NoJob /\ info_handler' = NoHandler /\ available' = {}

\* retry_job reads the handlers under _modules_lock ...
ReadAvailable ==
  /\ at = "retry"
  /\ available' = AvailableHandlers(TopicOf[job])
  /\ at' = "redispatch"
  /\ UNCHANGED <<moduleVars, jobVars, queueVars, job, info_handler, batchVars, workerVars,
                 worldVars>>

\* ... and sends the job to one of them ...
Redispatch ==
  /\ at = "redispatch"
  /\ \E h \in available : Dispatch(h)
  /\ Return
  /\ UNCHANGED <<moduleVars, pending, queueVars, batchVars, workerVars,
                 issued, requests, answers, dead_letters>>

\* ... or, without one, the job is put back with `handler`.
PutBackWith(handler) ==
  /\ at = "redispatch" /\ available = {}
  /\ tracking' = [tracking EXCEPT ![job] = handler]
  /\ Return
  /\ UNCHANGED <<moduleVars, pending, round_robin, queueVars, batchVars, workerVars,
                 worldVars>>

\* Mutant: the job is not put back.
PutBackNot == PutBackWith(Untracked)

\* The job is put back as waiting.
PutBack == PutBackWith(NoHandler)

DrainRecoveries ==
  /\ at = "timeouts" /\ timeout_batch = <<>>
  /\ recovery_batch' = recovery_events
  /\ recovery_events' = <<>>
  /\ at' = "recoveries"
  /\ UNCHANGED <<moduleVars, jobVars, timeout_events, handVars, timeout_batch, waiting,
                 workerVars, worldVars>>

\* process_recovery copies the jobs of the recovered topics whose handler is one
\* of `holders` ...
CopyJobs(holders) ==
  /\ at = "recoveries" /\ waiting = {} /\ recovery_batch # <<>>
  /\ waiting' = {c \in Jobs : /\ tracking[c] \in holders
                              /\ TopicOf[c] \in Head(recovery_batch)}
  /\ recovery_batch' = Tail(recovery_batch)
  /\ UNCHANGED <<moduleVars, jobVars, queueVars, at, handVars, timeout_batch, workerVars,
                 worldVars>>

\* Mutant: jobs that are with a handler are copied too.
BeginRecoveryAll == CopyJobs(Modules \cup {NoHandler})

\* ... the waiting ones ...
BeginRecovery == CopyJobs({NoHandler})

\* ... and takes them, one by one, to retry_job.
RetryWaiting(c) ==
  /\ at = "recoveries" /\ c \in waiting
  /\ waiting' = waiting \ {c}
  /\ tracking' = [tracking EXCEPT ![c] = Untracked]
  /\ job' = c
  /\ at' = "retry"
  /\ UNCHANGED <<moduleVars, pending, round_robin, queueVars, info_handler, available,
                 timeout_batch, recovery_batch, workerVars, worldVars>>

RecoveriesDone ==
  /\ at = "recoveries" /\ waiting = {} /\ recovery_batch = <<>>
  /\ at' = "recv"
  /\ UNCHANGED <<moduleVars, jobVars, queueVars, handVars, batchVars, workerVars, worldVars>>

-----------------------------------------------------------------------------
(* The timeout worker                                                      *)

\* The scan of _job_tracking finds the jobs `late` overdue ...
ScanOver(holders, late) ==
  /\ found = {} /\ late # {} /\ Len(timeout_events) < MaxScans
  /\ \A c \in late : tracking[c] \in holders
  /\ found' = {[job |-> c, reason |-> IF tracking[c] = NoHandler THEN "wait_timeout"
                                     ELSE "run_timeout"] : c \in late}
  /\ UNCHANGED <<moduleVars, jobVars, queueVars, routerVars, beat, expiring, worldVars>>

\* Mutant: only the jobs that have a handler are looked at.
ScanRunning(late) == ScanOver(Modules, late)

Scan(late) == ScanOver(Modules \cup {NoHandler}, late)

\* ... and its events are queued after _job_lock is released.
PushTimeouts ==
  /\ found # {}
  /\ timeout_events' = Append(timeout_events, found)
  /\ found' = {}
  /\ UNCHANGED <<moduleVars, jobVars, recovery_events, routerVars, beat, expiring,
                 worldVars>>

-----------------------------------------------------------------------------
(* The heartbeat receiver                                                  *)

\* A heartbeat of module m arrives, perhaps after m was unregistered.  The
\* availability map of a reporter replaces the one kept for it.
ReportAvailability(m) ==
  /\ beat = NoBeat /\ m \in Reporters \cap (modules \cup former)
  /\ \E full \in SUBSET Handles[m] :
        busy' = {b \in busy : b[1] # m} \cup ({m} \X full)
  /\ beat' = [at |-> "recover", module |-> m]
  /\ UNCHANGED <<modules, former, order, unavailable, jobVars, queueVars, routerVars,
                 found, expiring, worldVars>>

\* Then the marks of m's time-outs are removed ...
RecoverHandler(m) ==
  /\ IF m \in Reporters THEN beat = [at |-> "recover", module |-> m]
                        ELSE beat = NoBeat /\ m \in modules \cup former
  /\ LET topics == {t \in Topics : <<m, t>> \in unavailable} IN
       beat' = IF topics = {} THEN NoBeat ELSE [at |-> "push", topics |-> topics]
  /\ unavailable' = {u \in unavailable : u[1] # m}
  /\ UNCHANGED <<modules, former, order, busy, jobVars, queueVars, routerVars,
                 found, expiring, worldVars>>

\* ... and, if there were any, a recovery event is queued.
PushRecovery ==
  /\ beat.at = "push"
  /\ recovery_events' = Append(recovery_events, beat.topics)
  /\ beat' = NoBeat
  /\ UNCHANGED <<moduleVars, jobVars, timeout_events, routerVars, found, expiring,
                 worldVars>>

-----------------------------------------------------------------------------
(* Registration and the monitor                                            *)

Register(m) ==
  /\ m \notin modules \cup former
  /\ modules' = modules \cup {m}
  /\ order' = [order EXCEPT ![m] = Cardinality(modules \cup former) + 1]
  /\ UNCHANGED <<former, unavailable, busy, jobVars, queueVars, routerVars, workerVars,
                 worldVars>>

\* unregister_module, for a module whose heartbeats have stopped or are late:
\* first the module tables, under _modules_lock ...
Unregister(m) ==
  /\ expiring = {} /\ m \in modules
  /\ modules' = modules \ {m}
  /\ former' = former \cup {m}
  /\ unavailable' = {u \in unavailable : u[1] # m}
  /\ busy' = {b \in busy : b[1] # m}
  /\ expiring' = {m}
  /\ UNCHANGED <<order, jobVars, queueVars, routerVars, found, beat, worldVars>>

\* ... then, under _job_lock, its jobs lose their handler.
ClearHandler(m) ==
  /\ m \in expiring
  /\ tracking' = [c \in Jobs |-> IF tracking[c] = m THEN NoHandler ELSE tracking[c]]
  /\ expiring' = expiring \ {m}
  /\ UNCHANGED <<moduleVars, pending, round_robin, queueVars, routerVars, found, beat,
                 worldVars>>

-----------------------------------------------------------------------------
Receive ==
  \E c \in Jobs :
    \/ RejectRequest(c) \/ ReceiveRequest(c)
    \/ \E m \in Modules : ReceiveResponse(m, c)

Router ==
  \/ ReceiveNothing \/ QueueRequest \/ DispatchRequest
  \/ DrainTimeouts \/ SkipTimeout \/ RunTimeout \/ GiveUp
  \/ MarkUnavailable \/ ReadAvailable \/ Redispatch \/ PutBack
  \/ DrainRecoveries \/ BeginRecovery \/ RecoveriesDone
  \/ \E c \in Jobs : RetryWaiting(c)

Next ==
  \/ \E c \in Jobs : RequestJob(c)
  \/ Receive
  \/ Router
  \/ \E late \in SUBSET Jobs : Scan(late)
  \/ PushTimeouts
  \/ \E m \in Modules : ReportAvailability(m) \/ RecoverHandler(m)
  \/ PushRecovery
  \/ \E m \in Modules : Register(m) \/ Unregister(m) \/ ClearHandler(m)

Spec == Init /\ [][Next]_vars

\* Every thread keeps running, ZeroMQ delivers every queued request to the
\* router, and every overdue job that stays overdue is found.  Nothing is
\* assumed of handlers, heartbeats or registrations.
Fairness ==
  /\ WF_vars(Receive \/ Router)
  /\ \A c \in Jobs : SF_vars(RejectRequest(c) \/ ReceiveRequest(c))
  /\ \A c \in Jobs : WF_vars(\E late \in SUBSET Jobs : c \in late /\ Scan(late))
  /\ WF_vars(PushTimeouts)
  /\ \A m \in Reporters : WF_vars(RecoverHandler(m))
  /\ WF_vars(PushRecovery)
  /\ \A m \in Modules : WF_vars(ClearHandler(m))

FairSpec == Spec /\ Fairness

-----------------------------------------------------------------------------
(* Properties                                                              *)

\* Every table, queue and local variable holds what its C++ type holds; above
\* all, only real module ids are ever marked unavailable or listed as available.
TypeOK ==
  /\ modules \subseteq Modules /\ former \subseteq Modules
  /\ order \in [Modules -> Nat]
  /\ unavailable \subseteq Modules \X Topics /\ busy \subseteq Modules \X Topics
  /\ pending \subseteq Jobs
  /\ tracking \in [Jobs -> Modules \cup {NoHandler, Untracked}]
  /\ round_robin \in [Topics -> Nat]
  /\ timeout_events \in Seq(SUBSET TimeoutEvents) /\ recovery_events \in Seq(RecoveryEvents)
  /\ at \in RouterPoints
  /\ job \in Jobs \cup {NoJob} /\ info_handler \in Modules \cup {NoHandler}
  /\ available \subseteq Modules /\ waiting \subseteq Jobs
  /\ timeout_batch \in Seq(SUBSET TimeoutEvents) /\ recovery_batch \in Seq(RecoveryEvents)
  /\ found \subseteq TimeoutEvents /\ beat \in Beats /\ expiring \subseteq Modules
  /\ issued \subseteq Jobs /\ requests \subseteq Jobs
  /\ inbox \subseteq Modules \X Jobs
  /\ answers \in [Jobs -> Seq(Answers)] /\ dead_letters \subseteq Jobs

\* The router holds job c outside _job_tracking, between two critical sections.
InHand(c) == job = c /\ at \in {"mark", "retry", "redispatch"}

\* _pending_jobs and _job_tracking never drift apart: a requester waits for an
\* answer exactly when its job is tracked or in the router's hands.  A job that
\* is pending but untracked would never time out; one that is tracked but not
\* pending would run with nobody to answer.
PendingIsTracked ==
  \A c \in Jobs : (c \in pending) <=> (tracking[c] # Untracked \/ InHand(c))

\* A requester gets at most one answer, whatever mixture of late responses,
\* time-outs, retries, recoveries and expiries its job meets.
AtMostOneAnswer == \A c \in Jobs : Len(answers[c]) <= 1

\* The copies of waiting jobs that process_recovery works on are still true
\* when it gets to them: writing them back undoes no other thread's update.
RecoveryCopiesValid == \A c \in waiting : tracking[c] = NoHandler

\* The list of available handlers is used after _modules_lock is released, yet
\* it never holds a handler that has been marked as timed out in the meantime.
NeverToTimedOut ==
  at \in {"route", "redispatch"} =>
    \A h \in available : <<h, TopicOf[job]>> \notin unavailable

Service == INSTANCE JobService WITH
             Errors <- Reasons \cup {"no_handler"}, asked <- issued, offered <- inbox

\* The router keeps the promise of JobService: whatever mixture of late responses,
\* time-outs, retries, recoveries and expiries a job meets, it is sent to no
\* handler once it is answered, its answer is an error or the response of a module
\* that it was sent to, and no response is thrown away while its requester waits.
ImplementsJobService == Service!Spec

\* Every request is answered, with a response or with an error.
EveryRequestAnswered ==
  \A c \in Jobs : (c \in requests) ~> (answers[c] # <<>>)

\* Every request is answered unless handlers that have timed out keep coming
\* back through their heartbeats forever.
AnsweredUnlessFlapping ==
  []<>(recovery_events # <<>>) \/ EveryRequestAnswered
=============================================================================
