---------------------------- MODULE ModuleClient ----------------------------
(***************************************************************************)
(* The module client (module.cpp): what a module's threads do between      *)
(* start() and stop(), and how request_event finds its response.           *)
(*                                                                         *)
(* Threads: the owner, who calls start() and stop(); the event receiver,   *)
(* the heartbeat and the job receiver thread that start() launches; and    *)
(* application threads.  Handlers run on the two receiver threads, and     *)
(* handlers and application threads alike may publish or request.  A       *)
(* critical section of _pending_lock or of a socket's lock is one step.    *)
(*                                                                         *)
(* The engine behind the sockets is external: it answers a request at most *)
(* once (JobRouter.AtMostOneAnswer) or never, and at any time.  Sends have *)
(* no time-out: on a DEALER socket whose peer does not read they wait, once *)
(* its queue is full, for good if need be; a PUB socket drops instead.     *)
(* A payload is reduced to whether a response wrote it.  A wait may run    *)
(* out at any moment.                                                      *)
(***************************************************************************)
EXTENDS Naturals, FiniteSets

CONSTANTS
  AppThreads,    \* application threads that publish and request
  Jobs,          \* jobs the engine may assign to this module
  Unhandled,     \* ... of which the module has no handler for these
  Heartbeats,    \* whether the module was given a heartbeat endpoint
  MaxRequests,   \* bound: calls of request_event that pass its check
  MaxStarts,     \* bound: calls of start()
  MaxAssigned,   \* bound: how often the engine assigns the same job
  NoRequest, NoJob

ASSUME ClientAssumption ==
  /\ Unhandled \subseteq Jobs /\ Heartbeats \in BOOLEAN
  /\ MaxRequests \in Nat /\ MaxStarts \in Nat \ {0} /\ MaxAssigned \in Nat
  /\ AppThreads \cap {"event", "job"} = {}
  /\ NoJob \notin Jobs /\ NoRequest \notin 1..MaxRequests

\* Correlation ids: pseudo-UUIDs, taken to be distinct.
Ids == 1..MaxRequests
Callers == AppThreads \cup {"event", "job"}
Sockets == {"pub", "sub", "heartbeat", "job"}

VARIABLES
  owner,        \* where the thread that starts and stops the module is
  starts,       \* calls of start() so far
  running,      \* _running
  registered,   \* _registered
  open,         \* the sockets that exist and are not closed
  thread,       \* the receiver and heartbeat threads
  job_in_hand,  \* the job the job receiver has taken and not yet done with
  \* request_event and send_event
  at,           \* where a caller is
  request,      \* the correlation id of the request it makes
  issued,       \* correlation ids generated so far
  pending,      \* _pending_requests
  ready,        \* PendingRequest::ready; the caller keeps the entry alive
  filled,       \* PendingRequest::result holds a response
  woken,        \* requests that stop() woke without a response
  outcome,      \* how request_event ended
  \* the engine's side of the job socket
  asked,        \* requests the engine has and has not answered
  inbox,        \* messages on the way to this module's job socket
  responses,    \* responses this module has sent for a job
  unsent        \* responses for a job whose send threw

lifeVars == <<owner, starts, running, registered, open>>
callVars == <<at, request, issued>>
pendingVars == <<pending, ready, filled, woken, outcome>>
answerVars == <<responses, unsent>>
engineVars == <<asked, inbox, answerVars>>
vars == <<lifeVars, thread, job_in_hand, callVars, pendingVars, engineVars>>

OwnerPoints == {"idle", "register", "setup_jobs", "started", "join_event", "join_heartbeat",
                "join_job", "wake", "close", "stopped"}
ThreadPoints == {"none", "loop", "handler", "send", "exited"}
CallerPoints == {"idle", "publish", "insert", "send", "wait", "lost"}
Outcomes == {"none", "response", "empty", "timed_out", "send_failed"}
Inbound == ({"response"} \X Ids) \cup ({"request"} \X Jobs)

Init ==
  /\ owner = "idle" /\ starts = 0
  /\ running = FALSE /\ registered = FALSE
  /\ open = {}
  /\ thread = [t \in {"event", "heartbeat", "job"} |-> "none"]
  /\ job_in_hand = NoJob
  /\ at = [c \in Callers |-> "idle"]
  /\ request = [c \in Callers |-> NoRequest]
  /\ issued = 0
  /\ pending = {} /\ ready = {} /\ filled = {} /\ woken = {}
  /\ outcome = [r \in Ids |-> "none"]
  /\ asked = {} /\ inbox = {}
  /\ responses = [j \in Jobs |-> 0] /\ unsent = [j \in Jobs |-> 0]

-----------------------------------------------------------------------------
(* start                                                                   *)

Start ==
  /\ owner \in {"idle", "stopped"} /\ starts < MaxStarts
  /\ starts' = starts + 1
  /\ running' = TRUE
  /\ owner' = "register"
  /\ UNCHANGED <<registered, open, thread, job_in_hand, callVars, pendingVars, engineVars>>

\* _register_with_engine fails: no answer within five seconds, no ACK, an ACK
\* without module id or ports, or an exception.
RegistrationFails ==
  /\ owner = "register"
  /\ running' = FALSE
  /\ owner' = "idle"
  /\ UNCHANGED <<starts, registered, open, thread, job_in_hand, callVars, pendingVars, engineVars>>

\* Sockets first, then the threads that use them.
Registered ==
  /\ owner = "register"
  /\ registered' = TRUE
  /\ open' = {"pub", "sub"} \cup (IF Heartbeats THEN {"heartbeat"} ELSE {})
  /\ thread' = [thread EXCEPT !["event"] = "loop",
                              !["heartbeat"] = IF Heartbeats THEN "loop" ELSE @]
  /\ owner' = "setup_jobs"
  /\ UNCHANGED <<starts, running, job_in_hand, callVars, pendingVars, engineVars>>

\* A job socket only if the ACK named a job port.
SetupJobs(job_port) ==
  /\ owner = "setup_jobs"
  /\ IF job_port
       THEN /\ open' = open \cup {"job"}
            /\ thread' = [thread EXCEPT !["job"] = "loop"]
       ELSE UNCHANGED <<open, thread>>
  /\ owner' = "started"
  /\ UNCHANGED <<starts, running, registered, job_in_hand, callVars, pendingVars, engineVars>>

-----------------------------------------------------------------------------
(* stop                                                                    *)

Stop ==
  /\ owner = "started"
  /\ running' = FALSE
  /\ owner' = "join_event"
  /\ UNCHANGED <<starts, registered, open, thread, job_in_hand, callVars, pendingVars, engineVars>>

\* join() returns when the thread has ended, or at once if it never started.
Join(t, here, next) ==
  /\ owner = here
  /\ thread[t] \in {"none", "exited"}
  /\ thread' = [thread EXCEPT ![t] = "none"]
  /\ owner' = next
  /\ UNCHANGED <<starts, running, registered, open, job_in_hand, callVars, pendingVars, engineVars>>

\* Mutant of Joins: the job receiver is not waited for.
JoinsWithoutJob ==
  \/ Join("event", "join_event", "join_heartbeat")
  \/ Join("heartbeat", "join_heartbeat", "wake")

Joins ==
  \/ Join("event", "join_event", "join_heartbeat")
  \/ Join("heartbeat", "join_heartbeat", "join_job")
  \/ Join("job", "join_job", "wake")

\* Everyone who still waits is told that the request is ready.
WakePending ==
  /\ owner = "wake"
  /\ ready' = ready \cup pending
  /\ woken' = woken \cup (pending \ ready)
  /\ pending' = {}
  /\ owner' = "close"
  /\ UNCHANGED <<starts, running, registered, open, thread, job_in_hand, callVars, filled,
                 outcome, engineVars>>

CloseSockets ==
  /\ owner = "close"
  /\ open' = {}
  /\ registered' = FALSE
  /\ inbox' = {}
  /\ owner' = "stopped"
  /\ UNCHANGED <<starts, running, thread, job_in_hand, callVars, pendingVars, asked, answerVars>>

-----------------------------------------------------------------------------
(* send_event and request_event, on any thread that runs user code         *)

InUserCode(c) == c \in AppThreads \cup {t \in {"event", "job"} : thread[t] = "handler"}

\* send_event returns silently if its check fails, which changes nothing.
SendEvent(c) ==
  /\ InUserCode(c) /\ at[c] = "idle"
  /\ "pub" \in open /\ running
  /\ at' = [at EXCEPT ![c] = "publish"]
  /\ UNCHANGED <<lifeVars, thread, job_in_hand, request, issued, pendingVars, engineVars>>

\* Between the check and the send another thread may have closed the socket;
\* the caller then dereferences a pointer that is null.
Publish(c) ==
  /\ at[c] = "publish"
  /\ at' = [at EXCEPT ![c] = IF "pub" \in open THEN "idle" ELSE "lost"]
  /\ UNCHANGED <<lifeVars, thread, job_in_hand, request, issued, pendingVars, engineVars>>

\* request_event throws if its check fails, which changes nothing here.
RequestEvent(c) ==
  /\ InUserCode(c) /\ at[c] = "idle"
  /\ "job" \in open /\ running
  /\ issued < MaxRequests
  /\ issued' = issued + 1
  /\ request' = [request EXCEPT ![c] = issued + 1]
  /\ at' = [at EXCEPT ![c] = "insert"]
  /\ UNCHANGED <<lifeVars, thread, job_in_hand, pendingVars, engineVars>>

InsertPending(c) ==
  /\ at[c] = "insert"
  /\ pending' = pending \cup {request[c]}
  /\ at' = [at EXCEPT ![c] = "send"]
  /\ UNCHANGED <<lifeVars, thread, job_in_hand, request, issued, ready, filled, woken, outcome,
                 engineVars>>

\* The send, under the socket's lock, may wait for the engine to read.
SendRequest(c) ==
  /\ at[c] = "send"
  /\ IF "job" \in open
       THEN /\ at' = [at EXCEPT ![c] = "wait"]
            /\ asked' = asked \cup {request[c]}
       ELSE /\ at' = [at EXCEPT ![c] = "lost"]
            /\ UNCHANGED asked
  /\ UNCHANGED <<lifeVars, thread, job_in_hand, request, issued, pendingVars, inbox, answerVars>>

\* The socket throws: the exception leaves request_event and the entry stays.
SendThrows(c) ==
  /\ at[c] = "send" /\ "job" \in open
  /\ outcome' = [outcome EXCEPT ![request[c]] = "send_failed"]
  /\ at' = [at EXCEPT ![c] = "idle"]
  /\ request' = [request EXCEPT ![c] = NoRequest]
  /\ UNCHANGED <<lifeVars, thread, job_in_hand, issued, pending, ready, filled, woken, engineVars>>

CallEndsWith(c, how, left) ==
  /\ pending' = left
  /\ outcome' = [outcome EXCEPT ![request[c]] = how]
  /\ at' = [at EXCEPT ![c] = "idle"]
  /\ request' = [request EXCEPT ![c] = NoRequest]
  /\ UNCHANGED <<lifeVars, thread, job_in_hand, issued, ready, filled, woken, engineVars>>

\* Mutant of EndCall: the entry is not erased.
EndCallKeepsEntry(c, how) == CallEndsWith(c, how, pending)

\* However the wait ends, the entry is erased.
EndCall(c, how) == CallEndsWith(c, how, pending \ {request[c]})

\* wait_for sees the predicate hold: the result is returned, whatever it is.
WaitReady(c) ==
  /\ at[c] = "wait" /\ request[c] \in ready
  /\ EndCall(c, IF request[c] \in filled THEN "response" ELSE "empty")

\* Mutant of WaitTimesOut: a response that came in time is thrown away.
WaitTimesOutAnyway(c) ==
  /\ at[c] = "wait"
  /\ EndCall(c, "timed_out")

\* Mutant of WaitTimesOut: wait instead of wait_for.
WaitForever(c) ==
  /\ at[c] = "wait" /\ request[c] \in ready
  /\ EndCall(c, "response")

\* wait_for runs out and the predicate does not hold.
WaitTimesOut(c) ==
  /\ at[c] = "wait" /\ request[c] \notin ready
  /\ EndCall(c, "timed_out")

-----------------------------------------------------------------------------
(* The receiver threads and the heartbeat thread                           *)

\* Each loop looks at _running between two messages, and only there.
LoopEnds(t) ==
  /\ thread[t] = "loop" /\ ~running
  /\ thread' = [thread EXCEPT ![t] = "exited"]
  /\ UNCHANGED <<lifeVars, job_in_hand, callVars, pendingVars, engineVars>>

\* recv is interrupted by a signal: a receiver leaves its loop for good.
Interrupted(t) ==
  /\ thread[t] = "loop" /\ running
  /\ thread' = [thread EXCEPT ![t] = "exited"]
  /\ UNCHANGED <<lifeVars, job_in_hand, callVars, pendingVars, engineVars>>

\* What a heartbeat does to the engine is in EventPath; here it is a send that
\* may wait, and what it throws is swallowed.
HeartbeatDue ==
  /\ thread["heartbeat"] = "loop" /\ running
  /\ thread' = [thread EXCEPT !["heartbeat"] = "send"]
  /\ UNCHANGED <<lifeVars, job_in_hand, callVars, pendingVars, engineVars>>

HeartbeatSent ==
  /\ thread["heartbeat"] = "send"
  /\ thread' = [thread EXCEPT !["heartbeat"] = "loop"]
  /\ UNCHANGED <<lifeVars, job_in_hand, callVars, pendingVars, engineVars>>

\* An event of another module whose topic has a handler; the others are skipped.
ReceiveEvent ==
  /\ thread["event"] = "loop" /\ running
  /\ thread' = [thread EXCEPT !["event"] = "handler"]
  /\ UNCHANGED <<lifeVars, job_in_hand, callVars, pendingVars, engineVars>>

\* The handler returns or throws; _dispatch swallows what it throws.
EventHandled ==
  /\ thread["event"] = "handler" /\ at["event"] = "idle"
  /\ thread' = [thread EXCEPT !["event"] = "loop"]
  /\ UNCHANGED <<lifeVars, job_in_hand, callVars, pendingVars, engineVars>>

\* _handle_job_request: without a handler an error response is sent at once.
\* (_handlers_lock is kept during that send, so while it waits the event
\* receiver may have to wait, too.)
ReceiveJob(j) ==
  /\ thread["job"] = "loop" /\ running
  /\ <<"request", j>> \in inbox
  /\ inbox' = inbox \ {<<"request", j>>}
  /\ thread' = [thread EXCEPT !["job"] = IF j \in Unhandled THEN "send" ELSE "handler"]
  /\ job_in_hand' = j
  /\ UNCHANGED <<lifeVars, callVars, pendingVars, asked, answerVars>>

HandlerDone(next, hand) ==
  /\ thread["job"] = "handler" /\ at["job"] = "idle"
  /\ thread' = [thread EXCEPT !["job"] = next]
  /\ job_in_hand' = hand
  /\ UNCHANGED <<lifeVars, callVars, pendingVars, engineVars>>

\* Mutant of JobHandled: a handler that throws leaves no response behind.
JobHandledOrDropped == HandlerDone("send", job_in_hand) \/ HandlerDone("loop", NoJob)

\* The handler returned a result or threw: either way a response is made.
JobHandled == HandlerDone("send", job_in_hand)

ResponseSent ==
  /\ thread["job"] = "send"
  /\ responses' = [responses EXCEPT ![job_in_hand] = @ + 1]
  /\ thread' = [thread EXCEPT !["job"] = "loop"]
  /\ job_in_hand' = NoJob
  /\ UNCHANGED <<lifeVars, callVars, pendingVars, asked, inbox, unsent>>

\* Packing or sending the response throws.  The loop swallows the exception or,
\* if the send was interrupted, ends; the job is forgotten either way.
ResponseThrows ==
  /\ thread["job"] = "send"
  /\ unsent' = [unsent EXCEPT ![job_in_hand] = @ + 1]
  /\ \E next \in {"loop", "exited"} : thread' = [thread EXCEPT !["job"] = next]
  /\ job_in_hand' = NoJob
  /\ UNCHANGED <<lifeVars, callVars, pendingVars, asked, inbox, responses>>

\* _handle_job_response: a response nobody waits for any more is ignored.
ReceiveResponse(r) ==
  /\ thread["job"] = "loop" /\ running
  /\ <<"response", r>> \in inbox
  /\ inbox' = inbox \ {<<"response", r>>}
  /\ IF r \in pending
       THEN /\ filled' = filled \cup {r}
            /\ ready' = ready \cup {r}
       ELSE UNCHANGED <<filled, ready>>
  /\ UNCHANGED <<lifeVars, thread, job_in_hand, callVars, pending, woken, outcome, asked,
                 answerVars>>

-----------------------------------------------------------------------------
(* The engine                                                              *)

EngineAnswers(r) ==
  /\ r \in asked
  /\ asked' = asked \ {r}
  /\ inbox' = IF "job" \in open THEN inbox \cup {<<"response", r>>} ELSE inbox
  /\ UNCHANGED <<lifeVars, thread, job_in_hand, callVars, pendingVars, answerVars>>

\* The router may assign a job again after the module timed out on it.
EngineAssigns(j) ==
  /\ "job" \in open /\ <<"request", j>> \notin inbox
  /\ responses[j] + unsent[j] + (IF job_in_hand = j THEN 1 ELSE 0) < MaxAssigned
  /\ inbox' = inbox \cup {<<"request", j>>}
  /\ UNCHANGED <<lifeVars, thread, job_in_hand, callVars, pendingVars, asked, answerVars>>

Owner ==
  \/ Start \/ RegistrationFails \/ Registered
  \/ \E job_port \in BOOLEAN : SetupJobs(job_port)
  \/ Stop \/ Joins \/ WakePending \/ CloseSockets

Returns(c) == WaitReady(c) \/ WaitTimesOut(c)
CallSteps(c) == Publish(c) \/ InsertPending(c) \/ Returns(c)
EventLoop == EventHandled \/ LoopEnds("event")
HeartbeatLoop == LoopEnds("heartbeat")
JobLoop == JobHandled \/ LoopEnds("job") \/ (\E j \in Jobs : ReceiveJob(j))
             \/ (\E r \in Ids : ReceiveResponse(r))
Sends == HeartbeatSent \/ ResponseSent \/ (\E c \in Callers : SendRequest(c))
Errors == ResponseThrows \/ (\E c \in Callers : SendThrows(c))
            \/ (\E t \in {"event", "job"} : Interrupted(t))

Next ==
  \/ Owner
  \/ \E c \in Callers : SendEvent(c) \/ RequestEvent(c) \/ CallSteps(c)
  \/ ReceiveEvent \/ EventLoop \/ HeartbeatDue \/ HeartbeatLoop \/ JobLoop
  \/ Sends \/ Errors
  \/ \E r \in Ids : EngineAnswers(r)
  \/ \E j \in Jobs : EngineAssigns(j)

Spec == Init /\ [][Next]_vars

\* Threads keep running, waits run out, and a handler returns after finitely
\* many calls of its own.  The engine need not answer, and it need not read: no
\* send on a DEALER socket has to return.  Nobody has to start or stop the module.
Fairness ==
  /\ WF_vars(Joins \/ WakePending \/ CloseSockets)
  /\ \A c \in Callers : WF_vars(CallSteps(c))
  /\ WF_vars(EventLoop) /\ WF_vars(HeartbeatLoop) /\ WF_vars(JobLoop)
  /\ SF_vars(EventHandled) /\ SF_vars(JobHandled)

FairSpec == Spec /\ Fairness

-----------------------------------------------------------------------------
(* Properties                                                              *)

\* Every flag, socket, thread and entry holds what its C++ type holds.
TypeOK ==
  /\ owner \in OwnerPoints /\ starts \in 0..MaxStarts
  /\ running \in BOOLEAN /\ registered \in BOOLEAN
  /\ open \subseteq Sockets
  /\ thread \in [{"event", "heartbeat", "job"} -> ThreadPoints]
  /\ job_in_hand \in Jobs \cup {NoJob}
  /\ at \in [Callers -> CallerPoints] /\ request \in [Callers -> Ids \cup {NoRequest}]
  /\ issued \in 0..MaxRequests
  /\ pending \subseteq Ids /\ ready \subseteq Ids /\ filled \subseteq Ids /\ woken \subseteq Ids
  /\ outcome \in [Ids -> Outcomes]
  /\ asked \subseteq Ids /\ inbox \subseteq Inbound
  /\ responses \in [Jobs -> 0..MaxAssigned] /\ unsent \in [Jobs -> 0..MaxAssigned]

\* stop() never takes a socket from a thread that start() launched: as long as
\* such a thread runs, the socket it polls is open, and a handler that has passed
\* the check of send_event or request_event still finds the socket it will use.
HandlerSocketsOpen ==
  /\ thread["event"] \in {"loop", "handler"} => {"pub", "sub"} \subseteq open
  /\ thread["heartbeat"] \in {"loop", "send"} => "heartbeat" \in open
  /\ thread["job"] \in {"loop", "handler", "send"} => "job" \in open
  /\ \A c \in {"event", "job"} :
       /\ at[c] = "publish" => "pub" \in open
       /\ at[c] \in {"insert", "send"} => "job" \in open
       /\ at[c] # "lost"

\* request_event tells the truth.  It times out only if no response was taken in
\* for it, a response is never written into a request that has ended, and a
\* result that no response wrote is returned only to a caller that stop() woke.
ResultsGenuine ==
  \A r \in Ids :
    /\ outcome[r] \in {"timed_out", "send_failed"} /\ r \notin pending => r \notin filled
    /\ outcome[r] = "response" => r \in filled
    /\ outcome[r] = "empty" => r \in woken

\* Every entry of _pending_requests belongs to a call in progress, or to one
\* whose send threw; those entries go with the next stop().
NoOrphans ==
  \A r \in pending : outcome[r] = "send_failed" \/ \E c \in Callers : request[c] = r

\* Responses for a job that went out or whose send threw; and the job receiver, or
\* any thread that stop() joins, in a send that may wait.
Settled(j) == responses[j] + unsent[j]
JobReceiverSends == thread["job"] = "send" \/ at["job"] = "send"
JoinedThreadSends == JobReceiverSends \/ thread["heartbeat"] = "send" \/ at["event"] = "send"

\* A job taken from the socket is answered, whether its handler is missing,
\* returns, throws, waits for a request of its own or is overtaken by stop();
\* unless the send of its response throws, after which nobody tries again, or a
\* send of the job receiver waits for good because the engine does not read.
TakenJobsAnswered ==
  \A j \in Jobs, n \in 0..(MaxAssigned - 1) :
    (job_in_hand = j /\ Settled(j) = n) ~> (Settled(j) > n \/ []JobReceiverSends)

\* stop() returns, even if handlers are at work on the threads it joins and even
\* if one of them waits, on the job receiver itself, for a response that only the
\* job receiver could take in; unless a send of one of these threads waits for
\* good because the engine does not read, since no send has a time-out.
StopReturns == (owner = "join_event") ~> (owner = "stopped" \/ []JoinedThreadSends)
=============================================================================
