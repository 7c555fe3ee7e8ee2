------------------------- MODULE ModuleClientProofs -------------------------
(***************************************************************************)
(* Theorems about ModuleClient, for any application threads, jobs and      *)
(* bounds: types, the sockets of handlers, and what request_event returns. *)
(***************************************************************************)
EXTENDS ModuleClient, TLAPS

Threads == {"event", "heartbeat", "job"}
Receivers == {"event", "job"}
Down == {"idle", "register", "stopped"}

\* The owner's place tells which threads can exist and which sockets are open.
LifeInv ==
  /\ running <=> owner \in {"register", "setup_jobs", "started"}
  /\ owner \in Down => open = {} /\ \A t \in Threads : thread[t] = "none"
  /\ owner \notin Down => "pub" \in open /\ "sub" \in open
  /\ owner = "setup_jobs" => thread["job"] = "none"
  /\ owner \in {"join_heartbeat", "join_job", "wake", "close"} => thread["event"] = "none"
  /\ owner \in {"join_job", "wake", "close"} => thread["heartbeat"] = "none"
  /\ owner \in {"wake", "close"} => thread["job"] = "none"
  /\ thread["heartbeat"] # "none" => "heartbeat" \in open
  /\ thread["job"] # "none" => "job" \in open

\* A receiver thread is in a call only while it runs a handler, and then the
\* socket that the call will use is open.
HandlerInv ==
  /\ thread["job"] \in {"handler", "send"} <=> job_in_hand # NoJob
  /\ \A c \in Receivers :
       /\ at[c] # "idle" => thread[c] = "handler"
       /\ at[c] \in {"insert", "send"} => "job" \in open
       /\ at[c] # "lost"

\* A job is on the way, in hand, answered or given up, and assigned a bounded
\* number of times.
InHand(j) == IF job_in_hand = j THEN 1 ELSE 0
OnTheWay(j) == IF <<"request", j>> \in inbox THEN 1 ELSE 0
AssignedInv ==
  \A j \in Jobs : responses[j] + unsent[j] + InHand(j) + OnTheWay(j) <= MaxAssigned

\* The engine knows nothing of request r, and no response has come for it.
Unsent(r) == r \notin asked /\ <<"response", r>> \notin inbox /\ r \notin filled

\* A caller in request_event has a correlation id of its own, which has no
\* outcome yet and which, before the send, the engine does not know.
CallInv ==
  /\ \A c \in Callers :
       /\ at[c] \in {"idle", "publish"} => request[c] = NoRequest
       /\ at[c] \in {"insert", "send", "wait"} => request[c] # NoRequest
       /\ at[c] \in {"insert", "send"} => Unsent(request[c])
       /\ request[c] # NoRequest => request[c] <= issued /\ outcome[request[c]] = "none"
  /\ \A c, d \in Callers : request[c] = request[d] /\ request[c] # NoRequest => c = d

\* What the flags of an entry say, and what the outcome of a request says.
RequestInv ==
  \A r \in Ids :
    /\ r > issued => Unsent(r) /\ r \notin pending /\ outcome[r] = "none"
    /\ r \in filled => r \in ready
    /\ r \in ready => r \in filled \/ r \in woken
    /\ outcome[r] = "send_failed" => Unsent(r)
    /\ outcome[r] = "timed_out" => r \notin pending /\ r \notin filled
    /\ outcome[r] = "response" => r \in filled
    /\ outcome[r] = "empty" => r \in woken
    /\ r \in pending => outcome[r] = "send_failed" \/ \E c \in Callers : request[c] = r

IInv == TypeOK /\ LifeInv /\ HandlerInv /\ AssignedInv /\ CallInv /\ RequestInv

-----------------------------------------------------------------------------
(* Facts the steps share                                                   *)

USE ClientAssumption

\* A caller past the check of request_event holds a correlation id.
LEMMA CallerHasId ==
  ASSUME TypeOK, CallInv, NEW c \in Callers, at[c] \in {"insert", "send", "wait"}
  PROVE  request[c] \in Ids /\ request[c] # NoRequest /\ outcome[request[c]] = "none"
BY DEF TypeOK, CallInv

\* The job receiver that sends a response has a job in hand, with room to count it.
LEMMA JobInHand ==
  ASSUME TypeOK, HandlerInv, AssignedInv, thread["job"] = "send"
  PROVE  /\ job_in_hand \in Jobs
         /\ responses[job_in_hand] + 1 \in 0..MaxAssigned
         /\ unsent[job_in_hand] + 1 \in 0..MaxAssigned
<1>1. job_in_hand \in Jobs
  BY DEF TypeOK, HandlerInv
<1>2. InHand(job_in_hand) = 1 /\ OnTheWay(job_in_hand) \in {0, 1}
  BY DEF InHand, OnTheWay
<1>3. responses[job_in_hand] \in 0..MaxAssigned /\ unsent[job_in_hand] \in 0..MaxAssigned
  BY <1>1 DEF TypeOK
<1>4. responses[job_in_hand] + unsent[job_in_hand] + InHand(job_in_hand)
        + OnTheWay(job_in_hand) <= MaxAssigned
  BY <1>1 DEF AssignedInv
<1> QED
  BY <1>1, <1>2, <1>3, <1>4

-----------------------------------------------------------------------------
(* The invariant holds initially                                           *)

\* Nothing runs, is open or is pending before the first start().
LEMMA InitHolds == Init => IInv
<1> SUFFICES ASSUME Init PROVE IInv
  OBVIOUS
<1>1. TypeOK
  <2>1. thread \in [{"event", "heartbeat", "job"} -> ThreadPoints]
    BY DEF Init, ThreadPoints
  <2>2. /\ at \in [Callers -> CallerPoints] /\ request \in [Callers -> Ids \cup {NoRequest}]
        /\ outcome \in [Ids -> Outcomes] /\ responses \in [Jobs -> 0..MaxAssigned]
        /\ unsent \in [Jobs -> 0..MaxAssigned]
    BY DEF Init, CallerPoints, Outcomes
  <2>3. issued \in 0..MaxRequests /\ starts \in 0..MaxStarts /\ owner \in OwnerPoints
    BY DEF Init, OwnerPoints
  <2>4. job_in_hand \in Jobs \cup {NoJob} /\ running \in BOOLEAN /\ registered \in BOOLEAN
    BY DEF Init
  <2>5. /\ open \subseteq Sockets /\ pending \subseteq Ids /\ ready \subseteq Ids
        /\ filled \subseteq Ids /\ woken \subseteq Ids /\ asked \subseteq Ids
        /\ inbox \subseteq Inbound
    BY DEF Init
  <2> QED
    BY <2>1, <2>2, <2>3, <2>4, <2>5 DEF TypeOK
<1>2. LifeInv
  BY DEF Init, LifeInv, Down, Threads
<1>3. HandlerInv
  BY DEF Init, HandlerInv, Receivers, Callers
<1>4. AssignedInv
  BY DEF Init, AssignedInv, InHand, OnTheWay
<1>5. CallInv
  BY DEF Init, CallInv, Callers
<1>6. RequestInv
  BY DEF Init, RequestInv, Unsent, Ids
<1> QED
  BY <1>1, <1>2, <1>3, <1>4, <1>5, <1>6 DEF IInv

-----------------------------------------------------------------------------
(* Every step preserves every part                                         *)

\* A response is counted only for a job assigned, and a caller only uses ids it drew.
LEMMA TypeStep == IInv /\ [Next]_vars => TypeOK'
<1> SUFFICES ASSUME IInv, [Next]_vars PROVE TypeOK'
  OBVIOUS
<1> USE DEF IInv, answerVars
<1>1. ASSUME Start PROVE TypeOK'
  BY <1>1 DEF Start, lifeVars, callVars, pendingVars, engineVars, TypeOK, OwnerPoints
<1>2. ASSUME RegistrationFails PROVE TypeOK'
  BY <1>2 DEF RegistrationFails, lifeVars, callVars, pendingVars, engineVars, TypeOK,
     OwnerPoints
<1>3. ASSUME Registered PROVE TypeOK'
  BY <1>3 DEF Registered, lifeVars, callVars, pendingVars, engineVars, TypeOK, OwnerPoints,
     ThreadPoints, Sockets
<1>4. ASSUME NEW job_port \in BOOLEAN, SetupJobs(job_port) PROVE TypeOK'
  <2>1. open' \subseteq Sockets
    BY <1>4 DEF SetupJobs, TypeOK, Sockets
  <2>2. thread' \in [{"event", "heartbeat", "job"} -> ThreadPoints]
    BY <1>4 DEF SetupJobs, TypeOK, ThreadPoints
  <2> QED
    BY <1>4, <2>1, <2>2 DEF SetupJobs, callVars, pendingVars, engineVars, TypeOK, OwnerPoints
<1>5. ASSUME Stop PROVE TypeOK'
  BY <1>5 DEF Stop, lifeVars, callVars, pendingVars, engineVars, TypeOK, OwnerPoints
<1>6. ASSUME Joins PROVE TypeOK'
  <2>1. PICK t \in Threads, here \in OwnerPoints, next \in OwnerPoints : Join(t, here, next)
    BY <1>6 DEF Joins, Threads, OwnerPoints
  <2>2. thread' \in [{"event", "heartbeat", "job"} -> ThreadPoints]
    BY <2>1 DEF Join, TypeOK, ThreadPoints, Threads
  <2> QED
    BY <2>1, <2>2 DEF Join, callVars, pendingVars, engineVars, TypeOK
<1>7. ASSUME WakePending PROVE TypeOK'
  BY <1>7 DEF WakePending, lifeVars, callVars, pendingVars, engineVars, TypeOK, OwnerPoints
<1>8. ASSUME CloseSockets PROVE TypeOK'
  BY <1>8 DEF CloseSockets, lifeVars, callVars, pendingVars, engineVars, TypeOK, OwnerPoints
<1>9. ASSUME NEW c \in Callers, SendEvent(c) PROVE TypeOK'
  BY <1>9 DEF SendEvent, lifeVars, callVars, pendingVars, engineVars, TypeOK, CallerPoints
<1>10. ASSUME NEW c \in Callers, Publish(c) PROVE TypeOK'
  BY <1>10 DEF Publish, lifeVars, callVars, pendingVars, engineVars, TypeOK, CallerPoints
<1>11. ASSUME NEW c \in Callers, RequestEvent(c) PROVE TypeOK'
  BY <1>11 DEF RequestEvent, lifeVars, callVars, pendingVars, engineVars, TypeOK,
     CallerPoints, Ids
<1>12. ASSUME NEW c \in Callers, InsertPending(c) PROVE TypeOK'
  <2>1. pending' \subseteq Ids
    BY <1>12, CallerHasId DEF InsertPending, TypeOK
  <2> QED
    BY <1>12, <2>1 DEF InsertPending, lifeVars, engineVars, TypeOK, CallerPoints
<1>13. ASSUME NEW c \in Callers, SendRequest(c) PROVE TypeOK'
  <2>1. asked' \subseteq Ids
    BY <1>13, CallerHasId DEF SendRequest, TypeOK
  <2>2. at' \in [Callers -> CallerPoints]
    BY <1>13 DEF SendRequest, TypeOK, CallerPoints
  <2> QED
    BY <1>13, <2>1, <2>2 DEF SendRequest, lifeVars, pendingVars, TypeOK
<1>14. ASSUME NEW c \in Callers, SendThrows(c) PROVE TypeOK'
  BY <1>14 DEF SendThrows, lifeVars, callVars, pendingVars, engineVars, TypeOK,
     CallerPoints, Outcomes
<1>15. ASSUME NEW c \in Callers, WaitReady(c) PROVE TypeOK'
  BY <1>15 DEF WaitReady, EndCall, CallEndsWith, lifeVars, callVars, pendingVars,
     engineVars, TypeOK, CallerPoints, Outcomes
<1>16. ASSUME NEW c \in Callers, WaitTimesOut(c) PROVE TypeOK'
  BY <1>16 DEF WaitTimesOut, EndCall, CallEndsWith, lifeVars, callVars, pendingVars,
     engineVars, TypeOK, CallerPoints, Outcomes
<1>17. ASSUME NEW t \in Threads, LoopEnds(t) PROVE TypeOK'
  BY <1>17 DEF LoopEnds, lifeVars, callVars, pendingVars, engineVars, TypeOK, ThreadPoints,
     Threads
<1>18. ASSUME ReceiveEvent PROVE TypeOK'
  BY <1>18 DEF ReceiveEvent, lifeVars, callVars, pendingVars, engineVars, TypeOK, ThreadPoints
<1>19. ASSUME EventHandled PROVE TypeOK'
  BY <1>19 DEF EventHandled, lifeVars, callVars, pendingVars, engineVars, TypeOK, ThreadPoints
<1>20. ASSUME NEW j \in Jobs, ReceiveJob(j) PROVE TypeOK'
  <2>1. thread' \in [{"event", "heartbeat", "job"} -> ThreadPoints]
    BY <1>20 DEF ReceiveJob, TypeOK, ThreadPoints
  <2>2. job_in_hand' \in Jobs \cup {NoJob} /\ inbox' \subseteq Inbound
    BY <1>20 DEF ReceiveJob, TypeOK
  <2> QED
    BY <1>20, <2>1, <2>2 DEF ReceiveJob, lifeVars, callVars, pendingVars, answerVars, TypeOK
<1>21. ASSUME JobHandled PROVE TypeOK'
  BY <1>21 DEF JobHandled, HandlerDone, lifeVars, callVars, pendingVars, engineVars,
     answerVars, TypeOK, ThreadPoints
<1>26. ASSUME ResponseSent PROVE TypeOK'
  <2>1. responses' \in [Jobs -> 0..MaxAssigned]
    BY <1>26, JobInHand DEF ResponseSent, TypeOK
  <2>2. thread' \in [{"event", "heartbeat", "job"} -> ThreadPoints]
    BY <1>26 DEF ResponseSent, TypeOK, ThreadPoints
  <2> QED
    BY <1>26, <2>1, <2>2 DEF ResponseSent, lifeVars, callVars, pendingVars, TypeOK
<1>27. ASSUME ResponseThrows PROVE TypeOK'
  <2>1. unsent' \in [Jobs -> 0..MaxAssigned]
    BY <1>27, JobInHand DEF ResponseThrows, TypeOK
  <2>2. thread' \in [{"event", "heartbeat", "job"} -> ThreadPoints]
    BY <1>27 DEF ResponseThrows, TypeOK, ThreadPoints
  <2> QED
    BY <1>27, <2>1, <2>2 DEF ResponseThrows, lifeVars, callVars, pendingVars, TypeOK
<1>28. ASSUME NEW t \in Threads, Interrupted(t) \/ HeartbeatDue \/ HeartbeatSent PROVE TypeOK'
  BY <1>28 DEF Interrupted, HeartbeatDue, HeartbeatSent, lifeVars, callVars, pendingVars,
     engineVars, answerVars, TypeOK, ThreadPoints, Threads
<1>22. ASSUME NEW r \in Ids, ReceiveResponse(r) PROVE TypeOK'
  <2>1. filled' \subseteq Ids /\ ready' \subseteq Ids /\ inbox' \subseteq Inbound
    BY <1>22 DEF ReceiveResponse, TypeOK
  <2> QED
    BY <1>22, <2>1 DEF ReceiveResponse, lifeVars, callVars, TypeOK
<1>23. ASSUME NEW r \in Ids, EngineAnswers(r) PROVE TypeOK'
  BY <1>23 DEF EngineAnswers, lifeVars, callVars, pendingVars, engineVars, TypeOK, Inbound
<1>24. ASSUME NEW j \in Jobs, EngineAssigns(j) PROVE TypeOK'
  BY <1>24 DEF EngineAssigns, lifeVars, callVars, pendingVars, engineVars, TypeOK, Inbound
<1>25. ASSUME UNCHANGED vars PROVE TypeOK'
  BY <1>25 DEF vars, lifeVars, callVars, pendingVars, engineVars, TypeOK
<1> QED
  BY <1>1, <1>2, <1>3, <1>4, <1>5, <1>6, <1>7, <1>8, <1>9, <1>10, <1>11, <1>12, <1>13,
     <1>14, <1>15, <1>16, <1>17, <1>18, <1>19, <1>20, <1>21, <1>22, <1>23, <1>24, <1>25,
     <1>26, <1>27, <1>28 DEF
     Next, Owner, CallSteps, Returns, EventLoop, HeartbeatLoop, JobLoop, Sends, Errors, Threads

\* Sockets open before the threads start and close after the threads have ended.
LEMMA LifeStep == IInv /\ [Next]_vars => LifeInv'
<1> SUFFICES ASSUME IInv, [Next]_vars PROVE LifeInv'
  OBVIOUS
<1> USE DEF IInv
<1>1. ASSUME UNCHANGED <<owner, running, open, thread>> PROVE LifeInv'
  BY <1>1 DEF LifeInv, TypeOK, Down, Threads, OwnerPoints
<1>2. ASSUME Start PROVE LifeInv'
  BY <1>2 DEF Start, lifeVars, LifeInv, TypeOK, Down, Threads, OwnerPoints
<1>3. ASSUME RegistrationFails PROVE LifeInv'
  BY <1>3 DEF RegistrationFails, lifeVars, LifeInv, TypeOK, Down, Threads, OwnerPoints
<1>4. ASSUME Registered PROVE LifeInv'
  BY <1>4 DEF Registered, lifeVars, LifeInv, TypeOK, Down, Threads, OwnerPoints
<1>5. ASSUME NEW job_port \in BOOLEAN, SetupJobs(job_port) PROVE LifeInv'
  BY <1>5 DEF SetupJobs, lifeVars, LifeInv, TypeOK, Down, Threads, OwnerPoints
<1>6. ASSUME Stop PROVE LifeInv'
  BY <1>6 DEF Stop, lifeVars, LifeInv, TypeOK, Down, Threads, OwnerPoints
<1>7. ASSUME Joins PROVE LifeInv'
  BY <1>7 DEF Joins, Join, lifeVars, LifeInv, TypeOK, Down, Threads, OwnerPoints
<1>8. ASSUME WakePending PROVE LifeInv'
  BY <1>8 DEF WakePending, lifeVars, LifeInv, TypeOK, Down, Threads, OwnerPoints
<1>9. ASSUME CloseSockets PROVE LifeInv'
  BY <1>9 DEF CloseSockets, lifeVars, LifeInv, TypeOK, Down, Threads, OwnerPoints
<1>10. ASSUME NEW t \in Threads, LoopEnds(t) PROVE LifeInv'
  BY <1>10 DEF LoopEnds, lifeVars, LifeInv, TypeOK, Down, Threads, OwnerPoints
<1>11. ASSUME ReceiveEvent PROVE LifeInv'
  BY <1>11 DEF ReceiveEvent, lifeVars, LifeInv, TypeOK, Down, Threads, OwnerPoints
<1>12. ASSUME EventHandled PROVE LifeInv'
  BY <1>12 DEF EventHandled, lifeVars, LifeInv, TypeOK, Down, Threads, OwnerPoints
<1>13. ASSUME NEW j \in Jobs, ReceiveJob(j) PROVE LifeInv'
  BY <1>13 DEF ReceiveJob, lifeVars, LifeInv, TypeOK, Down, Threads, OwnerPoints
<1>14. ASSUME JobHandled PROVE LifeInv'
  BY <1>14 DEF JobHandled, HandlerDone, lifeVars, LifeInv, TypeOK, Down, Threads, OwnerPoints
<1>15. ASSUME ResponseSent \/ ResponseThrows PROVE LifeInv'
  BY <1>15 DEF ResponseSent, ResponseThrows, lifeVars, LifeInv, TypeOK, Down, Threads,
     OwnerPoints
<1>16. ASSUME NEW t \in Receivers, Interrupted(t) PROVE LifeInv'
  BY <1>16 DEF Interrupted, lifeVars, LifeInv, TypeOK, Down, Threads, Receivers, OwnerPoints
<1>17. ASSUME HeartbeatDue \/ HeartbeatSent PROVE LifeInv'
  BY <1>17 DEF HeartbeatDue, HeartbeatSent, lifeVars, LifeInv, TypeOK, Down, Threads,
     OwnerPoints
<1> QED
  BY <1>1, <1>2, <1>3, <1>4, <1>5, <1>6, <1>7, <1>8, <1>9, <1>10, <1>11, <1>12, <1>13, <1>14,
     <1>15, <1>16, <1>17 DEF Next, Owner, CallSteps, Returns, EventLoop, HeartbeatLoop, JobLoop,
     Sends, Errors, Threads, Receivers, SendEvent, Publish, RequestEvent, InsertPending,
     SendRequest, SendThrows, WaitReady, EndCall, CallEndsWith, WaitTimesOut, ReceiveResponse,
     EngineAnswers, EngineAssigns, vars, lifeVars, callVars, pendingVars, engineVars

\* A handler enters and leaves its calls while its thread still has to be joined.
LEMMA HandlerStep == IInv /\ [Next]_vars => HandlerInv'
<1> SUFFICES ASSUME IInv, [Next]_vars PROVE HandlerInv'
  OBVIOUS
<1> USE DEF IInv
<1>1. ASSUME UNCHANGED <<open, thread, job_in_hand, at>> PROVE HandlerInv'
  BY <1>1 DEF HandlerInv, LifeInv, TypeOK, Receivers, Callers, Threads, Down, InUserCode
<1>2. ASSUME Start PROVE HandlerInv'
  BY <1>2 DEF Start, lifeVars, callVars, HandlerInv, LifeInv, TypeOK, Receivers, Callers,
     Threads, Down, InUserCode
<1>3. ASSUME RegistrationFails PROVE HandlerInv'
  BY <1>3 DEF RegistrationFails, lifeVars, callVars, HandlerInv, LifeInv, TypeOK, Receivers,
     Callers, Threads, Down, InUserCode
<1>4. ASSUME Registered PROVE HandlerInv'
  BY <1>4 DEF Registered, lifeVars, callVars, HandlerInv, LifeInv, TypeOK, Receivers,
     Callers, Threads, Down, InUserCode
<1>5. ASSUME NEW job_port \in BOOLEAN, SetupJobs(job_port) PROVE HandlerInv'
  BY <1>5 DEF SetupJobs, lifeVars, callVars, HandlerInv, LifeInv, TypeOK, Receivers,
     Callers, Threads, Down, InUserCode
<1>6. ASSUME Stop PROVE HandlerInv'
  BY <1>6 DEF Stop, lifeVars, callVars, HandlerInv, LifeInv, TypeOK, Receivers, Callers,
     Threads, Down, InUserCode
<1>7. ASSUME Joins PROVE HandlerInv'
  BY <1>7 DEF Joins, Join, lifeVars, callVars, HandlerInv, LifeInv, TypeOK, Receivers,
     Callers, Threads, Down, InUserCode
<1>8. ASSUME CloseSockets PROVE HandlerInv'
  BY <1>8 DEF CloseSockets, lifeVars, callVars, HandlerInv, LifeInv, TypeOK, Receivers,
     Callers, Threads, Down, InUserCode
<1>9. ASSUME NEW c \in Callers, SendEvent(c) PROVE HandlerInv'
  BY <1>9 DEF SendEvent, lifeVars, callVars, HandlerInv, LifeInv, TypeOK, Receivers,
     Callers, Threads, Down, InUserCode
<1>10. ASSUME NEW c \in Callers, Publish(c) PROVE HandlerInv'
  BY <1>10 DEF Publish, lifeVars, callVars, HandlerInv, LifeInv, TypeOK, Receivers, Callers,
     Threads, Down, InUserCode
<1>11. ASSUME NEW c \in Callers, RequestEvent(c) PROVE HandlerInv'
  BY <1>11 DEF RequestEvent, lifeVars, callVars, HandlerInv, LifeInv, TypeOK, Receivers,
     Callers, Threads, Down, InUserCode
<1>12. ASSUME NEW c \in Callers, InsertPending(c) PROVE HandlerInv'
  BY <1>12 DEF InsertPending, lifeVars, callVars, HandlerInv, LifeInv, TypeOK, Receivers,
     Callers, Threads, Down, InUserCode
<1>13. ASSUME NEW c \in Callers, SendRequest(c) PROVE HandlerInv'
  BY <1>13 DEF SendRequest, lifeVars, callVars, HandlerInv, LifeInv, TypeOK, Receivers,
     Callers, Threads, Down, InUserCode
<1>14. ASSUME NEW c \in Callers, SendThrows(c) PROVE HandlerInv'
  BY <1>14 DEF SendThrows, lifeVars, callVars, HandlerInv, LifeInv, TypeOK, Receivers,
     Callers, Threads, Down, InUserCode
<1>15. ASSUME NEW c \in Callers, WaitReady(c) PROVE HandlerInv'
  BY <1>15 DEF WaitReady, EndCall, CallEndsWith, lifeVars, callVars, HandlerInv, LifeInv,
     TypeOK, Receivers, Callers, Threads, Down, InUserCode
<1>16. ASSUME NEW c \in Callers, WaitTimesOut(c) PROVE HandlerInv'
  BY <1>16 DEF WaitTimesOut, EndCall, CallEndsWith, lifeVars, callVars, HandlerInv, LifeInv,
     TypeOK, Receivers, Callers, Threads, Down, InUserCode
<1>17. ASSUME NEW t \in Threads, LoopEnds(t) PROVE HandlerInv'
  BY <1>17 DEF LoopEnds, lifeVars, callVars, HandlerInv, LifeInv, TypeOK, Receivers,
     Callers, Threads, Down, InUserCode
<1>18. ASSUME ReceiveEvent PROVE HandlerInv'
  BY <1>18 DEF ReceiveEvent, lifeVars, callVars, HandlerInv, LifeInv, TypeOK, Receivers,
     Callers, Threads, Down, InUserCode
<1>19. ASSUME EventHandled PROVE HandlerInv'
  BY <1>19 DEF EventHandled, lifeVars, callVars, HandlerInv, LifeInv, TypeOK, Receivers,
     Callers, Threads, Down, InUserCode
<1>20. ASSUME NEW j \in Jobs, ReceiveJob(j) PROVE HandlerInv'
  BY <1>20 DEF ReceiveJob, lifeVars, callVars, HandlerInv, LifeInv, TypeOK, Receivers,
     Callers, Threads, Down, InUserCode
<1>21. ASSUME JobHandled PROVE HandlerInv'
  BY <1>21 DEF JobHandled, HandlerDone, lifeVars, callVars, HandlerInv, LifeInv, TypeOK,
     Receivers, Callers, Threads, Down, InUserCode
<1>22. ASSUME ResponseSent \/ ResponseThrows PROVE HandlerInv'
  BY <1>22 DEF ResponseSent, ResponseThrows, lifeVars, callVars, HandlerInv, LifeInv, TypeOK,
     Receivers, Callers, Threads, Down, InUserCode
<1>23. ASSUME NEW t \in Receivers, Interrupted(t) PROVE HandlerInv'
  BY <1>23 DEF Interrupted, lifeVars, callVars, HandlerInv, LifeInv, TypeOK,
     Receivers, Callers, Threads, Down, InUserCode
<1>24. ASSUME HeartbeatDue \/ HeartbeatSent PROVE HandlerInv'
  BY <1>24 DEF HeartbeatDue, HeartbeatSent, lifeVars, callVars, HandlerInv, LifeInv, TypeOK,
     Receivers, Callers, Threads, Down, InUserCode
<1> QED
  BY <1>1, <1>2, <1>3, <1>4, <1>5, <1>6, <1>7, <1>8, <1>9, <1>10, <1>11, <1>12, <1>13,
     <1>14, <1>15, <1>16, <1>17, <1>18, <1>19, <1>20, <1>21, <1>22, <1>23, <1>24 DEF Next,
     Owner, CallSteps, Returns, EventLoop, HeartbeatLoop, JobLoop, Sends, Errors, Threads,
     Receivers, WakePending, ReceiveResponse,
     EngineAnswers, EngineAssigns, vars, lifeVars, callVars, pendingVars, engineVars

\* A job moves from the inbox to the handler to its response, never back.
LEMMA AssignedStep == IInv /\ [Next]_vars => AssignedInv'
<1> SUFFICES ASSUME IInv, [Next]_vars PROVE AssignedInv'
  OBVIOUS
<1> USE DEF IInv
<1>1. ASSUME UNCHANGED <<responses, unsent, job_in_hand, inbox>> PROVE AssignedInv'
  BY <1>1 DEF AssignedInv, InHand, OnTheWay
<1>2. ASSUME CloseSockets PROVE AssignedInv'
  <2> SUFFICES ASSUME NEW k \in Jobs
               PROVE  responses'[k] + unsent'[k] + InHand(k)' + OnTheWay(k)' <= MaxAssigned
    BY DEF AssignedInv
  <2>1. /\ responses[k] + unsent[k] + InHand(k) + OnTheWay(k) <= MaxAssigned
        /\ responses[k] \in Nat /\ unsent[k] \in Nat
    BY DEF AssignedInv, TypeOK
  <2>2. /\ responses'[k] = responses[k] /\ unsent'[k] = unsent[k]
        /\ InHand(k)' = InHand(k) /\ InHand(k) \in {0, 1}
    BY <1>2 DEF CloseSockets, InHand, answerVars
  <2>3. OnTheWay(k) \in {0, 1} /\ OnTheWay(k)' = 0
    BY <1>2 DEF CloseSockets, OnTheWay
  <2> QED
    BY <2>1, <2>2, <2>3
<1>3. ASSUME NEW j \in Jobs, ReceiveJob(j) PROVE AssignedInv'
  <2> SUFFICES ASSUME NEW k \in Jobs
               PROVE  responses'[k] + unsent'[k] + InHand(k)' + OnTheWay(k)' <= MaxAssigned
    BY DEF AssignedInv
  <2>1. /\ responses[k] + unsent[k] + InHand(k) + OnTheWay(k) <= MaxAssigned
        /\ responses[k] \in Nat /\ unsent[k] \in Nat
    BY DEF AssignedInv, TypeOK
  <2>2. responses'[k] = responses[k] /\ unsent'[k] = unsent[k]
    BY <1>3 DEF ReceiveJob, answerVars
  <2>3. CASE k # j
    <3>1. OnTheWay(k)' = OnTheWay(k) /\ InHand(k)' = 0 /\ InHand(k) \in {0, 1}
      BY <1>3, <2>3 DEF ReceiveJob, OnTheWay, InHand
    <3>2. OnTheWay(k) \in {0, 1}
      BY DEF OnTheWay
    <3> QED
      BY <2>1, <2>2, <3>1, <3>2
  <2>4. CASE k = j
    <3>1. OnTheWay(j) = 1 /\ OnTheWay(j)' = 0 /\ InHand(j) = 0 /\ InHand(j)' = 1
      BY <1>3 DEF ReceiveJob, OnTheWay, InHand, HandlerInv
    <3> QED
      BY <2>1, <2>2, <2>4, <3>1
  <2> QED
    BY <2>3, <2>4
<1>4. ASSUME ResponseSent \/ ResponseThrows PROVE AssignedInv'
  <2> SUFFICES ASSUME NEW k \in Jobs
               PROVE  responses'[k] + unsent'[k] + InHand(k)' + OnTheWay(k)' <= MaxAssigned
    BY DEF AssignedInv
  <2>1. /\ responses[k] + unsent[k] + InHand(k) + OnTheWay(k) <= MaxAssigned
        /\ responses[k] \in Nat /\ unsent[k] \in Nat
    BY DEF AssignedInv, TypeOK
  <2>2. OnTheWay(k)' = OnTheWay(k) /\ OnTheWay(k) \in {0, 1} /\ InHand(k)' = 0
    BY <1>4 DEF ResponseSent, ResponseThrows, OnTheWay, InHand
  <2>3. job_in_hand \in Jobs
    BY <1>4, JobInHand DEF ResponseSent, ResponseThrows
  <2>4. responses'[k] + unsent'[k] = responses[k] + unsent[k] + InHand(k)
    BY <1>4, <2>1, <2>3 DEF ResponseSent, ResponseThrows, InHand, TypeOK
  <2>5. InHand(k) \in {0, 1} /\ responses'[k] \in Nat /\ unsent'[k] \in Nat
    BY <1>4, <2>1, <2>3 DEF ResponseSent, ResponseThrows, InHand, TypeOK
  <2> QED
    BY <2>1, <2>2, <2>4, <2>5
<1>5. ASSUME NEW r \in Ids, ReceiveResponse(r) PROVE AssignedInv'
  BY <1>5 DEF ReceiveResponse, answerVars, AssignedInv, InHand, OnTheWay
<1>6. ASSUME NEW r \in Ids, EngineAnswers(r) PROVE AssignedInv'
  BY <1>6 DEF EngineAnswers, answerVars, AssignedInv, InHand, OnTheWay
<1>7. ASSUME NEW j \in Jobs, EngineAssigns(j) PROVE AssignedInv'
  <2> SUFFICES ASSUME NEW k \in Jobs
               PROVE  responses'[k] + unsent'[k] + InHand(k)' + OnTheWay(k)' <= MaxAssigned
    BY DEF AssignedInv
  <2>1. /\ responses[k] + unsent[k] + InHand(k) + OnTheWay(k) <= MaxAssigned
        /\ responses[k] \in Nat /\ unsent[k] \in Nat
    BY DEF AssignedInv, TypeOK
  <2>2. /\ responses'[k] = responses[k] /\ unsent'[k] = unsent[k]
        /\ InHand(k)' = InHand(k) /\ InHand(k) \in {0, 1}
    BY <1>7 DEF EngineAssigns, InHand, answerVars
  <2>3. CASE k # j
    BY <1>7, <2>1, <2>2, <2>3 DEF EngineAssigns, OnTheWay
  <2>4. CASE k = j
    <3>1. responses[k] + unsent[k] + InHand(k) < MaxAssigned /\ OnTheWay(k)' \in {0, 1}
      BY <1>7, <2>4 DEF EngineAssigns, InHand, OnTheWay
    <3> QED
      BY <2>1, <2>2, <3>1
  <2> QED
    BY <2>3, <2>4
<1> QED
  BY <1>1, <1>2, <1>3, <1>4, <1>5, <1>6, <1>7 DEF Next, Owner, CallSteps, Returns,
     EventLoop, HeartbeatLoop, JobLoop, Sends, Errors, Threads, Start, RegistrationFails,
     Registered,
     SetupJobs, Stop, Joins, Join, WakePending, SendEvent, Publish, RequestEvent,
     InsertPending, SendRequest, SendThrows, WaitReady, EndCall, CallEndsWith, WaitTimesOut,
     LoopEnds, ReceiveEvent, EventHandled, JobHandled, HandlerDone, Interrupted, HeartbeatDue,
     HeartbeatSent, answerVars, vars, lifeVars, callVars, pendingVars, engineVars

\* Correlation ids are fresh, and no response can precede the send.
LEMMA CallStep == IInv /\ [Next]_vars => CallInv'
<1> SUFFICES ASSUME IInv, [Next]_vars PROVE CallInv'
  OBVIOUS
<1> USE DEF IInv
<1>1. ASSUME UNCHANGED <<at, request, issued, outcome, asked, inbox, filled>> PROVE CallInv'
  BY <1>1 DEF CallInv, Unsent, TypeOK, Ids
<1>2. ASSUME CloseSockets PROVE CallInv'
  BY <1>2 DEF CloseSockets, lifeVars, callVars, pendingVars, engineVars, CallInv, Unsent,
     TypeOK, Ids
<1>3. ASSUME NEW c \in Callers, SendEvent(c) PROVE CallInv'
  BY <1>3 DEF SendEvent, lifeVars, callVars, pendingVars, engineVars, CallInv, Unsent,
     TypeOK, Ids
<1>4. ASSUME NEW c \in Callers, Publish(c) PROVE CallInv'
  BY <1>4 DEF Publish, lifeVars, callVars, pendingVars, engineVars, CallInv, Unsent, TypeOK,
     Ids
<1>5. ASSUME NEW c \in Callers, RequestEvent(c) PROVE CallInv'
  <2>1. issued + 1 \in Ids /\ issued' = issued + 1 /\ issued \in Nat
    BY <1>5 DEF RequestEvent, TypeOK, Ids
  <2>2. Unsent(issued + 1) /\ outcome[issued + 1] = "none"
    BY <2>1 DEF RequestInv
  <2>3. \A d \in Callers : request[d] # NoRequest => request[d] \in Ids /\ request[d] <= issued
    BY DEF CallInv, TypeOK
  <2>4. \A d \in Callers : /\ d # c => request'[d] = request[d] /\ at'[d] = at[d]
                           /\ d = c => request'[d] = issued + 1 /\ at'[d] = "insert"
    BY <1>5 DEF RequestEvent, TypeOK
  <2>5. UNCHANGED <<asked, inbox, filled, outcome>>
    BY <1>5 DEF RequestEvent, pendingVars, engineVars
  <2>6. issued + 1 # NoRequest
    BY <2>1 DEF Ids
  <2>7. \A d \in Callers : request'[d] # NoRequest => request'[d] <= issued'
    <3> TAKE d \in Callers
    <3>1. CASE d = c
      BY <2>1, <2>4, <3>1
    <3>2. CASE d # c
      <4>1. request[d] \in Ids => request[d] \in Nat
        BY DEF Ids
      <4> QED
        BY <2>1, <2>3, <2>4, <3>2, <4>1
    <3> QED
      BY <3>1, <3>2
  <2>8. \A d, e \in Callers : request'[d] = request'[e] /\ request'[d] # NoRequest => d = e
    <3>1. \A d \in Callers : d # c => request[d] # issued + 1
      BY <2>1, <2>3, <2>6
    <3> QED
      BY <2>4, <3>1 DEF CallInv
  <2> QED
    BY <2>2, <2>4, <2>5, <2>6, <2>7, <2>8 DEF CallInv, Unsent
<1>6. ASSUME NEW c \in Callers, InsertPending(c) PROVE CallInv'
  BY <1>6 DEF InsertPending, lifeVars, callVars, pendingVars, engineVars, CallInv, Unsent,
     TypeOK, Ids
<1>7. ASSUME NEW c \in Callers, SendRequest(c) PROVE CallInv'
  BY <1>7 DEF SendRequest, lifeVars, callVars, pendingVars, engineVars, CallInv, Unsent,
     TypeOK, Ids
<1>8. ASSUME NEW c \in Callers, SendThrows(c) PROVE CallInv'
  BY <1>8 DEF SendThrows, lifeVars, callVars, pendingVars, engineVars, CallInv, Unsent,
     TypeOK, Ids
<1>9. ASSUME NEW c \in Callers, WaitReady(c) PROVE CallInv'
  BY <1>9 DEF WaitReady, EndCall, CallEndsWith, lifeVars, callVars, pendingVars, engineVars,
     CallInv, Unsent, TypeOK, Ids
<1>10. ASSUME NEW c \in Callers, WaitTimesOut(c) PROVE CallInv'
  BY <1>10 DEF WaitTimesOut, EndCall, CallEndsWith, lifeVars, callVars, pendingVars,
     engineVars, CallInv, Unsent, TypeOK, Ids
<1>11. ASSUME NEW j \in Jobs, ReceiveJob(j) PROVE CallInv'
  BY <1>11 DEF ReceiveJob, lifeVars, callVars, pendingVars, engineVars,
     CallInv, Unsent, TypeOK, Ids
<1>12. ASSUME NEW r \in Ids, ReceiveResponse(r) PROVE CallInv'
  <2>1. UNCHANGED <<at, request, issued, outcome, asked>>
    BY <1>12 DEF ReceiveResponse, callVars
  <2>2. \A q \in Ids : Unsent(q) => Unsent(q)'
    <3>1. <<"response", r>> \in inbox
      BY <1>12 DEF ReceiveResponse
    <3> QED
      BY <1>12, <3>1 DEF ReceiveResponse, Unsent
  <2>3. \A c \in Callers : at[c] \in {"insert", "send"} => request[c] \in Ids
    BY CallerHasId
  <2> QED
    BY <2>1, <2>2, <2>3 DEF CallInv
<1>13. ASSUME NEW r \in Ids, EngineAnswers(r) PROVE CallInv'
  BY <1>13 DEF EngineAnswers, lifeVars, callVars, pendingVars, engineVars, CallInv, Unsent,
     TypeOK, Ids
<1>14. ASSUME NEW j \in Jobs, EngineAssigns(j) PROVE CallInv'
  BY <1>14 DEF EngineAssigns, lifeVars, callVars, pendingVars, engineVars, CallInv, Unsent,
     TypeOK, Ids
<1> QED
  BY <1>1, <1>2, <1>3, <1>4, <1>5, <1>6, <1>7, <1>8, <1>9, <1>10, <1>11, <1>12, <1>13, <1>14
     DEF Next, Owner, CallSteps, Returns, EventLoop, HeartbeatLoop, JobLoop, Sends, Errors,
     Threads, Start, RegistrationFails, Registered, SetupJobs, Stop, Joins, Join, WakePending,
     LoopEnds, Interrupted, HeartbeatDue, HeartbeatSent, ReceiveEvent, EventHandled,
     JobHandled, HandlerDone, ResponseSent, ResponseThrows, vars, lifeVars, callVars,
     pendingVars, engineVars

\* A request that ends leaves the table unless its send threw, and its outcome
\* is the one its flags justify.
LEMMA RequestStep == IInv /\ [Next]_vars => RequestInv'
<1> SUFFICES ASSUME IInv, [Next]_vars PROVE RequestInv'
  OBVIOUS
<1> USE DEF IInv
<1>1. ASSUME UNCHANGED <<request, issued, pending, ready, filled, woken, outcome, asked, inbox>>
      PROVE  RequestInv'
  BY <1>1 DEF RequestInv, Unsent
<1>2. ASSUME WakePending PROVE RequestInv'
  BY <1>2 DEF WakePending, RequestInv, Unsent, callVars, engineVars
<1>3. ASSUME CloseSockets PROVE RequestInv'
  BY <1>3 DEF CloseSockets, RequestInv, Unsent, callVars, pendingVars
<1>4. ASSUME NEW c \in Callers, RequestEvent(c) PROVE RequestInv'
  <2>1. issued \in Nat /\ issued' = issued + 1 /\ request[c] = NoRequest
    BY <1>4 DEF RequestEvent, TypeOK, CallInv
  <2>2. \A d \in Callers, r \in Ids : request[d] = r => request'[d] = r
    BY <1>4, <2>1 DEF RequestEvent, TypeOK, Ids
  <2>3. \A r \in Ids : r > issued' => r > issued
    BY <2>1 DEF Ids
  <2>4. UNCHANGED <<pending, ready, filled, woken, outcome, asked, inbox>>
    BY <1>4 DEF RequestEvent, pendingVars, engineVars
  <2> QED
    BY <2>2, <2>3, <2>4 DEF RequestInv, Unsent
<1>5. ASSUME NEW c \in Callers, InsertPending(c) PROVE RequestInv'
  <2>1. request[c] \in Ids /\ request[c] <= issued /\ issued \in Nat
    BY <1>5, CallerHasId DEF InsertPending, CallInv, TypeOK
  <2>2. \A r \in Ids : r > issued => r # request[c]
    BY <2>1 DEF Ids
  <2>3. UNCHANGED <<request, issued, ready, filled, woken, outcome, asked, inbox>>
    BY <1>5 DEF InsertPending, engineVars
  <2>4. pending' = pending \cup {request[c]} /\ outcome[request[c]] = "none"
    BY <1>5, CallerHasId DEF InsertPending
  <2> QED
    BY <2>2, <2>3, <2>4 DEF RequestInv, Unsent
<1>6. ASSUME NEW c \in Callers, SendRequest(c) PROVE RequestInv'
  <2>1. request[c] \in Ids /\ request[c] <= issued /\ issued \in Nat
    BY <1>6, CallerHasId DEF SendRequest, CallInv, TypeOK
  <2>2. \A r \in Ids : r > issued => r # request[c]
    BY <2>1 DEF Ids
  <2>3. outcome[request[c]] = "none"
    BY <1>6, CallerHasId DEF SendRequest
  <2>4. UNCHANGED <<request, issued, pending, ready, filled, woken, outcome, inbox>>
    BY <1>6 DEF SendRequest, pendingVars
  <2>5. asked' \subseteq asked \cup {request[c]}
    BY <1>6 DEF SendRequest
  <2> QED
    BY <2>2, <2>3, <2>4, <2>5 DEF RequestInv, Unsent
<1>7. ASSUME NEW c \in Callers, NEW how \in {"send_failed", "response", "empty", "timed_out"},
             at[c] \in {"send", "wait"},
             request' = [request EXCEPT ![c] = NoRequest],
             outcome' = [outcome EXCEPT ![request[c]] = how],
             pending' = IF how = "send_failed" THEN pending ELSE pending \ {request[c]},
             UNCHANGED <<issued, ready, filled, woken, asked, inbox>>,
             how = "send_failed" => Unsent(request[c]),
             how = "timed_out" => request[c] \notin filled,
             how = "response" => request[c] \in filled,
             how = "empty" => request[c] \in woken
      PROVE  RequestInv'
  <2>1. request[c] \in Ids /\ request[c] <= issued /\ issued \in Nat /\ request[c] # NoRequest
    BY <1>7, CallerHasId DEF CallInv, TypeOK
  <2>2. \A r \in Ids : r > issued => r # request[c]
    BY <2>1 DEF Ids
  <2>3. \A r \in Ids : outcome'[r] = IF r = request[c] THEN how ELSE outcome[r]
    BY <1>7, <2>1 DEF TypeOK
  <2>4. \A d \in Callers, r \in Ids : request[d] = r /\ r # request[c] => request'[d] = r
    BY <1>7 DEF TypeOK
  <2>5. \A r \in Ids : r \in pending' /\ r # request[c] =>
          outcome'[r] = "send_failed" \/ \E d \in Callers : request'[d] = r
    BY <1>7, <2>3, <2>4 DEF RequestInv
  <2>6. request[c] \in pending' => outcome'[request[c]] = "send_failed"
    BY <1>7, <2>1, <2>3
  <2>7. \A r \in Ids : Unsent(r)' <=> Unsent(r)
    BY <1>7 DEF Unsent
  <2>8. \A r \in Ids : (r \in pending' => r \in pending) /\ (r = request[c] => ~(r > issued))
    BY <1>7, <2>2
  <2>9. how = "timed_out" => request[c] \notin pending'
    BY <1>7
  <2> QED
    BY <1>7, <2>2, <2>3, <2>5, <2>6, <2>7, <2>8, <2>9 DEF RequestInv
<1>8. ASSUME NEW c \in Callers, SendThrows(c) PROVE RequestInv'
  <2>1. Unsent(request[c]) /\ at[c] \in {"send", "wait"}
    BY <1>8 DEF SendThrows, CallInv
  <2> QED
    BY <1>7, <1>8, <2>1 DEF SendThrows, engineVars
<1>9. ASSUME NEW c \in Callers, WaitReady(c) PROVE RequestInv'
  <2>1. request[c] \in Ids /\ (request[c] \in filled \/ request[c] \in woken)
    BY <1>9, CallerHasId DEF WaitReady, RequestInv
  <2> QED
    BY <1>7, <1>9, <2>1 DEF WaitReady, EndCall, CallEndsWith, engineVars
<1>10. ASSUME NEW c \in Callers, WaitTimesOut(c) PROVE RequestInv'
  <2>1. request[c] \in Ids /\ request[c] \notin filled
    BY <1>10, CallerHasId DEF WaitTimesOut, RequestInv
  <2> QED
    BY <1>7, <1>10, <2>1 DEF WaitTimesOut, EndCall, CallEndsWith, engineVars
<1>11. ASSUME NEW j \in Jobs, ReceiveJob(j) PROVE RequestInv'
  BY <1>11 DEF ReceiveJob, RequestInv, Unsent, callVars, pendingVars
<1>12. ASSUME NEW r \in Ids, ReceiveResponse(r) PROVE RequestInv'
  <2>1. <<"response", r>> \in inbox /\ inbox' \subseteq inbox
    BY <1>12 DEF ReceiveResponse
  <2>2. UNCHANGED <<request, issued, pending, woken, outcome, asked>>
    BY <1>12 DEF ReceiveResponse, callVars
  <2>3. ~Unsent(r)
    BY <2>1 DEF Unsent
  <2>4. \A q \in Ids : q # r => (q \in filled' <=> q \in filled) /\ (q \in ready' <=> q \in ready)
    BY <1>12 DEF ReceiveResponse
  <2>5. /\ r \in filled' => r \in filled \/ r \in pending
        /\ r \in ready' => r \in ready \/ r \in filled'
        /\ r \in filled' => r \in filled \/ r \in ready'
        /\ r \in filled => r \in filled'
        /\ r \in ready => r \in ready'
    BY <1>12 DEF ReceiveResponse
  <2>6. \A q \in Ids : q # r /\ Unsent(q) => Unsent(q)'
    BY <2>1, <2>2, <2>4 DEF Unsent
  <2> QED
    BY <2>2, <2>3, <2>4, <2>5, <2>6 DEF RequestInv
<1>13. ASSUME NEW r \in Ids, EngineAnswers(r) PROVE RequestInv'
  BY <1>13 DEF EngineAnswers, RequestInv, Unsent, callVars, pendingVars
<1>14. ASSUME NEW j \in Jobs, EngineAssigns(j) PROVE RequestInv'
  BY <1>14 DEF EngineAssigns, RequestInv, Unsent, callVars, pendingVars
<1> QED
  BY <1>1, <1>2, <1>3, <1>4, <1>5, <1>6, <1>8, <1>9, <1>10, <1>11, <1>12, <1>13, <1>14
     DEF Next, Owner, CallSteps, Returns, EventLoop, HeartbeatLoop, JobLoop, Sends, Errors,
     Threads, Start, RegistrationFails, Registered, SetupJobs, Stop, Joins, Join, SendEvent,
     Publish, LoopEnds, Interrupted, HeartbeatDue, HeartbeatSent, ReceiveEvent, EventHandled,
     JobHandled, HandlerDone, ResponseSent, ResponseThrows, vars, lifeVars, callVars,
     pendingVars, engineVars

\* The inductive invariant holds in every state of every behaviour.
LEMMA IInvAlways == Spec => []IInv
<1>1. IInv /\ [Next]_vars => IInv'
  BY TypeStep, LifeStep, HandlerStep, AssignedStep, CallStep, RequestStep DEF IInv
<1> QED
  BY InitHolds, <1>1, PTL DEF Spec

-----------------------------------------------------------------------------
(* The theorems                                                            *)

\* Every flag, socket, thread and entry keeps its type; in particular the module
\* never answers a job more often than the engine assigned it.
THEOREM ClientTypeCorrect == Spec => []TypeOK
BY IInvAlways, PTL DEF IInv

\* stop() never takes a socket from a thread that start() launched, for any
\* number of application threads, requests, jobs and restarts.
THEOREM HandlersKeepTheirSockets == Spec => []HandlerSocketsOpen
<1>1. IInv => HandlerSocketsOpen
  <2> SUFFICES ASSUME IInv PROVE HandlerSocketsOpen
    OBVIOUS
  <2>1. thread["event"] \in {"loop", "handler"} => {"pub", "sub"} \subseteq open
    BY DEF IInv, LifeInv, Threads
  <2>2. /\ thread["heartbeat"] \in {"loop", "send"} => "heartbeat" \in open
        /\ thread["job"] \in {"loop", "handler", "send"} => "job" \in open
    BY DEF IInv, LifeInv
  <2>3. ASSUME NEW c \in {"event", "job"}
        PROVE  /\ at[c] = "publish" => "pub" \in open
               /\ at[c] \in {"insert", "send"} => "job" \in open
               /\ at[c] # "lost"
    BY DEF IInv, HandlerInv, LifeInv, Receivers, Threads
  <2> QED
    BY <2>1, <2>2, <2>3 DEF HandlerSocketsOpen
<1> QED
  BY IInvAlways, <1>1, PTL

\* request_event tells the truth: a time-out, a response and an empty result are
\* returned only for the reasons that justify them.
THEOREM ResultsAreGenuine == Spec => []ResultsGenuine
<1>1. IInv => ResultsGenuine
  BY DEF IInv, RequestInv, Unsent, ResultsGenuine
<1> QED
  BY IInvAlways, <1>1, PTL

\* Every entry of _pending_requests belongs to a call in progress or to one whose
\* send threw.
THEOREM PendingHasCaller == Spec => []NoOrphans
<1>1. IInv => NoOrphans
  BY DEF IInv, TypeOK, RequestInv, NoOrphans
<1> QED
  BY IInvAlways, <1>1, PTL
=============================================================================
