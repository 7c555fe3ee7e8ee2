---------------------------- MODULE GatewayProofs ----------------------------
(***************************************************************************)
(* Theorems about Gateway, for any products, sizes and bounds: every quote *)
(* is accounted for, ticks_sent_ tells the truth, and a session that is    *)
(* logged in is subscribed.                                                *)
(***************************************************************************)
EXTENDS Gateway, TLAPS, SequenceTheorems

Before == {"start", "resolve", "init_td", "wait_td", "init_md"}
Cleanup == {"release_md_spi", "release_md_api", "release_td", "stop_base", "join_base", "exited"}

\* A batch exists only between its first tick and its last.
BatchInv ==
  /\ dispatch \in {"none", "top", "drain", "ended"} => batch = <<>>
  /\ dispatch = "send" => batch # <<>>
  /\ dispatch = "drain_send" => Len(batch) = 1

\* A pop is under way only where the dispatch thread pops, and what it has seen is
\* in the buffer until push_overwrite discards it.
PopInv ==
  /\ popping # "no" => dispatch \in {"collect", "drain"} /\ Len(batch) < BatchSize
  /\ popping = "seen" => ring # <<>>
  /\ popping = "discarded" => raced

\* Where the main thread is tells what exists: the dispatch thread between its
\* launch and its join, the market-data API between its creation and its release.
MainInv ==
  /\ main \in Before \cup {"launch"} => dispatch = "none"
  /\ main \in Cleanup => dispatch \in {"none", "ended"}
  /\ main \in Before \cup (Cleanup \ {"release_md_spi", "release_md_api"}) => "md" \notin api
  /\ main = "release_md_api" => "md" \notin spi

\* While the module is not running nobody sends: neither the dispatch thread nor
\* the market-data API's thread exists.
BaseInv ==
  ~base_running =>
    /\ main \notin (Before \ {"start"}) \cup {"launch"}
    /\ dispatch \in {"none", "ended"}
    /\ "md" \notin api

\* A callback that cleanup_ctp has not overtaken has its API and its object.
CallbackInv == callback # None /\ ~overtaken => "md" \in api \cap spi

\* An API that does not exist has no session.
SessionInv == "md" \notin api => session["md"] = "down"

\* The balance of h ticks handled, t taken in, d discarded and l in the buffer; x is
\* one if a pop has a tick in hand that is no longer in the buffer.
Balanced(h, t, d, l, x, race) ==
  /\ race = TRUE \/ h + d + l = t
  /\ h + l + x <= t

\* QuotesAccounted, with what is in the buffer after a race and in the pop's hand.
Held == IF popping = "discarded" THEN 1 ELSE 0
BalanceInv == Balanced(Handled, Taken, discarded, Len(ring), Held, raced)
DropInv == discarded <= dropped + (IF callback = "drop" THEN 1 ELSE 0)

IInv ==
  /\ TypeOK /\ BatchInv /\ PopInv /\ MainInv /\ BaseInv /\ CallbackInv /\ SessionInv
  /\ BalanceInv /\ DropInv /\ SentIsPublished /\ SessionSubscribed

\* TypeOK by what the variables are about.
ControlType ==
  /\ main \in {"start", "resolve", "init_td", "wait_td", "init_md", "launch", "wait", "join",
              "release_md_spi", "release_md_api", "release_td", "stop_base", "join_base",
              "exited", "crashed"}
  /\ {shutdown, base_running, ctp_running, cut_short, overtaken} \subseteq BOOLEAN
  /\ callback \in Callbacks \cup {None}

StartType ==
  /\ attempt \in 0..MaxRetries /\ to_query \subseteq Products
  /\ instruments \subseteq Instruments /\ option_set \subseteq Instruments
  /\ subscribed \subseteq Instruments

ApiType ==
  /\ api \subseteq Apis /\ spi \subseteq Apis
  /\ session \in [Apis -> {"down", "idle", "authenticate", "login", "logged_in"}]
  /\ sessions \in [Apis -> Nat] /\ \A a \in Apis : sessions[a] <= MaxSessions[a]

BufferType ==
  /\ dispatch \in {"none", "top", "collect", "send", "drain", "drain_send", "ended"}
  /\ popping \in {"no", "seen", "discarded"} /\ raced \in BOOLEAN
  /\ ring \in Seq({"tick"}) /\ Len(ring) <= Capacity
  /\ batch \in Seq({"tick"}) /\ Len(batch) <= BatchSize

CounterType == {received, sent, errors, dropped, discarded, drain_lost, published} \subseteq Nat

USE GatewayAssumption

Ticks == {"tick"}

\* The buffer and the batch as sequences.
LEMMA AppendTick ==
  ASSUME NEW s \in Seq(Ticks), NEW t \in Ticks
  PROVE  Append(s, t) \in Seq(Ticks) /\ Len(Append(s, t)) = Len(s) + 1 /\ Len(s) \in Nat
         /\ Append(s, t) # <<>>
BY AppendProperties

\* ... and what popping leaves of them.
LEMMA TakeTick ==
  ASSUME NEW s \in Seq(Ticks), s # <<>>
  PROVE  /\ Tail(s) \in Seq(Ticks) /\ Len(Tail(s)) = Len(s) - 1
         /\ Len(s) \in Nat /\ Len(s) > 0 /\ Head(s) \in Ticks
BY EmptySeq, HeadTailProperties

\* Every counter of the balance is a number, and so are the lengths.
LEMMA Numbers ==
  ASSUME TypeOK
  PROVE  /\ received \in Nat /\ sent \in Nat /\ errors \in Nat /\ drain_lost \in Nat
         /\ discarded \in Nat /\ dropped \in Nat /\ published \in Nat
         /\ Len(ring) \in Nat /\ Len(batch) \in Nat
         /\ ring \in Seq(Ticks) /\ batch \in Seq(Ticks)
BY DEF TypeOK, Ticks

\* ... and so are the sides of the balance.
LEMMA Sides ==
  ASSUME TypeOK
  PROVE  /\ Handled \in Nat /\ Taken \in Nat /\ discarded \in Nat /\ Len(ring) \in Nat
         /\ Held \in {0, 1} /\ raced \in BOOLEAN
<1>1. /\ received \in Nat /\ sent \in Nat /\ errors \in Nat /\ drain_lost \in Nat
      /\ discarded \in Nat /\ Len(ring) \in Nat /\ Len(batch) \in Nat
  BY Numbers
<1>2. Handled \in Nat /\ Taken \in Nat
  BY <1>1 DEF Handled, Taken
<1> QED
  BY <1>1, <1>2 DEF Held, TypeOK

\* The gateway starts with nothing.
LEMMA InitHolds == Init => IInv
<1> SUFFICES ASSUME Init PROVE IInv
  OBVIOUS
<1>1. TypeOK
  <2>1. ControlType
    BY DEF Init, ControlType
  <2>2. StartType /\ ApiType
    BY DEF Init, StartType, ApiType
  <2>3. BufferType /\ CounterType
    <3>1. ring \in Seq({"tick"}) /\ Len(ring) <= Capacity
      BY DEF Init
    <3>2. batch \in Seq({"tick"}) /\ Len(batch) <= BatchSize
      BY DEF Init
    <3>3. CounterType
      BY DEF Init, CounterType
    <3> QED
      BY <3>1, <3>2, <3>3 DEF Init, BufferType
  <2> QED
    BY <2>1, <2>2, <2>3 DEF TypeOK, ControlType, StartType, ApiType, BufferType, CounterType
<1>2. BatchInv /\ PopInv /\ MainInv /\ BaseInv /\ CallbackInv /\ SessionInv
  BY DEF Init, BatchInv, PopInv, MainInv, BaseInv, CallbackInv, SessionInv, Before, Cleanup, Apis
<1>3. BalanceInv /\ DropInv
  BY DEF Init, BalanceInv, Balanced, Handled, Taken, Held, DropInv, Callbacks
<1>4. SentIsPublished /\ SessionSubscribed
  BY DEF Init, SentIsPublished, SessionSubscribed, Apis
<1> QED
  BY <1>1, <1>2, <1>3, <1>4 DEF IInv

\* The main thread, the flags and the callback.
LEMMA ControlTypeStep == IInv /\ [Next]_vars => ControlType'
<1> SUFFICES ASSUME IInv, [Next]_vars PROVE ControlType'
  OBVIOUS
<1> USE DEF IInv
<1>1. ASSUME UNCHANGED <<main, shutdown, base_running, ctp_running, cut_short, overtaken,
   callback>> PROVE ControlType'
  BY <1>1 DEF ControlType, TypeOK, Callbacks
<1>2. ASSUME NEW registered \in BOOLEAN, StartBase(registered) PROVE ControlType'
  BY <1>2 DEF StartBase, ctpVars, quoteVars, ControlType, TypeOK, Callbacks
<1>3. ASSUME NotReady PROVE ControlType'
  BY <1>3 DEF NotReady, StaticDataMissing, Attempt, ctpVars, quoteVars, ControlType, TypeOK,
     Callbacks
<1>4. ASSUME AllQueried PROVE ControlType'
  BY <1>4 DEF AllQueried, Attempt, ctpVars, quoteVars, ControlType, TypeOK, Callbacks
<1>5. ASSUME NEW created \in BOOLEAN, InitTd(created) PROVE ControlType'
  BY <1>5 DEF InitTd, OpenApi, ctpVars, quoteVars, ControlType, TypeOK, Callbacks
<1>6. ASSUME WaitForLogin PROVE ControlType'
  BY <1>6 DEF WaitForLogin, ctpVars, quoteVars, ControlType, TypeOK, Callbacks
<1>7. ASSUME NEW created \in BOOLEAN, InitMd(created) PROVE ControlType'
  BY <1>7 DEF InitMd, OpenApi, ctpVars, quoteVars, ControlType, TypeOK, Callbacks
<1>8. ASSUME LaunchDispatch PROVE ControlType'
  BY <1>8 DEF LaunchDispatch, ctpVars, quoteVars, ControlType, TypeOK, Callbacks
<1>9. ASSUME NEW a \in Apis, NEW welcome \in BOOLEAN, NEW accepted \in BOOLEAN,
   OnRspUserLogin(a, welcome, accepted) PROVE ControlType'
  BY <1>9 DEF OnRspUserLogin, OnApi, SubscribeAfterLogin, Subscribe, quoteVars, ControlType,
     TypeOK, Callbacks
<1>10. ASSUME NEW a \in Apis, OnFrontDisconnected(a) PROVE ControlType'
  BY <1>10 DEF OnFrontDisconnected, OnApi, quoteVars, ControlType, TypeOK, Callbacks
<1>11. ASSUME NEW i \in Instruments, QuoteArrives(i) PROVE ControlType'
  BY <1>11 DEF QuoteArrives, ctpVars, ControlType, TypeOK, Callbacks
<1>12. ASSUME SendFuture PROVE ControlType'
  BY <1>12 DEF SendFuture, ctpVars, ControlType, TypeOK, Callbacks
<1>13. ASSUME TryPush PROVE ControlType'
  BY <1>13 DEF TryPush, ctpVars, ControlType, TypeOK, Callbacks
<1>14. ASSUME PushOverwrite PROVE ControlType'
  BY <1>14 DEF PushOverwrite, ctpVars, ControlType, TypeOK, Callbacks
<1>15. ASSUME CountReceived PROVE ControlType'
  BY <1>15 DEF CountReceived, ctpVars, ControlType, TypeOK, Callbacks
<1>16. ASSUME CallbackCrashes PROVE ControlType'
  BY <1>16 DEF CallbackCrashes, ctpVars, quoteVars, ControlType, TypeOK, Callbacks
<1>17. ASSUME Shutdown PROVE ControlType'
  BY <1>17 DEF Shutdown, ctpVars, quoteVars, ControlType, TypeOK, Callbacks
<1>18. ASSUME Stop PROVE ControlType'
  BY <1>18 DEF Stop, ctpVars, quoteVars, ControlType, TypeOK, Callbacks
<1>19. ASSUME JoinDispatch PROVE ControlType'
  BY <1>19 DEF JoinDispatch, JoinDispatchIf, ctpVars, quoteVars, ControlType, TypeOK,
     Callbacks
<1>20. ASSUME CleanupMd PROVE ControlType'
  BY <1>20 DEF CleanupMd, ControlType, TypeOK, Callbacks
<1>21. ASSUME CleanupTd PROVE ControlType'
  BY <1>21 DEF CleanupTd, quoteVars, ControlType, TypeOK, Callbacks
<1>22. ASSUME StopBase PROVE ControlType'
  BY <1>22 DEF StopBase, ctpVars, quoteVars, ControlType, TypeOK, Callbacks
<1>23. ASSUME CountDropped PROVE ControlType'
  BY <1>23 DEF CountDropped, ctpVars, ControlType, TypeOK, Callbacks
<1> QED
  BY <1>1, <1>2, <1>3, <1>4, <1>5, <1>6, <1>7, <1>8, <1>9, <1>10, <1>11, <1>12, <1>13, <1>14,
     <1>15, <1>16, <1>17, <1>18, <1>19, <1>20, <1>21, <1>22, <1>23 DEF Next, StartSteps,
     StopSteps, Session, Callback, Dispatch, QueryProduct, OnFrontConnected, OnApi,
     OnRspAuthenticate, DispatchTop, Pop, PopSees, PopTakes, Collected, SendBatch,
     SendBatchLeaving, SendTick, DrainSend, Drained, vars, startVars, ctpVars, quoteVars,
     ringVars, dispatchVars, counterVars

\* What the start resolves and the session subscribes to.
LEMMA StartTypeStep == IInv /\ [Next]_vars => StartType'
<1> SUFFICES ASSUME IInv, [Next]_vars PROVE StartType'
  OBVIOUS
<1> USE DEF IInv
<1>1. ASSUME UNCHANGED <<attempt, to_query, instruments, option_set, subscribed>> PROVE
   StartType'
  BY <1>1 DEF StartType, TypeOK
<1>2. ASSUME NEW registered \in BOOLEAN, StartBase(registered) PROVE StartType'
  BY <1>2 DEF StartBase, ctpVars, StartType, TypeOK
<1>3. ASSUME NEW p \in Products, NEW futures \in {"listed", "error", "threw"}, NEW options
   \in BOOLEAN, QueryProduct(p, futures, options) PROVE StartType'
  BY <1>3 DEF QueryProduct, ctpVars, StartType, TypeOK, Instruments
<1>4. ASSUME NotReady PROVE StartType'
  BY <1>4 DEF NotReady, StaticDataMissing, Attempt, ctpVars, StartType, TypeOK
<1>5. ASSUME AllQueried PROVE StartType'
  BY <1>5 DEF AllQueried, Attempt, ctpVars, StartType, TypeOK
<1>6. ASSUME NEW created \in BOOLEAN, InitTd(created) PROVE StartType'
  BY <1>6 DEF InitTd, OpenApi, startVars, ctpVars, StartType, TypeOK
<1>7. ASSUME NEW created \in BOOLEAN, InitMd(created) PROVE StartType'
  BY <1>7 DEF InitMd, OpenApi, startVars, ctpVars, StartType, TypeOK
<1>8. ASSUME NEW a \in Apis, NEW welcome \in BOOLEAN, NEW accepted \in BOOLEAN,
   OnRspUserLogin(a, welcome, accepted) PROVE StartType'
  BY <1>8 DEF OnRspUserLogin, OnApi, SubscribeAfterLogin, Subscribe, startVars, StartType,
     TypeOK
<1>9. ASSUME NEW a \in Apis, OnFrontDisconnected(a) PROVE StartType'
  BY <1>9 DEF OnFrontDisconnected, OnApi, startVars, StartType, TypeOK
<1>10. ASSUME CleanupMd PROVE StartType'
  BY <1>10 DEF CleanupMd, startVars, StartType, TypeOK
<1> QED
  BY <1>1, <1>2, <1>3, <1>4, <1>5, <1>6, <1>7, <1>8, <1>9, <1>10 DEF Next, StartSteps,
     StopSteps, Session, Callback, Dispatch, WaitForLogin, LaunchDispatch, OnFrontConnected,
     OnApi, OnRspAuthenticate, QuoteArrives, SendFuture, TryPush, PushOverwrite, CountDropped,
     CountReceived, CallbackCrashes, DispatchTop, Pop, PopSees, PopTakes, Collected, SendBatch,
     SendBatchLeaving, SendTick, DrainSend, Drained, Shutdown, Stop, JoinDispatch,
     JoinDispatchIf, CleanupTd, StopBase, vars, startVars, ctpVars, quoteVars, ringVars,
     dispatchVars, counterVars

\* The vendor's APIs.
LEMMA ApiTypeStep == IInv /\ [Next]_vars => ApiType'
<1> SUFFICES ASSUME IInv, [Next]_vars PROVE ApiType'
  OBVIOUS
<1> USE DEF IInv
<1>1. ASSUME UNCHANGED <<api, spi, session, sessions>> PROVE ApiType'
  BY <1>1 DEF ApiType, TypeOK, Apis
<1>2. ASSUME NEW created \in BOOLEAN, InitTd(created) PROVE ApiType'
  BY <1>2 DEF InitTd, OpenApi, ctpVars, ApiType, TypeOK, Apis
<1>3. ASSUME NEW created \in BOOLEAN, InitMd(created) PROVE ApiType'
  BY <1>3 DEF InitMd, OpenApi, ctpVars, ApiType, TypeOK, Apis
<1>4. ASSUME NEW a \in Apis, NEW accepted \in BOOLEAN, OnFrontConnected(a, accepted) PROVE
   ApiType'
  BY <1>4 DEF OnFrontConnected, OnApi, ApiType, TypeOK, Apis
<1>5. ASSUME NEW accepted \in BOOLEAN, OnRspAuthenticate(accepted) PROVE ApiType'
  BY <1>5 DEF OnRspAuthenticate, OnApi, ApiType, TypeOK, Apis
<1>6. ASSUME NEW a \in Apis, NEW welcome \in BOOLEAN, NEW accepted \in BOOLEAN,
   OnRspUserLogin(a, welcome, accepted) PROVE ApiType'
  BY <1>6 DEF OnRspUserLogin, OnApi, SubscribeAfterLogin, Subscribe, ApiType, TypeOK, Apis
<1>7. ASSUME NEW a \in Apis, OnFrontDisconnected(a) PROVE ApiType'
  BY <1>7 DEF OnFrontDisconnected, OnApi, ApiType, TypeOK, Apis
<1>8. ASSUME CleanupMd PROVE ApiType'
  BY <1>8 DEF CleanupMd, ApiType, TypeOK, Apis
<1>9. ASSUME CleanupTd PROVE ApiType'
  BY <1>9 DEF CleanupTd, ApiType, TypeOK, Apis
<1> QED
  BY <1>1, <1>2, <1>3, <1>4, <1>5, <1>6, <1>7, <1>8, <1>9 DEF Next, StartSteps, StopSteps,
     Session, Callback, Dispatch, StartBase, QueryProduct, NotReady, StaticDataMissing, Attempt,
     AllQueried, WaitForLogin, LaunchDispatch, QuoteArrives, SendFuture, TryPush, PushOverwrite,
     CountDropped, CountReceived, CallbackCrashes, DispatchTop, Pop, PopSees, PopTakes,
     Collected, SendBatch, SendBatchLeaving, SendTick, DrainSend, Drained, Shutdown, Stop,
     JoinDispatch, JoinDispatchIf, StopBase, vars, startVars, ctpVars, quoteVars, ringVars,
     dispatchVars, counterVars

\* The option buffer and the batch.
LEMMA BufferTypeStep == IInv /\ [Next]_vars => BufferType'
<1> SUFFICES ASSUME IInv, [Next]_vars PROVE BufferType'
  OBVIOUS
<1> USE DEF IInv
<1>1. ASSUME UNCHANGED <<dispatch, ring, popping, raced, batch>> PROVE BufferType'
  BY <1>1 DEF BufferType, BatchInv, TypeOK
<1>2. ASSUME LaunchDispatch PROVE BufferType'
  BY <1>2 DEF LaunchDispatch, ringVars, BufferType, BatchInv, TypeOK
<1>3. ASSUME TryPush PROVE BufferType'
  <2>1. CASE Len(ring) < Capacity
    <3>1. Append(ring, "tick") \in Seq(Ticks) /\ Len(Append(ring, "tick")) <= Capacity
      BY <2>1, AppendTick, Numbers DEF Ticks
    <3> QED
      BY <1>3, <2>1, <3>1 DEF TryPush, dispatchVars, BufferType, TypeOK, Ticks
  <2>2. CASE ~(Len(ring) < Capacity)
    BY <1>3, <2>2 DEF TryPush, dispatchVars, BufferType, TypeOK
  <2> QED
    BY <2>1, <2>2
<1>4. ASSUME PushOverwrite PROVE BufferType'
  <2>0. popping' \in {"no", "seen", "discarded"} /\ raced' \in BOOLEAN
    BY <1>4 DEF PushOverwrite, TypeOK
  <2>1. CASE Len(ring) = Capacity
    <3>1. ring # <<>>
      BY <2>1
    <3>2. Tail(ring) \in Seq(Ticks) /\ Len(Tail(ring)) = Capacity - 1
      BY <2>1, <3>1, Numbers, TakeTick
    <3>3. Append(Tail(ring), "tick") \in Seq(Ticks) /\ Len(Append(Tail(ring), "tick")) = Capacity
      BY <3>2, AppendTick DEF Ticks
    <3>4. ring' = Append(Tail(ring), "tick") /\ UNCHANGED <<dispatch, batch>>
      BY <1>4, <2>1 DEF PushOverwrite, dispatchVars
    <3> QED
      BY <2>0, <3>3, <3>4 DEF BufferType, TypeOK, Ticks
  <2>2. CASE Len(ring) # Capacity
    <3>1. Append(ring, "tick") \in Seq(Ticks) /\ Len(Append(ring, "tick")) <= Capacity
      BY <2>2, AppendTick, Numbers DEF Ticks, TypeOK
    <3>2. ring' = Append(ring, "tick") /\ UNCHANGED <<dispatch, batch>>
      BY <1>4, <2>2 DEF PushOverwrite, dispatchVars
    <3> QED
      BY <2>0, <3>1, <3>2 DEF BufferType, TypeOK, Ticks
  <2> QED
    BY <2>1, <2>2
<1>5. ASSUME DispatchTop PROVE BufferType'
  BY <1>5 DEF DispatchTop, ringVars, BufferType, BatchInv, TypeOK
<1>6. ASSUME PopSees PROVE BufferType'
  BY <1>6 DEF PopSees, dispatchVars, BufferType, TypeOK
<1>7. ASSUME PopTakes PROVE BufferType'
  <2>1. ring' \in Seq(Ticks) /\ Len(ring') <= Capacity
    <3>1. CASE popping = "seen"
      <4>1. ring # <<>> /\ ring' = Tail(ring)
        BY <1>7, <3>1 DEF PopTakes, PopInv
      <4> QED
        BY <4>1, TakeTick, Numbers DEF TypeOK
    <3>2. CASE popping # "seen"
      BY <1>7, <3>2, Numbers DEF PopTakes, TypeOK
    <3> QED
      BY <3>1, <3>2
  <2>2. Append(batch, "tick") \in Seq(Ticks) /\ Len(Append(batch, "tick")) <= BatchSize
    BY <1>7, AppendTick, Numbers DEF PopTakes, PopInv, Ticks
  <2>3. batch' = Append(batch, "tick") /\ popping' = "no" /\ raced' = raced
    BY <1>7 DEF PopTakes
  <2>4. dispatch' \in {"none", "top", "collect", "send", "drain", "drain_send", "ended"}
    BY <1>7 DEF PopTakes, TypeOK
  <2> QED
    BY <2>1, <2>2, <2>3, <2>4 DEF BufferType, TypeOK, Ticks
<1>8. ASSUME Collected PROVE BufferType'
  BY <1>8 DEF Collected, ringVars, BufferType, TypeOK
<1>9. ASSUME SendBatch PROVE BufferType'
  <2>0. batch # <<>> /\ Len(batch) <= BatchSize
    BY <1>9 DEF SendBatch, SendBatchLeaving, BatchInv, TypeOK
  <2>1. Tail(batch) \in Seq(Ticks) /\ Len(Tail(batch)) <= BatchSize
    BY <2>0, TakeTick, Numbers
  <2>2. /\ batch' = Tail(batch) /\ UNCHANGED <<ring, popping, raced>>
        /\ dispatch' \in {"top", "send"}
    BY <1>9 DEF SendBatch, SendBatchLeaving, ringVars
  <2>3. ring' \in Seq(Ticks) /\ Len(ring') <= Capacity
    BY <2>2 DEF TypeOK, Ticks
  <2>4. popping' \in {"no", "seen", "discarded"} /\ raced' \in BOOLEAN
    BY <2>2 DEF TypeOK
  <2> QED
    BY <2>1, <2>2, <2>3, <2>4 DEF BufferType, Ticks
<1>10. ASSUME DrainSend PROVE BufferType'
  BY <1>10 DEF DrainSend, ringVars, BufferType, TypeOK
<1>11. ASSUME Drained PROVE BufferType'
  BY <1>11 DEF Drained, ringVars, BufferType, TypeOK
<1> QED
  BY <1>1, <1>2, <1>3, <1>4, <1>5, <1>6, <1>7, <1>8, <1>9, <1>10, <1>11 DEF Next, StartSteps,
     StopSteps, Session, Callback, Dispatch, Pop, StartBase, QueryProduct, NotReady,
     StaticDataMissing, Attempt, AllQueried, InitTd, OpenApi, WaitForLogin, InitMd,
     OnFrontConnected, OnApi, OnRspAuthenticate, OnRspUserLogin, SubscribeAfterLogin, Subscribe,
     OnFrontDisconnected, QuoteArrives, SendFuture, CountDropped, CountReceived,
     CallbackCrashes, Shutdown, Stop, JoinDispatch, JoinDispatchIf, CleanupMd, CleanupTd,
     StopBase, vars, startVars, ctpVars, quoteVars, ringVars, dispatchVars, counterVars

\* The counters.
LEMMA CounterTypeStep == IInv /\ [Next]_vars => CounterType'
<1> SUFFICES ASSUME IInv, [Next]_vars PROVE CounterType'
  OBVIOUS
<1> USE DEF IInv
<1>1. ASSUME UNCHANGED <<received, sent, errors, dropped, discarded, drain_lost, published>>
   PROVE CounterType'
  BY <1>1 DEF CounterType, TypeOK
<1>2. ASSUME SendFuture PROVE CounterType'
  BY <1>2 DEF SendFuture, CounterType, TypeOK
<1>3. ASSUME PushOverwrite PROVE CounterType'
  BY <1>3 DEF PushOverwrite, CounterType, TypeOK
<1>4. ASSUME CountReceived PROVE CounterType'
  BY <1>4 DEF CountReceived, CounterType, TypeOK
<1>5. ASSUME SendBatch PROVE CounterType'
  BY <1>5 DEF SendBatch, SendBatchLeaving, SendTick, CounterType, TypeOK
<1>6. ASSUME DrainSend PROVE CounterType'
  BY <1>6 DEF DrainSend, SendTick, CounterType, TypeOK
<1>7. ASSUME CountDropped PROVE CounterType'
  BY <1>7 DEF CountDropped, CounterType, TypeOK
<1> QED
  BY <1>1, <1>2, <1>3, <1>4, <1>5, <1>6, <1>7 DEF Next, StartSteps, StopSteps, Session,
     Callback, Dispatch, StartBase, QueryProduct, NotReady, StaticDataMissing, Attempt,
     AllQueried, InitTd, OpenApi, WaitForLogin, InitMd, LaunchDispatch, OnFrontConnected, OnApi,
     OnRspAuthenticate, OnRspUserLogin, SubscribeAfterLogin, Subscribe, OnFrontDisconnected,
     QuoteArrives, TryPush, CallbackCrashes, DispatchTop, Pop, PopSees, PopTakes, Collected,
     Drained, Shutdown, Stop, JoinDispatch, JoinDispatchIf, CleanupMd, CleanupTd, StopBase,
     vars, startVars, ctpVars, quoteVars, ringVars, dispatchVars, counterVars

\* A batch is sent to its end before the next begins.
LEMMA BatchStep == IInv /\ [Next]_vars => BatchInv'
<1> SUFFICES ASSUME IInv, [Next]_vars PROVE BatchInv'
  OBVIOUS
<1> USE DEF IInv
<1>1. ASSUME UNCHANGED <<dispatch, batch>> PROVE BatchInv'
  BY <1>1 DEF BatchInv, MainInv, Before, TypeOK
<1>2. ASSUME LaunchDispatch PROVE BatchInv'
  BY <1>2 DEF LaunchDispatch, BatchInv, MainInv, Before, TypeOK
<1>3. ASSUME DispatchTop PROVE BatchInv'
  BY <1>3 DEF DispatchTop, BatchInv, MainInv, Before, TypeOK
<1>4. ASSUME PopTakes PROVE BatchInv'
  <2>1. Append(batch, "tick") # <<>> /\ Len(Append(batch, "tick")) = Len(batch) + 1
    BY AppendTick, Numbers DEF Ticks
  <2>2. dispatch = "drain" => Len(batch) = 0
    BY DEF BatchInv
  <2> QED
    BY <1>4, <2>1, <2>2 DEF PopTakes, PopInv, BatchInv
<1>5. ASSUME SendBatch PROVE BatchInv'
  BY <1>5 DEF SendBatch, SendBatchLeaving, SendTick, BatchInv, MainInv, Before, TypeOK
<1>6. ASSUME DrainSend PROVE BatchInv'
  BY <1>6 DEF DrainSend, BatchInv
<1>7. ASSUME Collected \/ Drained PROVE BatchInv'
  BY <1>7 DEF Collected, Drained, BatchInv
<1> QED
  BY <1>1, <1>2, <1>3, <1>4, <1>5, <1>6, <1>7 DEF Next, StartSteps, StopSteps, Session,
     Callback, Dispatch, Pop, PopSees, StartBase, QueryProduct, NotReady, StaticDataMissing,
     Attempt, AllQueried, InitTd, OpenApi, WaitForLogin, InitMd, OnFrontConnected, OnApi,
     OnRspAuthenticate, OnRspUserLogin, SubscribeAfterLogin, Subscribe, OnFrontDisconnected,
     QuoteArrives, SendFuture, TryPush, PushOverwrite, CountDropped, CountReceived,
     CallbackCrashes, Shutdown, Stop, JoinDispatch, JoinDispatchIf, CleanupMd, CleanupTd,
     StopBase, vars, startVars, ctpVars, quoteVars, ringVars, dispatchVars, counterVars

\* A pop ends before the dispatch thread goes on.
LEMMA PopStep == IInv /\ [Next]_vars => PopInv'
<1> SUFFICES ASSUME IInv, [Next]_vars PROVE PopInv'
  OBVIOUS
<1> USE DEF IInv
<1>1. ASSUME UNCHANGED <<dispatch, batch, popping, ring, raced>> PROVE PopInv'
  BY <1>1 DEF PopInv
<1>2. ASSUME LaunchDispatch PROVE PopInv'
  BY <1>2 DEF LaunchDispatch, ringVars, PopInv, MainInv
<1>3. ASSUME TryPush PROVE PopInv'
  <2>1. Append(ring, "tick") # <<>>
    BY AppendTick, Numbers DEF Ticks
  <2> QED
    BY <1>3, <2>1 DEF TryPush, dispatchVars, PopInv
<1>4. ASSUME PushOverwrite PROVE PopInv'
  <2>1. CASE Len(ring) = Capacity
    <3>1. Tail(ring) \in Seq(Ticks)
      BY <2>1, Numbers, TakeTick
    <3>2. Append(Tail(ring), "tick") # <<>>
      BY <3>1, AppendTick DEF Ticks
    <3> QED
      BY <1>4, <2>1, <3>2 DEF PushOverwrite, dispatchVars, PopInv
  <2>2. CASE Len(ring) # Capacity
    <3>1. Append(ring, "tick") # <<>>
      BY AppendTick, Numbers DEF Ticks
    <3> QED
      BY <1>4, <2>2, <3>1 DEF PushOverwrite, dispatchVars, PopInv, TypeOK
  <2> QED
    BY <2>1, <2>2
<1>5. ASSUME DispatchTop \/ Collected \/ SendBatch \/ DrainSend \/ Drained PROVE PopInv'
  BY <1>5 DEF DispatchTop, Collected, SendBatch, SendBatchLeaving, DrainSend, Drained,
     NothingFound, ringVars, PopInv
<1>6. ASSUME PopSees PROVE PopInv'
  <2>1. dispatch = "drain" => Len(batch) < BatchSize
    BY DEF BatchInv
  <2> QED
    BY <1>6, <2>1 DEF PopSees, dispatchVars, PopInv
<1>7. ASSUME PopTakes PROVE PopInv'
  BY <1>7 DEF PopTakes, PopInv
<1> QED
  BY <1>1, <1>2, <1>3, <1>4, <1>5, <1>6, <1>7 DEF Next, StartSteps, StopSteps, Session,
     Callback, Dispatch, Pop, StartBase, QueryProduct, NotReady, StaticDataMissing, Attempt,
     AllQueried, InitTd, OpenApi, WaitForLogin, InitMd, OnFrontConnected, OnApi,
     OnRspAuthenticate, OnRspUserLogin, SubscribeAfterLogin, Subscribe, OnFrontDisconnected,
     QuoteArrives, SendFuture, CountDropped, CountReceived, CallbackCrashes, Shutdown, Stop,
     JoinDispatch, JoinDispatchIf, CleanupMd, CleanupTd, StopBase, vars, startVars, ctpVars,
     quoteVars, ringVars, dispatchVars, counterVars

\* stop() joins the dispatch thread before it releases the APIs.
LEMMA MainStep == IInv /\ [Next]_vars => MainInv'
<1> SUFFICES ASSUME IInv, [Next]_vars PROVE MainInv'
  OBVIOUS
<1> USE DEF IInv
<1>1. ASSUME UNCHANGED <<main, dispatch, api, spi>> PROVE MainInv'
  BY <1>1 DEF MainInv, TypeOK, Before, Cleanup
<1>2. ASSUME NEW registered \in BOOLEAN, StartBase(registered) PROVE MainInv'
  BY <1>2 DEF StartBase, ctpVars, dispatchVars, MainInv, TypeOK, Before, Cleanup
<1>3. ASSUME NotReady PROVE MainInv'
  BY <1>3 DEF NotReady, StaticDataMissing, Attempt, ctpVars, dispatchVars, MainInv, TypeOK,
     Before, Cleanup
<1>4. ASSUME AllQueried PROVE MainInv'
  BY <1>4 DEF AllQueried, Attempt, ctpVars, dispatchVars, MainInv, TypeOK, Before, Cleanup
<1>5. ASSUME NEW created \in BOOLEAN, InitTd(created) PROVE MainInv'
  BY <1>5 DEF InitTd, OpenApi, ctpVars, dispatchVars, MainInv, TypeOK, Before, Cleanup,
     ctpVars
<1>6. ASSUME WaitForLogin PROVE MainInv'
  BY <1>6 DEF WaitForLogin, ctpVars, dispatchVars, MainInv, TypeOK, Before, Cleanup
<1>7. ASSUME NEW created \in BOOLEAN, InitMd(created) PROVE MainInv'
  BY <1>7 DEF InitMd, OpenApi, ctpVars, dispatchVars, MainInv, TypeOK, Before, Cleanup,
     ctpVars
<1>8. ASSUME LaunchDispatch PROVE MainInv'
  BY <1>8 DEF LaunchDispatch, ctpVars, MainInv, TypeOK, Before, Cleanup
<1>9. ASSUME CallbackCrashes PROVE MainInv'
  BY <1>9 DEF CallbackCrashes, ctpVars, dispatchVars, MainInv, TypeOK, Before, Cleanup
<1>10. ASSUME DispatchTop PROVE MainInv'
  BY <1>10 DEF DispatchTop, ctpVars, MainInv, TypeOK, Before, Cleanup
<1>11. ASSUME PopTakes PROVE MainInv'
  BY <1>11 DEF PopTakes, ctpVars, PopInv, MainInv, TypeOK, Before, Cleanup
<1>12. ASSUME SendBatch PROVE MainInv'
  BY <1>12 DEF SendBatch, SendBatchLeaving, SendTick, ctpVars, MainInv, TypeOK, Before,
     Cleanup
<1>13. ASSUME Collected \/ DrainSend \/ Drained PROVE MainInv'
  BY <1>13 DEF Collected, DrainSend, Drained, ctpVars, MainInv, TypeOK, Before, Cleanup
<1>14. ASSUME Stop PROVE MainInv'
  BY <1>14 DEF Stop, ctpVars, dispatchVars, MainInv, TypeOK, Before, Cleanup
<1>15. ASSUME JoinDispatch PROVE MainInv'
  BY <1>15 DEF JoinDispatch, JoinDispatchIf, ctpVars, dispatchVars, MainInv, TypeOK, Before,
     Cleanup
<1>16. ASSUME CleanupMd PROVE MainInv'
  BY <1>16 DEF CleanupMd, dispatchVars, MainInv, TypeOK, Before, Cleanup
<1>17. ASSUME CleanupTd PROVE MainInv'
  BY <1>17 DEF CleanupTd, dispatchVars, MainInv, TypeOK, Before, Cleanup
<1>18. ASSUME StopBase PROVE MainInv'
  BY <1>18 DEF StopBase, ctpVars, dispatchVars, MainInv, TypeOK, Before, Cleanup
<1> QED
  BY <1>1, <1>2, <1>3, <1>4, <1>5, <1>6, <1>7, <1>8, <1>9, <1>10, <1>11, <1>12, <1>13, <1>14,
     <1>15, <1>16, <1>17, <1>18 DEF Next, StartSteps, StopSteps, Session, Callback, Dispatch,
     Pop, PopSees, QueryProduct, OnFrontConnected, OnApi, OnRspAuthenticate, OnRspUserLogin,
     SubscribeAfterLogin, Subscribe, OnFrontDisconnected, QuoteArrives, SendFuture, TryPush,
     PushOverwrite, CountDropped, CountReceived, Shutdown, vars, startVars, ctpVars, quoteVars,
     ringVars, dispatchVars, counterVars

\* The module is stopped last.
LEMMA BaseStep == IInv /\ [Next]_vars => BaseInv'
<1> SUFFICES ASSUME IInv, [Next]_vars PROVE BaseInv'
  OBVIOUS
<1> USE DEF IInv
<1>1. ASSUME UNCHANGED <<base_running, main, dispatch, api>> PROVE BaseInv'
  BY <1>1 DEF BaseInv, MainInv, TypeOK, Before, Cleanup
<1>2. ASSUME NEW registered \in BOOLEAN, StartBase(registered) PROVE BaseInv'
  BY <1>2 DEF StartBase, ctpVars, dispatchVars, BaseInv, MainInv, TypeOK, Before, Cleanup
<1>3. ASSUME NotReady PROVE BaseInv'
  BY <1>3 DEF NotReady, StaticDataMissing, Attempt, ctpVars, dispatchVars, BaseInv, MainInv,
     TypeOK, Before, Cleanup
<1>4. ASSUME AllQueried PROVE BaseInv'
  BY <1>4 DEF AllQueried, Attempt, ctpVars, dispatchVars, BaseInv, MainInv, TypeOK, Before,
     Cleanup
<1>5. ASSUME NEW created \in BOOLEAN, InitTd(created) PROVE BaseInv'
  BY <1>5 DEF InitTd, OpenApi, ctpVars, dispatchVars, BaseInv, MainInv, TypeOK, Before,
     Cleanup
<1>6. ASSUME WaitForLogin PROVE BaseInv'
  BY <1>6 DEF WaitForLogin, ctpVars, dispatchVars, BaseInv, MainInv, TypeOK, Before, Cleanup
<1>7. ASSUME NEW created \in BOOLEAN, InitMd(created) PROVE BaseInv'
  BY <1>7 DEF InitMd, OpenApi, ctpVars, dispatchVars, BaseInv, MainInv, TypeOK, Before,
     Cleanup
<1>8. ASSUME LaunchDispatch PROVE BaseInv'
  BY <1>8 DEF LaunchDispatch, ctpVars, BaseInv, MainInv, TypeOK, Before, Cleanup
<1>9. ASSUME CallbackCrashes PROVE BaseInv'
  BY <1>9 DEF CallbackCrashes, ctpVars, dispatchVars, BaseInv, MainInv, TypeOK, Before,
     Cleanup
<1>10. ASSUME DispatchTop PROVE BaseInv'
  BY <1>10 DEF DispatchTop, ctpVars, BaseInv, MainInv, TypeOK, Before, Cleanup
<1>11. ASSUME PopTakes PROVE BaseInv'
  BY <1>11 DEF PopTakes, ctpVars, PopInv, BaseInv, MainInv, TypeOK, Before, Cleanup
<1>12. ASSUME SendBatch PROVE BaseInv'
  BY <1>12 DEF SendBatch, SendBatchLeaving, SendTick, ctpVars, BaseInv, MainInv, TypeOK,
     Before, Cleanup
<1>13. ASSUME Collected \/ DrainSend \/ Drained PROVE BaseInv'
  BY <1>13 DEF Collected, DrainSend, Drained, ctpVars, BaseInv, MainInv, TypeOK, Before, Cleanup
<1>14. ASSUME Stop PROVE BaseInv'
  BY <1>14 DEF Stop, ctpVars, dispatchVars, BaseInv, MainInv, TypeOK, Before, Cleanup
<1>15. ASSUME JoinDispatch PROVE BaseInv'
  BY <1>15 DEF JoinDispatch, JoinDispatchIf, ctpVars, dispatchVars, BaseInv, MainInv,
     TypeOK, Before, Cleanup
<1>16. ASSUME CleanupMd PROVE BaseInv'
  BY <1>16 DEF CleanupMd, dispatchVars, BaseInv, MainInv, TypeOK, Before, Cleanup
<1>17. ASSUME CleanupTd PROVE BaseInv'
  BY <1>17 DEF CleanupTd, dispatchVars, BaseInv, MainInv, TypeOK, Before, Cleanup
<1>18. ASSUME StopBase PROVE BaseInv'
  BY <1>18 DEF StopBase, ctpVars, dispatchVars, BaseInv, MainInv, TypeOK, Before, Cleanup
<1> QED
  BY <1>1, <1>2, <1>3, <1>4, <1>5, <1>6, <1>7, <1>8, <1>9, <1>10, <1>11, <1>12, <1>13, <1>14,
     <1>15, <1>16, <1>17, <1>18 DEF Next, StartSteps, StopSteps, Session, Callback, Dispatch,
     Pop, PopSees, QueryProduct, OnFrontConnected, OnApi, OnRspAuthenticate, OnRspUserLogin,
     SubscribeAfterLogin, Subscribe, OnFrontDisconnected, QuoteArrives, SendFuture, TryPush,
     PushOverwrite, CountDropped, CountReceived, Shutdown, vars, startVars, ctpVars, quoteVars,
     ringVars, dispatchVars, counterVars

\* A callback at work when its object is destroyed is noted as overtaken.
LEMMA CallbackStep == IInv /\ [Next]_vars => CallbackInv'
<1> SUFFICES ASSUME IInv, [Next]_vars PROVE CallbackInv'
  OBVIOUS
<1> USE DEF IInv
<1>1. ASSUME UNCHANGED <<callback, overtaken, api, spi>> PROVE CallbackInv'
  BY <1>1 DEF CallbackInv, MainInv, TypeOK, Before, Cleanup, Callbacks
<1>2. ASSUME NEW created \in BOOLEAN, InitTd(created) PROVE CallbackInv'
  BY <1>2 DEF InitTd, OpenApi, ctpVars, quoteVars, CallbackInv, MainInv, TypeOK, Before,
     Cleanup, Callbacks
<1>3. ASSUME NEW created \in BOOLEAN, InitMd(created) PROVE CallbackInv'
  BY <1>3 DEF InitMd, OpenApi, ctpVars, quoteVars, CallbackInv, MainInv, TypeOK, Before,
     Cleanup, Callbacks
<1>4. ASSUME NEW i \in Instruments, QuoteArrives(i) PROVE CallbackInv'
  BY <1>4 DEF QuoteArrives, ctpVars, CallbackInv, MainInv, TypeOK, Before, Cleanup,
     Callbacks
<1>5. ASSUME SendFuture PROVE CallbackInv'
  BY <1>5 DEF SendFuture, ctpVars, CallbackInv, MainInv, TypeOK, Before, Cleanup, Callbacks
<1>6. ASSUME TryPush PROVE CallbackInv'
  BY <1>6 DEF TryPush, ctpVars, CallbackInv, MainInv, TypeOK, Before, Cleanup, Callbacks
<1>7. ASSUME PushOverwrite PROVE CallbackInv'
  BY <1>7 DEF PushOverwrite, ctpVars, CallbackInv, MainInv, TypeOK, Before, Cleanup,
     Callbacks
<1>8. ASSUME CountReceived PROVE CallbackInv'
  BY <1>8 DEF CountReceived, ctpVars, CallbackInv, MainInv, TypeOK, Before, Cleanup,
     Callbacks
<1>9. ASSUME CleanupMd PROVE CallbackInv'
  BY <1>9 DEF CleanupMd, CallbackInv, MainInv, TypeOK, Before, Cleanup, Callbacks
<1>10. ASSUME CleanupTd PROVE CallbackInv'
  BY <1>10 DEF CleanupTd, quoteVars, CallbackInv, MainInv, TypeOK, Before, Cleanup,
     Callbacks
<1>11. ASSUME CountDropped PROVE CallbackInv'
  BY <1>11 DEF CountDropped, ctpVars, CallbackInv, MainInv, TypeOK, Before, Cleanup, Callbacks
<1> QED
  BY <1>1, <1>2, <1>3, <1>4, <1>5, <1>6, <1>7, <1>8, <1>9, <1>10, <1>11 DEF Next, StartSteps,
     StopSteps, Session, Callback, Dispatch, StartBase, QueryProduct, NotReady,
     StaticDataMissing, Attempt, AllQueried, WaitForLogin, LaunchDispatch, OnFrontConnected,
     OnApi, OnRspAuthenticate, OnRspUserLogin, SubscribeAfterLogin, Subscribe,
     OnFrontDisconnected, CallbackCrashes, DispatchTop, Pop, PopSees, PopTakes, Collected,
     SendBatch, SendBatchLeaving, SendTick, DrainSend, Drained, Shutdown, Stop, JoinDispatch,
     JoinDispatchIf, StopBase, vars, startVars, ctpVars, quoteVars, ringVars, dispatchVars,
     counterVars

\* A session ends with its API.
LEMMA SessionStep == IInv /\ [Next]_vars => SessionInv'
<1> SUFFICES ASSUME IInv, [Next]_vars PROVE SessionInv'
  OBVIOUS
<1> USE DEF IInv
<1>1. ASSUME UNCHANGED <<api, session>> PROVE SessionInv'
  BY <1>1 DEF SessionInv, TypeOK, Apis
<1>2. ASSUME NEW created \in BOOLEAN, InitTd(created) PROVE SessionInv'
  BY <1>2 DEF InitTd, OpenApi, ctpVars, SessionInv, TypeOK, Apis
<1>3. ASSUME NEW created \in BOOLEAN, InitMd(created) PROVE SessionInv'
  BY <1>3 DEF InitMd, OpenApi, ctpVars, SessionInv, TypeOK, Apis
<1>4. ASSUME NEW a \in Apis, NEW accepted \in BOOLEAN, OnFrontConnected(a, accepted) PROVE
   SessionInv'
  BY <1>4 DEF OnFrontConnected, OnApi, SessionInv, TypeOK, Apis
<1>5. ASSUME NEW accepted \in BOOLEAN, OnRspAuthenticate(accepted) PROVE SessionInv'
  BY <1>5 DEF OnRspAuthenticate, OnApi, SessionInv, TypeOK, Apis
<1>6. ASSUME NEW a \in Apis, NEW welcome \in BOOLEAN, NEW accepted \in BOOLEAN,
   OnRspUserLogin(a, welcome, accepted) PROVE SessionInv'
  BY <1>6 DEF OnRspUserLogin, OnApi, SubscribeAfterLogin, Subscribe, SessionInv, TypeOK,
     Apis
<1>7. ASSUME NEW a \in Apis, OnFrontDisconnected(a) PROVE SessionInv'
  BY <1>7 DEF OnFrontDisconnected, OnApi, SessionInv, TypeOK, Apis
<1>8. ASSUME CleanupMd PROVE SessionInv'
  BY <1>8 DEF CleanupMd, SessionInv, TypeOK, Apis
<1>9. ASSUME CleanupTd PROVE SessionInv'
  BY <1>9 DEF CleanupTd, SessionInv, TypeOK, Apis
<1> QED
  BY <1>1, <1>2, <1>3, <1>4, <1>5, <1>6, <1>7, <1>8, <1>9 DEF Next, StartSteps, StopSteps,
     Session, Callback, Dispatch, StartBase, QueryProduct, NotReady, StaticDataMissing, Attempt,
     AllQueried, WaitForLogin, LaunchDispatch, QuoteArrives, SendFuture, TryPush, PushOverwrite,
     CountDropped, CountReceived, CallbackCrashes, DispatchTop, Pop, PopSees, PopTakes,
     Collected, SendBatch, SendBatchLeaving, SendTick, DrainSend, Drained, Shutdown, Stop,
     JoinDispatch, JoinDispatchIf, StopBase, vars, startVars, ctpVars, quoteVars, ringVars,
     dispatchVars, counterVars

\* Each quote is at exactly one place, but for the races.
LEMMA BalanceStep == IInv /\ [Next]_vars => BalanceInv'
<1> SUFFICES ASSUME IInv, [Next]_vars PROVE BalanceInv'
  OBVIOUS
<1> USE DEF IInv
<1>n. /\ received \in Nat /\ sent \in Nat /\ errors \in Nat /\ drain_lost \in Nat
      /\ discarded \in Nat /\ dropped \in Nat /\ Len(ring) \in Nat /\ Len(batch) \in Nat
  BY Numbers
<1>s. /\ Handled \in Nat /\ Taken \in Nat /\ discarded \in Nat /\ Len(ring) \in Nat
      /\ Held \in {0, 1} /\ raced \in BOOLEAN
      /\ Balanced(Handled, Taken, discarded, Len(ring), Held, raced)
  BY Sides DEF BalanceInv
<1>1. ASSUME UNCHANGED <<received, callback, sent, errors, drain_lost, discarded, ring, batch,
   popping, raced>> PROVE BalanceInv'
  BY <1>1 DEF BalanceInv, Balanced, Handled, Taken, Held
<1>2. ASSUME NEW i \in Instruments, QuoteArrives(i) PROVE BalanceInv'
  BY <1>2 DEF QuoteArrives, ringVars, dispatchVars, counterVars, BalanceInv, Balanced, Handled,
     Taken, Held, Callbacks
<1>3. ASSUME SendFuture PROVE BalanceInv'
  <2>1. Handled' = Handled + 1 /\ Taken' = Taken + 1
    BY <1>n, <1>3 DEF SendFuture, dispatchVars, Handled, Taken
  <2>2. UNCHANGED <<discarded, ring, popping, raced>> /\ Held' = Held
    BY <1>3 DEF SendFuture, ringVars, Held
  <2>3. Balanced(Handled + 1, Taken + 1, discarded, Len(ring), Held, raced)
    BY <1>s DEF Balanced
  <2> QED
    BY <1>s, <2>1, <2>2, <2>3 DEF BalanceInv, Balanced
<1>4. ASSUME TryPush PROVE BalanceInv'
  <2>1. Handled' = Handled /\ UNCHANGED <<discarded, raced>> /\ Held' = Held
    BY <1>4 DEF TryPush, dispatchVars, counterVars, Handled, Held
  <2>2. CASE Len(ring) < Capacity
    <3>1. ring' = Append(ring, "tick") /\ Taken' = Taken + 1
      BY <1>n, <1>4, <2>2 DEF TryPush, counterVars, Taken
    <3>2. Len(ring') = Len(ring) + 1
      BY <3>1, AppendTick, Numbers DEF Ticks
    <3>3. Balanced(Handled, Taken + 1, discarded, Len(ring) + 1, Held, raced)
      BY <1>s DEF Balanced
    <3> QED
      BY <1>s, <2>1, <3>1, <3>2, <3>3 DEF BalanceInv, Balanced
  <2>3. CASE ~(Len(ring) < Capacity)
    <3>1. ring' = ring /\ Taken' = Taken
      BY <1>4, <2>3 DEF TryPush, counterVars, Taken
    <3> QED
      BY <1>s, <2>1, <3>1 DEF BalanceInv
  <2> QED
    BY <2>2, <2>3
<1>5. ASSUME PushOverwrite PROVE BalanceInv'
  <2>1. Handled' = Handled
    BY <1>5 DEF PushOverwrite, dispatchVars, Handled
  <2>2. Taken' = Taken + 1
    BY <1>n, <1>5 DEF PushOverwrite, Taken
  <2>3. CASE Len(ring) = Capacity
    <3>1. ring # <<>>
      BY <2>3
    <3>2. Tail(ring) \in Seq(Ticks) /\ Len(Tail(ring)) = Len(ring) - 1
      BY <3>1, Numbers, TakeTick
    <3>3. ring' = Append(Tail(ring), "tick") /\ discarded' = discarded + 1
      BY <1>5, <2>3 DEF PushOverwrite
    <3>4. Len(ring') = Len(Tail(ring)) + 1
      BY <3>2, <3>3, AppendTick DEF Ticks
    <3>5. Len(ring') = Len(ring)
      BY <1>n, <3>2, <3>4
    <3>6. \/ Held' = Held /\ raced' = raced
          \/ Held' = 1 /\ raced' = TRUE
      BY <1>5, <2>3 DEF PushOverwrite, Held, TypeOK
    <3>7. CASE Held' = Held /\ raced' = raced
      <4>1. Balanced(Handled, Taken + 1, discarded + 1, Len(ring), Held, raced)
        BY <1>s DEF Balanced
      <4> QED
        BY <1>s, <2>1, <2>2, <3>3, <3>5, <3>7, <4>1 DEF BalanceInv, Balanced
    <3>8. CASE Held' = 1 /\ raced' = TRUE
      <4>1. Balanced(Handled, Taken + 1, discarded + 1, Len(ring), 1, TRUE)
        BY <1>s DEF Balanced
      <4> QED
        BY <2>1, <2>2, <3>3, <3>5, <3>8, <4>1 DEF BalanceInv
    <3> QED
      BY <3>6, <3>7, <3>8
  <2>4. CASE Len(ring) # Capacity
    <3>1. ring' = Append(ring, "tick") /\ UNCHANGED <<discarded, raced>> /\ Held' = Held
      BY <1>5, <2>4 DEF PushOverwrite, Held, TypeOK
    <3>2. Len(ring') = Len(ring) + 1
      BY <3>1, AppendTick, Numbers DEF Ticks
    <3>3. Balanced(Handled, Taken + 1, discarded, Len(ring) + 1, Held, raced)
      BY <1>s DEF Balanced
    <3> QED
      BY <1>s, <2>1, <2>2, <3>1, <3>2, <3>3 DEF BalanceInv, Balanced
  <2> QED
    BY <2>3, <2>4
<1>6. ASSUME CountDropped PROVE BalanceInv'
  BY <1>s, <1>6 DEF CountDropped, dispatchVars, ringVars, BalanceInv, Handled, Taken, Held
<1>7. ASSUME CountReceived PROVE BalanceInv'
  <2>1. Taken' = Taken
    BY <1>n, <1>7 DEF CountReceived, Taken, Callbacks
  <2>2. Handled' = Handled /\ UNCHANGED <<discarded, ring, raced>> /\ Held' = Held
    BY <1>7 DEF CountReceived, dispatchVars, ringVars, Handled, Held
  <2> QED
    BY <1>s, <2>1, <2>2 DEF BalanceInv
<1>8. ASSUME PopSees PROVE BalanceInv'
  <2>1. Taken' = Taken /\ Handled' = Handled /\ UNCHANGED <<discarded, ring, raced>>
    BY <1>8 DEF PopSees, quoteVars, dispatchVars, counterVars, Taken, Handled
  <2>2. Held' = Held
    BY <1>8 DEF PopSees, Held
  <2> QED
    BY <1>s, <2>1, <2>2 DEF BalanceInv
<1>9. ASSUME PopTakes PROVE BalanceInv'
  <2>1. Taken' = Taken /\ UNCHANGED <<discarded, raced>> /\ Held' = 0
    BY <1>9 DEF PopTakes, quoteVars, counterVars, Taken, Held
  <2>2. Len(Append(batch, "tick")) = Len(batch) + 1
    BY AppendTick, Numbers DEF Ticks
  <2>3. Handled' = Handled + 1
    BY <1>n, <1>9, <2>2 DEF PopTakes, counterVars, Handled
  <2>4. CASE popping = "seen"
    <3>1. ring # <<>> /\ ring' = Tail(ring) /\ Held = 0
      BY <1>9, <2>4 DEF PopTakes, PopInv, Held
    <3>2. Len(ring') = Len(ring) - 1 /\ Len(ring) > 0
      BY <3>1, TakeTick, Numbers
    <3>3. Balanced(Handled + 1, Taken, discarded, Len(ring) - 1, Held, raced)
      BY <1>s, <3>2 DEF Balanced
    <3> QED
      BY <1>s, <2>1, <2>3, <3>1, <3>2, <3>3 DEF BalanceInv, Balanced
  <2>5. CASE popping # "seen"
    <3>1. ring' = ring /\ Held = 1 /\ raced
      BY <1>9, <2>5 DEF PopTakes, PopInv, Held, TypeOK
    <3> QED
      BY <1>s, <2>1, <2>3, <3>1 DEF BalanceInv, Balanced
  <2> QED
    BY <2>4, <2>5
<1>10. ASSUME SendBatch PROVE BalanceInv'
  <2>1. Taken' = Taken /\ UNCHANGED <<discarded, ring, raced>> /\ Held' = Held
    BY <1>10 DEF SendBatch, SendBatchLeaving, quoteVars, ringVars, Taken, Held
  <2>2. \/ sent' = sent + 1 /\ UNCHANGED <<errors, drain_lost>>
        \/ errors' = errors + 1 /\ UNCHANGED <<sent, drain_lost>>
    BY <1>10 DEF SendBatch, SendBatchLeaving, SendTick
  <2>3. Len(batch') = Len(batch) - 1
    BY <1>10, TakeTick, Numbers DEF SendBatch, SendBatchLeaving, BatchInv
  <2>4. Handled' = Handled
    BY <1>n, <2>2, <2>3 DEF Handled
  <2> QED
    BY <1>s, <2>1, <2>4 DEF BalanceInv
<1>11. ASSUME DrainSend PROVE BalanceInv'
  <2>1. Taken' = Taken /\ UNCHANGED <<discarded, ring, raced>> /\ Held' = Held
    BY <1>11 DEF DrainSend, quoteVars, ringVars, Taken, Held
  <2>2. \/ sent' = sent + 1 /\ UNCHANGED <<errors, drain_lost>>
        \/ drain_lost' = drain_lost + 1 /\ UNCHANGED <<sent, errors>>
    BY <1>11 DEF DrainSend, SendTick
  <2>3. Len(batch') = 0 /\ Len(batch) = 1
    BY <1>11 DEF DrainSend, BatchInv
  <2>4. Handled' = Handled
    BY <1>n, <2>2, <2>3 DEF Handled
  <2> QED
    BY <1>s, <2>1, <2>4 DEF BalanceInv
<1> QED
  BY <1>1, <1>2, <1>3, <1>4, <1>5, <1>6, <1>7, <1>8, <1>9, <1>10, <1>11 DEF Next, StartSteps,
     StopSteps, Session, Callback, Dispatch, Pop, StartBase, QueryProduct, NotReady,
     StaticDataMissing, Attempt, AllQueried, InitTd, OpenApi, WaitForLogin, InitMd,
     LaunchDispatch, OnFrontConnected, OnApi, OnRspAuthenticate, OnRspUserLogin,
     SubscribeAfterLogin, Subscribe, OnFrontDisconnected, CallbackCrashes, DispatchTop,
     Collected, Drained, Shutdown, Stop, JoinDispatch, JoinDispatchIf, CleanupMd, CleanupTd,
     StopBase, vars, startVars, ctpVars, quoteVars, ringVars, dispatchVars, counterVars

\* The count of dropped ticks is at most one behind, and only in the callback.
LEMMA DropStep == IInv /\ [Next]_vars => DropInv'
<1> SUFFICES ASSUME IInv, [Next]_vars PROVE DropInv'
  OBVIOUS
<1> USE DEF IInv
<1>n. discarded \in Nat /\ dropped \in Nat
  BY Numbers
<1>1. ASSUME UNCHANGED <<callback, discarded, dropped>> PROVE DropInv'
  BY <1>1 DEF DropInv
<1>2. ASSUME NEW i \in Instruments, QuoteArrives(i) PROVE DropInv'
  BY <1>2, <1>n DEF QuoteArrives, counterVars, DropInv, Callbacks
<1>3. ASSUME SendFuture \/ TryPush PROVE DropInv'
  BY <1>3, <1>n DEF SendFuture, TryPush, counterVars, DropInv
<1>4. ASSUME PushOverwrite PROVE DropInv'
  BY <1>4, <1>n DEF PushOverwrite, DropInv
<1>5. ASSUME CountDropped PROVE DropInv'
  BY <1>5, <1>n DEF CountDropped, DropInv
<1>6. ASSUME CountReceived PROVE DropInv'
  BY <1>6, <1>n DEF CountReceived, DropInv, Callbacks
<1> QED
  BY <1>1, <1>2, <1>3, <1>4, <1>5, <1>6 DEF Next, StartSteps, StopSteps, Session,
     Callback, Dispatch, Pop, StartBase, QueryProduct, NotReady, StaticDataMissing,
     Attempt, AllQueried, InitTd, OpenApi, WaitForLogin, InitMd, LaunchDispatch,
     OnFrontConnected, OnApi, OnRspAuthenticate, OnRspUserLogin, SubscribeAfterLogin,
     Subscribe, OnFrontDisconnected, CallbackCrashes, DispatchTop, PopSees, PopTakes, Collected,
     SendBatch, SendBatchLeaving, DrainSend, Drained, Shutdown, Stop,
     JoinDispatch, JoinDispatchIf, CleanupMd, CleanupTd, StopBase, vars, startVars, ctpVars,
     quoteVars, ringVars, dispatchVars, counterVars

\* What is sent is sent while the module runs.
LEMMA PublishedStep == IInv /\ [Next]_vars => SentIsPublished'
<1> SUFFICES ASSUME IInv, [Next]_vars PROVE SentIsPublished'
  OBVIOUS
<1> USE DEF IInv
<1>1. ASSUME UNCHANGED <<sent, published, overtaken>> PROVE SentIsPublished'
  BY <1>1 DEF SentIsPublished, BaseInv, CallbackInv, TypeOK, Callbacks
<1>2. ASSUME NEW i \in Instruments, QuoteArrives(i) PROVE SentIsPublished'
  BY <1>2 DEF QuoteArrives, counterVars, SentIsPublished, BaseInv, CallbackInv, TypeOK,
     Callbacks
<1>3. ASSUME SendFuture PROVE SentIsPublished'
  BY <1>3 DEF SendFuture, SentIsPublished, BaseInv, CallbackInv, TypeOK, Callbacks
<1>4. ASSUME SendBatch PROVE SentIsPublished'
  BY <1>4 DEF SendBatch, SendBatchLeaving, SendTick, quoteVars, SentIsPublished, BaseInv,
     CallbackInv, TypeOK, Callbacks
<1>5. ASSUME DrainSend PROVE SentIsPublished'
  BY <1>5 DEF DrainSend, SendTick, quoteVars, SentIsPublished, BaseInv, CallbackInv, TypeOK,
     Callbacks
<1>6. ASSUME CleanupMd PROVE SentIsPublished'
  BY <1>6 DEF CleanupMd, counterVars, SentIsPublished, BaseInv, CallbackInv, TypeOK,
     Callbacks
<1> QED
  BY <1>1, <1>2, <1>3, <1>4, <1>5, <1>6 DEF Next, StartSteps, StopSteps, Session, Callback,
     Dispatch, StartBase, QueryProduct, NotReady, StaticDataMissing, Attempt, AllQueried,
     InitTd, OpenApi, WaitForLogin, InitMd, LaunchDispatch, OnFrontConnected, OnApi,
     OnRspAuthenticate, OnRspUserLogin, SubscribeAfterLogin, Subscribe, OnFrontDisconnected,
     TryPush, PushOverwrite, CountDropped, CountReceived, CallbackCrashes, DispatchTop, Pop,
     PopSees, PopTakes, Collected, Drained, Shutdown, Stop, JoinDispatch, JoinDispatchIf,
     CleanupTd, StopBase, vars, startVars, ctpVars, quoteVars, ringVars, dispatchVars,
     counterVars

\* The list of instruments no longer changes once the API exists.
LEMMA SubscribedStep == IInv /\ [Next]_vars => SessionSubscribed'
<1> SUFFICES ASSUME IInv, [Next]_vars PROVE SessionSubscribed'
  OBVIOUS
<1> USE DEF IInv
<1>1. ASSUME UNCHANGED <<session, subscribed, instruments, cut_short>> PROVE
   SessionSubscribed'
  BY <1>1 DEF SessionSubscribed, SessionInv, MainInv, TypeOK, Before, Apis
<1>2. ASSUME NEW p \in Products, NEW futures \in {"listed", "error", "threw"}, NEW options
   \in BOOLEAN, QueryProduct(p, futures, options) PROVE SessionSubscribed'
  BY <1>2 DEF QueryProduct, ctpVars, SessionSubscribed, SessionInv, MainInv, TypeOK, Before,
     Apis
<1>3. ASSUME NotReady PROVE SessionSubscribed'
  BY <1>3 DEF NotReady, StaticDataMissing, Attempt, ctpVars, SessionSubscribed, SessionInv,
     MainInv, TypeOK, Before, Apis
<1>4. ASSUME AllQueried PROVE SessionSubscribed'
  BY <1>4 DEF AllQueried, Attempt, ctpVars, SessionSubscribed, SessionInv, MainInv, TypeOK,
     Before, Apis
<1>5. ASSUME NEW created \in BOOLEAN, InitTd(created) PROVE SessionSubscribed'
  BY <1>5 DEF InitTd, OpenApi, startVars, ctpVars, SessionSubscribed, SessionInv, MainInv,
     TypeOK, Before, Apis
<1>6. ASSUME NEW created \in BOOLEAN, InitMd(created) PROVE SessionSubscribed'
  BY <1>6 DEF InitMd, OpenApi, startVars, ctpVars, SessionSubscribed, SessionInv, MainInv,
     TypeOK, Before, Apis
<1>7. ASSUME NEW a \in Apis, NEW accepted \in BOOLEAN, OnFrontConnected(a, accepted) PROVE
   SessionSubscribed'
  BY <1>7 DEF OnFrontConnected, OnApi, startVars, SessionSubscribed, SessionInv, MainInv,
     TypeOK, Before, Apis
<1>8. ASSUME NEW accepted \in BOOLEAN, OnRspAuthenticate(accepted) PROVE SessionSubscribed'
  BY <1>8 DEF OnRspAuthenticate, OnApi, startVars, SessionSubscribed, SessionInv, MainInv,
     TypeOK, Before, Apis
<1>9. ASSUME NEW a \in Apis, NEW welcome \in BOOLEAN, NEW accepted \in BOOLEAN,
   OnRspUserLogin(a, welcome, accepted) PROVE SessionSubscribed'
  BY <1>9 DEF OnRspUserLogin, OnApi, SubscribeAfterLogin, Subscribe, startVars,
     SessionSubscribed, SessionInv, MainInv, TypeOK, Before, Apis
<1>10. ASSUME NEW a \in Apis, OnFrontDisconnected(a) PROVE SessionSubscribed'
  BY <1>10 DEF OnFrontDisconnected, OnApi, startVars, SessionSubscribed, SessionInv,
     MainInv, TypeOK, Before, Apis
<1>11. ASSUME CleanupMd PROVE SessionSubscribed'
  BY <1>11 DEF CleanupMd, startVars, SessionSubscribed, SessionInv, MainInv, TypeOK, Before,
     Apis
<1>12. ASSUME CleanupTd PROVE SessionSubscribed'
  BY <1>12 DEF CleanupTd, startVars, SessionSubscribed, SessionInv, MainInv, TypeOK, Before,
     Apis
<1> QED
  BY <1>1, <1>2, <1>3, <1>4, <1>5, <1>6, <1>7, <1>8, <1>9, <1>10, <1>11, <1>12 DEF Next,
     StartSteps, StopSteps, Session, Callback, Dispatch, StartBase, WaitForLogin,
     LaunchDispatch, QuoteArrives, SendFuture, TryPush, PushOverwrite, CountDropped,
     CountReceived, CallbackCrashes, DispatchTop, Pop, PopSees, PopTakes, Collected, SendBatch,
     SendBatchLeaving, SendTick, DrainSend, Drained, Shutdown, Stop, JoinDispatch,
     JoinDispatchIf, StopBase, vars, startVars, ctpVars, quoteVars, ringVars, dispatchVars,
     counterVars

\* The inductive invariant holds in every state of every behaviour.
LEMMA IInvAlways == Spec => []IInv
<1>1. IInv /\ [Next]_vars => TypeOK'
  BY ControlTypeStep, StartTypeStep, ApiTypeStep, BufferTypeStep, CounterTypeStep
     DEF TypeOK, ControlType, StartType, ApiType, BufferType, CounterType
<1>2. IInv /\ [Next]_vars => IInv'
  BY <1>1, BatchStep, MainStep, BaseStep, CallbackStep, PopStep, SessionStep, BalanceStep,
     DropStep, PublishedStep, SubscribedStep DEF IInv
<1> QED
  BY InitHolds, <1>2, PTL DEF Spec

-----------------------------------------------------------------------------
(* The theorems                                                            *)

\* Every variable keeps its type, and above all the option buffer and the batch
\* stay within their sizes, whatever the callbacks and the dispatch thread do.
THEOREM GatewayTypeCorrect == Spec => []TypeOK
BY IInvAlways, PTL DEF IInv

\* The counters of the gateway account for every quote it has taken in, unless
\* push_overwrite and pop raced for one; and race or not, no more is sent than came,
\* and option_dropped_count_ covers what was discarded.
THEOREM EveryQuoteAccounted == Spec => []QuotesAccounted
<1>1. IInv => QuotesAccounted
  <2> SUFFICES ASSUME IInv PROVE QuotesAccounted
    OBVIOUS
  <2>1. /\ Handled \in Nat /\ Taken \in Nat /\ discarded \in Nat /\ Len(ring) \in Nat
        /\ Held \in {0, 1} /\ raced \in BOOLEAN
    BY Sides DEF IInv
  <2> QED
    BY <2>1 DEF IInv, BalanceInv, Balanced, DropInv, QuotesAccounted
<1> QED
  BY <1>1, IInvAlways, PTL

\* ticks_sent_ counts nothing that a stopped module threw away, unless cleanup_ctp
\* overtook a callback.
THEOREM SentMeansPublished == Spec => []SentIsPublished
BY IInvAlways, PTL DEF IInv

\* A market-data session that is logged in is subscribed to all instruments, or
\* its subscription failed, after any number of reconnections.
THEOREM LoggedInIsSubscribed == Spec => []SessionSubscribed
BY IInvAlways, PTL DEF IInv
==============================================================================
