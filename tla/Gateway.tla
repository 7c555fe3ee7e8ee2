------------------------------- MODULE Gateway -------------------------------
(***************************************************************************)
(* The CTP gateway (ctp_gateway.cpp with its callback objects md_spi.cpp   *)
(* and td_spi.cpp): the main thread that starts and stops it, the thread   *)
(* of the market-data API on which the callbacks run, and the thread that  *)
(* dispatches option quotes.                                               *)
(*                                                                         *)
(* The vendor's API and the engine are external.  Of a quote only its      *)
(* instrument matters, of an instrument its product and its class.         *)
(*                                                                         *)
(* The option ring buffer is a bounded FIFO here, except for the race that *)
(* RingBuffer finds between push_overwrite and pop: push_overwrite may     *)
(* discard the tick that a pop has seen and not yet taken.  The tick is    *)
(* then sent although it was discarded, and pop's late stores may take a   *)
(* newer one out of reach; from then on pop may find nothing, and          *)
(* push_overwrite may never return.                                        *)
(***************************************************************************)
EXTENDS Naturals, Sequences, FiniteSets

CONSTANTS
  Products,      \* cfg_.underlyings
  UseTd,         \* whether cfg_.td_front is set
  Authenticate,  \* whether cfg_.appid is set
  Capacity,      \* capacity of option_ring_buffer_
  BatchSize,     \* BATCH_SIZE
  MaxRetries,    \* max_retries of resolve_instruments
  MaxQuotes,     \* bound: quotes the market-data front sends
  MaxSessions,   \* bound: connections of an API to its front, per API
  None

Apis == {"md", "td"}
Instruments == Products \X {"future", "option"}
Callbacks == {"send", "try_push", "overwrite", "drop", "count"}

ASSUME GatewayAssumption ==
  /\ UseTd \in BOOLEAN /\ Authenticate \in BOOLEAN
  /\ Capacity \in Nat \ {0} /\ BatchSize \in Nat \ {0}
  /\ MaxRetries \in Nat /\ MaxQuotes \in Nat /\ MaxSessions \in [Apis -> Nat]
  /\ None \notin Callbacks

VARIABLES
  main,         \* where the main thread is
  shutdown,     \* g_shutdown
  base_running, \* the TycheModule is running and its sockets are open
  ctp_running,  \* ctp_running_
  attempt,      \* attempt of resolve_instruments
  to_query,     \* products this attempt has yet to query
  instruments,  \* instruments_
  option_set,   \* option_instrument_set_
  \* the vendor's APIs and their callback objects
  api,          \* APIs that exist
  spi,          \* callback objects that exist
  session,      \* how far the log-in of an API has come
  sessions,     \* connections so far
  subscribed,   \* what the market-data front sends quotes for
  cut_short,    \* SubscribeMarketData failed in this session
  \* quotes
  callback,     \* where on_quote_received is
  overtaken,    \* a callback ran although its object was destroyed
  ring,         \* option_ring_buffer_
  popping,      \* whether a pop has seen the oldest tick, or that was discarded since
  raced,        \* push_overwrite has discarded a tick that a pop had seen
  dispatch,     \* where the option dispatch thread is
  batch,        \* ticks popped and not yet sent
  received, sent, errors, dropped,   \* ticks_received_ and the other counters
  discarded,    \* ticks that push_overwrite took out of the buffer
  drain_lost,   \* ticks whose send threw while the thread drained the buffer
  published     \* ticks that reached an open socket

startVars == <<attempt, to_query, instruments, option_set>>
ctpVars == <<api, spi, session, sessions, subscribed, cut_short>>
quoteVars == <<callback, overtaken>>
ringVars == <<ring, popping, raced>>
dispatchVars == <<dispatch, batch>>
counterVars == <<received, sent, errors, dropped, discarded, drain_lost, published>>
vars == <<main, shutdown, base_running, ctp_running, startVars, ctpVars, quoteVars, ringVars,
          dispatchVars, counterVars>>

Init ==
  /\ main = "start" /\ shutdown = FALSE
  /\ base_running = FALSE /\ ctp_running = FALSE
  /\ attempt = 0 /\ to_query = {} /\ instruments = {} /\ option_set = {}
  /\ api = {} /\ spi = {}
  /\ session = [a \in Apis |-> "down"] /\ sessions = [a \in Apis |-> 0]
  /\ subscribed = {} /\ cut_short = FALSE
  /\ callback = None /\ overtaken = FALSE
  /\ ring = <<>> /\ popping = "no" /\ raced = FALSE
  /\ dispatch = "none" /\ batch = <<>>
  /\ received = 0 /\ sent = 0 /\ errors = 0 /\ dropped = 0
  /\ discarded = 0 /\ drain_lost = 0 /\ published = 0

-----------------------------------------------------------------------------
(* start                                                                   *)

\* TycheModule::start (ModuleClient).  A module that is not registered does
\* nothing until it is told to shut down.
StartBase(registered) ==
  /\ main = "start"
  /\ base_running' = registered
  /\ main' = IF registered THEN "resolve" ELSE "wait"
  /\ to_query' = Products
  /\ UNCHANGED <<shutdown, ctp_running, attempt, instruments, option_set, ctpVars, quoteVars,
                 ringVars, dispatchVars, counterVars>>

\* One product: its futures, then its options unless the first query was
\* answered with an error.  A failed option query is skipped.
QueryProduct(p, futures, options) ==
  /\ main = "resolve" /\ p \in to_query
  /\ to_query' = to_query \ {p}
  /\ LET future == IF futures = "listed" THEN {<<p, "future">>} ELSE {}
         option == IF futures # "error" /\ options THEN {<<p, "option">>} ELSE {}
     IN /\ instruments' = instruments \cup future \cup option
        /\ option_set' = option_set \cup option
  /\ UNCHANGED <<main, shutdown, base_running, ctp_running, attempt, ctpVars, quoteVars, ringVars,
                 dispatchVars, counterVars>>

Attempt(again) ==
  /\ IF again
       THEN /\ attempt' = attempt + 1
            /\ instruments' = {}
            /\ to_query' = Products
            /\ UNCHANGED main
       ELSE /\ main' = "init_td"
            /\ attempt' = 0 /\ to_query' = {}
            /\ UNCHANGED instruments
  /\ UNCHANGED <<shutdown, base_running, ctp_running, option_set, ctpVars, quoteVars, ringVars,
                 dispatchVars, counterVars>>

\* No handler, or no answer in time: static_data is not ready.
StaticDataMissing == main = "resolve" /\ to_query # {}

\* Mutant of NotReady: after the last retry the count starts over.
NotReadyInsists ==
  /\ StaticDataMissing
  /\ attempt' = (attempt + 1) % (MaxRetries + 1)
  /\ to_query' = Products /\ instruments' = {}
  /\ UNCHANGED <<main, shutdown, base_running, ctp_running, option_set, ctpVars, quoteVars,
                 ringVars, dispatchVars, counterVars>>

\* Try again later, or go on with what is there.
NotReady == StaticDataMissing /\ Attempt(attempt < MaxRetries)

AllQueried ==
  /\ main = "resolve" /\ to_query = {}
  /\ Attempt(instruments = {} /\ attempt < MaxRetries)

OpenApi(a) ==
  /\ api' = api \cup {a} /\ spi' = spi \cup {a}
  /\ UNCHANGED <<session, sessions, subscribed, cut_short>>

\* The trader API is optional: if it cannot be created the gateway goes on.
InitTd(created) ==
  /\ main = "init_td"
  /\ IF UseTd /\ created
       THEN OpenApi("td") /\ main' = "wait_td"
       ELSE UNCHANGED ctpVars /\ main' = "init_md"
  /\ UNCHANGED <<shutdown, base_running, ctp_running, startVars, quoteVars, ringVars, dispatchVars,
                 counterVars>>

\* wait_for_login ends with the log-in or with the time-out, and either will do.
WaitForLogin ==
  /\ main = "wait_td"
  /\ main' = "init_md"
  /\ UNCHANGED <<shutdown, base_running, ctp_running, startVars, ctpVars, quoteVars, ringVars,
                 dispatchVars, counterVars>>

\* The market-data API is not optional: without it start() throws, after
\* cleanup_ctp, and the destructor calls stop().
InitMd(created) ==
  /\ main = "init_md"
  /\ IF created
       THEN /\ OpenApi("md")
            /\ ctp_running' = TRUE /\ main' = "launch"
       ELSE /\ main' = "release_md_spi"
            /\ UNCHANGED <<ctpVars, ctp_running>>
  /\ UNCHANGED <<shutdown, base_running, startVars, quoteVars, ringVars, dispatchVars, counterVars>>

LaunchDispatch ==
  /\ main = "launch"
  /\ dispatch' = "top"
  /\ main' = "wait"
  /\ UNCHANGED <<shutdown, base_running, ctp_running, startVars, ctpVars, quoteVars, ringVars,
                 batch, counterVars>>

-----------------------------------------------------------------------------
(* The log-in of an API, on the API's thread                               *)

OnApi(a) == a \in api /\ a \in spi

\* OnFrontConnected: the first request, which may fail at once and is then not
\* repeated in this session.
OnFrontConnected(a, accepted) ==
  /\ OnApi(a) /\ session[a] = "down" /\ sessions[a] < MaxSessions[a]
  /\ sessions' = [sessions EXCEPT ![a] = @ + 1]
  /\ session' = [session EXCEPT ![a] = IF ~accepted THEN "idle"
                                       ELSE IF a = "td" /\ Authenticate THEN "authenticate"
                                       ELSE "login"]
  /\ UNCHANGED <<main, shutdown, base_running, ctp_running, startVars, api, spi, subscribed,
                 cut_short, quoteVars, ringVars, dispatchVars, counterVars>>

OnRspAuthenticate(accepted) ==
  /\ OnApi("td") /\ session["td"] = "authenticate"
  /\ session' = [session EXCEPT !["td"] = IF accepted THEN "login" ELSE "idle"]
  /\ UNCHANGED <<main, shutdown, base_running, ctp_running, startVars, api, spi, sessions,
                 subscribed, cut_short, quoteVars, ringVars, dispatchVars, counterVars>>

\* do_subscribe asks for the whole list; an empty list is not sent.
Subscribe(accepted) ==
  IF accepted THEN subscribed' = instruments /\ UNCHANGED cut_short
              ELSE cut_short' = TRUE /\ UNCHANGED subscribed

\* Mutant of SubscribeAfterLogin: only the first log-in subscribes.
SubscribeOnce(a, accepted) ==
  IF a = "md" /\ sessions["md"] = 1 THEN Subscribe(accepted)
                                    ELSE UNCHANGED <<subscribed, cut_short>>

SubscribeAfterLogin(a, accepted) ==
  IF a = "md" THEN Subscribe(accepted) ELSE UNCHANGED <<subscribed, cut_short>>

OnRspUserLogin(a, welcome, accepted) ==
  /\ OnApi(a) /\ session[a] = "login"
  /\ session' = [session EXCEPT ![a] = IF welcome THEN "logged_in" ELSE "idle"]
  /\ IF welcome THEN SubscribeAfterLogin(a, accepted) ELSE UNCHANGED <<subscribed, cut_short>>
  /\ UNCHANGED <<main, shutdown, base_running, ctp_running, startVars, api, spi, sessions,
                 quoteVars, ringVars, dispatchVars, counterVars>>

\* OnFrontDisconnected; the API reconnects by itself.  The front forgets the
\* subscriptions of a session.
OnFrontDisconnected(a) ==
  /\ OnApi(a) /\ session[a] # "down"
  /\ session' = [session EXCEPT ![a] = "down"]
  /\ IF a = "md" THEN subscribed' = {} /\ cut_short' = FALSE
                 ELSE UNCHANGED <<subscribed, cut_short>>
  /\ UNCHANGED <<main, shutdown, base_running, ctp_running, startVars, api, spi, sessions,
                 quoteVars, ringVars, dispatchVars, counterVars>>

-----------------------------------------------------------------------------
(* on_quote_received, on the thread of the market-data API                 *)

\* A quote that arrives after the callback object is gone and before the API is
\* told so is delivered to a destroyed object.
QuoteArrives(i) ==
  /\ "md" \in api /\ session["md"] = "logged_in" /\ i \in subscribed
  /\ callback = None /\ received < MaxQuotes
  /\ overtaken' = (overtaken \/ "md" \notin spi)
  /\ callback' = IF i \in option_set THEN "try_push" ELSE "send"
  /\ UNCHANGED <<main, shutdown, base_running, ctp_running, startVars, ctpVars, ringVars,
                 dispatchVars, counterVars>>

\* send_event returns silently if the module has stopped; ticks_sent_ counts
\* either way.
SendFuture ==
  /\ callback = "send"
  /\ sent' = sent + 1
  /\ published' = IF base_running THEN published + 1 ELSE published
  /\ callback' = "count"
  /\ UNCHANGED <<main, shutdown, base_running, ctp_running, startVars, ctpVars, overtaken,
                 ringVars, dispatchVars, received, errors, dropped, discarded, drain_lost>>

TryPush ==
  /\ callback = "try_push"
  /\ IF Len(ring) < Capacity
       THEN ring' = Append(ring, "tick") /\ callback' = "count"
       ELSE callback' = "overwrite" /\ UNCHANGED ring
  /\ UNCHANGED <<main, shutdown, base_running, ctp_running, startVars, ctpVars, overtaken,
                 popping, raced, dispatchVars, counterVars>>

\* push_overwrite discards nothing if the dispatch thread has made room since.
PushOverwrite ==
  /\ callback = "overwrite"
  /\ LET full == Len(ring) = Capacity
         race == full /\ popping # "no"
     IN /\ ring' = Append(IF full THEN Tail(ring) ELSE ring, "tick")
        /\ discarded' = IF full THEN discarded + 1 ELSE discarded
        /\ popping' = IF race THEN "discarded" ELSE popping
        /\ raced' = (raced \/ race)
  /\ callback' = "drop"
  /\ UNCHANGED <<main, shutdown, base_running, ctp_running, startVars, ctpVars, overtaken,
                 dispatchVars, received, sent, errors, dropped, drain_lost, published>>

\* option_dropped_count_ counts whether or not a tick was discarded.
CountDropped ==
  /\ callback = "drop"
  /\ dropped' = dropped + 1
  /\ callback' = "count"
  /\ UNCHANGED <<main, shutdown, base_running, ctp_running, startVars, ctpVars, overtaken,
                 ringVars, dispatchVars, received, sent, errors, discarded, drain_lost, published>>

CountReceived ==
  /\ callback = "count"
  /\ received' = received + 1
  /\ callback' = None
  /\ UNCHANGED <<main, shutdown, base_running, ctp_running, startVars, ctpVars, overtaken,
                 ringVars, dispatchVars, sent, errors, dropped, discarded, drain_lost, published>>

\* Undefined behaviour: a callback whose object is destroyed may go on, or not;
\* and what the send of a future throws reaches a thread that catches nothing.
CallbackCrashes ==
  /\ callback = "send" \/ (overtaken /\ callback # None)
  /\ main' = "crashed"
  /\ UNCHANGED <<shutdown, base_running, ctp_running, startVars, ctpVars, quoteVars, ringVars,
                 dispatchVars, counterVars>>

-----------------------------------------------------------------------------
(* option_dispatch_loop                                                    *)

DispatchTop ==
  /\ dispatch = "top"
  /\ dispatch' = IF ctp_running THEN "collect" ELSE "drain"
  /\ UNCHANGED <<main, shutdown, base_running, ctp_running, startVars, ctpVars, quoteVars, ringVars,
                 batch, counterVars>>

\* Pop finds the oldest tick; while it drains, the thread pops one at a time.
PopSees ==
  /\ popping = "no" /\ ring # <<>>
  /\ \/ dispatch = "collect" /\ Len(batch) < BatchSize
     \/ dispatch = "drain"
  /\ popping' = "seen"
  /\ UNCHANGED <<main, shutdown, base_running, ctp_running, startVars, ctpVars, quoteVars, ring,
                 raced, dispatchVars, counterVars>>

\* Pop takes what it has seen, also if it was discarded meanwhile.
PopTakes ==
  /\ popping # "no"
  /\ batch' = Append(batch, "tick")
  /\ ring' = IF popping = "seen" THEN Tail(ring) ELSE ring
  /\ popping' = "no"
  /\ dispatch' = IF dispatch = "drain" THEN "drain_send" ELSE dispatch
  /\ UNCHANGED <<main, shutdown, base_running, ctp_running, startVars, ctpVars, quoteVars, raced,
                 counterVars>>

\* Pop finds the buffer empty, or a push_overwrite moves the read position under
\* it, or one has done so before.
NothingFound ==
  /\ popping = "no"
  /\ ring = <<>> \/ raced \/ (callback = "overwrite" /\ Len(ring) = Capacity)

\* Pop until the batch is full or nothing is found.
Collected ==
  /\ dispatch = "collect"
  /\ popping = "no" /\ (Len(batch) = BatchSize \/ NothingFound)
  /\ dispatch' = IF batch = <<>> THEN "top" ELSE "send"
  /\ UNCHANGED <<main, shutdown, base_running, ctp_running, startVars, ctpVars, quoteVars,
                 ringVars, batch, counterVars>>

\* send_event of a tick of the dispatch thread, which may throw.
SendTick(thrown) ==
  \/ /\ sent' = sent + 1
     /\ published' = IF base_running THEN published + 1 ELSE published
     /\ UNCHANGED <<errors, drain_lost>>
  \/ thrown /\ UNCHANGED <<sent, published>>

SendBatchLeaving(rest) ==
  /\ dispatch = "send"
  /\ SendTick(errors' = errors + 1 /\ UNCHANGED drain_lost)
  /\ batch' = rest
  /\ dispatch' = IF batch' = <<>> THEN "top" ELSE "send"
  /\ UNCHANGED <<main, shutdown, base_running, ctp_running, startVars, ctpVars, quoteVars, ringVars,
                 received, dropped, discarded>>

\* Mutant of SendBatch: an exception ends the batch.
SendBatchUpToError ==
  SendBatchLeaving(IF sent' = sent THEN <<>> ELSE Tail(batch))

SendBatch == SendBatchLeaving(Tail(batch))

\* What is in the buffer when ctp_running_ is false is sent too.
DrainSend ==
  /\ dispatch = "drain_send"
  /\ SendTick(drain_lost' = drain_lost + 1 /\ UNCHANGED errors)
  /\ batch' = <<>>
  /\ dispatch' = "drain"
  /\ UNCHANGED <<main, shutdown, base_running, ctp_running, startVars, ctpVars, quoteVars,
                 ringVars, received, dropped, discarded>>

Drained ==
  /\ dispatch = "drain" /\ NothingFound
  /\ dispatch' = "ended"
  /\ UNCHANGED <<main, shutdown, base_running, ctp_running, startVars, ctpVars, quoteVars,
                 ringVars, batch, counterVars>>

-----------------------------------------------------------------------------
(* stop, called by main when it sees g_shutdown                            *)

Shutdown ==
  /\ ~shutdown
  /\ shutdown' = TRUE
  /\ UNCHANGED <<main, base_running, ctp_running, startVars, ctpVars, quoteVars, ringVars,
                 dispatchVars, counterVars>>

Stop ==
  /\ main = "wait" /\ shutdown
  /\ ctp_running' = FALSE
  /\ main' = "join"
  /\ UNCHANGED <<shutdown, base_running, startVars, ctpVars, quoteVars, ringVars, dispatchVars,
                 counterVars>>

JoinDispatchIf(ended) ==
  /\ main = "join"
  /\ ended
  /\ main' = "release_md_spi"
  /\ UNCHANGED <<shutdown, base_running, ctp_running, startVars, ctpVars, quoteVars, ringVars,
                 dispatchVars, counterVars>>

\* Mutant of JoinDispatch: nobody waits for the dispatch thread.
JoinDispatchNot == JoinDispatchIf(TRUE)

JoinDispatch == JoinDispatchIf(dispatch \in {"none", "ended"})

\* cleanup_ctp destroys the callback object, then the API: its deleter
\* unregisters the object and releases the API without waiting for its thread.
CleanupMd ==
  /\ \/ /\ main = "release_md_spi"
        /\ spi' = spi \ {"md"}
        /\ overtaken' = (overtaken \/ callback # None)
        /\ main' = "release_md_api"
        /\ UNCHANGED <<api, session, subscribed, cut_short>>
     \/ /\ main = "release_md_api"
        /\ api' = api \ {"md"}
        /\ session' = [session EXCEPT !["md"] = "down"]
        /\ subscribed' = {} /\ cut_short' = FALSE
        /\ main' = "release_td"
        /\ UNCHANGED <<spi, overtaken>>
  /\ UNCHANGED <<shutdown, base_running, ctp_running, startVars, sessions, callback, ringVars,
                 dispatchVars, counterVars>>

CleanupTd ==
  /\ main = "release_td"
  /\ spi' = spi \ {"td"} /\ api' = api \ {"td"}
  /\ session' = [session EXCEPT !["td"] = "down"]
  /\ main' = "stop_base"
  /\ UNCHANGED <<shutdown, base_running, ctp_running, startVars, sessions, subscribed, cut_short,
                 quoteVars, ringVars, dispatchVars, counterVars>>

\* TycheModule::stop (ModuleClient) clears _running, then joins its threads and
\* closes the sockets.
StopBase ==
  /\ \/ main = "stop_base" /\ main' = "join_base"
     \/ main = "join_base" /\ main' = "exited"
  /\ base_running' = FALSE
  /\ UNCHANGED <<shutdown, ctp_running, startVars, ctpVars, quoteVars, ringVars, dispatchVars,
                 counterVars>>

-----------------------------------------------------------------------------
Alive == main \notin {"exited", "crashed"}

StartSteps ==
  \/ \E registered \in BOOLEAN : StartBase(registered)
  \/ \E p \in Products, futures \in {"listed", "error", "threw"}, options \in BOOLEAN :
       QueryProduct(p, futures, options)
  \/ NotReady \/ AllQueried
  \/ \E created \in BOOLEAN : InitTd(created) \/ InitMd(created)
  \/ WaitForLogin \/ LaunchDispatch

StopSteps == Stop \/ JoinDispatch \/ CleanupMd \/ CleanupTd \/ StopBase
Session ==
  \/ \E a \in Apis, accepted \in BOOLEAN : OnFrontConnected(a, accepted)
  \/ \E accepted \in BOOLEAN : OnRspAuthenticate(accepted)
  \/ \E a \in Apis, welcome, accepted \in BOOLEAN : OnRspUserLogin(a, welcome, accepted)
  \/ \E a \in Apis : OnFrontDisconnected(a)
Callback == SendFuture \/ TryPush \/ PushOverwrite \/ CountDropped \/ CountReceived
Pop == PopSees \/ PopTakes
Dispatch == DispatchTop \/ Pop \/ Collected \/ SendBatch \/ DrainSend \/ Drained

Next ==
  /\ Alive
  /\ \/ StartSteps \/ StopSteps \/ Shutdown
     \/ Session
     \/ \E i \in Instruments : QuoteArrives(i)
     \/ Callback \/ CallbackCrashes
     \/ Dispatch

Spec == Init /\ [][Next]_vars

\* The gateway's own threads keep running, and waits end; only a push_overwrite
\* after a race may never return.  The front, the engine and the user do as they
\* please.
Fairness ==
  /\ WF_vars(Alive /\ StartSteps) /\ WF_vars(Alive /\ StopSteps)
  /\ WF_vars(Alive /\ Callback /\ ~(raced /\ PushOverwrite)) /\ WF_vars(Alive /\ Dispatch)

FairSpec == Spec /\ Fairness

-----------------------------------------------------------------------------
(* Properties                                                              *)

\* Every variable holds what its C++ counterpart holds, and the option buffer
\* and the batch stay within their sizes.
TypeOK ==
  /\ main \in {"start", "resolve", "init_td", "wait_td", "init_md", "launch", "wait", "join",
              "release_md_spi", "release_md_api", "release_td", "stop_base", "join_base",
              "exited", "crashed"}
  /\ {shutdown, base_running, ctp_running, cut_short, overtaken} \subseteq BOOLEAN
  /\ attempt \in 0..MaxRetries /\ to_query \subseteq Products
  /\ instruments \subseteq Instruments /\ option_set \subseteq Instruments
  /\ subscribed \subseteq Instruments
  /\ api \subseteq Apis /\ spi \subseteq Apis
  /\ session \in [Apis -> {"down", "idle", "authenticate", "login", "logged_in"}]
  /\ sessions \in [Apis -> Nat] /\ \A a \in Apis : sessions[a] <= MaxSessions[a]
  /\ callback \in Callbacks \cup {None}
  /\ dispatch \in {"none", "top", "collect", "send", "drain", "drain_send", "ended"}
  /\ popping \in {"no", "seen", "discarded"} /\ raced \in BOOLEAN
  /\ ring \in Seq({"tick"}) /\ Len(ring) <= Capacity
  /\ batch \in Seq({"tick"}) /\ Len(batch) <= BatchSize
  /\ {received, sent, errors, dropped, discarded, drain_lost, published} \subseteq Nat

\* Quotes the gateway has taken in, and those it has sent or tried to send.
Taken == received + (IF callback \in {"drop", "count"} THEN 1 ELSE 0)
Handled == sent + errors + drain_lost + Len(batch)

\* Every quote that on_quote_received has taken in is accounted for: it was sent,
\* its send failed, push_overwrite discarded it, or it is still in the buffer or
\* in the batch.  The exception is a push_overwrite that discarded a tick while
\* the dispatch thread popped it; even then no quote is sent that did not come,
\* or sent twice.  And option_dropped_count_ is never short of what was
\* discarded, race or not.
QuotesAccounted ==
  /\ raced \/ Handled + discarded + Len(ring) = Taken
  /\ Handled <= Taken
  /\ discarded <= dropped + (IF callback = "drop" THEN 1 ELSE 0)

\* ticks_sent_ tells the truth although send_event says nothing when the module
\* has stopped: the dispatch thread has ended and the API is released before the
\* sockets close.  The exception is a callback that cleanup_ctp has overtaken.
SentIsPublished == overtaken \/ sent = published

\* Whenever the market-data session is logged in, after whatever number of
\* reconnections, it is subscribed to every instrument that was resolved, unless
\* SubscribeMarketData reported an error in this very session.
SessionSubscribed ==
  session["md"] = "logged_in" => subscribed = instruments \/ cut_short

\* A request to shut down ends the process: even if it comes while the gateway
\* waits for static_data or for the trader front, or while quotes come in.
GatewayStops == shutdown ~> ~Alive
=============================================================================
