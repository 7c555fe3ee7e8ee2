--------------------------- MODULE EventPathProofs ---------------------------
(***************************************************************************)
(* Theorems about EventPath, for any modules, topics and events.           *)
(*                                                                         *)
(* First the registry and the stamps (IInv): no module is without a        *)
(* monitor, and the stamps of a topic do not pile up.  Then the events     *)
(* (EInv, which contains IInv): each is in one place and in one only, the  *)
(* queues stay within their depth, and their numbers within what events    *)
(* and interfaces call for.                                                *)
(***************************************************************************)
EXTENDS EventPath, TLAPS, FiniteSetTheorems, SequenceTheorems

Stamps == {"zero", "recent", "old"}

\* The types of what the two properties are about.
RegistryType ==
  /\ reg_in \in Seq(Modules)
  /\ modules \subseteq Modules /\ registering \subseteq Modules
  /\ monitors \in [Modules -> 0..(2 * Liveness)]

StampType ==
  /\ created \in Nat /\ queues \in [Topics -> Nat \cup {NoQueue}]
  /\ stamps \in [Topics -> Seq(Stamps)]

\* One registration is under way at a time, and the monitor's list is worked off
\* before the next tick overwrites it.
OneAtATime ==
  /\ \A m, n \in registering : m = n
  /\ mat # "expire" => expired = {}

\* A topic without a queue has at most the one stamp that a late touch left; one
\* with a queue has its own stamp as well.
StampInv ==
  \A t \in Topics : IF queues[t] = NoQueue THEN Len(stamps[t]) <= 1
                                           ELSE Len(stamps[t]) \in 1..2

IInv == RegistryType /\ StampType /\ OneAtATime /\ EveryModuleMonitored /\ StampInv

USE ConstantsAssumption

\* There are finitely many topics.
LEMMA TopicsFinite == IsFiniteSet(Topics)
<1>1. PICK n \in Nat : DOMAIN TopicSeq = 1..n
  OBVIOUS
<1>2. IsFiniteSet(DOMAIN TopicSeq)
  BY <1>1, FS_Interval
<1>3. TopicSeq \in [DOMAIN TopicSeq -> Topics]
  BY DEF Topics
<1>4. TopicSeq \in Surjection(DOMAIN TopicSeq, Topics)
  BY <1>3 DEF Surjection, Topics
<1> QED
  BY <1>2, <1>4, FS_Surjection

\* A stamp in front of what follows the first: one if there was none, else as many
\* as before.
LEMMA Restamp ==
  ASSUME NEW s \in Seq(Stamps), NEW x \in Stamps
  PROVE  /\ <<x>> \o <<>> \in Seq(Stamps) /\ Len(<<x>> \o <<>>) = 1
         /\ s # <<>> => <<x>> \o Tail(s) \in Seq(Stamps) /\ Len(<<x>> \o Tail(s)) = Len(s)
<1>1. <<x>> \in Seq(Stamps) /\ Len(<<x>>) = 1 /\ <<>> \in Seq(Stamps) /\ Len(<<>>) = 0
  OBVIOUS
<1>2. <<x>> \o <<>> \in Seq(Stamps) /\ Len(<<x>> \o <<>>) = 1
  BY <1>1, ConcatProperties
<1>3. ASSUME s # <<>>
      PROVE  <<x>> \o Tail(s) \in Seq(Stamps) /\ Len(<<x>> \o Tail(s)) = Len(s)
  <2>1. Tail(s) \in Seq(Stamps) /\ Len(Tail(s)) = Len(s) - 1 /\ Len(s) \in Nat
    BY <1>3, EmptySeq, HeadTailProperties
  <2> QED
    BY <1>1, <2>1, ConcatProperties
<1> QED
  BY <1>2, <1>3

\* get_or_create adds a stamp to a topic that has no queue, and to no other.
LEMMA Creates ==
  ASSUME IInv, NEW ts \in SUBSET Topics, GetOrCreate(ts)
  PROVE  StampType' /\ StampInv'
<1> USE DEF IInv
<1> DEFINE new == {t \in ts : queues[t] = NoQueue}
           Rank(t) == Cardinality({u \in new : \E i, j \in DOMAIN TopicSeq :
                                     i <= j /\ TopicSeq[i] = u /\ TopicSeq[j] = t})
<1>1. IsFiniteSet(new) /\ Cardinality(new) \in Nat
  BY TopicsFinite, FS_Subset, FS_CardinalityType
<1>2. ASSUME NEW t PROVE Rank(t) \in Nat
  <2> DEFINE upto == {u \in new : \E i, j \in DOMAIN TopicSeq :
                        i <= j /\ TopicSeq[i] = u /\ TopicSeq[j] = t}
  <2>1. upto \in SUBSET new
    OBVIOUS
  <2> HIDE DEF upto, new
  <2>2. Cardinality(upto) \in Nat
    BY <1>1, <2>1, FS_Subset, FS_CardinalityType
  <2> QED
    BY <2>2 DEF upto
<1>3. /\ queues' = [t \in Topics |-> IF t \in new THEN created + Rank(t) ELSE queues[t]]
      /\ created' = created + Cardinality(new)
      /\ stamps' = [t \in Topics |-> IF t \in new THEN Append(stamps[t], "zero") ELSE stamps[t]]
  BY DEF GetOrCreate
<1> HIDE DEF Rank
<1>4. ASSUME NEW t \in Topics
      PROVE  /\ Append(stamps[t], "zero") \in Seq(Stamps)
             /\ Len(Append(stamps[t], "zero")) = Len(stamps[t]) + 1
             /\ Len(stamps[t]) \in Nat
  BY AppendProperties DEF StampType, Stamps
<1>5. StampType'
  <2>1. created' \in Nat
    BY <1>1, <1>3 DEF StampType
  <2>2. \A t \in Topics : created + Rank(t) \in Nat
    BY <1>2 DEF StampType
  <2>3. queues' \in [Topics -> Nat \cup {NoQueue}]
    BY <1>3, <2>2 DEF StampType
  <2>4. stamps' \in [Topics -> Seq(Stamps)]
    BY <1>3, <1>4 DEF StampType
  <2> QED
    BY <2>1, <2>3, <2>4 DEF StampType
<1>6. ASSUME NEW t \in Topics
      PROVE  (IF queues[t] = NoQueue THEN Len(stamps[t]) <= 1 ELSE Len(stamps[t]) \in 1..2)'
  <2>1. CASE t \in new
    <3>1. Len(stamps[t]) <= 1
      BY <2>1 DEF StampInv
    <3>2. Len(stamps'[t]) = Len(stamps[t]) + 1
      BY <1>3, <1>4, <2>1
    <3>3. queues'[t] # NoQueue
      <4>1. created + Rank(t) \in Nat
        BY <1>2 DEF StampType
      <4> QED
        BY <1>3, <2>1, <4>1
    <3> QED
      BY <1>4, <3>1, <3>2, <3>3
  <2>2. CASE t \notin new
    BY <1>3, <2>2 DEF StampInv
  <2> QED
    BY <2>1, <2>2
<1> QED
  BY <1>5, <1>6 DEF StampInv

\* touch gives a topic a stamp only if it has none at all.
LEMMA Touches ==
  ASSUME IInv, NEW x, Touch(x), UNCHANGED <<queues, created>>
  PROVE  StampType' /\ StampInv'
<1> USE DEF IInv
<1>1. ASSUME NEW t \in Topics
      PROVE  /\ Len(stamps[t]) \in Nat /\ stamps[t] \in Seq(Stamps)
             /\ stamps[t] = <<>> <=> Len(stamps[t]) = 0
  BY <1>1, EmptySeq DEF StampType
<1>2. CASE x \in Topics
  <2> DEFINE new == <<"recent">> \o (IF stamps[x] = <<>> THEN stamps[x] ELSE Tail(stamps[x]))
  <2>1. /\ new \in Seq(Stamps)
        /\ Len(new) = IF stamps[x] = <<>> THEN 1 ELSE Len(stamps[x])
    BY <1>1, <1>2, Restamp DEF Stamps
  <2>2. stamps' = [stamps EXCEPT ![x] = new]
    BY DEF Touch
  <2> HIDE DEF new
  <2>3. StampType'
    BY <1>2, <2>1, <2>2 DEF StampType
  <2>4. ASSUME NEW t \in Topics
        PROVE  (IF queues[t] = NoQueue THEN Len(stamps[t]) <= 1 ELSE Len(stamps[t]) \in 1..2)'
    <3>1. CASE t = x
      <4>1. Len(stamps'[t]) = IF stamps[t] = <<>> THEN 1 ELSE Len(stamps[t])
        BY <2>1, <2>2, <3>1 DEF StampType
      <4> QED
        BY <1>1, <4>1 DEF StampInv
    <3>2. CASE t # x
      BY <2>2, <3>2 DEF StampInv, StampType
    <3> QED
      BY <3>1, <3>2
  <2> QED
    BY <2>3, <2>4 DEF StampInv
<1>3. CASE x \notin Topics
  <2>1. stamps' = stamps
    BY <1>3 DEF Touch, StampType
  <2> QED
    BY <2>1 DEF StampType, StampInv
<1> QED
  BY <1>2, <1>3

\* The engine starts without modules and without queues.
LEMMA InitHolds == Init => IInv
BY DEF Init, IInv, RegistryType, StampType, OneAtATime, EveryModuleMonitored, StampInv

\* The registry keeps its type.
LEMMA RegistryStep == IInv /\ [Next]_vars => RegistryType'
<1> SUFFICES ASSUME IInv, [Next]_vars PROVE RegistryType'
  OBVIOUS
<1> USE DEF IInv
<1>1. ASSUME UNCHANGED <<reg_in, modules, registering, monitors>> PROVE RegistryType'
  BY <1>1 DEF RegistryType
<1>2. ASSUME NEW m \in Modules, AskToJoin(m) PROVE RegistryType'
  BY <1>2 DEF AskToJoin, registryVars, RegistryType
<1>3. ASSUME RegisterModule PROVE RegistryType'
  BY <1>3 DEF RegisterModule, GetOrCreate, RegistryType
<1>4. ASSUME NEW m \in Modules, RegisterMonitor(m) PROVE RegistryType'
  BY <1>4 DEF RegisterMonitor, MonitorFrom, RegistryType
<1>5. ASSUME NEW m \in Modules, Heartbeat(m) PROVE RegistryType'
  BY <1>5 DEF Heartbeat, RenewTo, joinVars, RegistryType
<1>6. ASSUME Tick PROVE RegistryType'
  BY <1>6 DEF Tick, TickAll, joinVars, RegistryType
<1>7. ASSUME NEW m \in Modules, Unregister(m) PROVE RegistryType'
  BY <1>7 DEF Unregister, joinVars, RegistryType
<1> QED
  BY <1>1, <1>2, <1>3, <1>4, <1>5, <1>6, <1>7 DEF Next, Registration, Egress, Monitor,
     Environment, Sender, SendReplies, Stop, Lookup, GetOrCreate, Put, FindFull, Discard,
     TouchAfterPut, Touch, EgressSnapshot, EgressFrom, EgressGet, EgressPop, EgressTouch,
     EgressNext, EgressSkip, ReadClock, SeeActive, SweepSnapshot, KeepQueue, FindIdle,
     EraseIdle, Erase, SweepDone, vars, joinVars, registryVars, queueVars, senderVars,
     egressVars, monitorVars

\* The egress worker registers one module after the other.
LEMMA OneAtATimeStep == IInv /\ [Next]_vars => OneAtATime'
<1> SUFFICES ASSUME IInv, [Next]_vars PROVE OneAtATime'
  OBVIOUS
<1> USE DEF IInv
<1>1. ASSUME UNCHANGED <<registering, mat, expired>> PROVE OneAtATime'
  BY <1>1 DEF OneAtATime, RegistryType
<1>2. ASSUME RegisterModule PROVE OneAtATime'
  BY <1>2 DEF RegisterModule, GetOrCreate, monitorVars, OneAtATime, RegistryType
<1>3. ASSUME NEW m \in Modules, RegisterMonitor(m) PROVE OneAtATime'
  BY <1>3 DEF RegisterMonitor, MonitorFrom, monitorVars, OneAtATime, RegistryType
<1>4. ASSUME Tick PROVE OneAtATime'
  BY <1>4 DEF Tick, TickAll, OneAtATime, RegistryType
<1>5. ASSUME NEW m \in Modules, Unregister(m) PROVE OneAtATime'
  BY <1>5 DEF Unregister, OneAtATime, RegistryType
<1>6. ASSUME NEW aged \in SUBSET Topics, ReadClock(aged) PROVE OneAtATime'
  BY <1>6 DEF ReadClock, registryVars, OneAtATime, RegistryType
<1>7. ASSUME SeeActive PROVE OneAtATime'
  BY <1>7 DEF SeeActive, registryVars, OneAtATime, RegistryType
<1>8. ASSUME SweepSnapshot PROVE OneAtATime'
  BY <1>8 DEF SweepSnapshot, registryVars, OneAtATime, RegistryType
<1>9. ASSUME FindIdle PROVE OneAtATime'
  BY <1>9 DEF FindIdle, registryVars, OneAtATime, RegistryType
<1>10. ASSUME EraseIdle PROVE OneAtATime'
  BY <1>10 DEF EraseIdle, Erase, registryVars, OneAtATime, RegistryType
<1>11. ASSUME SweepDone PROVE OneAtATime'
  BY <1>11 DEF SweepDone, registryVars, OneAtATime, RegistryType
<1> QED
  BY <1>1, <1>2, <1>3, <1>4, <1>5, <1>6, <1>7, <1>8, <1>9, <1>10, <1>11 DEF Next, Registration,
     Egress, Monitor, Environment, Sender, AskToJoin, SendReplies, Heartbeat, RenewTo, Stop,
     Lookup, GetOrCreate, Put, FindFull, Discard, TouchAfterPut, Touch, EgressSnapshot,
     EgressFrom, EgressGet, EgressPop, EgressTouch, EgressNext, EgressSkip, KeepQueue, vars,
     joinVars, registryVars, queueVars, senderVars, egressVars, monitorVars

\* A module is always in the hands of somebody who will remove it in the end.
LEMMA MonitoredStep == IInv /\ [Next]_vars => EveryModuleMonitored'
<1> SUFFICES ASSUME IInv, [Next]_vars PROVE EveryModuleMonitored'
  OBVIOUS
<1> USE DEF IInv
<1>1. ASSUME UNCHANGED <<modules, monitors, registering, expired>> PROVE
   EveryModuleMonitored'
  BY <1>1 DEF EveryModuleMonitored, OneAtATime, RegistryType
<1>2. ASSUME RegisterModule PROVE EveryModuleMonitored'
  BY <1>2 DEF RegisterModule, GetOrCreate, monitorVars, EveryModuleMonitored, OneAtATime,
     RegistryType
<1>3. ASSUME NEW m \in Modules, RegisterMonitor(m) PROVE EveryModuleMonitored'
  BY <1>3 DEF RegisterMonitor, MonitorFrom, monitorVars, EveryModuleMonitored, OneAtATime,
     RegistryType
<1>4. ASSUME NEW m \in Modules, Heartbeat(m) PROVE EveryModuleMonitored'
  BY <1>4 DEF Heartbeat, RenewTo, monitorVars, EveryModuleMonitored, OneAtATime,
     RegistryType
<1>5. ASSUME Tick PROVE EveryModuleMonitored'
  BY <1>5 DEF Tick, TickAll, EveryModuleMonitored, OneAtATime, RegistryType
<1>6. ASSUME NEW m \in Modules, Unregister(m) PROVE EveryModuleMonitored'
  BY <1>6 DEF Unregister, EveryModuleMonitored, OneAtATime, RegistryType
<1> QED
  BY <1>1, <1>2, <1>3, <1>4, <1>5, <1>6 DEF Next, Registration, Egress, Monitor, Environment,
     Sender, AskToJoin, SendReplies, Stop, Lookup, GetOrCreate, Put, FindFull, Discard,
     TouchAfterPut, Touch, EgressSnapshot, EgressFrom, EgressGet, EgressPop, EgressTouch,
     EgressNext, EgressSkip, ReadClock, SeeActive, SweepSnapshot, KeepQueue, FindIdle,
     EraseIdle, Erase, SweepDone, vars, joinVars, registryVars, queueVars, senderVars,
     egressVars, monitorVars

\* Stamps come with a queue or with a touch, and go with the queue.
LEMMA StampStep == IInv /\ [Next]_vars => StampType' /\ StampInv'
<1> SUFFICES ASSUME IInv, [Next]_vars PROVE StampType' /\ StampInv'
  OBVIOUS
<1> USE DEF IInv
<1>1. ASSUME UNCHANGED <<queues, created, stamps>> PROVE StampType' /\ StampInv'
  BY <1>1 DEF StampType, StampInv
<1>2. ASSUME RegisterModule PROVE StampType' /\ StampInv'
  <2>1. PICK ts \in SUBSET Topics : GetOrCreate(ts)
    BY <1>2 DEF RegisterModule
  <2> QED
    BY <2>1, Creates
<1>3. ASSUME NEW s \in Senders, NEW e \in Events, Lookup(s, e) PROVE (StampType /\
   StampInv)'
  BY <1>3, Creates DEF Lookup
<1>4. ASSUME NEW s \in Senders, TouchAfterPut(s) PROVE StampType' /\ StampInv'
  BY <1>4, Touches DEF TouchAfterPut
<1>5. ASSUME EgressTouch PROVE StampType' /\ StampInv'
  BY <1>5, Touches DEF EgressTouch
<1>6. ASSUME EgressNext PROVE StampType' /\ StampInv'
  BY <1>6 DEF EgressNext, EgressSkip, StampType, StampInv
<1>7. ASSUME NEW aged \in SUBSET Topics, ReadClock(aged) PROVE StampType' /\ StampInv'
  <2>1. ASSUME NEW t \in aged
        PROVE  /\ stamps[t] \in Seq(Stamps) /\ stamps[t] # <<>>
               /\ <<"old">> \o Tail(stamps[t]) \in Seq(Stamps)
               /\ Len(<<"old">> \o Tail(stamps[t])) = Len(stamps[t])
    <3>1. stamps[t] \in Seq(Stamps) /\ stamps[t] # <<>>
      BY <1>7, <2>1 DEF ReadClock, LastAccess, StampType
    <3> QED
      BY <3>1, Restamp DEF Stamps
  <2>2. /\ stamps' = [t \in Topics |-> IF t \in aged THEN <<"old">> \o Tail(stamps[t])
                                       ELSE stamps[t]]
        /\ UNCHANGED <<queues, created>>
    BY <1>7 DEF ReadClock
  <2>3. StampType'
    BY <2>1, <2>2 DEF StampType
  <2>4. \A t \in Topics : Len(stamps'[t]) = Len(stamps[t])
    BY <2>1, <2>2
  <2>5. StampInv'
    BY <2>2, <2>4 DEF StampInv
  <2> QED
    BY <2>3, <2>5
<1>8. ASSUME EraseIdle PROVE StampType' /\ StampInv'
  <2>1. PICK t \in sweep :
             /\ queues' = [queues EXCEPT ![t] = NoQueue] /\ created' = created
             /\ stamps' = [stamps EXCEPT ![t] = <<>>]
    BY <1>8 DEF EraseIdle, Erase
  <2>2. StampType'
    <3>1. stamps' \in [Topics -> Seq(Stamps)]
      BY <2>1, EmptySeq DEF StampType
    <3>2. queues' \in [Topics -> Nat \cup {NoQueue}] /\ created' \in Nat
      BY <2>1 DEF StampType
    <3> QED
      BY <3>1, <3>2 DEF StampType
  <2>3. StampInv'
    BY <2>1 DEF StampInv, StampType
  <2> QED
    BY <2>2, <2>3
<1> QED
  BY <1>1, <1>2, <1>3, <1>4, <1>5, <1>6, <1>7, <1>8 DEF Next, Registration, Egress, Monitor,
     Environment, Sender, AskToJoin, RegisterMonitor, MonitorFrom, SendReplies, Heartbeat,
     RenewTo, Stop, Put, FindFull, Discard, EgressSnapshot, EgressFrom, EgressGet, EgressPop,
     Tick, TickAll, Unregister, SeeActive, SweepSnapshot, KeepQueue, FindIdle, SweepDone, vars,
     joinVars, registryVars, queueVars, senderVars, egressVars, monitorVars

\* The inductive invariant holds in every state of every behaviour.
LEMMA IInvAlways == Spec => []IInv
<1>1. IInv /\ [Next]_vars => IInv'
  BY RegistryStep, OneAtATimeStep, MonitoredStep, StampStep DEF IInv
<1> QED
  BY InitHolds, <1>1, PTL DEF Spec

-----------------------------------------------------------------------------
(* Where the events are                                                    *)

\* The numbers of the queues are the ones given out so far, and no more were given
\* out than there were events and interfaces of modules that registered.
QueueNumbers == \A t \in Topics : queues[t] # NoQueue => queues[t] \in 1..created

CreatedBound ==
  created + Len(reg_in) * Cardinality(Topics)
    <= Cardinality(sent) + Cardinality(asked) * Cardinality(Topics)

\* A sender works on an event of its own, with a queue.
InHand ==
  \A s \in Senders : hand[s].at # "idle" =>
     hand[s].event \in sent /\ SenderOf[hand[s].event] = s /\ hand[s].queue \in Queues

\* The sender has the event in hand that it is about to push.
Pushing(s) == hand[s].at \in {"put", "full"}

\* An event that was given to the engine is somewhere ...
Accounted ==
  \A e \in sent :
     \/ \E s \in Senders : Pushing(s) /\ hand[s].event = e
     \/ \E q \in Queues : \E i \in DOMAIN contents[q] : contents[q][i] = e
     \/ e \in taken \/ e \in dropped

\* ... it is not in two slots ...
Distinct ==
  \A q \in Queues : \A i \in DOMAIN contents[q] :
    \A r \in Queues : \A j \in DOMAIN contents[r] :
      contents[q][i] = contents[r][j] => q = r /\ i = j

\* ... one in hand is not anywhere else, and one dropped is in no queue ...
Apart ==
  /\ taken \subseteq sent /\ dropped \subseteq sent
  /\ \A s \in Senders : Pushing(s) => hand[s].event \notin taken \cup dropped
  /\ \A q \in Queues : \A i \in DOMAIN contents[q] :
       /\ contents[q][i] \in sent \ dropped
       /\ \A s \in Senders : Pushing(s) => hand[s].event # contents[q][i]

\* ... and, as long as no pop has lost its item to a sender, one that was taken is
\* neither in a queue nor among the dropped.
TakenOnce ==
  raced = {} => /\ taken \cap dropped = {}
                /\ \A q \in Queues : \A i \in DOMAIN contents[q] : contents[q][i] \notin taken

\* An event is in one place only.
Once == Distinct /\ Apart /\ TakenOnce

\* The event that the egress worker's pop has seen is the oldest of the queue it works
\* on, unless a sender has discarded it.
PopInv ==
  /\ popped \in Events \cup {NoEvent} /\ raced \subseteq Queues
  /\ eat = "pop" => /\ popped \in sent
                    /\ \A s \in Senders : Pushing(s) => hand[s].event # popped
  /\ eat = "pop" /\ raced = {} =>
       \E t \in DOMAIN todo : /\ First(t, DOMAIN todo) /\ contents[todo[t]] # <<>>
                             /\ Head(contents[todo[t]]) = popped

\* The types that IInv does not give.
JoinType ==
  /\ running \subseteq Modules /\ asked \subseteq Modules /\ joined \subseteq Modules
  /\ reg_out \in Seq(Modules)

SenderType ==
  /\ sent \subseteq Events
  /\ hand \in [Senders -> [at : {"idle", "put", "full", "touch"}, event : Events \cup {NoEvent},
                           queue : Queues \cup {NoQueue}]]

ContentsType ==
  contents \in [Queues -> Seq(Events)] /\ \A q \in Queues : Len(contents[q]) <= Depth

WorkerType ==
  /\ eat \in {"get", "pop", "touch"}
  /\ DOMAIN todo \subseteq Topics /\ todo \in [DOMAIN todo -> Queues]
  /\ mat \in {"tick", "expire", "active", "snapshot", "sweep", "erase"}
  /\ expired \subseteq Modules /\ active \subseteq Topics /\ sweep \subseteq Topics
  /\ held \in [{"egress", "monitor"} -> SUBSET Queues]

EInv ==
  /\ IInv /\ JoinType /\ SenderType /\ ContentsType /\ WorkerType
  /\ QueueNumbers /\ CreatedBound /\ InHand /\ Accounted /\ Once
  /\ PopInv

\* The arithmetic of CreatedBound: products grow with their first factor.
LEMMA TimesMonotone ==
  ASSUME NEW a \in Nat, NEW b \in Nat, NEW n \in Nat, a <= b
  PROVE  a * n \in Nat /\ b * n \in Nat /\ a * n <= b * n
<1>1. (b - a) \in Nat /\ (b - a) * n \in Nat
  OBVIOUS
<1>2. b * n = a * n + (b - a) * n
  OBVIOUS
<1> QED
  BY <1>1, <1>2

\* One more of something costs n more.
LEMMA TimesOneMore ==
  ASSUME NEW a \in Nat, NEW n \in Nat
  PROVE  a * n \in Nat /\ (a + 1) * n = a * n + n
OBVIOUS

\* k more numbers, out of the n that were set aside for them.
LEMMA StaysBelow ==
  ASSUME NEW c \in Nat, NEW c2 \in Nat, NEW k \in Nat, NEW p \in Nat, NEW b \in Nat,
         NEW n \in Nat, c2 <= c + k, k <= n, c + (p + n) <= b
  PROVE  c2 + p <= b
OBVIOUS

\* How many of each there are.
LEMMA Counts ==
  /\ Cardinality(Topics) \in Nat /\ Cardinality(Events) \in Nat /\ Cardinality(Modules) \in Nat
  /\ Queues = 1..(Cardinality(Events) + Cardinality(Modules) * Cardinality(Topics))
  /\ Cardinality(Modules) * Cardinality(Topics) \in Nat
  /\ Cardinality(Queues) = Cardinality(Events) + Cardinality(Modules) * Cardinality(Topics)
<1>1. Cardinality(Topics) \in Nat /\ Cardinality(Events) \in Nat /\ Cardinality(Modules) \in Nat
  BY TopicsFinite, FS_CardinalityType
<1>2. Cardinality(Modules) * Cardinality(Topics) \in Nat
  BY <1>1, TimesMonotone
<1> DEFINE k == Cardinality(Events) + Cardinality(Modules) * Cardinality(Topics)
<1>3. k \in Nat
  BY <1>1, <1>2
<1>4. Queues = 1..k
  BY DEF Queues
<1> HIDE DEF k
<1>5. Cardinality(1..k) = IF 1 > k THEN 0 ELSE k - 1 + 1
  BY <1>3, FS_Interval
<1>6. Cardinality(1..k) = k
  BY <1>3, <1>5
<1> QED
  BY <1>1, <1>2, <1>4, <1>6 DEF k

\* There are enough queues to give out.
LEMMA EnoughQueues ==
  ASSUME NEW c \in Nat, NEW reg \in Seq(Modules), NEW ask \in SUBSET Modules,
         NEW sen \in SUBSET Events,
         c + Len(reg) * Cardinality(Topics)
           <= Cardinality(sen) + Cardinality(ask) * Cardinality(Topics)
  PROVE  c \in 0..Cardinality(Queues) /\ \A n \in 1..c : n \in Queues
<1> DEFINE nt == Cardinality(Topics)
           ns == Cardinality(sen)
           na == Cardinality(ask)
           nr == Len(reg)
<1>1. ns \in Nat /\ ns <= Cardinality(Events) /\ na \in Nat /\ na <= Cardinality(Modules)
  BY FS_Subset, FS_CardinalityType
<1>2. nt \in Nat /\ nr \in Nat
  BY Counts, LenProperties
<1>3. c + nr * nt <= ns + na * nt
  OBVIOUS
<1> HIDE DEF nt, ns, na, nr
<1> DEFINE nm == Cardinality(Modules)
           ne == Cardinality(Events)
           nq == Cardinality(Queues)
<1>4. nm \in Nat /\ ne \in Nat /\ ns <= ne /\ na <= nm /\ nq = ne + nm * nt
  BY <1>1, Counts DEF nt
<1> HIDE DEF nm, ne, nq
<1> DEFINE p == nr * nt
           q == na * nt
           r == nm * nt
<1>5. p \in Nat
  BY <1>2, TimesOneMore
<1>6. q \in Nat /\ r \in Nat /\ q <= r
  BY <1>1, <1>2, <1>4, TimesMonotone
<1>7. c + p <= ns + q /\ nq = ne + r
  BY <1>3, <1>4
<1> HIDE DEF p, q, r
<1>8. c <= nq /\ nq \in Nat
  BY <1>1, <1>4, <1>5, <1>6, <1>7
<1>9. Queues = 1..nq /\ nq = Cardinality(Queues)
  BY Counts DEF nq
<1> QED
  BY <1>8, <1>9

\* get_or_create gives out as many numbers as there are topics without a queue, and
\* every topic that was asked for has a queue.
LEMMA Numbers ==
  ASSUME IInv, QueueNumbers, NEW ts \in SUBSET Topics, GetOrCreate(ts)
  PROVE  /\ QueueNumbers'
         /\ created' \in Nat /\ created' <= created + Cardinality(ts)
         /\ \A t \in ts : queues'[t] \in 1..created'
<1> DEFINE new == {t \in ts : queues[t] = NoQueue}
           upto(t) == {u \in new : \E i, j \in DOMAIN TopicSeq :
                         i <= j /\ TopicSeq[i] = u /\ TopicSeq[j] = t}
<1>1. /\ IsFiniteSet(ts) /\ Cardinality(ts) \in Nat
      /\ IsFiniteSet(new) /\ Cardinality(new) \in Nat
      /\ Cardinality(new) <= Cardinality(ts)
  <2>1. IsFiniteSet(ts) /\ Cardinality(ts) \in Nat
    BY TopicsFinite, FS_Subset, FS_CardinalityType
  <2>2. new \in SUBSET ts
    OBVIOUS
  <2> HIDE DEF new
  <2> QED
    BY <2>1, <2>2, FS_Subset, FS_CardinalityType
<1>2. ASSUME NEW t \in new
      PROVE  Cardinality(upto(t)) \in 1..Cardinality(new)
  <2>1. PICK i \in DOMAIN TopicSeq : TopicSeq[i] = t
    BY <1>2 DEF Topics
  <2>2. i <= i
    <3>1. DOMAIN TopicSeq = 1..Len(TopicSeq)
      BY LenProperties
    <3> QED
      BY <3>1
  <2>3. t \in upto(t)
    BY <2>1, <2>2
  <2>4. upto(t) \in SUBSET new
    OBVIOUS
  <2> HIDE DEF upto, new
  <2>5. IsFiniteSet(upto(t)) /\ Cardinality(upto(t)) \in Nat
    BY <1>1, <2>4, FS_Subset, FS_CardinalityType
  <2>6. Cardinality(upto(t)) <= Cardinality(new)
    BY <1>1, <2>4, FS_Subset
  <2>7. Cardinality(upto(t)) # 0
    BY <2>3, <2>5, FS_EmptySet
  <2> QED
    BY <1>1, <2>5, <2>6, <2>7
<1>3. /\ queues' = [t \in Topics |-> IF t \in new THEN created + Cardinality(upto(t))
                                     ELSE queues[t]]
      /\ created' = created + Cardinality(new)
  BY DEF GetOrCreate
<1>4. created \in Nat
  BY DEF IInv, StampType
<1>5. \A t \in ts : t \notin new => queues[t] # NoQueue
  OBVIOUS
<1> HIDE DEF new, upto
<1>6. ASSUME NEW t \in Topics, queues'[t] # NoQueue
      PROVE  queues'[t] \in 1..created'
  <2>1. CASE t \in new
    <3>1. queues'[t] = created + Cardinality(upto(t))
      BY <1>3, <2>1
    <3> QED
      BY <1>1, <1>2, <1>3, <1>4, <2>1, <3>1
  <2>2. CASE t \notin new
    <3>1. queues'[t] = queues[t] /\ queues[t] \in 1..created
      BY <1>3, <1>6, <2>2 DEF QueueNumbers
    <3> QED
      BY <1>1, <1>3, <1>4, <3>1
  <2> QED
    BY <2>1, <2>2
<1>7. ASSUME NEW t \in ts
      PROVE  queues'[t] # NoQueue
  <2>1. CASE t \in new
    <3>1. queues'[t] = created + Cardinality(upto(t)) /\ Cardinality(upto(t)) \in Nat
      BY <1>2, <1>3, <2>1
    <3>2. created + Cardinality(upto(t)) \in Nat
      BY <1>4, <3>1
    <3> QED
      BY <3>1, <3>2
  <2>2. CASE t \notin new
    BY <1>3, <1>5, <2>2
  <2> QED
    BY <2>1, <2>2
<1>8. created' \in Nat /\ created' <= created + Cardinality(ts)
  BY <1>1, <1>3, <1>4
<1>9. QueueNumbers'
  BY <1>6 DEF QueueNumbers
<1> QED
  BY <1>6, <1>7, <1>8, <1>9

\* The queues that are in the map exist.
LEMMA InMap ==
  ASSUME EInv
  PROVE  /\ created \in 0..Cardinality(Queues) /\ \A n \in 1..created : n \in Queues
         /\ \A t \in Topics : queues[t] # NoQueue => queues[t] \in Queues
<1>1. created \in Nat /\ reg_in \in Seq(Modules) /\ asked \in SUBSET Modules
      /\ sent \in SUBSET Events
  BY DEF EInv, IInv, StampType, RegistryType, JoinType, SenderType
<1>2. created \in 0..Cardinality(Queues) /\ \A n \in 1..created : n \in Queues
  BY <1>1, EnoughQueues DEF EInv, CreatedBound
<1> QED
  BY <1>2 DEF EInv, QueueNumbers

\* Numbers are given out to registering modules and to events, in step with the bound.
LEMMA NumbersStep == EInv /\ [Next]_vars => QueueNumbers' /\ CreatedBound'
<1> SUFFICES ASSUME EInv, [Next]_vars PROVE QueueNumbers' /\ CreatedBound'
  OBVIOUS
<1> DEFINE nt == Cardinality(Topics)
           ns == Cardinality(sent)
           na == Cardinality(asked)
           nr == Len(reg_in)
<1>1. /\ IInv /\ QueueNumbers /\ created \in Nat
      /\ asked \subseteq Modules /\ sent \subseteq Events /\ reg_in \in Seq(Modules)
      /\ queues \in [Topics -> Nat \cup {NoQueue}]
  BY DEF EInv, IInv, StampType, RegistryType, JoinType, SenderType
<1>2. IsFiniteSet(asked) /\ na \in Nat /\ IsFiniteSet(sent) /\ ns \in Nat
  BY <1>1, FS_Subset, FS_CardinalityType
<1>3. nt \in Nat /\ nr \in Nat
  BY <1>1, Counts, LenProperties
<1>4. created + nr * nt <= ns + na * nt
  BY DEF EInv, CreatedBound
<1>5. nr * nt \in Nat /\ na * nt \in Nat
  BY <1>2, <1>3, TimesOneMore
<1>6. ASSUME UNCHANGED <<queues, created, reg_in, asked, sent>>
      PROVE  QueueNumbers' /\ CreatedBound'
  BY <1>6 DEF EInv, QueueNumbers, CreatedBound
<1>7. ASSUME NEW m \in Modules, AskToJoin(m) PROVE QueueNumbers' /\ CreatedBound'
  <2>1. /\ m \notin asked /\ asked' = asked \cup {m} /\ reg_in' = Append(reg_in, m)
        /\ UNCHANGED <<queues, created, sent>>
    BY <1>7 DEF AskToJoin, queueVars, senderVars
  <2>2. Cardinality(asked') = na + 1
    BY <1>2, <2>1, FS_AddElement
  <2>3. Len(reg_in') = nr + 1
    BY <1>1, <2>1, AppendProperties
  <2> HIDE DEF nt, ns, na, nr
  <2>4. (na + 1) * nt = na * nt + nt /\ (nr + 1) * nt = nr * nt + nt
    BY <1>2, <1>3, TimesOneMore
  <2>5. created + (nr + 1) * nt <= ns + (na + 1) * nt
    <3> DEFINE p == nr * nt
               q == na * nt
    <3>1. p \in Nat /\ q \in Nat /\ created + p <= ns + q
      BY <1>4, <1>5
    <3> HIDE DEF p, q
    <3>2. created + (p + nt) <= ns + (q + nt)
      BY <1>1, <1>2, <1>3, <3>1
    <3> QED
      BY <2>4, <3>2 DEF p, q
  <2>6. CreatedBound'
    BY <2>1, <2>2, <2>3, <2>5 DEF CreatedBound, nt, ns
  <2> QED
    BY <1>1, <2>1, <2>6 DEF QueueNumbers
<1>8. ASSUME RegisterModule PROVE QueueNumbers' /\ CreatedBound'
  <2>1. PICK ts \in SUBSET Topics : GetOrCreate(ts)
    BY <1>8 DEF RegisterModule
  <2>2. reg_in # <<>> /\ reg_in' = Tail(reg_in) /\ UNCHANGED <<asked, sent>>
    BY <1>8 DEF RegisterModule, senderVars
  <2>3. QueueNumbers' /\ created' \in Nat /\ created' <= created + Cardinality(ts)
    BY <1>1, <2>1, Numbers
  <2>4. Cardinality(ts) \in Nat /\ Cardinality(ts) <= nt
    BY TopicsFinite, FS_Subset, FS_CardinalityType
  <2>5. Len(reg_in') \in Nat /\ nr = Len(reg_in') + 1
    BY <1>1, <2>2, HeadTailProperties, EmptySeq
  <2> DEFINE nr2 == Len(reg_in')
             nts == Cardinality(ts)
  <2> HIDE DEF nt, ns, na, nr, nr2, nts
  <2>6. nr2 \in Nat /\ nr2 * nt \in Nat /\ nr * nt = nr2 * nt + nt
    BY <1>3, <2>5, TimesOneMore DEF nr2
  <2>7. created' + nr2 * nt <= ns + na * nt
    <3> DEFINE p == nr2 * nt
               q == na * nt
    <3>1. p \in Nat /\ q \in Nat /\ created + (p + nt) <= ns + q
      BY <1>4, <1>5, <2>6
    <3>2. nts \in Nat /\ nts <= nt /\ created' \in Nat /\ created' <= created + nts
      BY <2>3, <2>4 DEF nts, nt
    <3> HIDE DEF p, q
    <3>3. created \in Nat /\ ns \in Nat /\ nt \in Nat
      BY <1>1, <1>2, <1>3
    <3>4. ns + q \in Nat
      BY <3>1, <3>3
    <3>5. created' + p <= ns + q
      BY <3>1, <3>2, <3>3, <3>4, StaysBelow
    <3> QED
      BY <3>5 DEF p, q
  <2> QED
    BY <2>2, <2>3, <2>7 DEF CreatedBound, nt, ns, na, nr2
<1>9. ASSUME NEW s \in Senders, NEW e \in Events, Lookup(s, e)
      PROVE  QueueNumbers' /\ CreatedBound'
  <2>1. /\ GetOrCreate({TopicOf[e]}) /\ {TopicOf[e]} \in SUBSET Topics
        /\ e \notin sent /\ sent' = sent \cup {e} /\ UNCHANGED <<reg_in, asked>>
    BY <1>9 DEF Lookup, joinVars
  <2>2. Cardinality({TopicOf[e]}) = 1
    BY FS_Singleton
  <2>3. QueueNumbers' /\ created' \in Nat /\ created' <= created + 1
    BY <1>1, <2>1, <2>2, Numbers
  <2>4. Cardinality(sent') = ns + 1
    BY <1>2, <2>1, FS_AddElement
  <2> HIDE DEF nt, ns, na, nr
  <2>5. created' + nr * nt <= (ns + 1) + na * nt
    <3> DEFINE p == nr * nt
               q == na * nt
    <3>1. p \in Nat /\ q \in Nat /\ created + p <= ns + q
      BY <1>4, <1>5
    <3> HIDE DEF p, q
    <3>2. created \in Nat /\ ns \in Nat /\ created' \in Nat /\ created' <= created + 1
      BY <1>1, <1>2, <2>3
    <3>3. (ns + 1) + q \in Nat /\ created + (p + 1) <= (ns + 1) + q /\ 1 \in Nat /\ 1 <= 1
      BY <3>1, <3>2
    <3>4. created' + p <= (ns + 1) + q
      BY <3>1, <3>2, <3>3, StaysBelow
    <3> QED
      BY <3>4 DEF p, q
  <2> QED
    BY <2>1, <2>3, <2>4, <2>5 DEF CreatedBound, nt, na, nr
<1>10. ASSUME EraseIdle PROVE QueueNumbers' /\ CreatedBound'
  <2>1. PICK t \in sweep : queues' = [queues EXCEPT ![t] = NoQueue]
    BY <1>10 DEF EraseIdle, Erase
  <2>2. UNCHANGED <<created, reg_in, asked, sent>>
    BY <1>10 DEF EraseIdle, joinVars, senderVars
  <2>3. QueueNumbers'
    BY <1>1, <2>1, <2>2 DEF QueueNumbers
  <2> QED
    BY <2>2, <2>3 DEF EInv, CreatedBound
<1> HIDE DEF nt, ns, na, nr
<1> QED
  BY <1>6, <1>7, <1>8, <1>9, <1>10 DEF Next, Registration, Egress, Monitor, Environment, Sender,
     RegisterMonitor, MonitorFrom, SendReplies, Heartbeat, RenewTo, Stop, Put, FindFull,
     Discard, TouchAfterPut, Touch, EgressSnapshot, EgressFrom, EgressGet, EgressPop,
     EgressTouch, EgressNext, EgressSkip, Tick, TickAll, Unregister, ReadClock, SeeActive,
     SweepSnapshot, KeepQueue, FindIdle, SweepDone, vars, joinVars, registryVars, queueVars,
     senderVars, egressVars, monitorVars

\* Modules ask, are answered and stop.
LEMMA JoinStep == EInv /\ [Next]_vars => JoinType'
<1> SUFFICES ASSUME EInv, [Next]_vars PROVE JoinType'
  OBVIOUS
<1>1. /\ running \subseteq Modules /\ asked \subseteq Modules /\ joined \subseteq Modules
      /\ reg_out \in Seq(Modules)
  BY DEF EInv, JoinType
<1>2. ASSUME UNCHANGED <<running, asked, joined, reg_out>> PROVE JoinType'
  BY <1>1, <1>2 DEF JoinType
<1>3. ASSUME NEW m \in Modules, AskToJoin(m) PROVE JoinType'
  BY <1>1, <1>3 DEF AskToJoin, JoinType
<1>4. ASSUME NEW m \in Modules, RegisterMonitor(m) PROVE JoinType'
  BY <1>1, <1>4 DEF RegisterMonitor, MonitorFrom, JoinType
<1>5. ASSUME SendReplies PROVE JoinType'
  <2>1. {reg_out[i] : i \in DOMAIN reg_out} \subseteq Modules
    BY <1>1
  <2>2. <<>> \in Seq(Modules)
    BY EmptySeq
  <2> QED
    BY <1>1, <1>5, <2>1, <2>2 DEF SendReplies, JoinType
<1>6. ASSUME NEW m \in Modules, Stop(m) PROVE JoinType'
  BY <1>1, <1>6 DEF Stop, JoinType
<1> QED
  BY <1>2, <1>3, <1>4, <1>5, <1>6 DEF Next, Registration, Egress, Monitor, Environment, Sender,
     RegisterModule, GetOrCreate, Heartbeat, RenewTo, Lookup, Put, FindFull, Discard,
     TouchAfterPut, Touch, EgressSnapshot, EgressFrom, EgressGet, EgressPop, EgressTouch,
     EgressNext, EgressSkip, Tick, TickAll, Unregister, ReadClock, SeeActive, SweepSnapshot,
     KeepQueue, FindIdle, EraseIdle, Erase, SweepDone, vars, joinVars, registryVars, queueVars,
     senderVars, egressVars, monitorVars

\* A sender has an event in hand from the lookup of its queue to the touch.
LEMMA SenderStep == EInv /\ IInv' /\ [Next]_vars => SenderType' /\ InHand'
<1> SUFFICES ASSUME EInv, IInv', [Next]_vars PROVE SenderType' /\ InHand'
  OBVIOUS
<1> DEFINE Hands == [at : {"idle", "put", "full", "touch"}, event : Events \cup {NoEvent},
                     queue : Queues \cup {NoQueue}]
<1>1. sent \subseteq Events /\ hand \in [Senders -> Hands]
  BY DEF EInv, SenderType
<1>2. InHand
  BY DEF EInv
<1>3. ASSUME UNCHANGED <<sent, hand>> PROVE SenderType' /\ InHand'
  BY <1>3 DEF EInv, SenderType, InHand
<1>4. ASSUME NEW s \in Senders, NEW e \in Events, Lookup(s, e) PROVE SenderType' /\ InHand'
  <2> DEFINE q == queues'[TopicOf[e]]
             h == [at |-> "put", event |-> e, queue |-> q]
  <2>1. /\ SenderOf[e] = s /\ sent' = sent \cup {e} /\ GetOrCreate({TopicOf[e]})
        /\ {TopicOf[e]} \in SUBSET Topics /\ hand' = [hand EXCEPT ![s] = h]
    BY <1>4 DEF Lookup
  <2>2. q \in 1..created'
    BY <2>1, Numbers DEF EInv
  <2>3. q \in Queues
    <3>1. /\ created' \in Nat /\ reg_in' \in Seq(Modules) /\ asked' \in SUBSET Modules
          /\ sent' \in SUBSET Events
      BY <1>1, <2>1, JoinStep DEF IInv, StampType, RegistryType, JoinType
    <3>2. CreatedBound'
      BY NumbersStep
    <3>3. \A n \in 1..created' : n \in Queues
      BY <3>1, <3>2, EnoughQueues DEF CreatedBound
    <3> QED
      BY <2>2, <3>3
  <2> HIDE DEF q
  <2>4. h \in Hands
    BY <2>3
  <2>5. SenderType'
    BY <1>1, <2>1, <2>4 DEF SenderType
  <2>6. ASSUME NEW u \in Senders, hand'[u].at # "idle"
        PROVE  hand'[u].event \in sent' /\ SenderOf[hand'[u].event] = u /\ hand'[u].queue \in Queues
    <3>1. CASE u = s
      BY <1>1, <2>1, <2>3, <3>1
    <3>2. CASE u # s
      <4>1. hand'[u] = hand[u]
        BY <1>1, <2>1, <3>2
      <4> QED
        BY <1>2, <2>1, <2>6, <4>1 DEF InHand
    <3> QED
      BY <3>1, <3>2
  <2> QED
    BY <2>5, <2>6 DEF InHand
<1>5. ASSUME NEW s \in Senders, Put(s) \/ FindFull(s) \/ Discard(s)
      PROVE  SenderType' /\ InHand'
  <2>1. /\ hand[s].at \in {"put", "full"} /\ sent' = sent
        /\ \E a \in {"put", "full", "touch"} : hand' = [hand EXCEPT ![s].at = a]
    BY <1>5 DEF Put, FindFull, Discard
  <2>2. SenderType'
    <3>1. PICK a \in {"put", "full", "touch"} : hand' = [hand EXCEPT ![s].at = a]
      BY <2>1
    <3>2. hand[s] \in Hands
      BY <1>1
    <3>3. [hand[s] EXCEPT !.at = a] \in Hands
      BY <3>2
    <3>4. hand' = [hand EXCEPT ![s] = [hand[s] EXCEPT !.at = a]]
      BY <3>1
    <3> HIDE DEF Hands
    <3>5. hand' \in [Senders -> Hands]
      BY <1>1, <3>3, <3>4
    <3> QED
      BY <1>1, <2>1, <3>5 DEF SenderType, Hands
  <2>3. ASSUME NEW u \in Senders, hand'[u].at # "idle"
        PROVE  hand'[u].event \in sent' /\ SenderOf[hand'[u].event] = u /\ hand'[u].queue \in Queues
    <3>1. /\ hand[u].at # "idle" /\ hand'[u].event = hand[u].event
          /\ hand'[u].queue = hand[u].queue
      BY <1>1, <2>1, <2>3
    <3> QED
      BY <1>2, <2>1, <3>1 DEF InHand
  <2> QED
    BY <2>2, <2>3 DEF InHand
<1>6. ASSUME NEW s \in Senders, TouchAfterPut(s) PROVE SenderType' /\ InHand'
  <2>1. hand' = [hand EXCEPT ![s] = Idle] /\ sent' = sent
    BY <1>6 DEF TouchAfterPut, Touch
  <2>2. Idle \in Hands
    BY DEF Idle
  <2>3. SenderType'
    BY <1>1, <2>1, <2>2 DEF SenderType
  <2>4. ASSUME NEW u \in Senders, hand'[u].at # "idle"
        PROVE  hand'[u] = hand[u]
    BY <1>1, <2>1, <2>4 DEF Idle
  <2> QED
    BY <1>2, <2>1, <2>3, <2>4 DEF InHand
<1> HIDE DEF Hands
<1> QED
  BY <1>3, <1>4, <1>5, <1>6 DEF Next, Registration, Egress, Monitor, Environment,
     Sender, AskToJoin, RegisterModule, RegisterMonitor, MonitorFrom, SendReplies, Heartbeat,
     RenewTo, Stop, EgressSnapshot, EgressFrom, EgressGet, EgressPop, EgressTouch,
     EgressNext, EgressSkip, Tick, TickAll, Unregister, ReadClock, SeeActive, SweepSnapshot,
     KeepQueue, FindIdle, EraseIdle, SweepDone, vars, joinVars, registryVars, queueVars,
     senderVars, egressVars, monitorVars

\* The egress worker and the monitor go through queues that exist.
LEMMA WorkerStep == EInv /\ [Next]_vars => WorkerType'
<1> SUFFICES ASSUME EInv, [Next]_vars PROVE WorkerType'
  OBVIOUS
<1>1. WorkerType
  BY DEF EInv
<1>2. ASSUME UNCHANGED <<eat, todo, mat, expired, active, sweep, held>> PROVE WorkerType'
  BY <1>1, <1>2 DEF WorkerType
<1>3. /\ \A t \in Snapshot : queues[t] \in Queues
      /\ Snapshot \subseteq Topics
      /\ {queues[t] : t \in Topics} \ {NoQueue} \subseteq Queues
  BY InMap DEF Snapshot
<1>4. ASSUME EgressSnapshot PROVE WorkerType'
  <2>1. /\ todo' = [t \in Snapshot |-> queues[t]]
        /\ held' = [held EXCEPT !["egress"] = {queues[t] : t \in Snapshot}]
        /\ UNCHANGED <<eat, mat, expired, active, sweep>>
    BY <1>4 DEF EgressSnapshot, EgressFrom, monitorVars
  <2>2. {queues[t] : t \in Snapshot} \in SUBSET Queues
    BY <1>3
  <2>3. held' \in [{"egress", "monitor"} -> SUBSET Queues]
    BY <1>1, <2>1, <2>2 DEF WorkerType
  <2>4. DOMAIN todo' = Snapshot /\ todo' \in [Snapshot -> Queues]
    BY <1>3, <2>1
  <2> QED
    BY <1>1, <1>3, <2>1, <2>3, <2>4 DEF WorkerType
<1>5. ASSUME EgressGet PROVE WorkerType'
  BY <1>1, <1>5 DEF EgressGet, monitorVars, WorkerType
<1>17. ASSUME EgressPop PROVE WorkerType'
  BY <1>1, <1>17 DEF EgressPop, monitorVars, WorkerType
<1>6. ASSUME EgressTouch PROVE WorkerType'
  BY <1>1, <1>6 DEF EgressTouch, monitorVars, WorkerType
<1>7. ASSUME EgressNext PROVE WorkerType'
  <2>1. PICK t \in DOMAIN todo : todo' = [u \in DOMAIN todo \ {t} |-> todo[u]]
    BY <1>7 DEF EgressNext, EgressSkip
  <2>2. UNCHANGED <<eat, mat, expired, active, sweep, held>>
    BY <1>7 DEF EgressNext, EgressSkip, monitorVars
  <2>3. DOMAIN todo \subseteq Topics /\ todo \in [DOMAIN todo -> Queues]
    BY <1>1 DEF WorkerType
  <2>4. DOMAIN todo' \subseteq Topics /\ todo' \in [DOMAIN todo' -> Queues]
    BY <2>1, <2>3
  <2> QED
    BY <1>1, <2>2, <2>4 DEF WorkerType
<1>8. ASSUME Tick PROVE WorkerType'
  BY <1>1, <1>8 DEF Tick, TickAll, egressVars, WorkerType
<1>9. ASSUME NEW m \in Modules, Unregister(m) PROVE WorkerType'
  BY <1>1, <1>9 DEF Unregister, egressVars, WorkerType
<1>10. ASSUME NEW aged \in SUBSET Topics, ReadClock(aged) PROVE WorkerType'
  BY <1>1, <1>10 DEF ReadClock, egressVars, WorkerType
<1>11. ASSUME SeeActive PROVE WorkerType'
  BY <1>1, <1>11 DEF SeeActive, ActiveTopics, egressVars, WorkerType
<1>12. ASSUME SweepSnapshot PROVE WorkerType'
  <2>1. /\ sweep' = Snapshot /\ mat' = "sweep" /\ UNCHANGED <<eat, todo, expired, active>>
        /\ held' = [held EXCEPT !["monitor"] = {queues[t] : t \in Topics} \ {NoQueue}]
    BY <1>12 DEF SweepSnapshot, egressVars
  <2>2. held' \in [{"egress", "monitor"} -> SUBSET Queues]
    BY <1>1, <1>3, <2>1 DEF WorkerType
  <2> QED
    BY <1>1, <1>3, <2>1, <2>2 DEF WorkerType
<1>13. ASSUME KeepQueue PROVE WorkerType'
  BY <1>1, <1>13 DEF KeepQueue, egressVars, WorkerType
<1>14. ASSUME FindIdle PROVE WorkerType'
  BY <1>1, <1>14 DEF FindIdle, egressVars, WorkerType
<1>15. ASSUME EraseIdle PROVE WorkerType'
  BY <1>1, <1>15 DEF EraseIdle, Erase, egressVars, WorkerType
<1>16. ASSUME SweepDone PROVE WorkerType'
  BY <1>1, <1>16 DEF SweepDone, egressVars, WorkerType
<1> QED
  BY <1>2, <1>4, <1>5, <1>6, <1>7, <1>8, <1>9, <1>10, <1>11, <1>12, <1>13, <1>14, <1>15,
     <1>16, <1>17 DEF Next, Registration, Egress, Monitor, Environment, Sender, AskToJoin,
     RegisterModule, RegisterMonitor, MonitorFrom, SendReplies, Heartbeat, RenewTo, Stop,
     Lookup, Put, FindFull, Discard, TouchAfterPut, vars, egressVars, monitorVars

\* What is left of a queue when its first item is gone.
LEMMA Without ==
  ASSUME NEW c \in Seq(Events), c # <<>>
  PROVE  /\ Head(c) = c[1] /\ Tail(c) \in Seq(Events) /\ Len(c) \in Nat /\ 1 \in 1..Len(c)
         /\ Len(Tail(c)) = Len(c) - 1
         /\ \A i \in 1..(Len(c) - 1) : Tail(c)[i] = c[i + 1]
<1>1. Len(c) \in Nat /\ Len(c) # 0
  BY EmptySeq, LenProperties
<1>2. /\ Head(c) = c[1] /\ Tail(c) \in Seq(Events) /\ Len(Tail(c)) = Len(c) - 1
      /\ \A i \in 1..(Len(c) - 1) : Tail(c)[i] = c[i + 1]
  BY HeadTailProperties, <1>1
<1> QED
  BY <1>1, <1>2

\* A queue loses its first item: the others stay, and there is none like it among them.
LEMMA HeadGone ==
  ASSUME EInv, NEW q \in Queues, contents[q] # <<>>,
         contents' = [contents EXCEPT ![q] = Tail(contents[q])]
  PROVE  /\ ContentsType' /\ Distinct'
         /\ \E i \in DOMAIN contents[q] : contents[q][i] = Head(contents[q])
         /\ \A r \in Queues : \A i \in DOMAIN contents[r] :
              \/ contents[r][i] = Head(contents[q])
              \/ \E j \in DOMAIN contents'[r] : contents'[r][j] = contents[r][i]
         /\ \A r \in Queues : \A i \in DOMAIN contents'[r] :
              /\ contents'[r][i] # Head(contents[q])
              /\ \E j \in DOMAIN contents[r] : contents[r][j] = contents'[r][i]
<1> DEFINE c == contents[q]
           d == Tail(c)
<1>1. contents \in [Queues -> Seq(Events)] /\ \A r \in Queues : Len(contents[r]) <= Depth
  BY DEF EInv, ContentsType
<1>2. c \in Seq(Events) /\ c # <<>> /\ Len(c) <= Depth /\ contents' = [contents EXCEPT ![q] = d]
  BY <1>1
<1>3. Distinct
  BY DEF EInv, Once
<1>4. /\ Head(c) = c[1] /\ d \in Seq(Events) /\ Len(c) \in Nat /\ 1 \in 1..Len(c)
      /\ Len(d) = Len(c) - 1
      /\ \A i \in 1..(Len(c) - 1) : d[i] = c[i + 1]
  <2> HIDE DEF c
  <2> QED
    BY <1>2, Without
<1>5. DOMAIN c = 1..Len(c) /\ DOMAIN d = 1..(Len(c) - 1)
  <2> HIDE DEF c, d
  <2> QED
    BY <1>2, <1>4, LenProperties
<1>6. c = contents[q]
  OBVIOUS
<1> HIDE DEF c, d
<1>7. contents'[q] = d /\ \A r \in Queues : r # q => contents'[r] = contents[r]
  BY <1>1, <1>2
<1>8. ContentsType'
  <2>1. contents' \in [Queues -> Seq(Events)]
    BY <1>1, <1>2, <1>4
  <2>2. Len(d) <= Depth
    BY <1>2, <1>4
  <2> QED
    BY <1>1, <1>7, <2>1, <2>2 DEF ContentsType
<1>9. 1 \in DOMAIN c /\ \A i \in DOMAIN d : i + 1 \in DOMAIN c /\ d[i] = c[i + 1] /\ i + 1 # 1
  BY <1>4, <1>5
<1>10. \A i \in DOMAIN c : i # 1 => i - 1 \in DOMAIN d /\ d[i - 1] = c[i]
  <2> SUFFICES ASSUME NEW i \in DOMAIN c, i # 1 PROVE i - 1 \in DOMAIN d /\ d[i - 1] = c[i]
    OBVIOUS
  <2>1. i - 1 \in 1..(Len(c) - 1) /\ (i - 1) + 1 = i
    BY <1>4, <1>5
  <2> QED
    BY <1>4, <1>5, <2>1
<1>11. ASSUME NEW r \in Queues, NEW i \in DOMAIN contents[r]
       PROVE  \/ contents[r][i] = Head(c)
              \/ \E j \in DOMAIN contents'[r] : contents'[r][j] = contents[r][i]
  <2>1. CASE r # q
    BY <1>7, <1>11, <2>1
  <2>2. CASE r = q /\ i = 1
    BY <1>4, <1>6, <2>2
  <2>3. CASE r = q /\ i # 1
    <3>1. i - 1 \in DOMAIN contents'[r] /\ contents'[r][i - 1] = contents[r][i]
      BY <1>6, <1>7, <1>10, <1>11, <2>3
    <3> QED
      BY <3>1
  <2> QED
    BY <2>1, <2>2, <2>3
<1> DEFINE sh(r) == IF r = q THEN 1 ELSE 0
<1>12. ASSUME NEW r \in Queues, NEW i \in DOMAIN contents'[r]
       PROVE  /\ i + sh(r) \in DOMAIN contents[r] /\ contents'[r][i] = contents[r][i + sh(r)]
              /\ contents'[r][i] # Head(c) /\ i \in Nat
  <2>1. CASE r = q
    <3>1. i + 1 \in DOMAIN c /\ d[i] = c[i + 1] /\ i + 1 # 1 /\ i \in Nat
      BY <1>4, <1>5, <1>7, <1>9, <1>12, <2>1
    <3>2. c[i + 1] # c[1]
      BY <1>3, <1>6, <1>9, <3>1 DEF Distinct
    <3> QED
      BY <1>4, <1>6, <1>7, <2>1, <3>1, <3>2
  <2>2. CASE r # q
    <3>1. contents'[r] = contents[r] /\ contents[r] \in Seq(Events)
      BY <1>1, <1>7, <2>2
    <3>2. i \in Nat /\ i + 0 = i
      BY <1>12, <3>1
    <3>3. contents[r][i] # c[1]
      BY <1>3, <1>6, <1>9, <1>12, <2>2, <3>1 DEF Distinct
    <3> QED
      BY <1>4, <1>12, <2>2, <3>1, <3>2, <3>3
  <2> QED
    BY <2>1, <2>2
<1>13. \A r \in Queues : sh(r) \in Nat
  OBVIOUS
<1> HIDE DEF sh
<1>14. ASSUME NEW r \in Queues, NEW i \in DOMAIN contents'[r],
              NEW v \in Queues, NEW j \in DOMAIN contents'[v], contents'[r][i] = contents'[v][j]
       PROVE  r = v /\ i = j
  <2>1. /\ i + sh(r) \in DOMAIN contents[r] /\ contents'[r][i] = contents[r][i + sh(r)]
        /\ j + sh(v) \in DOMAIN contents[v] /\ contents'[v][j] = contents[v][j + sh(v)]
        /\ i \in Nat /\ j \in Nat
    BY <1>12
  <2> DEFINE a == i + sh(r)
             b == j + sh(v)
  <2>2. a \in DOMAIN contents[r] /\ b \in DOMAIN contents[v] /\ contents[r][a] = contents[v][b]
    BY <1>14, <2>1
  <2> HIDE DEF a, b
  <2>3. r = v /\ a = b
    BY <1>3, <2>2 DEF Distinct
  <2>4. sh(r) = sh(v) /\ sh(r) \in Nat /\ i + sh(r) = j + sh(r)
    BY <1>13, <2>3 DEF a, b
  <2> QED
    BY <2>1, <2>3, <2>4
<1>15. Distinct'
  BY <1>14 DEF Distinct
<1>16. ASSUME NEW r \in Queues, NEW i \in DOMAIN contents'[r]
       PROVE  /\ contents'[r][i] # Head(c)
              /\ \E j \in DOMAIN contents[r] : contents[r][j] = contents'[r][i]
  <2>1. /\ i + sh(r) \in DOMAIN contents[r] /\ contents'[r][i] = contents[r][i + sh(r)]
        /\ contents'[r][i] # Head(c)
    BY <1>12
  <2> QED
    BY <2>1
<1> QED
  BY <1>4, <1>6, <1>8, <1>9, <1>11, <1>15, <1>16

\* What Once says of the items, one by one.
LEMMA OnceOf ==
  ASSUME EInv
  PROVE  /\ taken \subseteq sent /\ dropped \subseteq sent
         /\ \A s \in Senders : Pushing(s) => hand[s].event \notin taken \cup dropped
         /\ \A q \in Queues : \A i \in DOMAIN contents[q] :
              contents[q][i] \in sent /\ contents[q][i] \notin dropped
         /\ \A q \in Queues : \A i \in DOMAIN contents[q] : \A s \in Senders :
              Pushing(s) => hand[s].event # contents[q][i]
         /\ raced = {} => /\ taken \cap dropped = {}
                          /\ \A q \in Queues : \A i \in DOMAIN contents[q] :
                               contents[q][i] \notin taken
BY DEF EInv, Once, Apart, TakenOnce

\* Nothing changes as long as the events in hand are the same, and nothing else moves.
LEMMA SamePlaces ==
  ASSUME EInv, UNCHANGED <<contents, taken, dropped, raced, sent>>,
         \A s \in Senders : /\ Pushing(s)' <=> Pushing(s)
                            /\ Pushing(s) => hand'[s].event = hand[s].event
  PROVE  ContentsType' /\ Accounted' /\ Once'
<1>1. ContentsType'
  BY DEF EInv, ContentsType
<1>2. Accounted'
  BY DEF EInv, Accounted
<1>3. Distinct' /\ TakenOnce'
  BY DEF EInv, Once, Distinct, TakenOnce
<1>4. Apart'
  BY DEF EInv, Once, Apart
<1> QED
  BY <1>1, <1>2, <1>3, <1>4 DEF Once

\* A new event is in the hand of its sender.
LEMMA LookupPlaces ==
  ASSUME EInv, NEW s \in Senders, NEW e \in Events, Lookup(s, e)
  PROVE  ContentsType' /\ Accounted' /\ Once'
<1>1. /\ hand[s] = Idle /\ e \notin sent /\ sent' = sent \cup {e}
      /\ UNCHANGED <<contents, raced, taken, dropped>>
  BY DEF Lookup, egressVars
<1>2. PICK h : h.at = "put" /\ h.event = e /\ hand' = [hand EXCEPT ![s] = h]
  BY DEF Lookup
<1>3. /\ Pushing(s)' /\ hand'[s].event = e /\ ~Pushing(s)
      /\ \A u \in Senders : u # s => hand'[u] = hand[u] /\ (Pushing(u)' <=> Pushing(u))
  BY <1>1, <1>2 DEF EInv, SenderType, Idle, Pushing
<1>4. ContentsType'
  BY <1>1 DEF EInv, ContentsType
<1>5. Accounted'
  <2> SUFFICES ASSUME NEW x \in sent'
      PROVE \/ \E u \in Senders : Pushing(u)' /\ hand'[u].event = x
            \/ \E q \in Queues : \E i \in DOMAIN contents[q] : contents[q][i] = x
            \/ x \in taken \/ x \in dropped
    BY <1>1 DEF Accounted
  <2>1. CASE x = e
    BY <1>3, <2>1
  <2>2. CASE x # e
    <3>1. x \in sent
      BY <1>1, <2>2
    <3>2. CASE \E u \in Senders : Pushing(u) /\ hand[u].event = x
      <4>1. PICK u \in Senders : Pushing(u) /\ hand[u].event = x
        BY <3>2
      <4>2. u # s
        BY <1>3, <4>1
      <4> QED
        BY <1>3, <4>1, <4>2
    <3> QED
      BY <3>1, <3>2 DEF EInv, Accounted
  <2> QED
    BY <2>1, <2>2
<1>6. ASSUME NEW u \in Senders, Pushing(u)'
      PROVE  /\ hand'[u].event \notin taken \cup dropped
             /\ \A q \in Queues : \A i \in DOMAIN contents[q] : hand'[u].event # contents[q][i]
  <2>1. CASE u = s
    BY <1>1, <1>3, <2>1, OnceOf
  <2>2. CASE u # s
    <3>1. hand'[u] = hand[u] /\ Pushing(u)
      BY <1>3, <1>6, <2>2
    <3> QED
      BY <3>1, OnceOf
  <2> QED
    BY <2>1, <2>2
<1>7. Apart'
  BY <1>1, <1>6, OnceOf DEF Apart
<1>8. Distinct' /\ TakenOnce'
  BY <1>1 DEF EInv, Once, Distinct, TakenOnce
<1> QED
  BY <1>4, <1>5, <1>7, <1>8 DEF Once

\* A sender discards the first item of a queue.
LEMMA DiscardPlaces ==
  ASSUME EInv, NEW s \in Senders, Discard(s)
  PROVE  ContentsType' /\ Accounted' /\ Once'
<1> DEFINE q == hand[s].queue
           c == contents[q]
<1>1. /\ hand[s].at = "full" /\ hand' = [hand EXCEPT ![s].at = "put"]
      /\ UNCHANGED <<sent, taken>>
  BY DEF Discard, egressVars
<1>2. \A u \in Senders : (Pushing(u)' <=> Pushing(u)) /\ hand'[u].event = hand[u].event
  BY <1>1 DEF EInv, SenderType, Pushing
<1>3. q \in Queues /\ contents \in [Queues -> Seq(Events)]
  BY <1>1 DEF EInv, InHand, ContentsType
<1>4. CASE c = <<>>
  <2>1. DOMAIN c = {}
    BY <1>4, EmptySeq
  <2>2. UNCHANGED <<contents, dropped, raced>>
    BY <1>3, <1>4, <2>1 DEF Discard
  <2> QED
    BY <1>1, <1>2, <2>2, SamePlaces
<1>5. CASE c # <<>>
  <2>1. 1 \in DOMAIN c /\ Head(c) = c[1]
    <3>1. c \in Seq(Events)
      BY <1>3
    <3> HIDE DEF c
    <3> QED
      BY <1>5, <3>1, Without, LenProperties
  <2>2. /\ contents' = [contents EXCEPT ![q] = Tail(contents[q])]
        /\ dropped' = dropped \cup {Head(c)}
        /\ (raced' = {} => raced = {})
    BY <1>5, <2>1 DEF Discard
  <2>3. /\ ContentsType' /\ Distinct'
        /\ \E i \in DOMAIN contents[q] : contents[q][i] = Head(c)
        /\ \A r \in Queues : \A i \in DOMAIN contents[r] :
             \/ contents[r][i] = Head(c)
             \/ \E j \in DOMAIN contents'[r] : contents'[r][j] = contents[r][i]
        /\ \A r \in Queues : \A i \in DOMAIN contents'[r] :
             /\ contents'[r][i] # Head(c)
             /\ \E j \in DOMAIN contents[r] : contents[r][j] = contents'[r][i]
    BY <1>3, <1>5, <2>2, HeadGone
  <2> DEFINE x == Head(c)
  <2>4. /\ x \in sent
        /\ \A u \in Senders : Pushing(u) => hand[u].event # x
        /\ raced = {} => x \notin taken
    BY <1>3, <2>3, OnceOf
  <2>5. dropped' = dropped \cup {x}
    BY <2>2
  <2>6. \A r \in Queues : \A i \in DOMAIN contents[r] :
             \/ contents[r][i] = x
             \/ \E j \in DOMAIN contents'[r] : contents'[r][j] = contents[r][i]
    BY <2>3
  <2>7. \A r \in Queues : \A i \in DOMAIN contents'[r] :
             /\ contents'[r][i] # x
             /\ \E j \in DOMAIN contents[r] : contents[r][j] = contents'[r][i]
    BY <2>3
  <2> HIDE DEF x, c, q
  <2>8. Accounted'
    <3> SUFFICES ASSUME NEW e \in sent
        PROVE \/ \E u \in Senders : Pushing(u) /\ hand[u].event = e
              \/ \E r \in Queues : \E i \in DOMAIN contents'[r] : contents'[r][i] = e
              \/ e \in taken \/ e \in dropped'
      BY <1>1, <1>2 DEF Accounted
    <3>1. CASE \E r \in Queues : \E i \in DOMAIN contents[r] : contents[r][i] = e
      BY <2>5, <2>6, <3>1
    <3> QED
      BY <2>5, <3>1 DEF EInv, Accounted
  <2>9. Apart'
    <3>1. \A r \in Queues : \A i \in DOMAIN contents'[r] :
            /\ contents'[r][i] \in sent /\ contents'[r][i] \notin dropped'
            /\ \A u \in Senders : Pushing(u) => hand[u].event # contents'[r][i]
      BY <2>5, <2>7, OnceOf
    <3>2. \A u \in Senders : Pushing(u) => hand[u].event \notin taken \cup dropped'
      BY <2>4, <2>5, OnceOf
    <3>3. taken \subseteq sent /\ dropped' \subseteq sent
      BY <2>4, <2>5, OnceOf
    <3> QED
      BY <1>1, <1>2, <3>1, <3>2, <3>3 DEF Apart
  <2>10. TakenOnce'
    <3> SUFFICES ASSUME raced' = {}
                 PROVE  /\ taken \cap dropped' = {}
                        /\ \A r \in Queues : \A i \in DOMAIN contents'[r] :
                             contents'[r][i] \notin taken
      BY <1>1 DEF TakenOnce
    <3>1. raced = {}
      BY <2>2
    <3> QED
      BY <2>4, <2>5, <2>7, <3>1, OnceOf
  <2> QED
    BY <2>3, <2>8, <2>9, <2>10 DEF Once
<1> QED
  BY <1>4, <1>5

\* The queue that a pop works on is one only: the first of those still to be drained.
LEMMA OneFirst ==
  ASSUME NEW ts \in SUBSET Topics, NEW t \in ts, NEW u \in ts, First(t, ts), First(u, ts)
  PROVE  t = u
<1>1. PICK i \in DOMAIN TopicSeq : TopicSeq[i] = t
  BY DEF Topics
<1>2. PICK j \in DOMAIN TopicSeq : TopicSeq[j] = u
  BY DEF Topics
<1>3. i <= j /\ j <= i
  BY <1>1, <1>2 DEF First
<1>4. i \in Nat /\ j \in Nat
  OBVIOUS
<1> QED
  BY <1>1, <1>2, <1>3, <1>4

\* The egress worker takes the first item of a queue, or what has become of it.
LEMMA PopPlaces ==
  ASSUME EInv, EgressPop
  PROVE  ContentsType' /\ Accounted' /\ Once'
<1>1. PICK t \in DOMAIN todo :
        /\ First(t, DOMAIN todo)
        /\ contents' = [contents EXCEPT ![todo[t]] =
             IF contents[todo[t]] # <<>> /\ Head(contents[todo[t]]) = popped
             THEN Tail(contents[todo[t]]) ELSE contents[todo[t]]]
        /\ \E e \in {popped} \cup {contents[todo[t]][i] : i \in DOMAIN contents[todo[t]]} :
             /\ (contents[todo[t]] # <<>> /\ Head(contents[todo[t]]) = popped => e = popped)
             /\ taken' = taken \cup {e}
  BY DEF EgressPop
<1> DEFINE q == todo[t]
           there == contents[q] # <<>> /\ Head(contents[q]) = popped
<1>2. PICK e \in {popped} \cup {contents[q][i] : i \in DOMAIN contents[q]} :
           (there => e = popped) /\ taken' = taken \cup {e}
  BY <1>1
<1>3. eat = "pop" /\ UNCHANGED <<hand, sent, dropped, raced>>
  BY DEF EgressPop, senderVars
<1>4. q \in Queues /\ DOMAIN todo \in SUBSET Topics /\ contents \in [Queues -> Seq(Events)]
  BY DEF EInv, WorkerType, ContentsType
<1>5. popped \in sent /\ \A s \in Senders : Pushing(s) => hand[s].event # popped
  BY <1>3 DEF EInv, PopInv
<1>6. e \in sent /\ \A s \in Senders : Pushing(s) => hand[s].event # e
  BY <1>2, <1>4, <1>5, OnceOf
<1>7. \A s \in Senders : Pushing(s)' <=> Pushing(s)
  BY <1>3 DEF Pushing
<1>8. CASE there
  <2>1. contents' = [contents EXCEPT ![q] = Tail(contents[q])] /\ e = popped
    BY <1>1, <1>2, <1>8
  <2>2. /\ ContentsType' /\ Distinct'
        /\ \E i \in DOMAIN contents[q] : contents[q][i] = e
        /\ \A r \in Queues : \A i \in DOMAIN contents[r] :
             \/ contents[r][i] = e
             \/ \E j \in DOMAIN contents'[r] : contents'[r][j] = contents[r][i]
        /\ \A r \in Queues : \A i \in DOMAIN contents'[r] :
             /\ contents'[r][i] # e
             /\ \E j \in DOMAIN contents[r] : contents[r][j] = contents'[r][i]
    <3>1. contents[q] # <<>> /\ Head(contents[q]) = e
      BY <1>8, <2>1
    <3> HIDE DEF q, there
    <3>2. /\ ContentsType' /\ Distinct'
          /\ \E i \in DOMAIN contents[q] : contents[q][i] = Head(contents[q])
          /\ \A r \in Queues : \A i \in DOMAIN contents[r] :
               \/ contents[r][i] = Head(contents[q])
               \/ \E j \in DOMAIN contents'[r] : contents'[r][j] = contents[r][i]
          /\ \A r \in Queues : \A i \in DOMAIN contents'[r] :
               /\ contents'[r][i] # Head(contents[q])
               /\ \E j \in DOMAIN contents[r] : contents[r][j] = contents'[r][i]
      BY <1>4, <2>1, <3>1, HeadGone
    <3> QED
      BY <3>1, <3>2
  <2> HIDE DEF q, there
  <2>3. Accounted'
    <3> SUFFICES ASSUME NEW x \in sent
        PROVE \/ \E u \in Senders : Pushing(u) /\ hand[u].event = x
              \/ \E r \in Queues : \E i \in DOMAIN contents'[r] : contents'[r][i] = x
              \/ x \in taken' \/ x \in dropped
      BY <1>3, <1>7 DEF Accounted
    <3>1. CASE \E r \in Queues : \E i \in DOMAIN contents[r] : contents[r][i] = x
      BY <1>2, <2>2, <3>1
    <3> QED
      BY <1>2, <3>1 DEF EInv, Accounted
  <2>4. Apart'
    <3>1. \A r \in Queues : \A i \in DOMAIN contents'[r] :
            /\ contents'[r][i] \in sent /\ contents'[r][i] \notin dropped
            /\ \A u \in Senders : Pushing(u) => hand[u].event # contents'[r][i]
      BY <2>2, OnceOf
    <3>2. \A u \in Senders : Pushing(u) => hand[u].event \notin taken' \cup dropped
      BY <1>2, <1>6, OnceOf
    <3>3. taken' \subseteq sent /\ dropped \subseteq sent
      BY <1>2, <1>6, OnceOf
    <3> QED
      BY <1>3, <1>7, <3>1, <3>2, <3>3 DEF Apart
  <2>5. TakenOnce'
    <3> SUFFICES ASSUME raced = {}
                 PROVE  /\ taken' \cap dropped = {}
                        /\ \A r \in Queues : \A i \in DOMAIN contents'[r] :
                             contents'[r][i] \notin taken'
      BY <1>3 DEF TakenOnce
    <3>1. e \notin dropped
      BY <1>4, <2>2, OnceOf
    <3> QED
      BY <1>2, <2>2, <3>1, OnceOf
  <2> QED
    BY <2>2, <2>3, <2>4, <2>5 DEF Once
<1>9. CASE ~there
  <2>1. contents' = contents
    BY <1>1, <1>4, <1>9
  <2>2. raced # {}
    <3> SUFFICES ASSUME raced = {} PROVE FALSE
      OBVIOUS
    <3>1. PICK u \in DOMAIN todo : /\ First(u, DOMAIN todo) /\ contents[todo[u]] # <<>>
                                   /\ Head(contents[todo[u]]) = popped
      BY <1>3 DEF EInv, PopInv
    <3>2. u = t
      BY <1>1, <1>4, <3>1, OneFirst
    <3> QED
      BY <1>9, <3>1, <3>2
  <2> HIDE DEF q, there
  <2>3. ContentsType' /\ Distinct'
    BY <2>1 DEF EInv, Once, ContentsType, Distinct
  <2>4. Accounted'
    <3> SUFFICES ASSUME NEW x \in sent
        PROVE \/ \E u \in Senders : Pushing(u) /\ hand[u].event = x
              \/ \E r \in Queues : \E i \in DOMAIN contents[r] : contents[r][i] = x
              \/ x \in taken' \/ x \in dropped
      BY <1>3, <1>7, <2>1 DEF Accounted
    <3> QED
      BY <1>2 DEF EInv, Accounted
  <2>5. Apart'
    <3>1. \A u \in Senders : Pushing(u) => hand[u].event \notin taken' \cup dropped
      BY <1>2, <1>6, OnceOf
    <3>2. taken' \subseteq sent /\ dropped \subseteq sent
      BY <1>2, <1>6, OnceOf
    <3> QED
      BY <1>3, <1>7, <2>1, <3>1, <3>2, OnceOf DEF Apart
  <2>6. TakenOnce'
    BY <1>3, <2>2 DEF TakenOnce
  <2> QED
    BY <2>3, <2>4, <2>5, <2>6 DEF Once
<1> QED
  BY <1>8, <1>9

\* An event behind the others of its queue.
LEMMA Appended ==
  ASSUME NEW c \in Seq(Events), NEW e \in Events, Len(c) < Depth, Len(c) <= Depth
  PROVE  /\ Append(c, e) \in Seq(Events) /\ Len(Append(c, e)) <= Depth
         /\ Len(c) + 1 \in DOMAIN Append(c, e) /\ Append(c, e)[Len(c) + 1] = e
         /\ \A i \in DOMAIN c : i \in DOMAIN Append(c, e) /\ Append(c, e)[i] = c[i]
         /\ \A i \in DOMAIN Append(c, e) : i # Len(c) + 1 => i \in DOMAIN c
<1> DEFINE d == Append(c, e)
<1>1. /\ d \in Seq(Events) /\ Len(d) = Len(c) + 1 /\ DOMAIN d = 1..(Len(c) + 1)
      /\ \A i \in 1..Len(c) : d[i] = c[i]
      /\ d[Len(c) + 1] = e
  BY AppendProperties
<1>2. Len(c) \in Nat /\ DOMAIN c = 1..Len(c) /\ Depth \in Nat
  BY LenProperties
<1> HIDE DEF d
<1>3. Len(d) <= Depth
  BY <1>1, <1>2
<1>4. Len(c) + 1 \in DOMAIN d
  BY <1>1, <1>2
<1>5. \A i \in DOMAIN c : i \in DOMAIN d /\ d[i] = c[i]
  BY <1>1, <1>2
<1>6. \A i \in DOMAIN d : i # Len(c) + 1 => i \in DOMAIN c
  BY <1>1, <1>2
<1> QED
  BY <1>1, <1>3, <1>4, <1>5, <1>6 DEF d

\* A sender adds its event behind the others.
LEMMA PutPlaces ==
  ASSUME EInv, NEW s \in Senders, Put(s)
  PROVE  ContentsType' /\ Accounted' /\ Once'
<1> DEFINE q == hand[s].queue
           e == hand[s].event
           c == contents[q]
           d == Append(c, e)
           n == Len(c) + 1
<1>1. /\ hand[s].at = "put" /\ hand' = [hand EXCEPT ![s].at = "touch"]
      /\ Len(c) < Depth /\ contents' = [contents EXCEPT ![q] = d]
      /\ UNCHANGED <<sent, taken, dropped, raced>>
  BY DEF Put, egressVars
<1>2. /\ q \in Queues /\ e \in sent /\ e \in Events /\ SenderOf[e] = s
      /\ contents \in [Queues -> Seq(Events)] /\ \A r \in Queues : Len(contents[r]) <= Depth
  BY <1>1 DEF EInv, InHand, SenderType, ContentsType
<1>3. c \in Seq(Events) /\ Len(c) <= Depth
  BY <1>2
<1>4. /\ Pushing(s)
      /\ \A u \in Senders : Pushing(u)' => u # s /\ Pushing(u) /\ hand'[u] = hand[u]
      /\ \A u \in Senders : u # s /\ Pushing(u) => Pushing(u)' /\ hand'[u] = hand[u]
  BY <1>1 DEF EInv, SenderType, Pushing
<1>5. c = contents[q] /\ e = hand[s].event
  OBVIOUS
<1>6. /\ d \in Seq(Events) /\ Len(d) <= Depth /\ n \in DOMAIN d /\ d[n] = e
      /\ \A i \in DOMAIN c : i \in DOMAIN d /\ d[i] = c[i]
      /\ \A i \in DOMAIN d : i # n => i \in DOMAIN c
  <2> HIDE DEF c, e
  <2> QED
    BY <1>1, <1>2, <1>3, Appended
<1> HIDE DEF q, e, c, d, n
<1>7. contents'[q] = d /\ \A r \in Queues : r # q => contents'[r] = contents[r]
  BY <1>1, <1>2
<1>8. ContentsType'
  <2>1. contents' \in [Queues -> Seq(Events)]
    BY <1>1, <1>2, <1>6
  <2> QED
    BY <1>2, <1>6, <1>7, <2>1 DEF ContentsType
<1>9. \A r \in Queues : \A i \in DOMAIN contents[r] :
        i \in DOMAIN contents'[r] /\ contents'[r][i] = contents[r][i]
  BY <1>5, <1>6, <1>7
<1>10. Accounted'
  <2> SUFFICES ASSUME NEW x \in sent
      PROVE \/ \E u \in Senders : Pushing(u)' /\ hand'[u].event = x
            \/ \E r \in Queues : \E i \in DOMAIN contents'[r] : contents'[r][i] = x
            \/ x \in taken \/ x \in dropped
    BY <1>1 DEF Accounted
  <2>1. CASE \E u \in Senders : Pushing(u) /\ hand[u].event = x
    <3>1. PICK u \in Senders : Pushing(u) /\ hand[u].event = x
      BY <2>1
    <3>2. CASE u = s
      BY <1>2, <1>5, <1>6, <1>7, <3>1, <3>2
    <3>3. CASE u # s
      BY <1>4, <3>1, <3>3
    <3> QED
      BY <3>2, <3>3
  <2>2. CASE \E r \in Queues : \E i \in DOMAIN contents[r] : contents[r][i] = x
    BY <1>9, <2>2
  <2> QED
    BY <2>1, <2>2 DEF EInv, Accounted
<1>11. /\ e \notin taken /\ e \notin dropped
       /\ \A r \in Queues : \A i \in DOMAIN contents[r] : contents[r][i] # e
       /\ \A u \in Senders : u # s /\ Pushing(u) => hand[u].event # e
  <2>1. \A u \in Senders : u # s /\ Pushing(u) => hand[u].event # e
    BY <1>2 DEF EInv, InHand, Pushing
  <2> QED
    BY <1>4, <1>5, <2>1, OnceOf
<1> DEFINE Mine(r, i) == r = q /\ i = n
<1>12. ASSUME NEW r \in Queues, NEW i \in DOMAIN contents'[r], ~Mine(r, i)
       PROVE  i \in DOMAIN contents[r] /\ contents'[r][i] = contents[r][i]
  BY <1>5, <1>6, <1>7, <1>12
<1>13. \A r \in Queues : \A i \in DOMAIN contents'[r] : Mine(r, i) => contents'[r][i] = e
  BY <1>6, <1>7
<1>14. \A r, v, i, j : Mine(r, i) /\ Mine(v, j) => r = v /\ i = j
  OBVIOUS
<1> HIDE DEF Mine
<1>15. ASSUME NEW r \in Queues, NEW i \in DOMAIN contents'[r]
       PROVE  /\ contents'[r][i] \in sent /\ contents'[r][i] \notin dropped
              /\ \A u \in Senders : Pushing(u)' => hand'[u].event # contents'[r][i]
              /\ raced = {} => contents'[r][i] \notin taken
  <2>1. CASE Mine(r, i)
    BY <1>2, <1>4, <1>11, <1>13, <1>15, <2>1
  <2>2. CASE ~Mine(r, i)
    <3>1. i \in DOMAIN contents[r] /\ contents'[r][i] = contents[r][i]
      BY <1>12, <2>2
    <3> QED
      BY <1>4, <3>1, OnceOf
  <2> QED
    BY <2>1, <2>2
<1>16. ASSUME NEW r \in Queues, NEW i \in DOMAIN contents'[r],
              NEW v \in Queues, NEW j \in DOMAIN contents'[v], contents'[r][i] = contents'[v][j]
       PROVE  r = v /\ i = j
  <2>1. CASE Mine(r, i)
    <3>1. Mine(v, j)
      BY <1>11, <1>12, <1>13, <1>16, <2>1
    <3> QED
      BY <1>14, <2>1, <3>1
  <2>2. CASE ~Mine(r, i)
    <3>1. ~Mine(v, j)
      BY <1>11, <1>12, <1>13, <1>16, <2>2
    <3>2. /\ i \in DOMAIN contents[r] /\ contents'[r][i] = contents[r][i]
          /\ j \in DOMAIN contents[v] /\ contents'[v][j] = contents[v][j]
      BY <1>12, <2>2, <3>1
    <3>3. Distinct
      BY DEF EInv, Once
    <3>4. contents[r][i] = contents[v][j]
      BY <1>16, <3>2
    <3> QED
      BY <3>2, <3>3, <3>4 DEF Distinct
  <2> QED
    BY <2>1, <2>2
<1>17. Distinct'
  BY <1>16 DEF Distinct
<1>18. TakenOnce'
  BY <1>1, <1>15, OnceOf DEF TakenOnce
<1>19. Apart'
  <2>1. \A u \in Senders : Pushing(u)' => hand'[u].event \notin taken \cup dropped
    BY <1>4, OnceOf
  <2> QED
    BY <1>1, <1>15, <2>1, OnceOf DEF Apart
<1> QED
  BY <1>8, <1>10, <1>17, <1>18, <1>19 DEF Once

\* Events change places when they are looked up, put, discarded and taken.
LEMMA PlacesStep == EInv /\ [Next]_vars => ContentsType' /\ Accounted' /\ Once'
<1> SUFFICES ASSUME EInv, [Next]_vars PROVE ContentsType' /\ Accounted' /\ Once'
  OBVIOUS
<1>1. ASSUME UNCHANGED <<contents, taken, dropped, raced, sent, hand>>
      PROVE  ContentsType' /\ Accounted' /\ Once'
  BY <1>1, SamePlaces DEF Pushing
<1>2. ASSUME NEW s \in Senders, NEW e \in Events, Lookup(s, e)
      PROVE  ContentsType' /\ Accounted' /\ Once'
  BY <1>2, LookupPlaces
<1>3. ASSUME NEW s \in Senders, Put(s) PROVE ContentsType' /\ Accounted' /\ Once'
  BY <1>3, PutPlaces
<1>4. ASSUME NEW s \in Senders, FindFull(s) \/ TouchAfterPut(s)
      PROVE  ContentsType' /\ Accounted' /\ Once'
  <2>1. /\ UNCHANGED <<contents, taken, dropped, raced, sent>>
        /\ \/ hand[s].at = "put" /\ hand' = [hand EXCEPT ![s].at = "full"]
           \/ hand[s].at = "touch" /\ hand' = [hand EXCEPT ![s] = Idle]
    BY <1>4 DEF FindFull, TouchAfterPut, queueVars, egressVars
  <2>2. \A u \in Senders : /\ Pushing(u)' <=> Pushing(u)
                           /\ Pushing(u) => hand'[u].event = hand[u].event
    <3>1. hand \in [Senders -> [at : {"idle", "put", "full", "touch"},
                              event : Events \cup {NoEvent}, queue : Queues \cup {NoQueue}]]
      BY DEF EInv, SenderType
    <3>2. CASE hand[s].at = "put" /\ hand' = [hand EXCEPT ![s].at = "full"]
      BY <3>1, <3>2 DEF Pushing
    <3>3. CASE hand[s].at = "touch" /\ hand' = [hand EXCEPT ![s] = Idle]
      BY <3>1, <3>3 DEF Idle, Pushing
    <3> QED
      BY <2>1, <3>2, <3>3
  <2> QED
    BY <2>1, <2>2, SamePlaces
<1>5. ASSUME NEW s \in Senders, Discard(s) PROVE ContentsType' /\ Accounted' /\ Once'
  BY <1>5, DiscardPlaces
<1>6. ASSUME EgressPop PROVE ContentsType' /\ Accounted' /\ Once'
  BY <1>6, PopPlaces
<1> QED
  BY <1>1, <1>2, <1>3, <1>4, <1>5, <1>6 DEF Next, Registration, Egress, Monitor,
     Environment, Sender, AskToJoin, RegisterModule, RegisterMonitor, MonitorFrom,
     SendReplies, Heartbeat, RenewTo, Stop, EgressSnapshot, EgressFrom, EgressGet,
     EgressTouch, EgressNext, EgressSkip, Tick, TickAll, Unregister, ReadClock, SeeActive,
     SweepSnapshot, KeepQueue, FindIdle, EraseIdle, SweepDone, vars, joinVars, registryVars,
     queueVars, senderVars, egressVars, monitorVars

\* What a pop has seen stays the oldest of its queue until it is taken or discarded.
LEMMA PopStep == EInv /\ [Next]_vars => PopInv'
<1> SUFFICES ASSUME EInv, [Next]_vars PROVE PopInv'
  OBVIOUS
<1>1. /\ popped \in Events \cup {NoEvent} /\ raced \subseteq Queues
      /\ eat = "pop" => /\ popped \in sent
                        /\ \A s \in Senders : Pushing(s) => hand[s].event # popped
      /\ eat = "pop" /\ raced = {} =>
           \E t \in DOMAIN todo : /\ First(t, DOMAIN todo) /\ contents[todo[t]] # <<>>
                                  /\ Head(contents[todo[t]]) = popped
  BY DEF EInv, PopInv
<1>2. contents \in [Queues -> Seq(Events)] /\ todo \in [DOMAIN todo -> Queues]
  BY DEF EInv, ContentsType, WorkerType
<1>3. ASSUME UNCHANGED <<popped, raced, sent, eat, todo, contents>>,
             \A s \in Senders : Pushing(s)' => Pushing(s) /\ hand'[s].event = hand[s].event
      PROVE  PopInv'
  BY <1>1, <1>3 DEF PopInv
<1>4. ASSUME eat' # "pop", popped' = popped \/ popped' = NoEvent, raced' = raced PROVE PopInv'
  BY <1>1, <1>4 DEF PopInv
<1>5. ASSUME NEW s \in Senders, NEW e \in Events, Lookup(s, e) PROVE PopInv'
  <2>1. /\ e \notin sent /\ sent' = sent \cup {e}
        /\ UNCHANGED <<popped, raced, eat, todo, contents>>
    BY <1>5 DEF Lookup, egressVars
  <2>2. PICK h : h.at = "put" /\ h.event = e /\ hand' = [hand EXCEPT ![s] = h]
    BY <1>5 DEF Lookup
  <2>3. \A u \in Senders : Pushing(u)' =>
          hand'[u].event = e \/ (Pushing(u) /\ hand'[u].event = hand[u].event)
    BY <2>2 DEF EInv, SenderType, Pushing
  <2>4. eat = "pop" => /\ popped \in sent'
                       /\ \A u \in Senders : Pushing(u)' => hand'[u].event # popped
    BY <1>1, <2>1, <2>3
  <2> QED
    BY <1>1, <2>1, <2>4 DEF PopInv
<1>6. ASSUME NEW s \in Senders, Put(s) PROVE PopInv'
  <2> DEFINE q == hand[s].queue
             e == hand[s].event
  <2>1. /\ hand[s].at = "put" /\ hand' = [hand EXCEPT ![s].at = "touch"]
        /\ contents' = [contents EXCEPT ![q] = Append(contents[q], e)]
        /\ UNCHANGED <<popped, raced, sent, eat, todo>>
    BY <1>6 DEF Put, egressVars
  <2>2. \A u \in Senders : Pushing(u)' => Pushing(u) /\ hand'[u].event = hand[u].event
    BY <2>1 DEF EInv, SenderType, Pushing
  <2>3. q \in Queues /\ e \in Events
    BY <2>1 DEF EInv, InHand, SenderType
  <2> HIDE DEF q, e
  <2>4. ASSUME NEW r \in Queues, contents[r] # <<>>
        PROVE  contents'[r] # <<>> /\ Head(contents'[r]) = Head(contents[r])
    <3>1. CASE r # q
      BY <1>2, <2>1, <2>3, <2>4, <3>1
    <3>2. CASE r = q
      <4>1. contents[q] \in Seq(Events) /\ contents'[q] = Append(contents[q], e)
        BY <1>2, <2>1, <2>3
      <4> DEFINE c == contents[q]
                 d == Append(c, e)
      <4>2. c \in Seq(Events) /\ c # <<>> /\ contents'[q] = d
        BY <2>4, <3>2, <4>1
      <4> HIDE DEF c
      <4>3. Len(c) \in Nat /\ 1 \in 1..Len(c) /\ Head(c) = c[1]
        BY <4>2, Without
      <4>4. d \in Seq(Events) /\ Len(d) = Len(c) + 1 /\ d[1] = c[1]
        BY <2>3, <4>2, <4>3, AppendProperties
      <4> HIDE DEF d
      <4>5. d # <<>> /\ Head(d) = d[1]
        BY <4>3, <4>4, EmptySeq, HeadTailProperties
      <4> QED
        BY <3>2, <4>2, <4>3, <4>4, <4>5 DEF c
    <3> QED
      BY <3>1, <3>2
  <2>5. eat = "pop" /\ raced = {} =>
           \E t \in DOMAIN todo : /\ First(t, DOMAIN todo) /\ contents'[todo[t]] # <<>>
                                  /\ Head(contents'[todo[t]]) = popped
    BY <1>1, <1>2, <2>4
  <2>6. eat = "pop" => \A u \in Senders : Pushing(u)' => hand'[u].event # popped
    BY <1>1, <2>2
  <2> QED
    BY <1>1, <2>1, <2>5, <2>6 DEF PopInv
<1>7. ASSUME NEW s \in Senders, Discard(s) PROVE PopInv'
  <2> DEFINE q == hand[s].queue
             oldest == {contents[q][i] : i \in {1} \cap DOMAIN contents[q]}
  <2>1. /\ hand[s].at = "full" /\ hand' = [hand EXCEPT ![s].at = "put"]
        /\ contents' = [contents EXCEPT ![q] = IF contents[q] = <<>> THEN contents[q]
                                               ELSE Tail(contents[q])]
        /\ raced' = IF popped \in oldest THEN raced \cup {q} ELSE raced
        /\ UNCHANGED <<popped, sent, eat, todo>>
    BY <1>7 DEF Discard, egressVars
  <2>2. \A u \in Senders : Pushing(u)' => Pushing(u) /\ hand'[u].event = hand[u].event
    BY <2>1 DEF EInv, SenderType, Pushing
  <2>3. q \in Queues
    BY <2>1 DEF EInv, InHand
  <2>4. contents[q] # <<>> => Head(contents[q]) \in oldest
    <3> SUFFICES ASSUME contents[q] # <<>> PROVE Head(contents[q]) \in oldest
      OBVIOUS
    <3>1. contents[q] \in Seq(Events)
      BY <1>2, <2>3
    <3>2. Head(contents[q]) = contents[q][1] /\ 1 \in 1..Len(contents[q])
      BY <3>1, Without
    <3>3. DOMAIN contents[q] = 1..Len(contents[q])
      BY <3>1, LenProperties
    <3> QED
      BY <3>2, <3>3
  <2> HIDE DEF q, oldest
  <2>5. raced' \subseteq Queues /\ (raced' = {} => raced = {} /\ popped \notin oldest)
    BY <1>1, <2>1, <2>3
  <2>6. ASSUME eat = "pop", raced' = {}
        PROVE  \E t \in DOMAIN todo : /\ First(t, DOMAIN todo) /\ contents'[todo[t]] # <<>>
                                      /\ Head(contents'[todo[t]]) = popped
    <3>1. PICK t \in DOMAIN todo : /\ First(t, DOMAIN todo) /\ contents[todo[t]] # <<>>
                                   /\ Head(contents[todo[t]]) = popped
      BY <1>1, <2>5, <2>6
    <3>2. todo[t] # q
      BY <2>4, <2>5, <2>6, <3>1
    <3>3. contents'[todo[t]] = contents[todo[t]]
      BY <1>2, <2>1, <3>2
    <3> QED
      BY <3>1, <3>3
  <2>7. eat = "pop" => \A u \in Senders : Pushing(u)' => hand'[u].event # popped
    BY <1>1, <2>2
  <2> QED
    BY <1>1, <2>1, <2>5, <2>6, <2>7 DEF PopInv
<1>8. ASSUME NEW s \in Senders, FindFull(s) \/ TouchAfterPut(s) PROVE PopInv'
  <2>1. /\ UNCHANGED <<popped, raced, sent, eat, todo, contents>>
        /\ \/ hand[s].at = "put" /\ hand' = [hand EXCEPT ![s].at = "full"]
           \/ hand[s].at = "touch" /\ hand' = [hand EXCEPT ![s] = Idle]
    BY <1>8 DEF FindFull, TouchAfterPut, queueVars, egressVars
  <2>2. \A u \in Senders : Pushing(u)' => Pushing(u) /\ hand'[u].event = hand[u].event
    <3>1. hand \in [Senders -> [at : {"idle", "put", "full", "touch"},
                              event : Events \cup {NoEvent}, queue : Queues \cup {NoQueue}]]
      BY DEF EInv, SenderType
    <3>2. CASE hand[s].at = "put" /\ hand' = [hand EXCEPT ![s].at = "full"]
      BY <3>1, <3>2 DEF Pushing
    <3>3. CASE hand[s].at = "touch" /\ hand' = [hand EXCEPT ![s] = Idle]
      BY <3>1, <3>3 DEF Idle, Pushing
    <3> QED
      BY <2>1, <3>2, <3>3
  <2> QED
    BY <1>3, <2>1, <2>2
<1>9. ASSUME EgressGet PROVE PopInv'
  <2>1. PICK t \in DOMAIN todo : /\ First(t, DOMAIN todo) /\ contents[todo[t]] # <<>>
                                 /\ popped' = Head(contents[todo[t]])
    BY <1>9 DEF EgressGet
  <2>2. UNCHANGED <<raced, sent, hand, todo, contents>>
    BY <1>9 DEF EgressGet, queueVars, senderVars
  <2>3. todo[t] \in Queues /\ contents[todo[t]] \in Seq(Events)
    BY <1>2
  <2>4. \E i \in DOMAIN contents[todo[t]] : contents[todo[t]][i] = popped'
    BY <2>1, <2>3, Without, LenProperties
  <2>5. popped' \in Events
    BY <2>3, <2>4
  <2>6. popped' \in sent /\ \A s \in Senders : Pushing(s) => hand[s].event # popped'
    BY <2>3, <2>4, OnceOf
  <2>7. \A s \in Senders : Pushing(s)' => Pushing(s)
    BY <2>2 DEF Pushing
  <2> QED
    BY <1>1, <2>1, <2>2, <2>5, <2>6, <2>7 DEF PopInv
<1>10. ASSUME EgressPop \/ EgressSnapshot \/ EgressTouch \/ EgressNext PROVE PopInv'
  BY <1>4, <1>10 DEF EgressPop, EgressSnapshot, EgressFrom, EgressTouch, EgressNext,
     EgressSkip, queueVars
<1>11. ASSUME UNCHANGED <<popped, raced, sent, eat, todo, contents, hand>> PROVE PopInv'
  BY <1>3, <1>11 DEF Pushing
<1> QED
  BY <1>5, <1>6, <1>7, <1>8, <1>9, <1>10, <1>11 DEF Next, Registration, Egress, Monitor,
     Environment, Sender, AskToJoin, RegisterModule, RegisterMonitor, MonitorFrom,
     SendReplies, Heartbeat, RenewTo, Stop, Tick, TickAll, Unregister, ReadClock, SeeActive,
     SweepSnapshot, KeepQueue, FindIdle, EraseIdle, SweepDone, vars, joinVars, registryVars,
     queueVars, senderVars, egressVars, monitorVars

\* The engine starts with nothing in its queues.
LEMMA EInvInit == Init => EInv
<1> SUFFICES ASSUME Init PROVE EInv
  OBVIOUS
<1>1. IInv
  BY InitHolds
<1>2. JoinType
  BY EmptySeq DEF Init, JoinType
<1>3. SenderType /\ InHand
  BY DEF Init, SenderType, InHand, Idle
<1>4. ContentsType /\ Accounted /\ Once
  <2>1. /\ contents = [q \in Queues |-> <<>>] /\ sent = {} /\ taken = {} /\ dropped = {}
        /\ \A s \in Senders : hand[s].at = "idle"
    BY DEF Init, Idle
  <2>2. <<>> \in Seq(Events) /\ Len(<<>>) = 0 /\ DOMAIN <<>> = {}
    BY EmptySeq
  <2>3. ContentsType
    BY <2>1, <2>2 DEF ContentsType
  <2>4. Once
    BY <2>1, <2>2 DEF Once, Distinct, Apart, TakenOnce, Pushing
  <2> QED
    BY <2>1, <2>3, <2>4 DEF Accounted
<1>5. WorkerType /\ PopInv
  BY DEF Init, WorkerType, PopInv
<1>6. QueueNumbers /\ CreatedBound
  <2>1. QueueNumbers
    BY DEF Init, QueueNumbers
  <2>2. created = 0 /\ Len(reg_in) = 0 /\ sent = {} /\ asked = {} /\ Cardinality({}) = 0
    BY FS_EmptySet DEF Init
  <2>3. 0 * Cardinality(Topics) = 0
    BY Counts
  <2> QED
    BY <2>1, <2>2, <2>3 DEF CreatedBound
<1> QED
  BY <1>1, <1>2, <1>3, <1>4, <1>5, <1>6 DEF EInv

\* The inductive invariant about the events holds in every state of every behaviour.
LEMMA EInvAlways == Spec => []EInv
<1>1. EInv /\ [Next]_vars => EInv'
  <2> SUFFICES ASSUME EInv, [Next]_vars PROVE EInv'
    OBVIOUS
  <2>1. IInv'
    BY RegistryStep, OneAtATimeStep, MonitoredStep, StampStep DEF IInv, EInv
  <2> QED
    BY <2>1, JoinStep, NumbersStep, SenderStep, WorkerStep, PlacesStep, PopStep DEF EInv
<1> QED
  BY EInvInit, <1>1, PTL DEF Spec
-----------------------------------------------------------------------------
(* The theorems                                                            *)

\* The tables and the heartbeat manager never disagree for good: a module that is
\* in the tables is watched, about to be watched or about to be removed.
THEOREM NoModuleUnwatched == Spec => []EveryModuleMonitored
BY IInvAlways, PTL DEF IInv

\* However often a topic's queue is created, touched and collected, a bucket keeps
\* at most two stamps for it.
THEOREM StampsDoNotGrow == Spec => []StampsBounded
<1>1. IInv => StampsBounded
  <2> SUFFICES ASSUME IInv, NEW t \in Topics
               PROVE  Len(stamps[t]) <= 2 /\ (queues[t] # NoQueue => stamps[t] # <<>>)
    BY DEF StampsBounded
  <2>1. Len(stamps[t]) \in Nat /\ (stamps[t] = <<>> => Len(stamps[t]) = 0)
    BY DEF IInv, StampType
  <2>2. IF queues[t] = NoQueue THEN Len(stamps[t]) <= 1 ELSE Len(stamps[t]) \in 1..2
    BY DEF IInv, StampInv
  <2>3. CASE queues[t] = NoQueue
    BY <2>1, <2>2, <2>3
  <2>4. CASE queues[t] # NoQueue
    <3>1. Len(stamps[t]) \in 1..2
      BY <2>2, <2>4
    <3>2. \A n \in 1..2 : n <= 2 /\ n # 0
      OBVIOUS
    <3> QED
      BY <2>1, <3>1, <3>2
  <2> QED
    BY <2>3, <2>4
<1> QED
  BY IInvAlways, <1>1, PTL

\* No queue grows beyond its depth, no more queues are created than the events and the
\* interfaces of the registered modules call for, no thread has a queue in hand that
\* was never created, and a heartbeat leaves a monitor no more than twice the liveness.
THEOREM EventPathTypeCorrect == Spec => []TypeOK
<1>1. EInv => TypeOK
  <2> SUFFICES ASSUME EInv PROVE TypeOK
    OBVIOUS
  <2>1. queues \in [Topics -> Queues \cup {NoQueue}] /\ created \in 0..Cardinality(Queues)
    BY InMap DEF EInv, IInv, StampType
  <2>2. taken \subseteq sent /\ dropped \subseteq sent
    BY DEF EInv, Once, Apart
  <2> QED
    BY <2>1, <2>2 DEF EInv, PopInv, IInv, RegistryType, StampType, Stamps, JoinType, SenderType,
       ContentsType, WorkerType, TypeOK
<1> QED
  BY EInvAlways, <1>1, PTL

\* Every event given to the engine is accounted for: it is in the hand of the sender
\* that is about to push it, in a slot of a queue, with the egress worker, or among those
\* dropped from a full queue, whenever queues are created, collected and created again.
\* No event is put twice, and one that was dropped is in no queue.  That the egress worker
\* takes no event that was dropped, and none that stays in its queue, holds until a
\* sender discards the item that the worker's pop has seen and not yet taken: the ring
\* buffer does not keep the two apart.
THEOREM EveryEventInOnePlace == Spec => [](Accounted /\ Once)
<1>1. EInv => Accounted /\ Once
  BY DEF EInv
<1> QED
  BY EInvAlways, <1>1, PTL
=============================================================================
