-------------------------- MODULE RingBufferProofs --------------------------
(***************************************************************************)
(* Proofs about RingBuffer, for any number of producers, any capacity and  *)
(* any number of puts.                                                     *)
(***************************************************************************)
EXTENDS RingBuffer, TLAPS

-----------------------------------------------------------------------------
(* The slots of a ring                                                     *)

\* Every position has a slot.
LEMMA SlotInRange == \A q \in Nat : Slot(q) \in SlotIndices
BY CapacityAssumption DEF Slot, SlotIndices

\* A position is a whole number of laps and a slot, in one way only.
LEMMA LapUnique ==
  ASSUME NEW d \in Nat, NEW e \in Nat, NEW r \in SlotIndices, NEW s \in SlotIndices,
         Capacity * d + r = Capacity * e + s
  PROVE  d = e /\ r = s
<1> USE CapacityAssumption DEF SlotIndices
<1>1. CASE d < e
  <2>1. Capacity * e >= Capacity * (d + 1)
    BY <1>1
  <2> QED BY <2>1
<1>2. CASE e < d
  <2>1. Capacity * d >= Capacity * (e + 1)
    BY <1>2
  <2> QED BY <2>1
<1> QED BY <1>1, <1>2

\* The laps and the slot of a position.
LEMMA SlotLaps == \A q \in Nat : \E d \in Nat : q = Capacity * d + Slot(q)
<1> SUFFICES ASSUME NEW q \in Nat PROVE \E d \in Nat : q = Capacity * d + Slot(q)
  OBVIOUS
<1>1. q \div Capacity \in Nat /\ q = Capacity * (q \div Capacity) + (q % Capacity)
  BY CapacityAssumption
<1> QED BY <1>1 DEF Slot

\* Positions one lap apart share their slot.
LEMMA SlotNextLap == \A q \in Nat : Slot(q + Capacity) = Slot(q)
<1> SUFFICES ASSUME NEW q \in Nat PROVE Slot(q + Capacity) = Slot(q)
  OBVIOUS
<1>1. PICK d \in Nat : q = Capacity * d + Slot(q)
  BY SlotLaps
<1>2. q + Capacity \in Nat
  BY CapacityAssumption
<1>3. PICK e \in Nat : q + Capacity = Capacity * e + Slot(q + Capacity)
  BY <1>2, SlotLaps
<1>4. Slot(q) \in SlotIndices /\ Slot(q + Capacity) \in SlotIndices
  BY <1>2, SlotInRange
<1>5. q + Capacity = Capacity * (d + 1) + Slot(q)
  <2>1. Slot(q) \in Nat
    BY <1>4, CapacityAssumption DEF SlotIndices
  <2> HIDE DEF Slot
  <2> QED BY <1>1, <2>1, CapacityAssumption
<1> QED BY <1>3, <1>4, <1>5, LapUnique

\* Positions less than a lap apart do not.
LEMMA SlotInjective ==
  \A a, b \in Nat : a <= b /\ b < a + Capacity /\ Slot(a) = Slot(b) => a = b
<1> SUFFICES ASSUME NEW a \in Nat, NEW b \in Nat, a <= b, b < a + Capacity,
                    Slot(a) = Slot(b)
             PROVE a = b
  OBVIOUS
<1> DEFINE r == Slot(a)
<1>1. r \in Nat
  BY SlotInRange, CapacityAssumption DEF SlotIndices
<1>2. PICK d \in Nat : a = Capacity * d + r
  BY SlotLaps
<1>3. PICK e \in Nat : b = Capacity * e + r
  BY SlotLaps
<1> HIDE DEF r
<1>4. CASE d < e
  <2>1. Capacity * e >= Capacity * (d + 1)
    BY <1>4, CapacityAssumption
  <2> QED BY <1>1, <1>2, <1>3, <2>1, CapacityAssumption
<1>5. CASE e < d
  <2>1. Capacity * d >= Capacity * (e + 1)
    BY <1>5, CapacityAssumption
  <2> QED BY <1>1, <1>2, <1>3, <2>1, CapacityAssumption
<1> QED BY <1>2, <1>3, <1>4, <1>5

-----------------------------------------------------------------------------
(* Type correctness, under every backpressure strategy                     *)

\* A producer inside put has begun at least one put.
Begun == \A p \in Producers : pc[p] # "idle" => puts[p] >= 1

\* The types, with what keeps the items well typed.
Typed == TypeOK /\ Begun

\* The initial state is typed.
LEMMA TypedInit == Init => Typed
BY CapacityAssumption DEF Init, Typed, TypeOK, Begun, ProducerPC, ConsumerPC,
   SlotIndices, Items

\* The item in a producer's hands is one of the items that can be put.
LEMMA ItemType ==
  ASSUME Typed, NEW p \in Producers, pc[p] # "idle"
  PROVE  Item(p) \in Items
BY MaxPutsAssumption DEF Typed, TypeOK, Begun, Item, Items

\* A sequence number is stored in one slot, and stays a natural number.
LEMMA StoreType ==
  ASSUME TypeOK, NEW q \in Nat, NEW v \in Nat, StoreSequence(q, v)
  PROVE  sequence' \in [SlotIndices -> Nat]
BY DEF TypeOK, StoreSequence

\* No step of a producer leaves the types.
LEMMA TypedProducer ==
  ASSUME Typed, NEW p \in Producers, Producer(p)
  PROVE  Typed'
<1> USE MaxPutsAssumption, CapacityAssumption DEF Typed, TypeOK, Begun, ProducerPC
<1>1. CASE Put(p)
  <2>1. pc' \in [Producers -> ProducerPC] /\ puts' \in [Producers -> 0..MaxPuts]
    BY <1>1 DEF Put, Goto
  <2>2. Begun'
    BY <1>1 DEF Put, Goto
  <2> QED BY <1>1, <2>1, <2>2 DEF Put, bufferVars, consumerVars
<1>2. CASE LoadWritePos(p)
  BY <1>2 DEF LoadWritePos, Goto, bufferVars, consumerVars
<1>3. CASE SlotFree(p) \/ SlotTaken(p)
  BY <1>3 DEF SlotFree, SlotTaken, Jump, Goto, bufferVars, consumerVars
<1>4. CASE FullDropNewest(p)
  BY <1>4 DEF FullDropNewest, Goto, bufferVars, consumerVars
<1>5. CASE FullBlockProducer(p) \/ FullDropOldest(p)
  BY <1>5 DEF FullBlockProducer, FullDropOldest, Jump, Goto, bufferVars, consumerVars
<1>6. CASE Claim(p)
  <2>1. Item(p) \in Items
    BY <1>6, ItemType DEF Claim, ClaimIf, Goto
  <2> QED BY <1>6, <2>1 DEF Claim, ClaimIf, Goto, consumerVars
<1>7. CASE ClaimFails(p)
  BY <1>7 DEF ClaimFails, Goto, bufferVars, consumerVars
<1>8. CASE Write(p)
  <2>1. Item(p) \in Items
    BY <1>8, ItemType DEF Write, Goto
  <2> QED BY <1>8, <2>1 DEF Write, Goto, consumerVars
<1>9. CASE Publish(p)
  <2>1. sequence' \in [SlotIndices -> Nat]
    BY <1>9, StoreType DEF Publish, PublishAs
  <2> QED BY <1>9, <2>1 DEF Publish, PublishAs, StoreSequence, Goto, consumerVars
<1>10. CASE LoadReadPos(p)
  BY <1>10 DEF LoadReadPos, Goto, bufferVars, consumerVars
<1>11. CASE OldestReady(p) \/ OldestNotReady(p) \/ DiscardFails(p)
  BY <1>11 DEF OldestReady, OldestNotReady, DiscardFails, Jump, Goto, bufferVars,
     consumerVars
<1>12. CASE Discard(p)
  <2>1. discarded' \subseteq Nat
    BY <1>12 DEF Discard, DiscardIf
  <2> QED BY <1>12, <2>1 DEF Discard, DiscardIf, Goto, consumerVars
<1>13. CASE ReleaseDiscarded(p)
  <2>1. sequence' \in [SlotIndices -> Nat]
    BY <1>13, StoreType DEF ReleaseDiscarded, ReleaseDiscardedAs
  <2> QED
    BY <1>13, <2>1
    DEF ReleaseDiscarded, ReleaseDiscardedAs, StoreSequence, Goto, consumerVars
<1> QED
  BY <1>1, <1>2, <1>3, <1>4, <1>5, <1>6, <1>7, <1>8, <1>9, <1>10, <1>11, <1>12, <1>13
  DEF Producer

\* No step of the consumer does.
LEMMA TypedConsumer ==
  ASSUME Typed, Consumer
  PROVE  Typed'
<1> USE CapacityAssumption DEF Typed, TypeOK, Begun, ConsumerPC
<1>1. CASE LoadPop
  BY <1>1 DEF LoadPop, bufferVars, producerVars
<1>2. CASE CheckPop
  BY <1>2 DEF CheckPop, CheckPopIf, bufferVars, producerVars
<1>3. CASE Move
  <2>1. Slot(cpos) \in SlotIndices
    BY SlotInRange
  <2> QED BY <1>3, <2>1 DEF Move, producerVars
<1>4. CASE Release
  <2>1. sequence' \in [SlotIndices -> Nat]
    BY <1>4, StoreType DEF Release, ReleaseAs
  <2> QED BY <1>4, <2>1 DEF Release, ReleaseAs, StoreSequence, producerVars
<1>5. CASE Advance
  BY <1>5 DEF Advance, AdvanceTo, producerVars
<1> QED BY <1>1, <1>2, <1>3, <1>4, <1>5 DEF Consumer

\* The typing is inductive.
LEMMA TypedStep == Typed /\ [Next]_vars => Typed'
<1> SUFFICES ASSUME Typed, [Next]_vars PROVE Typed'
  OBVIOUS
<1>1. CASE Next
  BY <1>1, TypedProducer, TypedConsumer DEF Next
<1>2. CASE UNCHANGED vars
  BY <1>2 DEF Typed, TypeOK, Begun, vars, bufferVars, producerVars, consumerVars
<1> QED BY <1>1, <1>2

\* Every reachable state of the buffer is typed, and every put in progress was begun.
THEOREM TypedInvariant == Spec => []Typed
<1> QED BY TypedInit, TypedStep, PTL DEF Spec

\* The ring buffer keeps every variable in its type, for any number of
\* producers, any capacity, and all three backpressure strategies.
THEOREM TypeCorrect == Spec => []TypeOK
<1>1. Typed => TypeOK
  BY DEF Typed
<1> QED BY <1>1, TypedInvariant, PTL

-----------------------------------------------------------------------------
(* The inductive invariant of a queue that does not overwrite (DROP_NEWEST *)
(* and BLOCK_PRODUCER), or that overwrites while nobody pops.  The claimed *)
(* positions that were neither popped nor discarded form the window        *)
(* Freed .. write_pos - 1.  It never spans more than one lap, so each of   *)
(* its positions has a slot to itself, and the slot's sequence number      *)
(* tells how far the position has come.  Behind the window are positions   *)
(* that a producer has discarded and whose slots it has still to release.  *)

\* Producer p owns position pos[p]: it has claimed it and not yet published it.
Owns(p) == pc[p] \in {"write", "publish"}

\* Producer p has discarded position rpos[p] and not yet released its slot.
Discards(p) == pc[p] = "rrelease"

\* Only DROP_OLDEST overwrites, and then put and get exclude each other.
ApartInv ==
  /\ strategy = "DROP_OLDEST" => Exclusive
  /\ strategy = "DROP_OLDEST" => cpc = "idle" \/ \A p \in Producers : pc[p] = "idle"
  /\ \A p \in Producers :
       pc[p] \in {"rload", "rcheck", "discard", "rrelease"} => strategy = "DROP_OLDEST"

\* The consumer works on the position _read_pos names, and only it moves it.
ConsumerInv ==
  /\ cpc # "idle" => cpos = read_pos
  /\ cpc \in {"move", "release"} => sequence[Slot(cpos)] = cpos + 1 /\ cpos < write_pos

\* The window, and what the sequence numbers say inside it, in the free slots
\* beyond it and in the slots of positions long gone.
WindowInv ==
  /\ Freed <= write_pos /\ write_pos <= Freed + Capacity
  /\ \A q \in Freed..(write_pos - 1) :
        \/ sequence[Slot(q)] = q + 1
        \/ sequence[Slot(q)] = q /\ \E p \in Producers : Owns(p) /\ pos[p] = q
  /\ \A q \in write_pos..(Freed + Capacity - 1) :
        \/ sequence[Slot(q)] = q
        \/ \E p \in Producers : Discards(p) /\ rpos[p] + Capacity = q
  /\ \A q \in 0..(Freed - 1) : sequence[Slot(q)] >= q

\* Owned positions are in the window, unpublished and distinct; a position that
\* was loaded is never ahead of _write_pos, and one found free stays free until
\* it is claimed.
ProducerInv ==
  /\ \A p \in Producers : Owns(p) =>
        Freed <= pos[p] /\ pos[p] < write_pos /\ sequence[Slot(pos[p])] = pos[p]
  /\ \A p, q \in Producers : Owns(p) /\ Owns(q) /\ pos[p] = pos[q] => p = q
  /\ \A p \in Producers : pc[p] \in {"check", "claim"} => pos[p] <= write_pos
  /\ \A p \in Producers :
        pc[p] = "claim" /\ pos[p] = write_pos => sequence[Slot(pos[p])] = pos[p]

\* Discarded positions are just behind the window, published and distinct; a
\* position that was loaded from _read_pos is never ahead of it, and one found
\* published stays so until it is discarded.
OverwriteInv ==
  /\ \A p \in Producers : Discards(p) =>
        /\ rpos[p] < read_pos /\ write_pos <= rpos[p] + Capacity
        /\ sequence[Slot(rpos[p])] = rpos[p] + 1
  /\ \A p, q \in Producers : Discards(p) /\ Discards(q) /\ rpos[p] = rpos[q] => p = q
  /\ \A p \in Producers : pc[p] \in {"rcheck", "discard"} => rpos[p] <= read_pos
  /\ \A p \in Producers :
        pc[p] = "discard" /\ rpos[p] = read_pos =>
          rpos[p] < write_pos /\ sequence[Slot(rpos[p])] = rpos[p] + 1

\* The contents: what was claimed is in its producer's hands, in its slot, or in
\* the consumer's hands, always at its own position.
DataInv ==
  /\ Len(log) = write_pos
  /\ \A p \in Producers : Owns(p) => log[pos[p] + 1] = Item(p)
  /\ \A p \in Producers : pc[p] = "publish" => data[Slot(pos[p])] = Item(p)
  /\ \A q \in Freed..(write_pos - 1) :
        sequence[Slot(q)] = q + 1 /\ ~ (cpc = "release" /\ q = cpos)
          => data[Slot(q)] = log[q + 1]
  /\ cpc \in {"release", "advance"} => result = log[cpos + 1]

\* What lies behind _read_pos was delivered, in order and intact, or discarded;
\* without overwriting it was all delivered.
HistoryInv ==
  /\ \A i \in DOMAIN delivered :
        delivered[i].pos < read_pos /\ delivered[i].item = log[delivered[i].pos + 1]
  /\ \A i, j \in DOMAIN delivered : i < j => delivered[i].pos < delivered[j].pos
  /\ \A q \in 0..(read_pos - 1) :
        q \in discarded \/ \E i \in DOMAIN delivered : delivered[i].pos = q
  /\ strategy # "DROP_OLDEST" =>
        /\ Len(delivered) = read_pos
        /\ \A i \in 1..read_pos : delivered[i] = [pos |-> i - 1, item |-> log[i]]

\* The inductive invariant.
IInv ==
  /\ Typed /\ ApartInv /\ ConsumerInv /\ WindowInv /\ ProducerInv /\ OverwriteInv
  /\ DataInv /\ HistoryInv

\* An empty buffer satisfies the invariant.
LEMMA InvInit ==
  ASSUME "DROP_OLDEST" \in Strategies => Exclusive, Init
  PROVE  IInv
<1>1. Typed
  BY TypedInit
<1>2. \A q \in SlotIndices : Slot(q) = q
  BY CapacityAssumption DEF Slot, SlotIndices
<1>3. ApartInv /\ ConsumerInv /\ OverwriteInv
  BY DEF Init, ApartInv, ConsumerInv, OverwriteInv, Discards
<1>4. WindowInv /\ ProducerInv
  BY <1>2, CapacityAssumption DEF Init, WindowInv, ProducerInv, Freed, Owns, SlotIndices
<1>5. DataInv /\ HistoryInv
  BY DEF Init, DataInv, HistoryInv, Freed, Owns
<1> QED BY <1>1, <1>3, <1>4, <1>5 DEF IInv

\* What get returned carries a position.
LEMMA DeliveredType ==
  ASSUME TypeOK
  PROVE  \A i \in DOMAIN delivered : delivered[i].pos \in Nat
<1> DEFINE R == [pos : Nat, item : Items \cup {NoItem, Torn}]
<1>1. delivered \in Seq(R)
  BY DEF TypeOK
<1>2. \A r \in R : r.pos \in Nat
  OBVIOUS
<1> HIDE DEF R
<1>3. \A i \in DOMAIN delivered : delivered[i] \in R
  BY <1>1
<1> QED BY <1>2, <1>3

\* While the consumer is in pop, no producer is overwriting.
LEMMA PopIsApart ==
  ASSUME IInv, cpc # "idle", NEW p \in Producers
  PROVE  pc[p] \notin {"rload", "rcheck", "discard", "rrelease"} /\ ~ Discards(p)
BY DEF IInv, ApartInv, Discards

\* Nor is the consumer in pop while a producer that may overwrite is in put.
LEMMA PutIsApart ==
  ASSUME IInv, NEW p \in Producers, pc[p] # "idle", strategy = "DROP_OLDEST"
  PROVE  cpc = "idle"
BY DEF IInv, ApartInv

\* The steps that move one producer and leave the buffer alone.
LEMMA InvLocalStep ==
  ASSUME IInv, NEW p \in Producers, Typed',
         UNCHANGED <<bufferVars, log, discarded, consumerVars>>,
         \A q \in Producers \ {p} : /\ pc'[q] = pc[q] /\ pos'[q] = pos[q]
                                    /\ rpos'[q] = rpos[q] /\ puts'[q] = puts[q],
         ~ Owns(p), ~ Discards(p), strategy = "DROP_OLDEST" => cpc = "idle",
         pc'[p] \notin {"write", "publish", "rrelease"},
         pc'[p] \in {"rload", "rcheck", "discard"} => strategy = "DROP_OLDEST",
         pc'[p] \in {"check", "claim"} => pos'[p] <= write_pos,
         pc'[p] = "claim" /\ pos'[p] = write_pos => sequence[Slot(pos'[p])] = pos'[p],
         pc'[p] \in {"rcheck", "discard"} => rpos'[p] <= read_pos,
         pc'[p] = "discard" /\ rpos'[p] = read_pos =>
           rpos'[p] < write_pos /\ sequence[Slot(rpos'[p])] = rpos'[p] + 1
  PROVE  IInv'
<1> USE DEF IInv, bufferVars, consumerVars
<1>1. Freed' = Freed
  BY DEF Freed
<1>2. \A q \in Producers : Owns(q)' => q # p /\ Owns(q) /\ Item(q)' = Item(q)
  BY DEF Owns, Item
<1>3. \A q \in Producers : Owns(q) => q # p /\ Owns(q)'
  BY DEF Owns
<1>4. \A q \in Producers : (Discards(q)' <=> Discards(q)) /\ (Discards(q) => q # p)
  BY DEF Discards
<1>5. ApartInv'
  BY DEF ApartInv
<1>6. ConsumerInv'
  BY DEF ConsumerInv
<1>7. WindowInv'
  BY <1>1, <1>3, <1>4 DEF WindowInv
<1>8. ProducerInv'
  BY <1>1, <1>2 DEF ProducerInv
<1>9. OverwriteInv'
  BY <1>4 DEF OverwriteInv
<1>10. DataInv'
  BY <1>1, <1>2 DEF DataInv, Owns
<1>11. HistoryInv'
  BY DEF HistoryInv
<1> QED BY <1>5, <1>6, <1>7, <1>8, <1>9, <1>10, <1>11

\* In the window and one lap beyond its start, different positions have
\* different slots.
LEMMA WindowSlots ==
  ASSUME NEW f \in Nat, NEW a \in f..(f + Capacity - 1), NEW b \in f..(f + Capacity - 1),
         Slot(a) = Slot(b)
  PROVE  a = b
BY SlotInjective, CapacityAssumption

\* A free slot at the end of the window means that the window is shorter than a lap
\* and that no discarded position still occupies the slot.
LEMMA RoomToClaim ==
  ASSUME IInv, sequence[Slot(write_pos)] = write_pos
  PROVE  /\ write_pos < Freed + Capacity
         /\ \A p \in Producers : Discards(p) => rpos[p] + Capacity # write_pos
<1> USE DEF IInv
<1>1. /\ Freed \in Nat /\ write_pos \in Nat /\ rpos \in [Producers -> Nat]
      /\ Freed <= write_pos /\ write_pos <= Freed + Capacity
  BY DEF Freed, Typed, TypeOK, WindowInv
<1>2. write_pos # Freed + Capacity
  <2> SUFFICES ASSUME write_pos = Freed + Capacity PROVE FALSE
    OBVIOUS
  <2>1. Slot(write_pos) = Slot(Freed)
    BY <1>1, SlotNextLap
  <2>2. Freed \in Freed..(write_pos - 1)
    BY <1>1, CapacityAssumption
  <2>3. sequence[Slot(Freed)] \in {Freed, Freed + 1}
    BY <2>2 DEF WindowInv
  <2> QED BY <1>1, <2>1, <2>3, CapacityAssumption
<1>3. ASSUME NEW p \in Producers, Discards(p), rpos[p] + Capacity = write_pos PROVE FALSE
  <2>1. Slot(write_pos) = Slot(rpos[p]) /\ rpos[p] \in Nat
    BY <1>1, <1>3, SlotNextLap
  <2>2. sequence[Slot(rpos[p])] = rpos[p] + 1
    BY <1>3 DEF OverwriteInv
  <2> QED BY <1>3, <2>1, <2>2, CapacityAssumption
<1> QED BY <1>1, <1>2, <1>3, CapacityAssumption

\* A producer claims a position.
LEMMA InvClaim ==
  ASSUME IInv, NEW p \in Producers, Typed', Claim(p)
  PROVE  IInv'
<1> USE DEF IInv, consumerVars
<1>1. /\ pc[p] = "claim" /\ pc' = [pc EXCEPT ![p] = "write"]
      /\ write_pos = pos[p] /\ write_pos' = write_pos + 1
      /\ log' = Append(log, Item(p))
      /\ UNCHANGED <<strategy, read_pos, sequence, data, pos, rpos, puts, discarded,
                     cpc, cpos, result, delivered>>
  BY DEF Claim, ClaimIf, Goto
<1>2. Freed' = Freed /\ Freed \in Nat /\ write_pos \in Nat
  BY <1>1 DEF Freed, Typed, TypeOK
<1>3. /\ Freed <= write_pos /\ write_pos < Freed + Capacity
      /\ sequence[Slot(write_pos)] = write_pos
      /\ \A r \in Producers : Discards(r) => rpos[r] + Capacity # write_pos
  <2>1. sequence[Slot(write_pos)] = write_pos
    BY <1>1 DEF ProducerInv
  <2> QED BY <2>1, RoomToClaim DEF WindowInv
<1>4. \A q \in Producers : /\ Owns(q)' <=> Owns(q) \/ q = p
                           /\ Discards(q)' <=> Discards(q)
  BY <1>1 DEF Owns, Discards, Typed, TypeOK
<1>5. Owns(p)' /\ ~ Owns(p) /\ (\A q \in Producers : Item(q)' = Item(q))
  BY <1>1, <1>4 DEF Owns, Item
<1>6. log \in Seq(Items) /\ Len(log) = write_pos
  BY DEF Typed, TypeOK, DataInv
<1>7. Item(p) \in Items
  BY <1>1, ItemType
<1>8. /\ Len(log') = write_pos + 1 /\ log'[write_pos + 1] = Item(p)
      /\ \A i \in 1..write_pos : log'[i] = log[i]
  BY <1>1, <1>2, <1>6, <1>7
<1>9. ApartInv' /\ ConsumerInv'
  <2>1. \A r \in Producers : pc'[r] = (IF r = p THEN "write" ELSE pc[r])
    BY <1>1 DEF Typed, TypeOK
  <2>2. ApartInv'
    BY <1>1, <2>1 DEF ApartInv
  <2>3. ConsumerInv'
    BY <1>1, <1>2 DEF ConsumerInv, Typed, TypeOK
  <2> QED BY <2>2, <2>3
<1>10. WindowInv'
  <2>1. (Freed <= write_pos)' /\ (write_pos <= Freed + Capacity)'
    BY <1>1, <1>2, <1>3, CapacityAssumption
  <2>2. (\A q \in Freed..(write_pos - 1) :
           \/ sequence[Slot(q)] = q + 1
           \/ sequence[Slot(q)] = q /\ \E r \in Producers : Owns(r) /\ pos[r] = q)'
    BY <1>1, <1>2, <1>3, <1>4 DEF WindowInv
  <2>3. (\A q \in write_pos..(Freed + Capacity - 1) :
           \/ sequence[Slot(q)] = q
           \/ \E r \in Producers : Discards(r) /\ rpos[r] + Capacity = q)'
    BY <1>1, <1>2, <1>3, <1>4, CapacityAssumption DEF WindowInv
  <2>4. (\A q \in 0..(Freed - 1) : sequence[Slot(q)] >= q)'
    BY <1>1, <1>2 DEF WindowInv
  <2> QED BY <2>1, <2>2, <2>3, <2>4 DEF WindowInv
<1>11. ProducerInv' /\ OverwriteInv'
  <2>1. \A r \in Producers : /\ pos[r] \in Nat /\ rpos[r] \in Nat
                             /\ pc'[r] = (IF r = p THEN "write" ELSE pc[r])
    BY <1>1 DEF Typed, TypeOK
  <2>2. ProducerInv'
    BY <1>1, <1>2, <1>3, <1>4, <2>1 DEF ProducerInv
  <2>3. read_pos \in Nat
    BY DEF Typed, TypeOK
  <2>4. \A r \in Producers : Discards(r) => write_pos + 1 <= rpos[r] + Capacity
    BY <1>2, <1>3, <2>1, CapacityAssumption DEF OverwriteInv
  <2>5. (\A r \in Producers : Discards(r) =>
           /\ rpos[r] < read_pos /\ write_pos <= rpos[r] + Capacity
           /\ sequence[Slot(rpos[r])] = rpos[r] + 1)'
    BY <1>1, <1>4, <2>4 DEF OverwriteInv
  <2>6. OverwriteInv'
    BY <1>1, <1>2, <1>4, <2>1, <2>3, <2>5 DEF OverwriteInv
  <2> QED BY <2>2, <2>6
<1>12. DataInv'
  <2>1. (\A r \in Producers : Owns(r) => log[pos[r] + 1] = Item(r))'
    <3> SUFFICES ASSUME NEW r \in Producers, Owns(r)'
                 PROVE  log'[pos[r] + 1] = Item(r)
      BY <1>1, <1>5
    <3>1. CASE r = p
      BY <3>1, <1>1, <1>8
    <3>2. CASE r # p
      <4>1. Owns(r) /\ pos[r] \in Nat /\ pos[r] < write_pos
        BY <3>2, <1>4 DEF ProducerInv, Typed, TypeOK
      <4> QED BY <4>1, <1>2, <1>8 DEF DataInv
    <3> QED BY <3>1, <3>2
  <2>2. (\A r \in Producers : pc[r] = "publish" => data[Slot(pos[r])] = Item(r))'
    BY <1>1, <1>5 DEF DataInv, Typed, TypeOK
  <2>3. (\A q \in Freed..(write_pos - 1) :
           sequence[Slot(q)] = q + 1 /\ ~ (cpc = "release" /\ q = cpos)
             => data[Slot(q)] = log[q + 1])'
    <3>1. ASSUME NEW q \in Freed..write_pos, sequence[Slot(q)] = q + 1,
                 ~ (cpc = "release" /\ q = cpos)
          PROVE  data[Slot(q)] = log'[q + 1]
      <4>1. q # write_pos
        BY <1>2, <1>3, <3>1
      <4> QED BY <3>1, <4>1, <1>2, <1>8 DEF DataInv
    <3>2. (write_pos - 1)' = write_pos
      BY <1>1, <1>2
    <3> QED BY <3>1, <3>2, <1>1, <1>2
  <2>4. (cpc \in {"release", "advance"} => result = log[cpos + 1])'
    <3>1. cpc \in {"release", "advance"} => cpos \in Nat /\ cpos < write_pos
      BY <1>2, <1>3 DEF ConsumerInv, Freed, Typed, TypeOK
    <3> QED BY <3>1, <1>1, <1>2, <1>8 DEF DataInv
  <2> QED BY <1>1, <1>8, <2>1, <2>2, <2>3, <2>4 DEF DataInv
<1>13. HistoryInv'
  <2>1. read_pos \in Nat /\ read_pos <= write_pos
    BY <1>2, <1>3 DEF Freed, ConsumerInv, Typed, TypeOK
  <2>2. \A i \in 1..read_pos : log'[i] = log[i]
    BY <2>1, <1>2, <1>8
  <2>3. \A i \in DOMAIN delivered : delivered[i].pos \in Nat
    BY DeliveredType DEF Typed
  <2>4. (\A i \in DOMAIN delivered :
           delivered[i].pos < read_pos /\ delivered[i].item = log[delivered[i].pos + 1])'
    <3>1. ASSUME NEW i \in DOMAIN delivered
          PROVE  delivered[i].pos < read_pos /\ delivered[i].item = log'[delivered[i].pos + 1]
      <4>1. /\ delivered[i].pos \in Nat /\ delivered[i].pos < read_pos
            /\ delivered[i].item = log[delivered[i].pos + 1]
        BY <2>3 DEF HistoryInv
      <4>2. delivered[i].pos + 1 \in 1..read_pos
        BY <2>1, <4>1
      <4> QED BY <2>2, <4>1, <4>2
    <3> QED BY <1>1, <3>1
  <2>5. (strategy # "DROP_OLDEST" =>
          /\ Len(delivered) = read_pos
          /\ \A i \in 1..read_pos : delivered[i] = [pos |-> i - 1, item |-> log[i]])'
    BY <1>1, <2>2 DEF HistoryInv
  <2> QED BY <1>1, <2>4, <2>5 DEF HistoryInv
<1> QED BY <1>9, <1>10, <1>11, <1>12, <1>13

\* The owner of a position writes its item.
LEMMA InvWrite ==
  ASSUME IInv, NEW p \in Producers, Typed', Write(p)
  PROVE  IInv'
<1> USE DEF IInv, consumerVars
<1>1. /\ pc[p] = "write" /\ pc' = [pc EXCEPT ![p] = "publish"]
      /\ data' = [data EXCEPT ![Slot(pos[p])] = Item(p)]
      /\ UNCHANGED <<strategy, write_pos, read_pos, sequence, pos, rpos, puts, discarded,
                     cpc, cpos, result, log, delivered>>
  BY DEF Write, Goto
<1>2. Freed' = Freed /\ Freed \in Nat /\ write_pos \in Nat /\ pos \in [Producers -> Nat]
  BY <1>1 DEF Freed, Typed, TypeOK
<1>3. \A q \in Producers : /\ (Owns(q)' <=> Owns(q)) /\ Item(q)' = Item(q)
                           /\ (Discards(q)' <=> Discards(q))
  BY <1>1 DEF Owns, Discards, Item, Typed, TypeOK
<1>4. /\ Owns(p) /\ Freed <= pos[p] /\ pos[p] < write_pos
      /\ sequence[Slot(pos[p])] = pos[p] /\ write_pos <= Freed + Capacity
  BY <1>1 DEF Owns, ProducerInv, WindowInv
<1>5. \A q \in Freed..(write_pos - 1) :
        q # pos[p] => Slot(q) # Slot(pos[p]) /\ data'[Slot(q)] = data[Slot(q)]
  <2>1. \A q \in Freed..(write_pos - 1) : q # pos[p] => Slot(q) # Slot(pos[p])
    BY <1>2, <1>4, WindowSlots, CapacityAssumption
  <2>2. \A q \in Nat : Slot(q) \in DOMAIN data
    BY SlotInRange DEF Typed, TypeOK
  <2> QED BY <1>1, <1>2, <2>1, <2>2
<1>6. \A r \in Producers : pc'[r] = (IF r = p THEN "publish" ELSE pc[r])
  BY <1>1 DEF Typed, TypeOK
<1>7. ApartInv' /\ ConsumerInv'
  BY <1>1, <1>6 DEF ApartInv, ConsumerInv
<1>8. WindowInv'
  BY <1>1, <1>2, <1>3 DEF WindowInv
<1>9. ProducerInv'
  BY <1>1, <1>2, <1>3, <1>6 DEF ProducerInv
<1>10. OverwriteInv'
  BY <1>1, <1>3, <1>6 DEF OverwriteInv
<1>11. DataInv'
  <2>1. (\A r \in Producers : pc[r] = "publish" => data[Slot(pos[r])] = Item(r))'
    <3> SUFFICES ASSUME NEW r \in Producers, pc'[r] = "publish"
                 PROVE  data'[Slot(pos[r])] = Item(r)
      BY <1>1, <1>3
    <3>1. CASE r = p
      BY <3>1, <1>1, <1>2, SlotInRange DEF Typed, TypeOK
    <3>2. CASE r # p
      <4>1. pc[r] = "publish" /\ Owns(r)
        BY <3>2, <1>1 DEF Owns, Typed, TypeOK
      <4>2. pos[r] # pos[p] /\ pos[r] \in Freed..(write_pos - 1)
        BY <3>2, <4>1, <1>2, <1>4 DEF ProducerInv
      <4> QED BY <4>1, <4>2, <1>5 DEF DataInv
    <3> QED BY <3>1, <3>2
  <2>2. (\A q \in Freed..(write_pos - 1) :
           sequence[Slot(q)] = q + 1 /\ ~ (cpc = "release" /\ q = cpos)
             => data[Slot(q)] = log[q + 1])'
    BY <1>1, <1>2, <1>4, <1>5 DEF DataInv
  <2> QED BY <1>1, <1>3, <2>1, <2>2 DEF DataInv
<1>12. HistoryInv'
  BY <1>1 DEF HistoryInv
<1> QED BY <1>7, <1>8, <1>9, <1>10, <1>11, <1>12

\* A store of a sequence number in the slot of position a changes no other slot
\* of a lap that a belongs to.
LEMMA StoreElsewhere ==
  ASSUME TypeOK, NEW f \in Nat, NEW a \in f..(f + Capacity - 1), NEW v,
         sequence' = [sequence EXCEPT ![Slot(a)] = v]
  PROVE  /\ sequence'[Slot(a)] = v
         /\ \A q \in f..(f + Capacity - 1) : q # a => sequence'[Slot(q)] = sequence[Slot(q)]
<1>1. \A q \in Nat : Slot(q) \in DOMAIN sequence
  BY SlotInRange DEF TypeOK
<1>2. \A q \in f..(f + Capacity - 1) : q \in Nat /\ (q # a => Slot(q) # Slot(a))
  BY WindowSlots, CapacityAssumption
<1> QED BY <1>1, <1>2

\* A store that raises a sequence number leaves no slot behind.
LEMMA StoreGrows ==
  ASSUME TypeOK, NEW a \in Nat, NEW v \in Nat, sequence[Slot(a)] <= v,
         sequence' = [sequence EXCEPT ![Slot(a)] = v], NEW n \in Nat,
         \A q \in 0..(n - 1) : sequence[Slot(q)] >= q
  PROVE  \A q \in 0..(n - 1) : sequence'[Slot(q)] >= q
<1>1. \A i \in SlotIndices :
        sequence[i] \in Nat /\ sequence'[i] \in Nat /\ sequence'[i] >= sequence[i]
  BY DEF TypeOK
<1> QED BY <1>1, SlotInRange

\* ... and it changes only its own slot.
LEMMA StoreOther ==
  ASSUME TypeOK, NEW a \in Nat, NEW v, sequence' = [sequence EXCEPT ![Slot(a)] = v]
  PROVE  \A b \in Nat : Slot(b) # Slot(a) => sequence'[Slot(b)] = sequence[Slot(b)]
BY SlotInRange DEF TypeOK

\* A slot that is free for, or owned at, one position is not the slot of another
\* position that is published.
LEMMA FreeIsNotPublished ==
  ASSUME NEW a \in Nat, NEW b \in Nat, sequence[Slot(a)] = a, sequence[Slot(b)] = b + 1
  PROVE  Slot(a) # Slot(b)
<1> SUFFICES ASSUME Slot(a) = Slot(b) PROVE FALSE
  OBVIOUS
<1>1. a = b + 1
  OBVIOUS
<1> QED BY <1>1, SlotInjective, CapacityAssumption

\* The owner of a position publishes it.
LEMMA InvPublish ==
  ASSUME IInv, NEW p \in Producers, Typed', Publish(p)
  PROVE  IInv'
<1> USE DEF IInv, consumerVars
<1>1. /\ pc[p] = "publish" /\ pc' = [pc EXCEPT ![p] = "idle"]
      /\ sequence' = [sequence EXCEPT ![Slot(pos[p])] = pos[p] + 1]
      /\ UNCHANGED <<strategy, write_pos, read_pos, data, pos, rpos, puts, discarded,
                     cpc, cpos, result, log, delivered>>
  BY DEF Publish, PublishAs, StoreSequence, Goto
<1>2. /\ Freed' = Freed /\ Freed \in Nat /\ write_pos \in Nat
      /\ pos \in [Producers -> Nat] /\ rpos \in [Producers -> Nat]
  BY <1>1 DEF Freed, Typed, TypeOK
<1>3. \A q \in Producers : /\ (Owns(q)' <=> Owns(q) /\ q # p) /\ Item(q)' = Item(q)
                           /\ (Discards(q)' <=> Discards(q))
  BY <1>1 DEF Owns, Discards, Item, Typed, TypeOK
<1>4. /\ Owns(p) /\ Freed <= pos[p] /\ pos[p] < write_pos
      /\ sequence[Slot(pos[p])] = pos[p] /\ write_pos <= Freed + Capacity
  BY <1>1 DEF Owns, ProducerInv, WindowInv
<1>5. pos[p] \in Freed..(Freed + Capacity - 1)
  BY <1>2, <1>4, CapacityAssumption
<1>6. /\ sequence'[Slot(pos[p])] = pos[p] + 1
      /\ \A q \in Freed..(Freed + Capacity - 1) :
           q # pos[p] => sequence'[Slot(q)] = sequence[Slot(q)]
  BY <1>1, <1>2, <1>5, StoreElsewhere DEF Typed
<1>7. \A q \in Nat : sequence[Slot(q)] = q + 1 => sequence'[Slot(q)] = q + 1
  <2>1. \A q \in Nat : Slot(q) # Slot(pos[p]) => sequence'[Slot(q)] = sequence[Slot(q)]
    BY <1>1, <1>2, StoreOther DEF Typed
  <2> QED BY <1>2, <1>4, <2>1, FreeIsNotPublished
<1>8. \A r \in Producers : pc'[r] = (IF r = p THEN "idle" ELSE pc[r])
  BY <1>1 DEF Typed, TypeOK
<1>9. ApartInv' /\ ConsumerInv'
  <2>1. ApartInv'
    BY <1>1, <1>8 DEF ApartInv
  <2>2. cpos \in Nat
    BY DEF Typed, TypeOK
  <2>3. ConsumerInv'
    BY <1>1, <1>7, <2>2 DEF ConsumerInv
  <2> QED BY <2>1, <2>3
<1>10. WindowInv'
  <2>1. (\A q \in Freed..(write_pos - 1) :
           \/ sequence[Slot(q)] = q + 1
           \/ sequence[Slot(q)] = q /\ \E r \in Producers : Owns(r) /\ pos[r] = q)'
    BY <1>1, <1>2, <1>3, <1>4, <1>6, CapacityAssumption DEF WindowInv
  <2>2. (\A q \in write_pos..(Freed + Capacity - 1) :
           \/ sequence[Slot(q)] = q
           \/ \E r \in Producers : Discards(r) /\ rpos[r] + Capacity = q)'
    BY <1>1, <1>2, <1>3, <1>4, <1>6, CapacityAssumption DEF WindowInv
  <2>3. (\A q \in 0..(Freed - 1) : sequence[Slot(q)] >= q)'
    <3>1. \A q \in 0..(Freed - 1) : sequence[Slot(q)] >= q
      BY DEF WindowInv
    <3>2. pos[p] \in Nat /\ pos[p] + 1 \in Nat /\ sequence[Slot(pos[p])] <= pos[p] + 1 /\ TypeOK
      BY <1>2, <1>4 DEF Typed
    <3>3. \A q \in 0..(Freed - 1) : sequence'[Slot(q)] >= q
      BY <1>1, <1>2, <3>1, <3>2, StoreGrows
    <3> QED BY <1>2, <3>3
  <2> QED BY <1>1, <1>2, <2>1, <2>2, <2>3 DEF WindowInv
<1>11. ProducerInv'
  <2>1. \A r \in Producers : Owns(r)' =>
          pos[r] # pos[p] /\ pos[r] \in Freed..(Freed + Capacity - 1)
    BY <1>2, <1>3, <1>4, CapacityAssumption DEF ProducerInv
  <2>2. ASSUME NEW r \in Producers, pc'[r] = "claim", pos[r] = write_pos
        PROVE  sequence'[Slot(pos[r])] = pos[r]
    <3>1. sequence[Slot(write_pos)] = write_pos
      BY <1>8, <2>2 DEF ProducerInv
    <3>2. write_pos \in Freed..(Freed + Capacity - 1) /\ write_pos # pos[p]
      BY <1>2, <1>4, <3>1, RoomToClaim, CapacityAssumption
    <3> QED BY <1>6, <2>2, <3>1, <3>2
  <2> QED BY <1>1, <1>2, <1>3, <1>6, <1>8, <2>1, <2>2 DEF ProducerInv
<1>12. OverwriteInv'
  BY <1>1, <1>2, <1>3, <1>7, <1>8 DEF OverwriteInv
<1>13. DataInv'
  <2>1. (\A q \in Freed..(write_pos - 1) :
           sequence[Slot(q)] = q + 1 /\ ~ (cpc = "release" /\ q = cpos)
             => data[Slot(q)] = log[q + 1])'
    <3>1. data[Slot(pos[p])] = log[pos[p] + 1]
      BY <1>1, <1>4 DEF DataInv
    <3> QED BY <3>1, <1>1, <1>2, <1>4, <1>6, CapacityAssumption DEF DataInv
  <2>2. \A r \in Producers : pc'[r] = "publish" => pc[r] = "publish"
    BY <1>1 DEF Typed, TypeOK
  <2> QED BY <1>1, <1>3, <2>1, <2>2 DEF DataInv
<1>14. HistoryInv'
  BY <1>1 DEF HistoryInv
<1> QED BY <1>9, <1>10, <1>11, <1>12, <1>13, <1>14

\* A producer discards the oldest item: the window shrinks, and the producer has
\* the slot to release.
LEMMA InvDiscard ==
  ASSUME IInv, NEW p \in Producers, Typed', Discard(p)
  PROVE  IInv'
<1> USE DEF IInv, consumerVars
<1>1. /\ pc[p] = "discard" /\ pc' = [pc EXCEPT ![p] = "rrelease"]
      /\ read_pos = rpos[p] /\ read_pos' = read_pos + 1
      /\ discarded' = discarded \cup {read_pos}
      /\ UNCHANGED <<strategy, write_pos, sequence, data, pos, rpos, puts, cpc, cpos,
                     result, log, delivered>>
  BY DEF Discard, DiscardIf, Goto
<1>2. strategy = "DROP_OLDEST" /\ cpc = "idle"
  <2>1. strategy = "DROP_OLDEST"
    BY <1>1 DEF ApartInv
  <2> QED BY <1>1, <2>1, PutIsApart
<1>3. /\ Freed = read_pos /\ Freed' = read_pos + 1 /\ read_pos \in Nat /\ write_pos \in Nat
      /\ pos \in [Producers -> Nat] /\ rpos \in [Producers -> Nat]
  BY <1>1, <1>2 DEF Freed, Typed, TypeOK
<1>4. /\ read_pos < write_pos /\ sequence[Slot(read_pos)] = read_pos + 1
      /\ write_pos <= read_pos + Capacity
  BY <1>1, <1>3 DEF OverwriteInv, WindowInv
<1>5. \A q \in Producers : /\ (Owns(q)' <=> Owns(q)) /\ Item(q)' = Item(q)
                           /\ (Discards(q)' <=> Discards(q) \/ q = p)
  BY <1>1 DEF Owns, Discards, Item, Typed, TypeOK
<1>6. \A r \in Producers : pc'[r] = (IF r = p THEN "rrelease" ELSE pc[r])
  BY <1>1 DEF Typed, TypeOK
<1>7. ApartInv' /\ ConsumerInv'
  BY <1>1, <1>2, <1>6 DEF ApartInv, ConsumerInv
<1>8. WindowInv'
  <2>1. (Freed <= write_pos)' /\ (write_pos <= Freed + Capacity)'
    BY <1>1, <1>3, <1>4, CapacityAssumption
  <2>2. (\A q \in Freed..(write_pos - 1) :
           \/ sequence[Slot(q)] = q + 1
           \/ sequence[Slot(q)] = q /\ \E r \in Producers : Owns(r) /\ pos[r] = q)'
    BY <1>1, <1>3, <1>5 DEF WindowInv
  <2>3. (\A q \in write_pos..(Freed + Capacity - 1) :
           \/ sequence[Slot(q)] = q
           \/ \E r \in Producers : Discards(r) /\ rpos[r] + Capacity = q)'
    BY <1>1, <1>3, <1>5, CapacityAssumption DEF WindowInv
  <2>4. (\A q \in 0..(Freed - 1) : sequence[Slot(q)] >= q)'
    BY <1>1, <1>3, <1>4 DEF WindowInv
  <2> QED BY <2>1, <2>2, <2>3, <2>4 DEF WindowInv
<1>9. ProducerInv'
  <2>1. \A r \in Producers : Owns(r) => read_pos + 1 <= pos[r]
    BY <1>3, <1>4 DEF ProducerInv
  <2> QED BY <1>1, <1>3, <1>5, <1>6, <2>1 DEF ProducerInv
<1>10. OverwriteInv'
  BY <1>1, <1>3, <1>4, <1>5, <1>6 DEF OverwriteInv
<1>11. DataInv'
  BY <1>1, <1>2, <1>3, <1>5, <1>6 DEF DataInv
<1>12. HistoryInv'
  <2>1. \A i \in DOMAIN delivered : delivered[i].pos \in Nat
    BY DeliveredType DEF Typed
  <2> QED BY <1>1, <1>2, <1>3, <2>1 DEF HistoryInv
<1> QED BY <1>7, <1>8, <1>9, <1>10, <1>11, <1>12

\* The producer releases the slot of the position it has discarded.
LEMMA InvReleaseDiscarded ==
  ASSUME IInv, NEW p \in Producers, Typed', ReleaseDiscarded(p)
  PROVE  IInv'
<1> USE DEF IInv, consumerVars
<1>1. /\ pc[p] = "rrelease" /\ pc' = [pc EXCEPT ![p] = "load"]
      /\ sequence' = [sequence EXCEPT ![Slot(rpos[p])] = rpos[p] + Capacity]
      /\ UNCHANGED <<strategy, write_pos, read_pos, data, pos, rpos, puts, discarded,
                     cpc, cpos, result, log, delivered>>
  BY DEF ReleaseDiscarded, ReleaseDiscardedAs, StoreSequence, Goto
<1>2. strategy = "DROP_OLDEST" /\ cpc = "idle"
  <2>1. strategy = "DROP_OLDEST"
    BY <1>1 DEF ApartInv
  <2> QED BY <1>1, <2>1, PutIsApart
<1>3. /\ Freed' = Freed /\ Freed = read_pos /\ read_pos \in Nat /\ write_pos \in Nat
      /\ pos \in [Producers -> Nat] /\ rpos \in [Producers -> Nat]
  BY <1>1, <1>2 DEF Freed, Typed, TypeOK
<1>4. /\ Discards(p) /\ rpos[p] < read_pos /\ write_pos <= rpos[p] + Capacity
      /\ sequence[Slot(rpos[p])] = rpos[p] + 1
  BY <1>1 DEF Discards, OverwriteInv
<1>5. \A q \in Producers : /\ (Owns(q)' <=> Owns(q)) /\ Item(q)' = Item(q)
                           /\ (Discards(q)' <=> Discards(q) /\ q # p)
  BY <1>1 DEF Owns, Discards, Item, Typed, TypeOK
<1>6. \A r \in Producers : pc'[r] = (IF r = p THEN "load" ELSE pc[r])
  BY <1>1 DEF Typed, TypeOK
<1>7. \A q \in Nat : Slot(q) # Slot(rpos[p]) => sequence'[Slot(q)] = sequence[Slot(q)]
  BY <1>1, <1>3, StoreOther DEF Typed
<1>8. \A q \in Nat : sequence[Slot(q)] = q => sequence'[Slot(q)] = q
  BY <1>3, <1>4, <1>7, FreeIsNotPublished
<1>9. \A q \in Nat : sequence[Slot(q)] = q + 1 /\ q # rpos[p] => sequence'[Slot(q)] = q + 1
  BY <1>3, <1>4, <1>7
<1>10. \A q \in Freed..(write_pos - 1) : sequence'[Slot(q)] = sequence[Slot(q)]
  <2> SUFFICES ASSUME NEW q \in Freed..(write_pos - 1) PROVE Slot(q) # Slot(rpos[p])
    BY <1>3, <1>7
  <2>1. rpos[p] \in Nat /\ q \in Nat /\ rpos[p] < q /\ q < rpos[p] + Capacity
    BY <1>3, <1>4, CapacityAssumption
  <2> QED BY <2>1, SlotInjective
<1>11. ApartInv' /\ ConsumerInv'
  BY <1>1, <1>2, <1>6 DEF ApartInv, ConsumerInv
<1>12. WindowInv'
  <2>1. (\A q \in Freed..(write_pos - 1) :
           \/ sequence[Slot(q)] = q + 1
           \/ sequence[Slot(q)] = q /\ \E r \in Producers : Owns(r) /\ pos[r] = q)'
    BY <1>1, <1>3, <1>5, <1>10 DEF WindowInv
  <2>2. (\A q \in write_pos..(Freed + Capacity - 1) :
           \/ sequence[Slot(q)] = q
           \/ \E r \in Producers : Discards(r) /\ rpos[r] + Capacity = q)'
    <3> SUFFICES ASSUME NEW q \in write_pos..(Freed + Capacity - 1)
                 PROVE  \/ sequence'[Slot(q)] = q
                        \/ \E r \in Producers : Discards(r)' /\ rpos[r] + Capacity = q
      BY <1>1, <1>3
    <3>1. q \in Nat
      BY <1>3, CapacityAssumption
    <3>2. CASE q = rpos[p] + Capacity
      <4>1. Slot(q) = Slot(rpos[p])
        BY <1>3, <3>2, SlotNextLap
      <4>2. sequence'[Slot(rpos[p])] = rpos[p] + Capacity
        BY <1>1, <1>3, SlotInRange DEF Typed, TypeOK
      <4> QED BY <3>2, <4>1, <4>2
    <3>3. CASE q # rpos[p] + Capacity /\ sequence[Slot(q)] = q
      BY <1>8, <3>1, <3>3
    <3>4. CASE \E r \in Producers : q # rpos[p] + Capacity /\ Discards(r) /\ rpos[r] + Capacity = q
      BY <1>5, <3>4
    <3> QED BY <3>2, <3>3, <3>4 DEF WindowInv
  <2>3. (\A q \in 0..(Freed - 1) : sequence[Slot(q)] >= q)'
    <3>1. \A q \in 0..(Freed - 1) : sequence[Slot(q)] >= q
      BY DEF WindowInv
    <3>2. /\ rpos[p] \in Nat /\ rpos[p] + Capacity \in Nat /\ TypeOK
          /\ sequence[Slot(rpos[p])] <= rpos[p] + Capacity
      BY <1>3, <1>4, CapacityAssumption DEF Typed
    <3>3. \A q \in 0..(Freed - 1) : sequence'[Slot(q)] >= q
      BY <1>1, <1>3, <3>1, <3>2, StoreGrows
    <3> QED BY <1>3, <3>3
  <2> QED BY <1>1, <1>3, <2>1, <2>2, <2>3 DEF WindowInv
<1>13. ProducerInv'
  BY <1>1, <1>3, <1>5, <1>6, <1>8 DEF ProducerInv
<1>14. OverwriteInv'
  BY <1>1, <1>3, <1>4, <1>5, <1>6, <1>9 DEF OverwriteInv
<1>15. DataInv'
  BY <1>1, <1>2, <1>3, <1>5, <1>6, <1>10 DEF DataInv
<1>16. HistoryInv'
  BY <1>1 DEF HistoryInv
<1> QED BY <1>11, <1>12, <1>13, <1>14, <1>15, <1>16

\* The consumer loads the position it will look at.
LEMMA InvLoadPop ==
  ASSUME IInv, Typed', LoadPop
  PROVE  IInv'
<1> USE DEF IInv, bufferVars, producerVars
<1>1. /\ cpc = "idle" /\ cpc' = "check" /\ cpos' = read_pos
      /\ UNCHANGED <<bufferVars, producerVars, result, delivered>>
      /\ Exclusive /\ strategy = "DROP_OLDEST" => \A p \in Producers : pc[p] = "idle"
  BY DEF LoadPop
<1>2. Freed' = Freed
  BY <1>1 DEF Freed
<1>3. \A q \in Producers : /\ Owns(q)' = Owns(q) /\ Item(q)' = Item(q)
                           /\ Discards(q)' = Discards(q)
  BY <1>1 DEF Owns, Discards, Item
<1>4. ApartInv' /\ ConsumerInv'
  BY <1>1 DEF ApartInv, ConsumerInv
<1>5. WindowInv'
  BY <1>1, <1>2, <1>3 DEF WindowInv
<1>6. ProducerInv' /\ OverwriteInv'
  BY <1>1, <1>2, <1>3 DEF ProducerInv, OverwriteInv
<1>7. DataInv' /\ HistoryInv'
  BY <1>1, <1>2, <1>3 DEF DataInv, HistoryInv
<1> QED BY <1>4, <1>5, <1>6, <1>7

\* The consumer goes on to a slot only if its position was claimed.
LEMMA InvCheckPop ==
  ASSUME IInv, Typed', CheckPop
  PROVE  IInv'
<1> USE DEF IInv, bufferVars, producerVars
<1>1. /\ cpc = "check" /\ cpc' \in {"move", "idle"}
      /\ cpc' = "move" => sequence[Slot(cpos)] = cpos + 1
      /\ UNCHANGED <<bufferVars, producerVars, cpos, result, delivered>>
  BY DEF CheckPop, CheckPopIf
<1>2. Freed' = Freed /\ Freed = read_pos /\ cpos = read_pos
  BY <1>1 DEF Freed, ConsumerInv
<1>3. \A q \in Producers : /\ Owns(q)' = Owns(q) /\ Item(q)' = Item(q)
                           /\ Discards(q)' = Discards(q) /\ ~ Discards(q)
  BY <1>1, PopIsApart DEF Owns, Discards, Item
<1>4. ApartInv' /\ ConsumerInv'
  <2>1. cpos \in Nat /\ write_pos \in Nat /\ cpos <= write_pos
    BY <1>2 DEF WindowInv, Typed, TypeOK
  <2>2. cpos = write_pos => sequence[Slot(cpos)] = cpos
    BY <1>2, <1>3, <2>1, CapacityAssumption DEF WindowInv
  <2> QED BY <1>1, <1>2, <2>1, <2>2 DEF ApartInv, ConsumerInv
<1>5. WindowInv'
  BY <1>1, <1>2, <1>3 DEF WindowInv
<1>6. ProducerInv' /\ OverwriteInv'
  BY <1>1, <1>2, <1>3 DEF ProducerInv, OverwriteInv
<1>7. DataInv' /\ HistoryInv'
  BY <1>1, <1>2, <1>3 DEF DataInv, HistoryInv
<1> QED BY <1>4, <1>5, <1>6, <1>7

\* While the consumer is at the data of a slot, no producer owns its position.
LEMMA PoppedNotOwned ==
  ASSUME IInv, cpc \in {"move", "release"}, NEW p \in Producers, Owns(p)
  PROVE  /\ cpos = Freed /\ cpos \in Freed..(write_pos - 1)
         /\ pos[p] \in Freed..(write_pos - 1)
         /\ pos[p] # cpos /\ Slot(pos[p]) # Slot(cpos)
<1> USE DEF IInv
<1>1. /\ cpos = Freed /\ Freed \in Nat /\ write_pos \in Nat /\ pos[p] \in Nat
      /\ cpos < write_pos /\ sequence[Slot(cpos)] = cpos + 1
  BY DEF ConsumerInv, Freed, Typed, TypeOK
<1>2. Freed <= pos[p] /\ pos[p] < write_pos /\ sequence[Slot(pos[p])] = pos[p]
  BY DEF ProducerInv
<1>3. pos[p] # cpos
  BY <1>1, <1>2
<1>4. write_pos <= Freed + Capacity
  BY DEF WindowInv
<1> QED BY <1>1, <1>2, <1>3, <1>4, WindowSlots, CapacityAssumption

\* The consumer moves the item out of its slot.
LEMMA InvMove ==
  ASSUME IInv, Typed', Move
  PROVE  IInv'
<1> USE DEF IInv, producerVars
<1>1. /\ cpc = "move" /\ cpc' = "release"
      /\ data' = [data EXCEPT ![Slot(cpos)] = NoItem]
      /\ UNCHANGED <<strategy, write_pos, read_pos, sequence, producerVars, cpos,
                     delivered>>
  BY DEF Move
<1>2. /\ Freed' = Freed /\ Freed = cpos /\ cpos = read_pos /\ cpos \in Nat
      /\ write_pos \in Nat /\ cpos < write_pos /\ write_pos <= Freed + Capacity
      /\ sequence[Slot(cpos)] = cpos + 1
  BY <1>1 DEF Freed, ConsumerInv, WindowInv, Typed, TypeOK
<1>3. \A q \in Producers : /\ Owns(q)' = Owns(q) /\ Item(q)' = Item(q)
                           /\ Discards(q)' = Discards(q)
  BY <1>1 DEF Owns, Discards, Item
<1>4. result' = log[cpos + 1]
  <2>1. \A p \in Producers : ~ Writing(p, Slot(cpos))
    BY <1>1, PoppedNotOwned DEF Writing, Owns
  <2>2. data[Slot(cpos)] = log[cpos + 1]
    BY <1>1, <1>2 DEF DataInv
  <2> QED BY <2>1, <2>2 DEF Move
<1>5. \A q \in Freed..(write_pos - 1) : q # cpos => data'[Slot(q)] = data[Slot(q)]
  <2>1. \A q \in Freed..(write_pos - 1) : q # cpos => Slot(q) # Slot(cpos)
    BY <1>2, WindowSlots, CapacityAssumption
  <2>2. \A q \in Nat : Slot(q) \in DOMAIN data
    BY SlotInRange DEF Typed, TypeOK
  <2> QED BY <1>1, <1>2, <2>1, <2>2
<1>6. ApartInv' /\ ConsumerInv'
  BY <1>1, <1>2 DEF ApartInv, ConsumerInv
<1>7. WindowInv'
  BY <1>1, <1>2, <1>3 DEF WindowInv
<1>8. ProducerInv' /\ OverwriteInv'
  BY <1>1, <1>2, <1>3 DEF ProducerInv, OverwriteInv
<1>9. DataInv'
  <2>1. (\A p \in Producers : pc[p] = "publish" => data[Slot(pos[p])] = Item(p))'
    <3>1. \A p \in Producers : pc[p] = "publish" =>
            pos[p] \in Freed..(write_pos - 1) /\ pos[p] # cpos
      BY <1>1, PoppedNotOwned DEF Owns
    <3> QED BY <1>1, <1>3, <1>5, <3>1 DEF DataInv
  <2>2. (\A q \in Freed..(write_pos - 1) :
           sequence[Slot(q)] = q + 1 /\ ~ (cpc = "release" /\ q = cpos)
             => data[Slot(q)] = log[q + 1])'
    BY <1>1, <1>2, <1>5 DEF DataInv
  <2> QED BY <1>1, <1>3, <1>4, <2>1, <2>2 DEF DataInv
<1>10. HistoryInv'
  BY <1>1 DEF HistoryInv
<1> QED BY <1>6, <1>7, <1>8, <1>9, <1>10

\* The consumer frees the slot for the next lap: the window shrinks.
LEMMA InvRelease ==
  ASSUME IInv, Typed', Release
  PROVE  IInv'
<1> USE DEF IInv, producerVars
<1>1. /\ cpc = "release" /\ cpc' = "advance"
      /\ sequence' = [sequence EXCEPT ![Slot(cpos)] = cpos + Capacity]
      /\ UNCHANGED <<strategy, write_pos, read_pos, data, producerVars, cpos, result,
                     delivered>>
  BY DEF Release, ReleaseAs, StoreSequence
<1>2. /\ Freed' = cpos + 1 /\ Freed = cpos /\ cpos = read_pos /\ cpos \in Nat
      /\ write_pos \in Nat /\ cpos < write_pos /\ write_pos <= Freed + Capacity
      /\ sequence[Slot(cpos)] = cpos + 1
  BY <1>1 DEF Freed, ConsumerInv, WindowInv, Typed, TypeOK
<1>3. \A q \in Producers : /\ Owns(q)' = Owns(q) /\ Item(q)' = Item(q)
                           /\ Discards(q)' = Discards(q) /\ ~ Discards(q)
                           /\ pc[q] \notin {"rload", "rcheck", "discard", "rrelease"}
  BY <1>1, PopIsApart DEF Owns, Discards, Item
<1>4. /\ sequence'[Slot(cpos)] = cpos + Capacity
      /\ \A q \in cpos..(cpos + Capacity - 1) :
           q # cpos => sequence'[Slot(q)] = sequence[Slot(q)]
  <2>1. Freed \in Nat /\ cpos \in Freed..(Freed + Capacity - 1)
    BY <1>2, CapacityAssumption
  <2>2. /\ sequence'[Slot(cpos)] = cpos + Capacity
        /\ \A q \in Freed..(Freed + Capacity - 1) :
             q # cpos => sequence'[Slot(q)] = sequence[Slot(q)]
    <3> HIDE DEF Freed
    <3> QED BY <1>1, <2>1, StoreElsewhere DEF Typed
  <2> QED BY <1>2, <2>2
<1>5. ApartInv' /\ ConsumerInv'
  BY <1>1, <1>2 DEF ApartInv, ConsumerInv
<1>6. WindowInv'
  <2>1. (\A q \in Freed..(write_pos - 1) :
           \/ sequence[Slot(q)] = q + 1
           \/ sequence[Slot(q)] = q /\ \E r \in Producers : Owns(r) /\ pos[r] = q)'
    BY <1>1, <1>2, <1>3, <1>4, CapacityAssumption DEF WindowInv
  <2>2. (\A q \in write_pos..(Freed + Capacity - 1) : sequence[Slot(q)] = q)'
    <3>1. ASSUME NEW q \in write_pos..(cpos + Capacity) PROVE sequence'[Slot(q)] = q
      <4>1. CASE q = cpos + Capacity
        BY <4>1, <1>2, <1>4, SlotNextLap
      <4>2. CASE q # cpos + Capacity
        BY <4>2, <1>2, <1>3, <1>4, CapacityAssumption DEF WindowInv
      <4> QED BY <4>1, <4>2
    <3>2. (Freed + Capacity - 1)' = cpos + Capacity
      BY <1>2, CapacityAssumption
    <3> QED BY <3>1, <3>2, <1>1
  <2>3. (\A q \in 0..(Freed - 1) : sequence[Slot(q)] >= q)'
    <3>1. \A q \in 0..(cpos + 1 - 1) : sequence[Slot(q)] >= q
      BY <1>2 DEF WindowInv
    <3>2. /\ cpos + Capacity \in Nat /\ cpos + 1 \in Nat /\ TypeOK
          /\ sequence[Slot(cpos)] <= cpos + Capacity
      BY <1>2, CapacityAssumption DEF Typed
    <3>3. \A q \in 0..(cpos + 1 - 1) : sequence'[Slot(q)] >= q
      BY <1>1, <1>2, <3>1, <3>2, StoreGrows
    <3> QED BY <1>2, <3>3
  <2> QED BY <1>1, <1>2, <2>1, <2>2, <2>3, CapacityAssumption DEF WindowInv
<1>7. ProducerInv'
  <2>1. \A p \in Producers : Owns(p) => pos[p] \in (cpos + 1)..(write_pos - 1)
    BY <1>1, <1>2, PoppedNotOwned
  <2>2. \A p \in Producers : pos[p] \in Nat
    BY DEF Typed, TypeOK
  <2>3. \A p \in Producers : Owns(p) => sequence'[Slot(pos[p])] = sequence[Slot(pos[p])]
    BY <1>2, <1>4, <2>1, CapacityAssumption
  <2>4. ASSUME NEW p \in Producers, pc[p] = "claim", pos[p] = write_pos
        PROVE  sequence'[Slot(pos[p])] = pos[p]
    <3>1. sequence[Slot(write_pos)] = write_pos
      BY <2>4 DEF ProducerInv
    <3>2. write_pos < cpos + Capacity
      BY <1>2, <3>1, RoomToClaim
    <3> QED BY <1>2, <1>4, <2>4, <3>1, <3>2, CapacityAssumption
  <2> QED BY <1>1, <1>2, <1>3, <2>1, <2>2, <2>3, <2>4, CapacityAssumption DEF ProducerInv
<1>8. OverwriteInv'
  BY <1>1, <1>3 DEF OverwriteInv
<1>9. DataInv' /\ HistoryInv'
  <2>1. (\A q \in Freed..(write_pos - 1) :
           sequence[Slot(q)] = q + 1 /\ ~ (cpc = "release" /\ q = cpos)
             => data[Slot(q)] = log[q + 1])'
    BY <1>1, <1>2, <1>4, CapacityAssumption DEF DataInv
  <2>2. DataInv'
    BY <1>1, <1>3, <2>1 DEF DataInv
  <2>3. HistoryInv'
    BY <1>1 DEF HistoryInv
  <2> QED BY <2>2, <2>3
<1> QED BY <1>5, <1>6, <1>7, <1>8, <1>9

\* The consumer returns the item and turns to the next position.
LEMMA InvAdvance ==
  ASSUME IInv, Typed', Advance
  PROVE  IInv'
<1> USE DEF IInv, producerVars
<1>1. /\ cpc = "advance" /\ cpc' = "idle" /\ read_pos' = cpos + 1
      /\ delivered' = Append(delivered, [pos |-> cpos, item |-> result])
      /\ UNCHANGED <<strategy, write_pos, sequence, data, producerVars, cpos, result>>
  BY DEF Advance, AdvanceTo
<1>2. Freed' = Freed /\ cpos = read_pos /\ cpos \in Nat /\ result = log[cpos + 1]
  BY <1>1 DEF Freed, ConsumerInv, DataInv, Typed, TypeOK
<1>3. \A q \in Producers : /\ Owns(q)' = Owns(q) /\ Item(q)' = Item(q)
                           /\ Discards(q)' = Discards(q)
                           /\ pc[q] \notin {"rload", "rcheck", "discard", "rrelease"}
  BY <1>1, PopIsApart DEF Owns, Discards, Item
<1>4. ApartInv' /\ ConsumerInv'
  BY <1>1 DEF ApartInv, ConsumerInv
<1>5. WindowInv'
  BY <1>1, <1>2, <1>3 DEF WindowInv
<1>6. ProducerInv' /\ OverwriteInv'
  BY <1>1, <1>2, <1>3 DEF ProducerInv, OverwriteInv, Discards
<1>7. DataInv'
  BY <1>1, <1>2, <1>3 DEF DataInv
<1>8. HistoryInv'
  <2> DEFINE n == Len(delivered)
             new == [pos |-> cpos, item |-> log[cpos + 1]]
  <2>1. delivered \in Seq([pos : Nat, item : Items \cup {NoItem, Torn}]) /\ n \in Nat
    BY DEF Typed, TypeOK
  <2>2. /\ DOMAIN delivered = 1..n /\ DOMAIN delivered' = 1..(n + 1) /\ Len(delivered') = n + 1
        /\ delivered'[n + 1] = new /\ \A i \in 1..n : delivered'[i] = delivered[i]
    BY <1>1, <1>2, <2>1
  <2>3. new.pos = cpos /\ new.item = log[cpos + 1]
    OBVIOUS
  <2>4. \A i \in 1..n : delivered[i].pos \in Nat /\ delivered[i].pos < cpos
    BY <1>2, <2>2, DeliveredType DEF HistoryInv, Typed
  <2> HIDE DEF new, n
  <2>5. (\A i \in DOMAIN delivered :
           delivered[i].pos < read_pos /\ delivered[i].item = log[delivered[i].pos + 1])'
    <3>1. ASSUME NEW i \in 1..(n + 1)
          PROVE  /\ delivered'[i].pos < cpos + 1
                 /\ delivered'[i].item = log[delivered'[i].pos + 1]
      <4>1. CASE i = n + 1
        BY <1>2, <2>2, <2>3, <4>1
      <4>2. CASE i \in 1..n
        BY <1>2, <2>2, <2>4, <4>2 DEF HistoryInv
      <4> QED BY <2>1, <4>1, <4>2
    <3> QED BY <1>1, <2>2, <3>1
  <2>6. (\A i, j \in DOMAIN delivered : i < j => delivered[i].pos < delivered[j].pos)'
    <3>1. ASSUME NEW i \in 1..(n + 1), NEW j \in 1..(n + 1), i < j
          PROVE  delivered'[i].pos < delivered'[j].pos
      <4>1. i \in 1..n
        BY <2>1, <3>1
      <4>2. CASE j = n + 1
        BY <2>2, <2>3, <2>4, <4>1, <4>2
      <4>3. CASE j \in 1..n
        BY <2>2, <3>1, <4>1, <4>3 DEF HistoryInv
      <4> QED BY <2>1, <4>2, <4>3
    <3> QED BY <2>2, <3>1
  <2>7. (\A q \in 0..(read_pos - 1) :
           q \in discarded \/ \E i \in DOMAIN delivered : delivered[i].pos = q)'
    <3>1. ASSUME NEW q \in 0..cpos
          PROVE  q \in discarded \/ \E i \in 1..(n + 1) : delivered'[i].pos = q
      <4>1. CASE q = cpos
        <5>1. n + 1 \in 1..(n + 1) /\ delivered'[n + 1].pos = q
          BY <2>1, <2>2, <2>3, <4>1
        <5> QED BY <5>1
      <4>2. CASE q \in 0..(cpos - 1) /\ q \notin discarded
        <5>1. PICK i \in 1..n : delivered[i].pos = q
          BY <1>2, <2>2, <4>2 DEF HistoryInv
        <5>2. i \in 1..(n + 1) /\ delivered'[i].pos = q
          BY <2>1, <2>2, <5>1
        <5> QED BY <5>2
      <4> QED BY <1>2, <4>1, <4>2
    <3>2. (read_pos - 1)' = cpos
      BY <1>1, <1>2
    <3> QED BY <1>1, <2>2, <3>1, <3>2
  <2>8. ASSUME strategy # "DROP_OLDEST"
        PROVE  /\ n + 1 = cpos + 1
               /\ \A i \in 1..(cpos + 1) : delivered'[i] = [pos |-> i - 1, item |-> log[i]]
    <3>1. n = cpos /\ \A i \in 1..cpos : delivered[i] = [pos |-> i - 1, item |-> log[i]]
      BY <1>2, <2>8 DEF HistoryInv, n
    <3>2. delivered'[cpos + 1] = [pos |-> (cpos + 1) - 1, item |-> log[cpos + 1]]
      BY <1>2, <2>2, <3>1 DEF new
    <3> QED BY <1>2, <2>2, <3>1, <3>2
  <2> QED BY <1>1, <2>2, <2>5, <2>6, <2>7, <2>8 DEF HistoryInv
<1> QED BY <1>4, <1>5, <1>6, <1>7, <1>8

\* A position that is the oldest and published was claimed.
LEMMA OldestClaimed ==
  ASSUME IInv, cpc = "idle", sequence[Slot(read_pos)] = read_pos + 1
  PROVE  read_pos < write_pos
<1> USE DEF IInv
<1>1. /\ Freed = read_pos /\ read_pos \in Nat /\ write_pos \in Nat /\ read_pos <= write_pos
      /\ rpos \in [Producers -> Nat]
  BY DEF Freed, Typed, TypeOK, WindowInv
<1> SUFFICES ASSUME read_pos = write_pos PROVE FALSE
  BY <1>1
<1>2. PICK p \in Producers : Discards(p) /\ rpos[p] + Capacity = read_pos
  BY <1>1, CapacityAssumption DEF WindowInv
<1>3. Slot(rpos[p]) = Slot(read_pos) /\ sequence[Slot(rpos[p])] = rpos[p] + 1
  BY <1>1, <1>2, SlotNextLap DEF OverwriteInv
<1> QED BY <1>1, <1>2, <1>3, CapacityAssumption

\* Every step of put preserves the invariant.
LEMMA InvProducer ==
  ASSUME IInv, NEW p \in Producers, Typed', Producer(p)
  PROVE  IInv'
<1>1. /\ pc \in [Producers -> ProducerPC] /\ pos \in [Producers -> Nat]
      /\ rpos \in [Producers -> Nat] /\ puts \in [Producers -> 0..MaxPuts]
      /\ write_pos \in Nat /\ read_pos \in Nat
  BY DEF IInv, Typed, TypeOK
<1>2. CASE Put(p)
  <2>1. pc[p] = "idle" /\ pc' = [pc EXCEPT ![p] = "load"]
    BY <1>2 DEF Put, Goto
  <2>2. pos' = pos /\ rpos' = rpos /\ puts' = [puts EXCEPT ![p] = @ + 1]
    BY <1>2 DEF Put
  <2>3. UNCHANGED <<bufferVars, log, discarded, consumerVars>>
    BY <1>2 DEF Put
  <2>4. strategy = "DROP_OLDEST" => cpc = "idle"
    BY <1>2 DEF Put, IInv, ApartInv
  <2> QED BY <1>1, <2>1, <2>2, <2>3, <2>4, InvLocalStep DEF Owns, Discards
<1>3. pc[p] # "idle" => (strategy = "DROP_OLDEST" => cpc = "idle")
  BY PutIsApart
<1>4. CASE LoadWritePos(p) \/ ClaimFails(p)
  <2>1. pc[p] \in {"load", "claim"} /\ pc' = [pc EXCEPT ![p] = "check"]
    BY <1>4 DEF LoadWritePos, ClaimFails, Goto
  <2>2. pos' = [pos EXCEPT ![p] = write_pos] /\ rpos' = rpos /\ puts' = puts
    BY <1>4 DEF LoadWritePos, ClaimFails
  <2>3. UNCHANGED <<bufferVars, log, discarded, consumerVars>>
    BY <1>4 DEF LoadWritePos, ClaimFails
  <2> QED BY <1>1, <1>3, <2>1, <2>2, <2>3, InvLocalStep DEF Owns, Discards
<1>5. CASE SlotFree(p)
  <2>1. /\ pc[p] = "check" /\ pc' = [pc EXCEPT ![p] = "claim"]
        /\ sequence[Slot(pos[p])] = pos[p]
    BY <1>5 DEF SlotFree, Jump, Goto
  <2>2. UNCHANGED <<bufferVars, pos, rpos, puts, log, discarded, consumerVars>>
    BY <1>5 DEF SlotFree, Jump
  <2>3. pos[p] <= write_pos
    BY <2>1 DEF IInv, ProducerInv
  <2> QED BY <1>1, <1>3, <2>1, <2>2, <2>3, InvLocalStep DEF Owns, Discards
<1>6. CASE SlotTaken(p) \/ FullBlockProducer(p) \/ FullDropNewest(p)
  <2>1. pc[p] = "check" /\ (\/ pc' = [pc EXCEPT ![p] = "load"]
                            \/ pc' = [pc EXCEPT ![p] = "idle"])
    BY <1>6 DEF SlotTaken, FullBlockProducer, FullDropNewest, Jump, Goto
  <2>2. UNCHANGED <<bufferVars, pos, rpos, puts, log, discarded, consumerVars>>
    BY <1>6 DEF SlotTaken, FullBlockProducer, FullDropNewest, Jump
  <2> QED BY <1>1, <1>3, <2>1, <2>2, InvLocalStep DEF Owns, Discards
<1>7. CASE FullDropOldest(p)
  <2>1. pc[p] = "check" /\ pc' = [pc EXCEPT ![p] = "rload"] /\ strategy = "DROP_OLDEST"
    BY <1>7 DEF FullDropOldest, Jump, Goto
  <2>2. UNCHANGED <<bufferVars, pos, rpos, puts, log, discarded, consumerVars>>
    BY <1>7 DEF FullDropOldest, Jump
  <2> QED BY <1>1, <1>3, <2>1, <2>2, InvLocalStep DEF Owns, Discards
<1>8. pc[p] \in {"rload", "rcheck", "discard"} => strategy = "DROP_OLDEST"
  BY DEF IInv, ApartInv
<1>9. CASE LoadReadPos(p)
  <2>1. pc[p] = "rload" /\ pc' = [pc EXCEPT ![p] = "rcheck"]
    BY <1>9 DEF LoadReadPos, Goto
  <2>2. pos' = pos /\ rpos' = [rpos EXCEPT ![p] = read_pos] /\ puts' = puts
    BY <1>9 DEF LoadReadPos
  <2>3. UNCHANGED <<bufferVars, log, discarded, consumerVars>>
    BY <1>9 DEF LoadReadPos
  <2> QED BY <1>1, <1>3, <1>8, <2>1, <2>2, <2>3, InvLocalStep DEF Owns, Discards
<1>10. CASE OldestReady(p)
  <2>1. /\ pc[p] = "rcheck" /\ pc' = [pc EXCEPT ![p] = "discard"]
        /\ sequence[Slot(rpos[p])] = rpos[p] + 1
    BY <1>10 DEF OldestReady, Jump, Goto
  <2>2. UNCHANGED <<bufferVars, pos, rpos, puts, log, discarded, consumerVars>>
    BY <1>10 DEF OldestReady, Jump
  <2>3. rpos[p] <= read_pos /\ (rpos[p] = read_pos => rpos[p] < write_pos)
    BY <1>3, <1>8, <2>1, OldestClaimed DEF IInv, OverwriteInv
  <2> QED BY <1>1, <1>3, <1>8, <2>1, <2>2, <2>3, InvLocalStep DEF Owns, Discards
<1>11. CASE OldestNotReady(p) \/ DiscardFails(p)
  <2>1. pc[p] \in {"rcheck", "discard"} /\ pc' = [pc EXCEPT ![p] = "load"]
    BY <1>11 DEF OldestNotReady, DiscardFails, Jump, Goto
  <2>2. UNCHANGED <<bufferVars, pos, rpos, puts, log, discarded, consumerVars>>
    BY <1>11 DEF OldestNotReady, DiscardFails, Jump
  <2> QED BY <1>1, <1>3, <2>1, <2>2, InvLocalStep DEF Owns, Discards
<1> QED
  BY <1>2, <1>4, <1>5, <1>6, <1>7, <1>9, <1>10, <1>11, InvClaim, InvWrite, InvPublish,
     InvDiscard, InvReleaseDiscarded
  DEF Producer

\* The invariant is inductive.
LEMMA InvStep == IInv /\ [Next]_vars => IInv'
<1> SUFFICES ASSUME IInv, [Next]_vars PROVE IInv'
  OBVIOUS
<1>1. Typed'
  BY TypedStep DEF IInv
<1>2. CASE Next
  BY <1>1, <1>2, InvProducer, InvLoadPop, InvCheckPop, InvMove, InvRelease, InvAdvance
  DEF Next, Consumer
<1>3. CASE UNCHANGED vars
  <2> USE <1>3 DEF IInv, vars, bufferVars, producerVars, consumerVars
  <2>1. Freed' = Freed /\ \A p \in Producers : /\ Owns(p)' = Owns(p) /\ Item(p)' = Item(p)
                                              /\ Discards(p)' = Discards(p)
    BY DEF Freed, Owns, Discards, Item
  <2>2. ApartInv' /\ ConsumerInv' /\ WindowInv'
    BY <2>1 DEF ApartInv, ConsumerInv, WindowInv
  <2>3. ProducerInv' /\ OverwriteInv' /\ DataInv' /\ HistoryInv'
    BY <2>1 DEF ProducerInv, OverwriteInv, DataInv, HistoryInv
  <2> QED BY <1>1, <2>2, <2>3
<1> QED BY <1>2, <1>3

\* The invariant always holds, under DROP_OLDEST too if pop and put are kept apart.
THEOREM Invariant ==
  ASSUME "DROP_OLDEST" \in Strategies => Exclusive
  PROVE  Spec => []IInv
<1>1. Init => IInv
  BY InvInit
<1> QED BY <1>1, InvStep, PTL DEF Spec

-----------------------------------------------------------------------------
(* What the invariant gives                                                *)

\* Slot data is never written by a producer while another thread accesses it,
\* for any number of producers: the sequence numbers of ring_buffer.h are all the
\* synchronisation try_push and pop need, and push_overwrite too, as long as no
\* pop runs beside it.
THEOREM RaceFree ==
  ASSUME "DROP_OLDEST" \in Strategies => Exclusive
  PROVE  Spec => []NoDataRace
<1>1. IInv => NoDataRace
  <2> SUFFICES ASSUME IInv, NEW p \in Producers, NEW i \in SlotIndices, Writing(p, i)
               PROVE  /\ ~ (cpc = "move" /\ Slot(cpos) = i)
                      /\ \A q \in Producers \ {p} : ~ Writing(q, i)
    BY DEF NoDataRace
  <2>1. Owns(p) /\ Slot(pos[p]) = i
    BY DEF Writing, Owns
  <2>2. ~ (cpc = "move" /\ Slot(cpos) = i)
    BY <2>1, PoppedNotOwned
  <2>3. ASSUME NEW q \in Producers \ {p}, Writing(q, i) PROVE FALSE
    <3>1. Owns(q) /\ Slot(pos[q]) = i
      BY <2>3 DEF Writing, Owns
    <3>2. /\ Freed \in Nat /\ write_pos \in Nat /\ pos[p] \in Nat /\ pos[q] \in Nat
          /\ write_pos <= Freed + Capacity
      BY DEF IInv, Typed, TypeOK, Freed, WindowInv
    <3>3. /\ Freed <= pos[p] /\ pos[p] < write_pos
          /\ Freed <= pos[q] /\ pos[q] < write_pos
      BY <2>1, <3>1 DEF IInv, ProducerInv
    <3>4. pos[p] = pos[q]
      BY <2>1, <3>1, <3>2, <3>3, WindowSlots, CapacityAssumption
    <3> QED BY <2>1, <3>1, <3>4 DEF IInv, ProducerInv
  <2> QED BY <2>2, <2>3
<1> QED BY <1>1, Invariant, PTL

\* Facts about the window that the remaining theorems share.
LEMMA WindowFacts ==
  ASSUME IInv
  PROVE  /\ read_pos \in Nat /\ write_pos \in Nat /\ Freed \in Nat /\ cpos \in Nat
         /\ read_pos <= Freed /\ Freed <= write_pos /\ write_pos <= Freed + Capacity
         /\ cpc # "advance" => Freed = read_pos
         /\ cpc = "advance" => Freed = read_pos + 1 /\ cpos = read_pos
         /\ Len(log) = write_pos
BY DEF IInv, Typed, TypeOK, Freed, ConsumerInv, WindowInv, DataInv

\* get returns the items in the order of their positions, each once and intact,
\* although producers may discard items in front of it.
THEOREM InOrder ==
  ASSUME "DROP_OLDEST" \in Strategies => Exclusive
  PROVE  Spec => []DeliveredInOrder
<1>1. IInv => DeliveredInOrder
  <2> SUFFICES ASSUME IInv PROVE DeliveredInOrder
    OBVIOUS
  <2>1. \A i \in DOMAIN delivered : /\ delivered[i].pos \in Nat /\ delivered[i].pos < read_pos
                                    /\ delivered[i].item = log[delivered[i].pos + 1]
    BY DeliveredType DEF IInv, HistoryInv, Typed
  <2>2. \A i \in DOMAIN delivered : delivered[i].pos < Len(log)
    BY <2>1, WindowFacts
  <2> QED BY <2>1, <2>2 DEF DeliveredInOrder, IInv, HistoryInv
<1> QED BY <1>1, Invariant, PTL

\* An accepted item is delivered, discarded, in its slot, or in the hands of the
\* thread that is putting or popping it; none is ever lost.
THEOREM NoLoss ==
  ASSUME "DROP_OLDEST" \in Strategies => Exclusive
  PROVE  Spec => []NothingLost
<1>1. IInv => NothingLost
  <2> SUFFICES ASSUME IInv, NEW q \in 0..(write_pos - 1)
               PROVE  \/ q \in discarded
                      \/ \E i \in DOMAIN delivered : delivered[i].pos = q
                      \/ InTransit(q)
    BY DEF NothingLost
  <2>1. CASE q < read_pos
    BY <2>1, WindowFacts DEF IInv, HistoryInv
  <2>2. CASE read_pos <= q /\ q < Freed
    <3>1. cpc = "advance" /\ cpos = q
      BY <2>2, WindowFacts
    <3> QED BY <3>1 DEF IInv, DataInv, InTransit
  <2>3. CASE Freed <= q
    <3>1. q \in Freed..(write_pos - 1)
      BY <2>3, WindowFacts
    <3>2. CASE \E p \in Producers : Owns(p) /\ pos[p] = q
      BY <3>2 DEF Owns, InTransit
    <3>3. CASE sequence[Slot(q)] = q + 1
      BY <3>1, <3>3 DEF IInv, DataInv, InTransit
    <3> QED BY <3>1, <3>2, <3>3 DEF IInv, WindowInv
  <2> QED BY <2>1, <2>2, <2>3, WindowFacts
<1> QED BY <1>1, Invariant, PTL

\* A queue that is not built with DROP_OLDEST never discards.
LEMMA NoOverwriting ==
  ASSUME IInv, strategy # "DROP_OLDEST"
  PROVE  /\ Len(delivered) = read_pos
         /\ \A p \in Producers :
              pc[p] \notin {"rload", "rcheck", "discard", "rrelease"} /\ ~ Discards(p)
BY DEF IInv, ApartInv, HistoryInv, Discards

\* Where the map builds no DROP_OLDEST queue, this queue is not one.
LEMMA NeverOverwriting ==
  ASSUME IInv, "DROP_OLDEST" \notin Strategies
  PROVE  strategy # "DROP_OLDEST"
BY DEF IInv, Typed, TypeOK

\* A slot seen with an older sequence number is one lap behind a full window.
LEMMA FullWhenFull ==
  ASSUME IInv, strategy # "DROP_OLDEST"
  PROVE  FullOnlyWhenFull
<1> SUFFICES ASSUME NEW p \in Producers, pc[p] = "check",
                    sequence[Slot(pos[p])] < pos[p]
             PROVE  write_pos = Freed + Capacity
  BY DEF FullOnlyWhenFull
<1>1. pos[p] \in Nat /\ pos[p] <= write_pos /\ sequence[Slot(pos[p])] \in Nat
  BY SlotInRange DEF IInv, Typed, TypeOK, ProducerInv
<1>2. ~ (pos[p] \in 0..(Freed - 1))
  BY <1>1 DEF IInv, WindowInv
<1>3. ~ (pos[p] \in Freed..(write_pos - 1))
  BY <1>1 DEF IInv, WindowInv
<1>4. ~ (pos[p] \in write_pos..(Freed + Capacity - 1))
  BY <1>1, NoOverwriting DEF IInv, WindowInv
<1>5. ~ (pos[p] < Freed + Capacity)
  BY <1>1, <1>2, <1>3, <1>4, WindowFacts, CapacityAssumption
<1> QED BY <1>1, <1>5, WindowFacts, CapacityAssumption

\* try_push reports a full buffer only when every slot is taken.
THEOREM FullIsFull ==
  ASSUME "DROP_OLDEST" \notin Strategies
  PROVE  Spec => []FullOnlyWhenFull
<1>1. IInv => FullOnlyWhenFull
  BY FullWhenFull, NeverOverwriting
<1>2. Spec => []IInv
  BY Invariant
<1> QED BY <1>1, <1>2, PTL

\* What size() computes exceeds the capacity by at most one, while pop is between
\* its two last stores.
THEOREM SizeBounded ==
  ASSUME "DROP_OLDEST" \in Strategies => Exclusive
  PROVE  Spec => []SizeBound
<1>1. IInv => SizeBound
  BY WindowFacts, CapacityAssumption DEF SizeBound
<1> QED BY <1>1, Invariant, PTL

-----------------------------------------------------------------------------
(* The ring buffer implements the bounded queue                            *)

\* The items at positions a + 1 .. b, as a sequence.
Segment(a, b) == [i \in 1..(b - a) |-> log[a + i]]

\* The window holds items, one per position.
LEMMA WindowSegment ==
  ASSUME IInv
  PROVE  /\ Segment(Freed, write_pos) \in Seq(Items)
         /\ Len(Segment(Freed, write_pos)) = write_pos - Freed
<1> DEFINE n == write_pos - Freed
<1>1. n \in Nat /\ \A i \in 1..n : log[Freed + i] \in Items
  BY WindowFacts DEF IInv, Typed, TypeOK
<1>2. [i \in 1..n |-> log[Freed + i]] \in [1..n -> Items]
  BY <1>1
<1> HIDE DEF n
<1>3. /\ [i \in 1..n |-> log[Freed + i]] \in Seq(Items)
      /\ Len([i \in 1..n |-> log[Freed + i]]) = n
  BY <1>1, <1>2
<1> QED BY <1>3 DEF Segment, n

\* A claim at the end of the log appends to the segment that ends there.
LEMMA SegmentAppend ==
  ASSUME NEW S, NEW l \in Seq(S), NEW x \in S, NEW a \in Nat, a <= Len(l)
  PROVE  [i \in 1..(Len(l) + 1 - a) |-> Append(l, x)[a + i]] =
           Append([i \in 1..(Len(l) - a) |-> l[a + i]], x)
<1> DEFINE n == Len(l) - a
           t == [i \in 1..n |-> l[a + i]]
<1>1. n \in Nat /\ Len(l) + 1 - a = n + 1 /\ a + n = Len(l)
  OBVIOUS
<1>2. \A i \in 1..n : a + i \in 1..Len(l) /\ l[a + i] \in S
  BY <1>1
<1>3. t \in Seq(S) /\ Len(t) = n
  <2>1. t \in [1..n -> S]
    BY <1>2
  <2> QED BY <1>1, <2>1
<1>4. /\ Append(t, x) \in Seq(S) /\ Len(Append(t, x)) = n + 1
      /\ \A i \in 1..(n + 1) : Append(t, x)[i] = IF i = n + 1 THEN x ELSE t[i]
  BY <1>3
<1>5. \A i \in 1..(n + 1) : Append(l, x)[a + i] = IF i = n + 1 THEN x ELSE l[a + i]
  BY <1>1, <1>2
<1>6. \A i \in 1..(n + 1) : Append(l, x)[a + i] = Append(t, x)[i]
  BY <1>1, <1>4, <1>5
<1>7. Append(t, x) = [i \in 1..(n + 1) |-> Append(t, x)[i]]
  BY <1>1, <1>4
<1> QED BY <1>1, <1>6, <1>7

\* A segment of a sequence is what SubSeq cuts out of it.
LEMMA SubSeqSegment ==
  ASSUME NEW S, NEW l \in Seq(S), NEW a \in Nat, NEW b \in Nat, a <= b, b <= Len(l)
  PROVE  SubSeq(l, a + 1, b) = [i \in 1..(b - a) |-> l[a + i]]
OBVIOUS

\* The abstract queue is the window ...
LEMMA AbstractQueue ==
  ASSUME IInv
  PROVE  SubSeq(log, Freed + 1, write_pos) = Segment(Freed, write_pos)
<1>1. log \in Seq(Items) /\ Freed \in Nat /\ write_pos \in Nat /\ Freed <= write_pos
      /\ write_pos <= Len(log)
  BY WindowFacts DEF IInv, Typed, TypeOK
<1> HIDE DEF Freed
<1> QED BY <1>1, SubSeqSegment DEF Segment

\* ... and what was taken, if nothing was dropped, is all before it.
LEMMA AbstractState ==
  ASSUME IInv, "DROP_OLDEST" \notin Strategies
  PROVE  /\ SubSeq(log, Freed + 1, write_pos) = Segment(Freed, write_pos)
         /\ Taken = Segment(0, Freed)
<1>1. log \in Seq(Items) /\ delivered \in Seq([pos : Nat, item : Items \cup {NoItem, Torn}])
  BY DEF IInv, Typed, TypeOK
<1>2. SubSeq(log, Freed + 1, write_pos) = Segment(Freed, write_pos)
  BY AbstractQueue
<1>3. [i \in DOMAIN delivered |-> delivered[i].item] = Segment(0, read_pos)
  <2>1. /\ Len(delivered) = read_pos /\ read_pos \in Nat
        /\ \A i \in 1..read_pos : delivered[i] = [pos |-> i - 1, item |-> log[i]]
    BY WindowFacts, NeverOverwriting, NoOverwriting DEF IInv, HistoryInv
  <2>2. DOMAIN delivered = 1..read_pos /\ \A i \in 1..read_pos : delivered[i].item = log[0 + i]
    BY <1>1, <2>1
  <2>3. 1..(read_pos - 0) = 1..read_pos
    BY <2>1
  <2> QED BY <2>2, <2>3 DEF Segment
<1>4. Segment(0, read_pos) \in Seq(Items) /\ Len(Segment(0, read_pos)) = read_pos
  BY <1>1, WindowFacts DEF Segment
<1>5. CASE cpc # "advance"
  <2>1. Segment(0, read_pos) \o <<>> = Segment(0, read_pos)
    BY <1>4
  <2> QED BY <1>2, <1>3, <1>5, <2>1, WindowFacts DEF Taken
<1>6. CASE cpc = "advance"
  <2>1. result = log[read_pos + 1] /\ Freed = read_pos + 1
    BY <1>6, WindowFacts DEF IInv, DataInv
  <2>2. Segment(0, read_pos) \o <<result>> = Segment(0, Freed)
    BY <1>1, <1>4, <2>1, WindowFacts DEF Segment
  <2> QED BY <1>2, <1>3, <1>6, <2>2 DEF Taken
<1> QED BY <1>5, <1>6

\* The same of the next state.
LEMMA AbstractNextState ==
  ASSUME "DROP_OLDEST" \notin Strategies
  PROVE  IInv' => (/\ SubSeq(log, Freed + 1, write_pos) = Segment(Freed, write_pos)
                   /\ Taken = Segment(0, Freed))'
<1>1. IInv => /\ SubSeq(log, Freed + 1, write_pos) = Segment(Freed, write_pos)
              /\ Taken = Segment(0, Freed)
  BY AbstractState
<1> QED BY <1>1, PTL

\* Every step of the ring buffer is a step of the queue or changes nothing in it.
LEMMA QueueStep ==
  ASSUME IInv, IInv', [Next]_vars, "DROP_OLDEST" \notin Strategies
  PROVE  [Queue!Next]_(Queue!vars)
<1> DEFINE Q == SubSeq(log, Freed + 1, write_pos)
<1>1. Q = Segment(Freed, write_pos) /\ Taken = Segment(0, Freed)
  BY AbstractState
<1>2. Q' = Segment(Freed, write_pos)' /\ Taken' = Segment(0, Freed)'
  BY AbstractNextState
<1>3. log \in Seq(Items) /\ log' \in Seq(Items)
  BY DEF IInv, Typed, TypeOK
<1>4. ASSUME UNCHANGED <<log, write_pos, Freed, dropped>>
      PROVE  UNCHANGED Queue!vars
  BY <1>1, <1>2, <1>4 DEF Queue!vars, Segment
<1>5. ASSUME NEW p \in Producers, Claim(p)
      PROVE  \E x \in Items : Queue!Accept(x)
  <2>1. /\ log' = Append(log, Item(p)) /\ write_pos' = write_pos + 1
        /\ Freed' = Freed /\ dropped' = dropped /\ pos[p] = write_pos /\ pc[p] = "claim"
    BY <1>5 DEF Claim, ClaimIf, Goto, Freed, consumerVars
  <2>2. Item(p) \in Items
    BY <2>1, ItemType DEF IInv
  <2>3. write_pos < Freed + Capacity
    BY <2>1, RoomToClaim DEF IInv, ProducerInv
  <2>4. /\ Segment(Freed, write_pos) \in Seq(Items)
        /\ Len(Segment(Freed, write_pos)) = write_pos - Freed
    BY WindowSegment
  <2>5. Segment(Freed, write_pos)' = Append(Segment(Freed, write_pos), Item(p))
    <3>1. Freed \in Nat /\ Freed <= Len(log) /\ Len(log) = write_pos
      BY WindowFacts
    <3> QED BY <1>3, <2>1, <2>2, <3>1, SegmentAppend DEF Segment
  <2>6. Segment(0, Freed)' = Segment(0, Freed)
    BY <1>3, <2>1, <2>2, WindowFacts DEF Segment
  <2>7. Len(Segment(Freed, write_pos)) < Capacity
    BY <2>3, <2>4, WindowFacts, CapacityAssumption
  <2>8. Queue!Accept(Item(p))
    BY <1>1, <1>2, <2>1, <2>5, <2>6, <2>7 DEF Queue!Accept
  <2> QED BY <2>2, <2>8
<1>6. ASSUME NEW p \in Producers, FullDropNewest(p)
      PROVE  Queue!Refuse
  <2>1. /\ pc[p] = "check" /\ sequence[Slot(pos[p])] < pos[p] /\ dropped' = dropped + 1
        /\ UNCHANGED <<log, write_pos, Freed>>
    BY <1>6 DEF FullDropNewest, Goto, Freed, bufferVars, consumerVars
  <2>2. write_pos = Freed + Capacity
    BY <2>1, NeverOverwriting, FullWhenFull DEF FullOnlyWhenFull
  <2>3. Len(Segment(Freed, write_pos)) = Capacity
    BY <2>2, WindowFacts, WindowSegment, CapacityAssumption
  <2>4. UNCHANGED <<Segment(Freed, write_pos), Segment(0, Freed)>>
    BY <2>1 DEF Segment
  <2> QED BY <1>1, <1>2, <2>1, <2>3, <2>4 DEF Queue!Refuse
<1>7. ASSUME Release
      PROVE  Queue!Take
  <2>1. /\ Freed' = Freed + 1 /\ cpc = "release" /\ UNCHANGED <<log, write_pos, dropped>>
        /\ Freed < write_pos
    BY <1>7 DEF Release, ReleaseAs, StoreSequence, producerVars, Freed, IInv, ConsumerInv
  <2>2. /\ Segment(Freed, write_pos) \in Seq(Items)
        /\ Len(Segment(Freed, write_pos)) = write_pos - Freed
    BY WindowSegment
  <2>3. /\ Segment(Freed, write_pos) # <<>>
        /\ Head(Segment(Freed, write_pos)) = log[Freed + 1]
    BY <2>1, <2>2, WindowFacts DEF Segment
  <2>4. Segment(Freed, write_pos)' = Tail(Segment(Freed, write_pos))
    BY <1>3, <2>1, <2>2, WindowFacts DEF Segment
  <2>5. Segment(0, Freed)' = Append(Segment(0, Freed), log[Freed + 1])
    BY <1>3, <2>1, WindowFacts DEF Segment
  <2> QED BY <1>1, <1>2, <2>1, <2>3, <2>4, <2>5 DEF Queue!Take
<1>8. ASSUME NEW p \in Producers, Producer(p), ~ Claim(p), ~ FullDropNewest(p)
      PROVE  UNCHANGED <<log, write_pos, Freed, dropped>>
  <2>1. pc[p] \notin {"rload", "rcheck", "discard", "rrelease"}
    BY NeverOverwriting, NoOverwriting
  <2> QED
    BY <1>8, <2>1
    DEF Producer, Put, LoadWritePos, SlotFree, SlotTaken, FullBlockProducer,
        FullDropOldest, ClaimFails, Write, Publish, PublishAs, StoreSequence,
        LoadReadPos, OldestReady, OldestNotReady, Discard, DiscardIf, DiscardFails,
        ReleaseDiscarded, ReleaseDiscardedAs, Jump, Goto, bufferVars, consumerVars, Freed
<1>9. ASSUME Consumer, ~ Release
      PROVE  UNCHANGED <<log, write_pos, Freed, dropped>>
  BY <1>9
  DEF Consumer, LoadPop, CheckPop, CheckPopIf, Move, Advance, AdvanceTo, bufferVars,
      producerVars, Freed, IInv, ConsumerInv
<1>10. CASE UNCHANGED vars
  <2>1. UNCHANGED <<log, write_pos, Freed, dropped>>
    BY <1>10 DEF vars, bufferVars, producerVars, consumerVars, Freed
  <2> QED BY <1>4, <2>1
<1> QED BY <1>4, <1>5, <1>6, <1>7, <1>8, <1>9, <1>10 DEF Next, Queue!Next

\* The lock-free ring buffer under DROP_NEWEST or BLOCK_PRODUCER implements the
\* atomic bounded FIFO queue: the safety part of ImplementsBoundedQueue.
THEOREM Refinement ==
  ASSUME "DROP_OLDEST" \notin Strategies
  PROVE  Spec => Queue!Spec
<1>1. Init => Queue!Init
  <2> SUFFICES ASSUME Init PROVE Queue!Init
    OBVIOUS
  <2>1. IInv
    BY InvInit
  <2>2. /\ SubSeq(log, Freed + 1, write_pos) = Segment(Freed, write_pos)
        /\ Taken = Segment(0, Freed)
    BY <2>1, AbstractState
  <2>3. write_pos = 0 /\ Freed = 0 /\ dropped = 0
    BY DEF Init, Freed
  <2>4. Segment(0, 0) = <<>>
    BY DEF Segment
  <2> QED BY <2>2, <2>3, <2>4 DEF Queue!Init
<1>2. IInv /\ IInv' /\ [Next]_vars => [Queue!Next]_(Queue!vars)
  BY QueueStep
<1>3. Spec => []IInv
  BY Invariant
<1> QED BY <1>1, <1>2, <1>3, PTL DEF Spec, Queue!Spec

-----------------------------------------------------------------------------
(* The ring buffer that overwrites implements the queue that drops         *)

\* What get has returned.
Got == [i \in DOMAIN delivered |-> delivered[i].item]

\* The window of the next state is the abstract queue of the next state.
LEMMA AbstractNextQueue ==
  IInv' => (SubSeq(log, Freed + 1, write_pos) = Segment(Freed, write_pos))'
<1>1. IInv => SubSeq(log, Freed + 1, write_pos) = Segment(Freed, write_pos)
  BY AbstractQueue
<1> QED BY <1>1, PTL

\* A sequence is the function of its elements.
LEMMA SequenceIs ==
  ASSUME NEW S, NEW s \in Seq(S), NEW n \in Nat, Len(s) = n
  PROVE  s = [i \in 1..n |-> s[i]]
OBVIOUS

\* A segment that starts one position later is the tail of the segment.
LEMMA SegmentTail ==
  ASSUME NEW S, NEW l \in Seq(S), NEW a \in Nat, NEW b \in Nat, a < b, b <= Len(l)
  PROVE  [i \in 1..(b - (a + 1)) |-> l[(a + 1) + i]] = Tail([i \in 1..(b - a) |-> l[a + i]])
<1> DEFINE n == b - a
           t == [i \in 1..n |-> l[a + i]]
<1>1. n \in Nat /\ n # 0 /\ b - (a + 1) = n - 1 /\ n - 1 \in Nat
  OBVIOUS
<1>2. \A i \in 1..n : a + i \in 1..Len(l) /\ l[a + i] \in S
  BY <1>1
<1>3. t \in Seq(S) /\ Len(t) = n
  <2>1. t \in [1..n -> S]
    BY <1>2
  <2> QED BY <1>1, <2>1
<1>4. /\ Tail(t) \in Seq(S) /\ Len(Tail(t)) = n - 1
      /\ \A i \in 1..(n - 1) : Tail(t)[i] = t[i + 1]
  <2> HIDE DEF t, n
  <2>1. t # <<>>
    BY <1>1, <1>3
  <2> QED BY <1>1, <1>3, <2>1
<1>5. \A i \in 1..(n - 1) : l[(a + 1) + i] = Tail(t)[i]
  <2> SUFFICES ASSUME NEW i \in 1..(n - 1) PROVE l[(a + 1) + i] = Tail(t)[i]
    OBVIOUS
  <2>1. i + 1 \in 1..n /\ a + (i + 1) = (a + 1) + i
    BY <1>1
  <2>2. t[i + 1] = l[a + (i + 1)]
    BY <2>1
  <2> QED BY <1>4, <2>1, <2>2
<1>6. Tail(t) = [i \in 1..(n - 1) |-> Tail(t)[i]]
  <2> HIDE DEF t, n
  <2> QED BY <1>1, <1>4, SequenceIs
<1>7. [i \in 1..(n - 1) |-> l[(a + 1) + i]] = Tail(t)
  BY <1>5, <1>6
<1> QED BY <1>1, <1>7

\* The items of a sequence of deliveries are a sequence as long.
LEMMA ItemsOf ==
  ASSUME NEW S, NEW d \in Seq([pos : Nat, item : S])
  PROVE  /\ [i \in DOMAIN d |-> d[i].item] \in Seq(S)
         /\ Len([i \in DOMAIN d |-> d[i].item]) = Len(d)
<1> DEFINE n == Len(d)
           t == [i \in 1..n |-> d[i].item]
<1>1. n \in Nat /\ DOMAIN d = 1..n /\ \A i \in 1..n : d[i] \in [pos : Nat, item : S]
  <2> DEFINE R == [pos : Nat, item : S]
  <2>1. d \in Seq(R)
    OBVIOUS
  <2> HIDE DEF R
  <2>2. Len(d) \in Nat /\ DOMAIN d = 1..Len(d) /\ \A i \in 1..Len(d) : d[i] \in R
    BY <2>1
  <2> QED BY <2>2 DEF R
<1>2. \A i \in 1..n : d[i].item \in S
  BY <1>1
<1>3. t \in [1..n -> S]
  BY <1>2
<1>4. t \in Seq(S) /\ Len(t) = n
  <2> HIDE DEF n
  <2> QED BY <1>1, <1>3
<1>5. t = [i \in DOMAIN d |-> d[i].item]
  BY <1>1
<1> QED BY <1>4, <1>5

\* The oldest position leaves the window: the head of the queue goes.
LEMMA WindowShrinks ==
  ASSUME IInv, Freed' = Freed + 1, UNCHANGED <<log, write_pos>>, Freed < write_pos
  PROVE  /\ Segment(Freed, write_pos) # <<>>
         /\ Head(Segment(Freed, write_pos)) = log[Freed + 1]
         /\ Segment(Freed, write_pos)' = Tail(Segment(Freed, write_pos))
<1>1. /\ Segment(Freed, write_pos) \in Seq(Items)
      /\ Len(Segment(Freed, write_pos)) = write_pos - Freed
  BY WindowSegment
<1>2. log \in Seq(Items) /\ log' \in Seq(Items)
  BY DEF IInv, Typed, TypeOK
<1>3. /\ Segment(Freed, write_pos) # <<>>
      /\ Head(Segment(Freed, write_pos)) = log[Freed + 1]
  BY <1>1, WindowFacts DEF Segment
<1>4. Freed \in Nat /\ write_pos \in Nat /\ Freed < write_pos /\ write_pos <= Len(log)
  BY WindowFacts
<1>5. Segment(Freed, write_pos)' =
        [i \in 1..(write_pos - (Freed + 1)) |-> log[(Freed + 1) + i]]
  <2> HIDE DEF Freed
  <2> QED BY DEF Segment
<1>6. Segment(Freed, write_pos)' = Tail(Segment(Freed, write_pos))
  <2> HIDE DEF Freed
  <2> QED BY <1>2, <1>4, <1>5, SegmentTail DEF Segment
<1> QED BY <1>3, <1>6

\* What was taken changes only when pop gives its slot back.
LEMMA TakenGrows ==
  ASSUME IInv, IInv'
  PROVE  /\ UNCHANGED <<delivered, result, cpc>> => Taken' = Taken
         /\ Release => Taken' = Append(Taken, log[Freed + 1])
         /\ Advance => Taken' = Taken
<1>1. /\ delivered \in Seq([pos : Nat, item : Items \cup {NoItem, Torn}])
      /\ result \in Items \cup {NoItem, Torn}
  BY DEF IInv, Typed, TypeOK
<1> DEFINE Any == Items \cup {NoItem, Torn}
<1>2. Got \in Seq(Any) /\ Len(Got) = Len(delivered) /\ DOMAIN Got = 1..Len(delivered)
      /\ Len(delivered) \in Nat
  <2>1. Len(delivered) \in Nat
    BY <1>1
  <2>2. Got \in Seq(Any) /\ Len(Got) = Len(delivered)
    <3> HIDE DEF Any
    <3>1. delivered \in Seq([pos : Nat, item : Any])
      BY <1>1 DEF Any
    <3> QED BY <3>1, ItemsOf DEF Got
  <2> QED BY <2>1, <2>2
<1>3. ASSUME UNCHANGED <<delivered, result, cpc>> PROVE Taken' = Taken
  BY <1>3 DEF Taken
<1>4. Got \o <<>> = Got
  BY <1>2
<1>5. Got \o <<result>> = Append(Got, result)
  BY <1>1, <1>2
<1>6. ASSUME Release PROVE Taken' = Append(Taken, log[Freed + 1])
  <2>1. cpc = "release" /\ cpc' = "advance" /\ UNCHANGED <<delivered, result>>
    BY <1>6 DEF Release, ReleaseAs
  <2>2. Taken = Got
    BY <1>4, <2>1 DEF Taken, Got
  <2>3. Taken' = Got \o <<result>>
    BY <2>1 DEF Taken, Got
  <2>4. result = log[Freed + 1]
    BY <2>1 DEF IInv, DataInv, ConsumerInv, Freed
  <2> QED BY <1>5, <2>2, <2>3, <2>4
<1>7. ASSUME Advance PROVE Taken' = Taken
  <2>1. /\ cpc = "advance" /\ cpc' = "idle"
        /\ delivered' = Append(delivered, [pos |-> cpos, item |-> result])
    BY <1>7 DEF Advance, AdvanceTo
  <2>2. Taken = Append(Got, result)
    BY <1>5, <2>1 DEF Taken, Got
  <2>3. Taken' = Got' \o <<>>
    BY <2>1 DEF Taken, Got
  <2>4. cpos \in Nat
    BY DEF IInv, Typed, TypeOK
  <2> DEFINE d == [pos |-> cpos, item |-> result]
  <2>5. /\ DOMAIN delivered' = 1..(Len(delivered) + 1)
        /\ \A i \in 1..Len(delivered) : delivered'[i] = delivered[i]
        /\ delivered'[Len(delivered) + 1].item = result
    BY <1>1, <2>1, <2>4
  <2>6. \A i \in 1..(Len(delivered) + 1) :
          delivered'[i].item = IF i = Len(delivered) + 1 THEN result ELSE delivered[i].item
    BY <1>2, <2>5
  <2>7. \A i \in 1..Len(delivered) : Got[i] = delivered[i].item
    BY <1>2 DEF Got
  <2>8. /\ Append(Got, result) \in Seq(Any) /\ Len(Append(Got, result)) = Len(delivered) + 1
        /\ \A i \in 1..(Len(delivered) + 1) :
             Append(Got, result)[i] = IF i = Len(delivered) + 1 THEN result ELSE Got[i]
    BY <1>1, <1>2
  <2>9. Got' = [i \in 1..(Len(delivered) + 1) |-> delivered'[i].item]
    BY <2>5 DEF Got
  <2>10. Append(Got, result) = [i \in 1..(Len(delivered) + 1) |-> Append(Got, result)[i]]
    <3>1. Len(delivered) + 1 \in Nat
      BY <1>2
    <3> QED BY <2>8, <3>1, SequenceIs
  <2>11. Got' = Append(Got, result)
    BY <1>2, <2>6, <2>7, <2>8, <2>9, <2>10
  <2>12. Append(Got, result) \o <<>> = Append(Got, result)
    BY <2>8
  <2> QED BY <2>2, <2>3, <2>11, <2>12
<1> QED BY <1>3, <1>6, <1>7

\* Every step of the ring buffer is a step of the dropping queue or changes nothing
\* in it; the compare-exchange on _read_pos is where an item is dropped.
LEMMA DroppingStep ==
  ASSUME IInv, IInv', [Next]_vars
  PROVE  [Dropping!DroppingNext]_(Dropping!vars)
<1> DEFINE Q == SubSeq(log, Freed + 1, write_pos)
<1>1. Q = Segment(Freed, write_pos) /\ Q' = Segment(Freed, write_pos)'
  BY AbstractQueue, AbstractNextQueue
<1>2. log \in Seq(Items) /\ log' \in Seq(Items)
  BY DEF IInv, Typed, TypeOK
<1>3. ASSUME UNCHANGED <<log, write_pos, Freed, dropped>>, Taken' = Taken
      PROVE  UNCHANGED Dropping!vars
  BY <1>1, <1>3 DEF Dropping!vars, Segment
<1>4. ASSUME NEW p \in Producers, Claim(p)
      PROVE  \E x \in Items : Dropping!Accept(x)
  <2>1. /\ log' = Append(log, Item(p)) /\ write_pos' = write_pos + 1
        /\ Freed' = Freed /\ dropped' = dropped /\ pos[p] = write_pos /\ pc[p] = "claim"
        /\ UNCHANGED <<delivered, result, cpc>>
    BY <1>4 DEF Claim, ClaimIf, Goto, Freed, consumerVars
  <2>2. Item(p) \in Items
    BY <2>1, ItemType DEF IInv
  <2>3. write_pos < Freed + Capacity
    BY <2>1, RoomToClaim DEF IInv, ProducerInv
  <2>4. Len(Segment(Freed, write_pos)) = write_pos - Freed
    BY WindowSegment
  <2>5. Segment(Freed, write_pos)' = Append(Segment(Freed, write_pos), Item(p))
    <3>1. Freed \in Nat /\ Freed <= Len(log) /\ Len(log) = write_pos
      BY WindowFacts
    <3> QED BY <1>2, <2>1, <2>2, <3>1, SegmentAppend DEF Segment
  <2>6. Taken' = Taken
    BY <2>1, TakenGrows
  <2>7. Len(Segment(Freed, write_pos)) < Capacity
    BY <2>3, <2>4, WindowFacts, CapacityAssumption
  <2>8. Dropping!Accept(Item(p))
    BY <1>1, <2>1, <2>5, <2>6, <2>7 DEF Dropping!Accept
  <2> QED BY <2>2, <2>8
<1>5. ASSUME NEW p \in Producers, FullDropNewest(p)
      PROVE  Dropping!Refuse
  <2>1. /\ pc[p] = "check" /\ sequence[Slot(pos[p])] < pos[p] /\ dropped' = dropped + 1
        /\ strategy # "DROP_OLDEST"
        /\ UNCHANGED <<log, write_pos, Freed, delivered, result, cpc>>
    BY <1>5 DEF FullDropNewest, Goto, Freed, bufferVars, consumerVars
  <2>2. write_pos = Freed + Capacity
    BY <2>1, FullWhenFull DEF FullOnlyWhenFull
  <2>3. Len(Segment(Freed, write_pos)) = Capacity
    BY <2>2, WindowFacts, WindowSegment, CapacityAssumption
  <2>4. Segment(Freed, write_pos)' = Segment(Freed, write_pos) /\ Taken' = Taken
    BY <2>1, TakenGrows DEF Segment
  <2> QED BY <1>1, <2>1, <2>3, <2>4 DEF Dropping!Refuse
<1>6. ASSUME NEW p \in Producers, Discard(p)
      PROVE  Dropping!DropOldest
  <2>1. /\ pc[p] = "discard" /\ read_pos = rpos[p] /\ read_pos' = read_pos + 1
        /\ UNCHANGED <<log, write_pos, dropped, delivered, result, cpc, cpos>>
    BY <1>6 DEF Discard, DiscardIf, Goto, consumerVars
  <2>2. cpc = "idle"
    BY <2>1, PutIsApart DEF IInv, ApartInv
  <2>3. Freed' = Freed + 1 /\ Freed < write_pos
    BY <2>1, <2>2 DEF Freed, IInv, OverwriteInv
  <2>4. /\ Segment(Freed, write_pos) # <<>>
        /\ Segment(Freed, write_pos)' = Tail(Segment(Freed, write_pos))
    BY <2>1, <2>3, WindowShrinks
  <2>5. Taken' = Taken
    BY <2>1, TakenGrows
  <2> QED BY <1>1, <2>1, <2>4, <2>5 DEF Dropping!DropOldest
<1>7. ASSUME Release
      PROVE  Dropping!Take
  <2>1. /\ Freed' = Freed + 1 /\ UNCHANGED <<log, write_pos, dropped>>
        /\ Freed < write_pos
    BY <1>7 DEF Release, ReleaseAs, StoreSequence, producerVars, Freed, IInv, ConsumerInv
  <2>2. /\ Segment(Freed, write_pos) # <<>>
        /\ Head(Segment(Freed, write_pos)) = log[Freed + 1]
        /\ Segment(Freed, write_pos)' = Tail(Segment(Freed, write_pos))
    BY <2>1, WindowShrinks
  <2>3. Taken' = Append(Taken, log[Freed + 1])
    BY <1>7, TakenGrows
  <2> QED BY <1>1, <2>1, <2>2, <2>3 DEF Dropping!Take
<1>8. ASSUME NEW p \in Producers, Producer(p), ~ Claim(p), ~ FullDropNewest(p), ~ Discard(p)
      PROVE  UNCHANGED Dropping!vars
  <2>1. UNCHANGED <<log, write_pos, Freed, dropped, delivered, result, cpc>>
    BY <1>8
    DEF Producer, Put, LoadWritePos, SlotFree, SlotTaken, FullBlockProducer,
        FullDropOldest, ClaimFails, Write, Publish, PublishAs, StoreSequence,
        LoadReadPos, OldestReady, OldestNotReady, DiscardFails,
        ReleaseDiscarded, ReleaseDiscardedAs, Jump, Goto, bufferVars, consumerVars, Freed
  <2> QED BY <1>3, <2>1, TakenGrows
<1>9. ASSUME LoadPop \/ CheckPop \/ Move
      PROVE  UNCHANGED Dropping!vars
  <2>1. UNCHANGED <<log, write_pos, Freed, dropped, delivered>> /\ cpc # "advance"
        /\ cpc' # "advance"
    BY <1>9 DEF LoadPop, CheckPop, CheckPopIf, Move, bufferVars, producerVars, Freed
  <2>2. Taken' = Taken
    BY <2>1 DEF Taken
  <2> QED BY <1>3, <2>1, <2>2
<1>10. ASSUME Advance
       PROVE  UNCHANGED Dropping!vars
  <2>1. UNCHANGED <<log, write_pos, Freed, dropped>>
    BY <1>10 DEF Advance, AdvanceTo, producerVars, Freed
  <2> QED BY <1>3, <1>10, <2>1, TakenGrows
<1>11. CASE UNCHANGED vars
  <2>1. UNCHANGED <<log, write_pos, Freed, dropped, delivered, result, cpc>>
    BY <1>11 DEF vars, bufferVars, producerVars, consumerVars, Freed
  <2> QED BY <1>3, <2>1, TakenGrows
<1> QED
  BY <1>4, <1>5, <1>6, <1>7, <1>8, <1>9, <1>10, <1>11
  DEF Next, Consumer, Dropping!DroppingNext, Dropping!Next

\* The lock-free ring buffer implements the atomic FIFO queue that drops its oldest
\* items, for any number of producers in push_overwrite at once, as long as no pop runs
\* beside them; under the other strategies it does so without that condition.
THEOREM DroppingRefinement ==
  ASSUME "DROP_OLDEST" \in Strategies => Exclusive
  PROVE  Spec => ImplementsDroppingQueue
<1>1. Init => Dropping!Init
  <2> SUFFICES ASSUME Init PROVE Dropping!Init
    OBVIOUS
  <2>1. IInv
    BY InvInit
  <2>2. SubSeq(log, Freed + 1, write_pos) = Segment(Freed, write_pos)
    BY <2>1, AbstractQueue
  <2>3. write_pos = 0 /\ Freed = 0 /\ dropped = 0 /\ delivered = <<>> /\ cpc = "idle"
    BY DEF Init, Freed
  <2>4. Segment(0, 0) = <<>>
    BY DEF Segment
  <2>5. Taken = <<>>
    <3>1. [i \in DOMAIN delivered |-> delivered[i].item] = <<>>
      BY <2>3
    <3>2. <<>> \o <<>> = <<>>
      OBVIOUS
    <3> QED BY <2>3, <3>1, <3>2 DEF Taken
  <2> QED BY <2>2, <2>3, <2>4, <2>5 DEF Dropping!Init
<1>2. IInv /\ IInv' /\ [Next]_vars => [Dropping!DroppingNext]_(Dropping!vars)
  BY DroppingStep
<1>3. Spec => []IInv
  BY Invariant
<1> QED
  BY <1>1, <1>2, <1>3, PTL DEF Spec, ImplementsDroppingQueue, Dropping!DroppingSpec
=============================================================================
