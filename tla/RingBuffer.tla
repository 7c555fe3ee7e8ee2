----------------------------- MODULE RingBuffer -----------------------------
(***************************************************************************)
(* The lock-free multi-producer single-consumer ring buffer behind every   *)
(* topic queue of the engine (RingBuffer, ring_buffer.h) together with the *)
(* backpressure policy TopicQueue puts on top of it (topic_queue.cpp).     *)
(*                                                                         *)
(* Every load, store and compare-exchange of a shared variable is a step   *)
(* of its own, so all interleavings of the producers and the consumer are  *)
(* behaviours of the model.  Steps interleave as under sequential          *)
(* consistency.                                                            *)
(*                                                                         *)
(* Positions are size_t counters; they are unbounded here, the program     *)
(* would need 2^64 puts to wrap one.                                       *)
(***************************************************************************)
EXTENDS Naturals, Sequences, FiniteSets

CONSTANTS
  Producers,   \* threads that call TopicQueue::put
  Capacity,    \* number of slots, _mask + 1
  Strategies,  \* the BackpressureStrategy values a queue may be built with
  Exclusive,   \* TRUE when users never run push_overwrite and pop together
  MaxPuts,     \* bound: how many items one producer puts
  NoItem,      \* contents of a slot that was never written or was moved from
  Torn         \* outcome of a read that overlaps a write of the same slot

BackpressureStrategy == {"DROP_OLDEST", "DROP_NEWEST", "BLOCK_PRODUCER"}

\* Capacity is rounded up to a power of two, at least 2 (ring_buffer.h:30).
\* Only Capacity >= 2 matters: with one slot "published" (pos + 1) and
\* "free for the next lap" (pos + Capacity) would be the same number.
ASSUME CapacityAssumption == Capacity \in Nat /\ Capacity >= 2
ASSUME StrategiesAssumption == Strategies \subseteq BackpressureStrategy
ASSUME ExclusiveAssumption == Exclusive \in BOOLEAN
ASSUME MaxPutsAssumption == MaxPuts \in Nat

Items == Producers \X (1..MaxPuts)

ASSUME NoItemAssumption == NoItem \notin Items /\ Torn \notin Items

SlotIndices == 0..(Capacity - 1)

\* _slots[pos & _mask]: with a power-of-two capacity the mask is the modulo.
Slot(p) == p % Capacity

VARIABLES
  strategy,    \* TopicQueue::_strategy, fixed by the constructor
  write_pos,   \* _write_pos: next position to claim
  read_pos,    \* _read_pos: next position to pop
  sequence,    \* Slot::sequence
  data,        \* Slot::data
  pc,          \* per producer: the next shared access of its put
  pos,         \* per producer: local pos of try_push
  rpos,        \* per producer: local rpos of push_overwrite
  puts,        \* per producer: number of puts begun
  cpc,         \* consumer: the next shared access of its pop
  cpos,        \* consumer: local pos of pop
  result,      \* consumer: local result of pop
  dropped,     \* TopicQueue::_dropped
  log,         \* history: the items by claimed position, log[q + 1] at q
  delivered,   \* history: what get returned, with the position it came from
  discarded    \* history: positions push_overwrite discarded

bufferVars == <<strategy, write_pos, read_pos, sequence, data>>
producerVars == <<pc, pos, rpos, puts, dropped, log, discarded>>
consumerVars == <<cpc, cpos, result, delivered>>
vars == <<bufferVars, producerVars, consumerVars>>

ProducerPC == {"idle", "load", "check", "claim", "write", "publish",
               "rload", "rcheck", "discard", "rrelease"}
ConsumerPC == {"idle", "check", "move", "release", "advance"}

\* The item that producer p is putting.
Item(p) == <<p, puts[p]>>

Init ==
  /\ strategy \in Strategies
  /\ write_pos = 0
  /\ read_pos = 0
  /\ sequence = [i \in SlotIndices |-> i]
  /\ data = [i \in SlotIndices |-> NoItem]
  /\ pc = [p \in Producers |-> "idle"]
  /\ pos = [p \in Producers |-> 0]
  /\ rpos = [p \in Producers |-> 0]
  /\ puts = [p \in Producers |-> 0]
  /\ cpc = "idle"
  /\ cpos = 0
  /\ result = NoItem
  /\ dropped = 0
  /\ log = <<>>
  /\ delivered = <<>>
  /\ discarded = {}

\* Producer p passes from one program point to another ...
Goto(p, from, to) == pc[p] = from /\ pc' = [pc EXCEPT ![p] = to]

\* ... without touching anything else.
Jump(p, from, to) ==
  /\ Goto(p, from, to)
  /\ UNCHANGED <<bufferVars, pos, rpos, puts, dropped, log, discarded, consumerVars>>

\* slot.sequence.store(v) for the slot of position q.
StoreSequence(q, v) ==
  /\ sequence' = [sequence EXCEPT ![Slot(q)] = v]
  /\ UNCHANGED <<strategy, write_pos, read_pos, data>>

-----------------------------------------------------------------------------
(* TopicQueue::put and RingBuffer::try_push                                *)

\* A producer calls put with its next item.
Put(p) ==
  /\ puts[p] < MaxPuts
  /\ Exclusive /\ strategy = "DROP_OLDEST" => cpc = "idle"
  /\ Goto(p, "idle", "load")
  /\ puts' = [puts EXCEPT ![p] = @ + 1]
  /\ UNCHANGED <<bufferVars, pos, rpos, dropped, log, discarded, consumerVars>>

\* pos = _write_pos.load()
LoadWritePos(p) ==
  /\ Goto(p, "load", "check")
  /\ pos' = [pos EXCEPT ![p] = write_pos]
  /\ UNCHANGED <<bufferVars, rpos, puts, dropped, log, discarded, consumerVars>>

\* Mutant of SlotFree, diff <= 0: an occupied slot counts as free.
SlotFreeAlsoWhenFull(p) ==
  sequence[Slot(pos[p])] <= pos[p] /\ Jump(p, "check", "claim")

\* diff == 0: the slot is free for position pos.
SlotFree(p) == sequence[Slot(pos[p])] = pos[p] /\ Jump(p, "check", "claim")

\* Mutant of SlotTaken: give up as if full, instead of reloading.
SlotTakenGivesUp(p) ==
  /\ sequence[Slot(pos[p])] > pos[p]
  /\ Goto(p, "check", "idle")
  /\ dropped' = dropped + 1
  /\ UNCHANGED <<bufferVars, pos, rpos, puts, log, discarded, consumerVars>>

\* diff > 0: another producer has claimed pos, reload.
SlotTaken(p) == sequence[Slot(pos[p])] > pos[p] /\ Jump(p, "check", "load")

\* diff < 0: full.  try_push returns false, and put drops the item (and counts
\* it), tries again, or turns to the oldest item.
FullDropNewest(p) ==
  /\ strategy = "DROP_NEWEST"
  /\ sequence[Slot(pos[p])] < pos[p]
  /\ Goto(p, "check", "idle")
  /\ dropped' = dropped + 1
  /\ UNCHANGED <<bufferVars, pos, rpos, puts, log, discarded, consumerVars>>

FullBlockProducer(p) ==
  /\ strategy = "BLOCK_PRODUCER"
  /\ sequence[Slot(pos[p])] < pos[p]
  /\ Jump(p, "check", "load")

FullDropOldest(p) ==
  /\ strategy = "DROP_OLDEST"
  /\ sequence[Slot(pos[p])] < pos[p]
  /\ Jump(p, "check", "rload")

\* The compare-exchange on _write_pos, when its comparison gives ok.
ClaimIf(p, ok) ==
  /\ ok
  /\ Goto(p, "claim", "write")
  /\ write_pos' = pos[p] + 1
  /\ log' = Append(log, Item(p))
  /\ UNCHANGED <<strategy, read_pos, sequence, data, pos, rpos, puts, dropped,
                 discarded, consumerVars>>

\* Mutant of Claim: a store instead of a compare-exchange.
ClaimByStore(p) == ClaimIf(p, TRUE)

\* The compare-exchange succeeds: position pos belongs to p.
Claim(p) == ClaimIf(p, write_pos = pos[p])

\* It fails, because the position has moved or spuriously (it is the weak
\* form), and reloads pos.
ClaimFails(p) ==
  /\ Goto(p, "claim", "check")
  /\ pos' = [pos EXCEPT ![p] = write_pos]
  /\ UNCHANGED <<bufferVars, rpos, puts, dropped, log, discarded, consumerVars>>

\* slot.data = item
Write(p) ==
  /\ Goto(p, "write", "publish")
  /\ data' = [data EXCEPT ![Slot(pos[p])] = Item(p)]
  /\ UNCHANGED <<strategy, write_pos, read_pos, sequence, pos, rpos, puts, dropped,
                 log, discarded, consumerVars>>

PublishAs(p, v) ==
  /\ Goto(p, "publish", "idle")
  /\ StoreSequence(pos[p], v)
  /\ UNCHANGED <<pos, rpos, puts, dropped, log, discarded, consumerVars>>

\* Mutant of Publish: pos is stored, not pos + 1.
PublishUnchanged(p) == PublishAs(p, pos[p])

\* slot.sequence.store(pos + 1): the item becomes visible, put returns.
Publish(p) == PublishAs(p, pos[p] + 1)

-----------------------------------------------------------------------------
(* RingBuffer::push_overwrite, after its try_push found the buffer full    *)

\* rpos = _read_pos.load()
LoadReadPos(p) ==
  /\ Goto(p, "rload", "rcheck")
  /\ rpos' = [rpos EXCEPT ![p] = read_pos]
  /\ UNCHANGED <<bufferVars, pos, puts, dropped, log, discarded, consumerVars>>

\* Mutant of OldestReady: discard without looking at the sequence.
OldestAlwaysReady(p) == Jump(p, "rcheck", "discard")

\* Only a published oldest item is discarded; otherwise try_push is retried.
OldestReady(p) ==
  sequence[Slot(rpos[p])] = rpos[p] + 1 /\ Jump(p, "rcheck", "discard")

OldestNotReady(p) ==
  sequence[Slot(rpos[p])] # rpos[p] + 1 /\ Jump(p, "rcheck", "load")

DiscardIf(p, ok) ==
  /\ ok
  /\ Goto(p, "discard", "rrelease")
  /\ read_pos' = rpos[p] + 1
  /\ discarded' = discarded \cup {rpos[p]}
  /\ UNCHANGED <<strategy, write_pos, sequence, data, pos, rpos, puts, dropped,
                 log, consumerVars>>

\* Mutant of Discard: a store instead of a compare-exchange.
DiscardByStore(p) == DiscardIf(p, TRUE)

\* The compare-exchange on _read_pos takes the oldest item off the queue ...
Discard(p) == DiscardIf(p, read_pos = rpos[p])

\* ... or fails, when somebody else took it, and try_push is retried.
DiscardFails(p) == read_pos # rpos[p] /\ Jump(p, "discard", "load")

ReleaseDiscardedAs(p, v) ==
  /\ Goto(p, "rrelease", "load")
  /\ StoreSequence(rpos[p], v)
  /\ UNCHANGED <<pos, rpos, puts, dropped, log, discarded, consumerVars>>

\* Mutant of ReleaseDiscarded: rpos + _mask, one short of the next lap.
ReleaseDiscardedShort(p) == ReleaseDiscardedAs(p, rpos[p] + Capacity - 1)

\* slot.sequence.store(rpos + _mask + 1): the slot is free again.
ReleaseDiscarded(p) == ReleaseDiscardedAs(p, rpos[p] + Capacity)

-----------------------------------------------------------------------------
(* TopicQueue::get and RingBuffer::pop                                     *)

\* pos = _read_pos.load()
LoadPop ==
  /\ cpc = "idle"
  /\ Exclusive /\ strategy = "DROP_OLDEST" =>
        \A p \in Producers : pc[p] = "idle"
  /\ cpos' = read_pos
  /\ cpc' = "check"
  /\ UNCHANGED <<bufferVars, producerVars, result, delivered>>

CheckPopIf(ready) ==
  /\ cpc = "check"
  /\ cpc' = IF ready THEN "move" ELSE "idle"
  /\ UNCHANGED <<bufferVars, producerVars, cpos, result, delivered>>

\* Mutant of CheckPop, diff >= -1: an unpublished slot is popped.
CheckPopUnpublished == CheckPopIf(sequence[Slot(cpos)] >= cpos)

\* The slot at pos is published, or there is nothing to pop.
CheckPop == CheckPopIf(sequence[Slot(cpos)] = cpos + 1)

\* Producer p is at its unsynchronised write of slot i.
Writing(p, i) == pc[p] = "write" /\ Slot(pos[p]) = i

\* result = std::move(slot.data).  Undefined if a producer writes meanwhile.
Move ==
  /\ cpc = "move"
  /\ \/ result' = data[Slot(cpos)]
     \/ result' = Torn /\ \E p \in Producers : Writing(p, Slot(cpos))
  /\ data' = [data EXCEPT ![Slot(cpos)] = NoItem]
  /\ cpc' = "release"
  /\ UNCHANGED <<strategy, write_pos, read_pos, sequence, producerVars, cpos,
                 delivered>>

ReleaseAs(v) ==
  /\ cpc = "release"
  /\ cpc' = "advance"
  /\ StoreSequence(cpos, v)
  /\ UNCHANGED <<producerVars, cpos, result, delivered>>

\* Mutant of Release: the slot is not given back.
ReleaseNot == ReleaseAs(cpos + 1)

\* slot.sequence.store(pos + _mask + 1): the slot is free for the next lap.
Release == ReleaseAs(cpos + Capacity)

AdvanceTo(q) ==
  /\ cpc = "advance"
  /\ cpc' = "idle"
  /\ read_pos' = q
  /\ delivered' = Append(delivered, [pos |-> cpos, item |-> result])
  /\ UNCHANGED <<strategy, write_pos, sequence, data, producerVars, cpos, result>>

\* Mutant of Advance: the position moves the wrong way.
AdvanceBack == AdvanceTo(cpos - 1)

\* _read_pos.store(pos + 1), a plain store; get returns the item.
Advance == AdvanceTo(cpos + 1)

-----------------------------------------------------------------------------
Producer(p) ==
  \/ Put(p) \/ LoadWritePos(p) \/ SlotFree(p) \/ SlotTaken(p)
  \/ FullDropNewest(p) \/ FullBlockProducer(p) \/ FullDropOldest(p)
  \/ Claim(p) \/ ClaimFails(p) \/ Write(p) \/ Publish(p)
  \/ LoadReadPos(p) \/ OldestReady(p) \/ OldestNotReady(p)
  \/ Discard(p) \/ DiscardFails(p)
  \/ ReleaseDiscarded(p)

Consumer == LoadPop \/ CheckPop \/ Move \/ Release \/ Advance

Next == (\E p \in Producers : Producer(p)) \/ Consumer

Spec == Init /\ [][Next]_vars

\* Threads keep running, and a weak compare-exchange does not fail
\* spuriously forever.
Fairness ==
  /\ WF_vars(Consumer)
  /\ \A p \in Producers : WF_vars(Producer(p)) /\ SF_vars(Claim(p))

FairSpec == Spec /\ Fairness

-----------------------------------------------------------------------------
(* Properties                                                              *)

\* Every variable of the buffer and of its users stays in the range of its C++
\* type: no position or sequence number is ever negative, no slot holds anything
\* but an item or nothing.
TypeOK ==
  /\ strategy \in Strategies
  /\ write_pos \in Nat /\ read_pos \in Nat
  /\ sequence \in [SlotIndices -> Nat]
  /\ data \in [SlotIndices -> Items \cup {NoItem}]
  /\ pc \in [Producers -> ProducerPC]
  /\ pos \in [Producers -> Nat] /\ rpos \in [Producers -> Nat]
  /\ puts \in [Producers -> 0..MaxPuts]
  /\ cpc \in ConsumerPC /\ cpos \in Nat
  /\ result \in Items \cup {NoItem, Torn}
  /\ dropped \in Nat
  /\ log \in Seq(Items)
  /\ delivered \in Seq([pos : Nat, item : Items \cup {NoItem, Torn}])
  /\ discarded \subseteq Nat

\* No thread is about to write a slot's data while another thread is about to
\* read or write it: the sequence numbers order all accesses of Slot::data,
\* which try_push and pop touch without synchronisation.
NoDataRace ==
  \A p \in Producers : \A i \in SlotIndices :
    Writing(p, i) =>
      /\ ~ (cpc = "move" /\ Slot(cpos) = i)
      /\ \A q \in Producers \ {p} : ~ Writing(q, i)

\* get returns items in the order in which their positions were claimed,
\* each position at most once, and each item as its producer put it.
DeliveredInOrder ==
  /\ \A i, j \in DOMAIN delivered : i < j => delivered[i].pos < delivered[j].pos
  /\ \A i \in DOMAIN delivered :
       /\ delivered[i].pos < Len(log)
       /\ delivered[i].item = log[delivered[i].pos + 1]

\* Position q is somewhere between the claim of its slot and get's return.
InTransit(q) ==
  \/ \E p \in Producers : pc[p] \in {"write", "publish"} /\ pos[p] = q
  \/ cpc = "release" /\ cpos = q /\ result = log[q + 1]
  \/ cpc = "advance" /\ cpos = q /\ result = log[q + 1]
  \/ sequence[Slot(q)] = q + 1 /\ data[Slot(q)] = log[q + 1]

\* An accepted item is never lost: until get returns it or push_overwrite
\* discards it, it is in its slot, published, or in the hands of the thread
\* that is putting or popping it.
NothingLost ==
  \A q \in 0..(write_pos - 1) :
    \/ q \in discarded
    \/ \E i \in DOMAIN delivered : delivered[i].pos = q
    \/ InTransit(q)

\* Positions below Freed are free for the next lap.
Freed == IF cpc = "advance" THEN cpos + 1 ELSE read_pos

\* try_push reports "full" only when all slots are taken, so DROP_NEWEST drops
\* nothing while there is room, however stale the position it loaded.
FullOnlyWhenFull ==
  \A p \in Producers :
    pc[p] = "check" /\ sequence[Slot(pos[p])] < pos[p]
      => write_pos = Freed + Capacity

\* What size() computes exceeds the capacity by at most one, and only while
\* pop has freed the slot and not yet advanced _read_pos.
SizeBound ==
  /\ read_pos <= write_pos
  /\ write_pos - read_pos <= Capacity + (IF cpc = "advance" THEN 1 ELSE 0)

\* Every put returns and every accepted item that was not discarded is
\* delivered: no interleaving leaves a producer spinning for good or the
\* consumer stuck on a slot.
PutsComplete ==
  <>[] ( /\ \A p \in Producers : pc[p] = "idle" /\ puts[p] = MaxPuts
         /\ Len(delivered) + Cardinality(discarded) = write_pos )

\* Every put that was begun returns: push_overwrite, which retries for as long
\* as it finds the buffer full, does not spin for good.
PutReturns == \A p \in Producers : (pc[p] # "idle") ~> (pc[p] = "idle")

\* The items get has taken off the buffer, the one it is returning included.
Taken == [i \in DOMAIN delivered |-> delivered[i].item] \o
            (IF cpc = "advance" THEN <<result>> ELSE <<>>)

Queue == INSTANCE BoundedQueue WITH
           queue <- SubSeq(log, Freed + 1, write_pos),
           out <- Taken,
           refused <- dropped

\* The ring buffer under DROP_NEWEST or BLOCK_PRODUCER is a bounded FIFO queue
\* whose consumer never starves: a claim appends, the release of a slot by pop
\* takes, and a refusal happens only at a moment when the queue is full.
ImplementsBoundedQueue == Queue!FairSpec

Dropping == INSTANCE DroppingQueue WITH
              queue <- SubSeq(log, Freed + 1, write_pos),
              out <- Taken,
              refused <- dropped

\* The ring buffer under DROP_OLDEST, with pop kept apart, is the bounded FIFO queue
\* that drops from its head: whatever producers do to each other in
\* push_overwrite, only the oldest item leaves without being taken, each item
\* leaves once, and there are never more than fit.
ImplementsDroppingQueue == Dropping!DroppingSpec
=============================================================================
