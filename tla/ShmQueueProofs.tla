---------------------------- MODULE ShmQueueProofs ----------------------------
(***************************************************************************)
(* What is true of SharedMemoryQueue for any number of slots, given that   *)
(* read() hands a slot back one position too late (run shm_lap): the first *)
(* lap around the ring is right, and there is no second one.               *)
(***************************************************************************)
EXTENDS ShmQueue, TLAPS, SequenceTheorems

\* A slot whose message is written and announced.
Published(i) == i < write_seq /\ ~(wpc \in {"copy", "publish"} /\ wpos = i)

Types ==
  /\ write_seq \in Nat /\ read_seq \in Nat /\ wpos \in Nat /\ writes \in Nat
  /\ sequence \in [0..(SlotCount - 1) -> Nat] /\ data \in [0..(SlotCount - 1) -> Nat]
  /\ accepted \in Seq(Nat) /\ received \in Seq(Nat)
  /\ wpc \in {"idle", "check", "copy", "publish"}
  /\ rpc \in {"idle", "copy", "release", "advance"}

\* The writer stays within the first lap.  A slot that read() has handed back has a
\* number that no position of the writer will meet.
WriterInv ==
  /\ write_seq <= SlotCount /\ Len(accepted) = write_seq
  /\ wpc = "check" => wpos = write_seq
  /\ wpc \in {"copy", "publish"} => wpos + 1 = write_seq /\ accepted[wpos + 1] = writes
  /\ wpc = "publish" => data[wpos] = writes
  /\ \A i \in 0..(SlotCount - 1) :
       IF Published(i)
       THEN (sequence[i] = i + 1 \/ sequence[i] > SlotCount) /\ data[i] = accepted[i + 1]
       ELSE sequence[i] = i

\* The reader is at a slot that was published, and what it took in the first lap are
\* the messages of that lap.
ReaderInv ==
  /\ rpc \in {"copy", "release"} => Published(Slot(read_seq))
  /\ Len(received) = IF rpc \in {"release", "advance"} THEN read_seq + 1 ELSE read_seq
  /\ \A j \in 1..Len(received) :
       j <= SlotCount => j <= Len(accepted) /\ received[j] = accepted[j]

IInv == Types /\ WriterInv /\ ReaderInv

\* pos % slot_count.
LEMMA SlotOf ==
  ASSUME SlotCount \in Nat, SlotCount > 1, NEW p \in Nat
  PROVE  /\ Slot(p) \in 0..(SlotCount - 1) /\ Slot(p) <= p
         /\ p < SlotCount => Slot(p) = p
         /\ p = SlotCount => Slot(p) = 0
<1> USE DEF Slot
<1>1. p % SlotCount \in 0..(SlotCount - 1)
  OBVIOUS
<1>2. p < SlotCount => p % SlotCount = p
  OBVIOUS
<1>3. SlotCount % SlotCount = 0
  OBVIOUS
<1>4. p % SlotCount <= p
  <2>1. CASE p < SlotCount
    BY <1>2, <2>1
  <2>2. CASE p >= SlotCount
    BY <1>1, <2>2
  <2> QED
    BY <2>1, <2>2
<1> QED
  BY <1>1, <1>2, <1>3, <1>4

\* An empty ring.
LEMMA InitHolds ==
  ASSUME SlotCount \in Nat, SlotCount > 1
  PROVE  Init => IInv
<1> SUFFICES ASSUME Init PROVE IInv
  OBVIOUS
<1>1. <<>> \in Seq(Nat) /\ Len(<<>>) = 0
  OBVIOUS
<1>2. Types
  BY <1>1 DEF Init, Types
<1>3. WriterInv
  BY <1>1 DEF Init, WriterInv, Published
<1>4. ReaderInv
  BY <1>1 DEF Init, ReaderInv
<1> QED
  BY <1>2, <1>3, <1>4 DEF IInv

\* A message behind the others leaves the others where they are.
LEMMA Behind ==
  ASSUME NEW s \in Seq(Nat), NEW x \in Nat, NEW t, t = Append(s, x)
  PROVE  /\ t \in Seq(Nat) /\ Len(s) \in Nat /\ Len(t) = Len(s) + 1
         /\ t[Len(s) + 1] = x /\ \A j \in 1..Len(s) : t[j] = s[j]
BY AppendProperties

\* Steps that leave the ring alone.
LEMMA BeginSteps ==
  ASSUME SlotCount \in Nat, SlotCount > 1, IInv,
         BeginWrite \/ RefuseWrite \/ ReloadWriteSeq \/ Advance
  PROVE  IInv'
<1> USE DEF IInv, header, slots, writer, reader
<1>1. ASSUME BeginWrite PROVE IInv'
  <2>1. Types'
    BY <1>1 DEF BeginWrite, Types
  <2>2. WriterInv'
    BY <1>1 DEF BeginWrite, WriterInv, Published
  <2>3. ReaderInv'
    BY <1>1 DEF BeginWrite, ReaderInv, Published, Slot
  <2> QED
    BY <2>1, <2>2, <2>3
<1>2. ASSUME RefuseWrite PROVE IInv'
  <2>1. Types'
    BY <1>2 DEF RefuseWrite, Types
  <2>2. WriterInv'
    BY <1>2 DEF RefuseWrite, WriterInv, Published
  <2>3. ReaderInv'
    BY <1>2 DEF RefuseWrite, ReaderInv, Published, Slot
  <2> QED
    BY <2>1, <2>2, <2>3
<1>3. ASSUME ReloadWriteSeq PROVE IInv'
  <2>1. Types'
    BY <1>3 DEF ReloadWriteSeq, Types
  <2>2. WriterInv'
    BY <1>3 DEF ReloadWriteSeq, WriterInv, Published
  <2>3. ReaderInv'
    BY <1>3 DEF ReloadWriteSeq, ReaderInv, Published, Slot
  <2> QED
    BY <2>1, <2>2, <2>3
<1>4. ASSUME Advance PROVE IInv'
  <2>1. Types'
    BY <1>4 DEF Advance, Types
  <2>2. WriterInv'
    BY <1>4 DEF Advance, WriterInv, Published
  <2>3. ReaderInv'
    BY <1>4 DEF Advance, ReaderInv, Types
  <2> QED
    BY <2>1, <2>2, <2>3
<1> QED
  BY <1>1, <1>2, <1>3, <1>4

\* The writer claims a slot of the first lap: the numbers of slots that were handed back
\* never match a position of the second one.
LEMMA ClaimStep ==
  ASSUME SlotCount \in Nat, SlotCount > 1, IInv, Claim
  PROVE  IInv'
<1>1. /\ wpc = "check" /\ sequence[Slot(wpos)] = wpos /\ write_seq' = wpos + 1
      /\ accepted' = Append(accepted, writes) /\ wpc' = "copy"
      /\ UNCHANGED <<read_seq, sequence, data, wpos, writes, rpc, received>>
  BY DEF Claim, slots, reader
<1>2. Types /\ WriterInv /\ ReaderInv /\ wpos = write_seq /\ wpos \in Nat /\ wpos <= SlotCount
  BY <1>1 DEF IInv, WriterInv, Types
<1>3. wpos < SlotCount
  <2> SUFFICES ASSUME wpos = SlotCount PROVE FALSE
    BY <1>2
  <2>1. Slot(wpos) = 0 /\ 0 \in 0..(SlotCount - 1)
    BY <1>2, SlotOf
  <2>2. Published(0)
    BY <1>1, <1>2 DEF Published
  <2>3. sequence[0] = 1 \/ sequence[0] > SlotCount
    BY <1>2, <2>1, <2>2 DEF WriterInv
  <2> QED
    BY <1>1, <2>1, <2>3
<1>4. /\ accepted' \in Seq(Nat) /\ Len(accepted) = wpos /\ Len(accepted') = wpos + 1
      /\ accepted'[wpos + 1] = writes /\ \A j \in 1..wpos : accepted'[j] = accepted[j]
  <2>1. accepted \in Seq(Nat) /\ writes \in Nat /\ Len(accepted) = wpos
    BY <1>2 DEF Types, WriterInv
  <2> QED
    BY <1>1, <2>1, Behind
<1>5. \A i \in 0..(SlotCount - 1) : Published(i)' <=> Published(i)
  BY <1>1, <1>2 DEF Published
<1>6. Types'
  BY <1>1, <1>2, <1>4 DEF Types
<1>7. WriterInv'
  <2>1. ASSUME NEW i \in 0..(SlotCount - 1)
        PROVE  IF Published(i)'
               THEN /\ sequence'[i] = i + 1 \/ sequence'[i] > SlotCount
                    /\ data'[i] = accepted'[i + 1]
               ELSE sequence'[i] = i
    <3>1. CASE Published(i)
      <4>1. i + 1 \in 1..wpos
        BY <1>1, <1>2, <3>1 DEF Published
      <4>2. accepted'[i + 1] = accepted[i + 1]
        BY <1>4, <4>1
      <4> QED
        BY <1>1, <1>2, <1>5, <3>1, <4>2 DEF WriterInv
    <3>2. CASE ~Published(i)
      BY <1>1, <1>2, <1>5, <3>2 DEF WriterInv
    <3> QED
      BY <3>1, <3>2
  <2>2. /\ write_seq' <= SlotCount /\ Len(accepted') = write_seq'
        /\ wpos' + 1 = write_seq' /\ accepted'[wpos' + 1] = writes'
    BY <1>1, <1>2, <1>3, <1>4
  <2> QED
    BY <1>1, <2>1, <2>2 DEF WriterInv
<1>8. ReaderInv'
  <2>1. rpc \in {"copy", "release"} => Published(Slot(read_seq))'
    <3>1. Slot(read_seq) \in 0..(SlotCount - 1)
      BY <1>2, SlotOf DEF Types
    <3> QED
      BY <1>1, <1>2, <1>5, <3>1 DEF ReaderInv, Published, Slot
  <2>2. ASSUME NEW j \in 1..Len(received'), j <= SlotCount
        PROVE  j <= Len(accepted') /\ received'[j] = accepted'[j]
    <3>1. j \in 1..Len(received) /\ received'[j] = received[j]
      BY <1>1, <2>2
    <3>2. j <= wpos /\ received[j] = accepted[j]
      BY <1>2, <1>4, <2>2, <3>1 DEF ReaderInv
    <3>3. j \in 1..wpos
      BY <1>2, <3>1, <3>2 DEF Types
    <3> QED
      BY <1>2, <1>4, <3>1, <3>2, <3>3
  <2> QED
    BY <1>1, <1>2, <2>1, <2>2 DEF ReaderInv
<1> QED
  BY <1>6, <1>7, <1>8 DEF IInv

\* The message goes into the slot that was claimed, which nobody else looks at.
LEMMA CopyInStep ==
  ASSUME SlotCount \in Nat, SlotCount > 1, IInv, CopyIn
  PROVE  IInv'
<1>1. /\ wpc = "copy" /\ wpc' = "publish"
      /\ data' = [data EXCEPT ![Slot(wpos)] = writes]
      /\ UNCHANGED <<write_seq, read_seq, sequence, wpos, writes, accepted, rpc, received>>
  BY DEF CopyIn, header, reader
<1>2. Types /\ WriterInv /\ ReaderInv
  BY DEF IInv
<1>3. wpos \in Nat /\ wpos < SlotCount /\ Slot(wpos) = wpos /\ wpos \in 0..(SlotCount - 1)
  <2>1. wpos \in Nat /\ wpos < SlotCount
    BY <1>1, <1>2 DEF Types, WriterInv
  <2> QED
    BY <2>1, SlotOf
<1>4. \A i \in 0..(SlotCount - 1) : Published(i)' <=> Published(i)
  BY <1>1 DEF Published
<1>5. ~Published(wpos)
  BY <1>1 DEF Published
<1>6. \A i \in 0..(SlotCount - 1) : i # wpos => data'[i] = data[i]
  BY <1>1, <1>2, <1>3 DEF Types
<1>7. data'[wpos] = writes
  BY <1>1, <1>2, <1>3 DEF Types
<1>8. Types'
  BY <1>1, <1>2, <1>3 DEF Types
<1>9. WriterInv'
  BY <1>1, <1>2, <1>4, <1>5, <1>6, <1>7 DEF WriterInv
<1>10. ReaderInv'
  BY <1>1, <1>2 DEF ReaderInv, Published, Slot
<1> QED
  BY <1>8, <1>9, <1>10 DEF IInv

\* The slot is announced, with the message in it.
LEMMA PublishStep ==
  ASSUME SlotCount \in Nat, SlotCount > 1, IInv, Publish
  PROVE  IInv'
<1>1. /\ wpc = "publish" /\ wpc' = "idle"
      /\ sequence' = [sequence EXCEPT ![Slot(wpos)] = wpos + 1]
      /\ UNCHANGED <<write_seq, read_seq, data, wpos, writes, accepted, rpc, received>>
  BY DEF Publish, header, reader
<1>2. Types /\ WriterInv /\ ReaderInv
  BY DEF IInv
<1>3. wpos \in Nat /\ wpos < SlotCount /\ wpos + 1 = write_seq /\ Slot(wpos) = wpos
      /\ wpos \in 0..(SlotCount - 1)
  <2>1. wpos \in Nat /\ wpos < SlotCount /\ wpos + 1 = write_seq
    BY <1>1, <1>2 DEF Types, WriterInv
  <2> QED
    BY <2>1, SlotOf
<1>4. \A i \in 0..(SlotCount - 1) : i # wpos => (Published(i)' <=> Published(i))
  BY <1>1 DEF Published
<1>5. \A i : Published(i) => Published(i)'
  BY <1>1 DEF Published
<1>6. Published(wpos)' /\ data[wpos] = accepted[wpos + 1]
  BY <1>1, <1>2, <1>3 DEF Published, WriterInv
<1>7. /\ sequence'[wpos] = wpos + 1
      /\ \A i \in 0..(SlotCount - 1) : i # wpos => sequence'[i] = sequence[i]
  BY <1>1, <1>2, <1>3 DEF Types
<1>8. Types'
  BY <1>1, <1>2, <1>3 DEF Types
<1>9. WriterInv'
  <2>1. ASSUME NEW i \in 0..(SlotCount - 1)
        PROVE  IF Published(i)'
               THEN /\ sequence'[i] = i + 1 \/ sequence'[i] > SlotCount
                    /\ data'[i] = accepted'[i + 1]
               ELSE sequence'[i] = i
    <3>1. CASE i = wpos
      BY <1>1, <1>6, <1>7, <3>1
    <3>2. CASE i # wpos
      BY <1>1, <1>2, <1>4, <1>7, <3>2 DEF WriterInv
    <3> QED
      BY <3>1, <3>2
  <2> QED
    BY <1>1, <1>2, <2>1 DEF WriterInv
<1>10. ReaderInv'
  <2>1. rpc \in {"copy", "release"} => Published(Slot(read_seq))'
    BY <1>1, <1>2, <1>5 DEF ReaderInv, Published, Slot
  <2> QED
    BY <1>1, <1>2, <2>1 DEF ReaderInv
<1> QED
  BY <1>8, <1>9, <1>10 DEF IInv

\* read() finds a message only in a slot that was published.
LEMMA BeginReadStep ==
  ASSUME SlotCount \in Nat, SlotCount > 1, IInv, BeginRead
  PROVE  IInv'
<1>1. /\ rpc = "idle" /\ sequence[Slot(read_seq)] = read_seq + 1 /\ rpc' = "copy"
      /\ UNCHANGED <<write_seq, read_seq, sequence, data, wpc, wpos, writes, accepted, received>>
  BY DEF BeginRead, header, slots, writer
<1>2. Types /\ WriterInv /\ ReaderInv /\ read_seq \in Nat
  BY DEF IInv, Types
<1>3. Slot(read_seq) \in 0..(SlotCount - 1) /\ Slot(read_seq) <= read_seq
  BY <1>2, SlotOf
<1>4. Published(Slot(read_seq))
  <2> SUFFICES ASSUME ~Published(Slot(read_seq)) PROVE FALSE
    OBVIOUS
  <2>1. sequence[Slot(read_seq)] = Slot(read_seq)
    BY <1>2, <1>3 DEF WriterInv
  <2>2. Slot(read_seq) = read_seq + 1
    BY <1>1, <2>1
  <2> QED
    BY <1>2, <1>3, <2>2
<1>5. Types'
  BY <1>1, <1>2 DEF Types
<1>6. WriterInv'
  BY <1>1, <1>2 DEF WriterInv, Published
<1>7. ReaderInv'
  <2>1. Published(Slot(read_seq))'
    BY <1>1, <1>4 DEF Published, Slot
  <2> QED
    BY <1>1, <1>2, <2>1 DEF ReaderInv
<1> QED
  BY <1>5, <1>6, <1>7 DEF IInv

\* What read() copies in the first lap is what write() accepted at that position.
LEMMA CopyOutStep ==
  ASSUME SlotCount \in Nat, SlotCount > 1, IInv, CopyOut
  PROVE  IInv'
<1>1. /\ rpc = "copy" /\ rpc' = "release"
      /\ received' = Append(received, data[Slot(read_seq)])
      /\ UNCHANGED <<write_seq, read_seq, sequence, data, wpc, wpos, writes, accepted>>
  BY DEF CopyOut, header, slots, writer
<1>2. Types /\ WriterInv /\ ReaderInv /\ read_seq \in Nat /\ write_seq \in Nat
  BY DEF IInv, Types
<1>3. Slot(read_seq) \in 0..(SlotCount - 1) /\ (read_seq < SlotCount => Slot(read_seq) = read_seq)
  BY <1>2, SlotOf
<1>4. Published(Slot(read_seq)) /\ Len(received) = read_seq
  BY <1>1, <1>2 DEF ReaderInv
<1>5. received \in Seq(Nat) /\ data[Slot(read_seq)] \in Nat
  BY <1>2, <1>3 DEF Types
<1>6. /\ received' \in Seq(Nat) /\ Len(received') = read_seq + 1
      /\ received'[read_seq + 1] = data[Slot(read_seq)]
      /\ \A j \in 1..read_seq : received'[j] = received[j]
  BY <1>1, <1>4, <1>5, Behind
<1>7. Types'
  BY <1>1, <1>2, <1>6 DEF Types
<1>8. WriterInv'
  BY <1>1, <1>2 DEF WriterInv, Published
<1>9. ReaderInv'
  <2>1. Published(Slot(read_seq))'
    BY <1>1, <1>4 DEF Published, Slot
  <2>2. ASSUME NEW j \in 1..(read_seq + 1), j <= SlotCount
        PROVE  j <= Len(accepted) /\ received'[j] = accepted[j]
    <3>1. CASE j = read_seq + 1
      <4>1. read_seq < SlotCount /\ Slot(read_seq) = read_seq
        BY <1>2, <1>3, <2>2, <3>1
      <4>2. Published(read_seq) /\ read_seq \in 0..(SlotCount - 1)
        BY <1>3, <1>4, <4>1
      <4>3. data[read_seq] = accepted[read_seq + 1] /\ Len(accepted) = write_seq
        BY <1>2, <4>2 DEF WriterInv
      <4>4. read_seq + 1 <= write_seq
        BY <1>2, <4>2 DEF Published
      <4> QED
        BY <1>6, <3>1, <4>1, <4>3, <4>4
    <3>2. CASE j # read_seq + 1
      <4>1. j \in 1..read_seq
        BY <1>2, <3>2
      <4> QED
        BY <1>2, <1>4, <1>6, <2>2, <4>1 DEF ReaderInv
    <3> QED
      BY <3>1, <3>2
  <2> QED
    BY <1>1, <1>6, <2>1, <2>2 DEF ReaderInv
<1> QED
  BY <1>7, <1>8, <1>9 DEF IInv

\* The slot is handed back under a number beyond the first lap.
LEMMA ReleaseStep ==
  ASSUME SlotCount \in Nat, SlotCount > 1, IInv, Release
  PROVE  IInv'
<1>1. /\ rpc = "release" /\ rpc' = "advance"
      /\ sequence' = [sequence EXCEPT ![Slot(read_seq)] = read_seq + SlotCount + 1]
      /\ UNCHANGED <<write_seq, read_seq, data, wpc, wpos, writes, accepted, received>>
  BY DEF Release, header, writer
<1>2. Types /\ WriterInv /\ ReaderInv /\ read_seq \in Nat
  BY DEF IInv, Types
<1>3. Slot(read_seq) \in 0..(SlotCount - 1) /\ Published(Slot(read_seq))
  BY <1>1, <1>2, SlotOf DEF ReaderInv
<1>4. read_seq + SlotCount + 1 \in Nat /\ read_seq + SlotCount + 1 > SlotCount
  BY <1>2
<1>5. /\ sequence'[Slot(read_seq)] > SlotCount
      /\ \A i \in 0..(SlotCount - 1) : i # Slot(read_seq) => sequence'[i] = sequence[i]
  BY <1>1, <1>2, <1>3, <1>4 DEF Types
<1>6. \A i : Published(i)' <=> Published(i)
  BY <1>1 DEF Published
<1>7. Types'
  BY <1>1, <1>2, <1>3, <1>4 DEF Types
<1>8. WriterInv'
  <2>1. ASSUME NEW i \in 0..(SlotCount - 1)
        PROVE  IF Published(i)'
               THEN /\ sequence'[i] = i + 1 \/ sequence'[i] > SlotCount
                    /\ data'[i] = accepted'[i + 1]
               ELSE sequence'[i] = i
    <3>1. CASE i = Slot(read_seq)
      BY <1>1, <1>2, <1>3, <1>5, <1>6, <3>1 DEF WriterInv
    <3>2. CASE i # Slot(read_seq)
      BY <1>1, <1>2, <1>5, <1>6, <3>2 DEF WriterInv
    <3> QED
      BY <3>1, <3>2
  <2> QED
    BY <1>1, <1>2, <2>1 DEF WriterInv
<1>9. ReaderInv'
  BY <1>1, <1>2 DEF ReaderInv
<1> QED
  BY <1>7, <1>8, <1>9 DEF IInv

\* The inductive invariant holds in every state of every behaviour.
LEMMA IInvAlways ==
  ASSUME SlotCount \in Nat, SlotCount > 1
  PROVE  Spec => []IInv
<1>1. IInv /\ [Next]_vars => IInv'
  <2> SUFFICES ASSUME IInv, [Next]_vars PROVE IInv'
    OBVIOUS
  <2>1. CASE UNCHANGED vars
    BY <2>1 DEF vars, header, slots, writer, reader, IInv, Types, WriterInv, ReaderInv,
       Published, Slot
  <2> QED
    BY <2>1, BeginSteps, ClaimStep, CopyInStep, PublishStep, BeginReadStep, CopyOutStep,
       ReleaseStep DEF Next
<1> QED
  BY InitHolds, <1>1, PTL DEF Spec

-----------------------------------------------------------------------------
(* The theorems                                                            *)

\* With one writer and one reader, and two slots or more, write() accepts at most
\* slot_count messages in the life of a queue, however many of them are read: every
\* slot that read() hands back carries a number that no position of the writer meets.
\* (Positions are naturals here; those of the code wrap after 2^32 reads.)
THEOREM OneLapOnly ==
  ASSUME SlotCount \in Nat, SlotCount > 1
  PROVE  Spec => [](Len(accepted) <= SlotCount)
<1>1. IInv => Len(accepted) <= SlotCount
  BY DEF IInv, WriterInv
<1> QED
  BY IInvAlways, <1>1, PTL

\* Up to then the queue is right: the first slot_count messages that read() returns are
\* the ones that write() accepted, each once, intact and in order.  The run shm_lap shows
\* that the next one need not be.
THEOREM FirstLapIntact ==
  ASSUME SlotCount \in Nat, SlotCount > 1
  PROVE  Spec => [](Len(received) <= SlotCount => ReadsWhatWasWritten)
<1>1. IInv => (Len(received) <= SlotCount => ReadsWhatWasWritten)
  <2> SUFFICES ASSUME IInv, Len(received) <= SlotCount PROVE IsPrefix(received, accepted)
    BY DEF ReadsWhatWasWritten
  <2>1. /\ received \in Seq(Nat) /\ accepted \in Seq(Nat)
        /\ Len(received) \in Nat /\ Len(accepted) \in Nat
    BY DEF IInv, Types
  <2>2. \A j \in 1..Len(received) : j <= Len(accepted) /\ received[j] = accepted[j]
    <3> SUFFICES ASSUME NEW j \in 1..Len(received)
                 PROVE  j <= Len(accepted) /\ received[j] = accepted[j]
      OBVIOUS
    <3>1. j <= SlotCount
      BY <2>1
    <3> QED
      BY <3>1 DEF IInv, ReaderInv
  <2>3. Len(received) <= Len(accepted)
    <3>1. CASE Len(received) = 0
      BY <2>1, <3>1
    <3>2. CASE Len(received) # 0
      BY <2>1, <2>2, <3>2
    <3> QED
      BY <3>1, <3>2
  <2> DEFINE n == Len(received)
             s == SubSeq(received, 1, n)
             t == SubSeq(accepted, 1, n)
  <2>4. s = t
    <3>1. /\ s = [j \in 1..n |-> received[j]]
          /\ t = [j \in 1..n |-> accepted[j]]
      BY <2>1, <2>3
    <3> QED
      BY <2>2, <3>1
  <2> QED
    BY <2>3, <2>4 DEF IsPrefix
<1> QED
  BY IInvAlways, <1>1, PTL
=============================================================================
