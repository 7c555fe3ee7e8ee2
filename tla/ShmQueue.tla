------------------------------- MODULE ShmQueue -------------------------------
(***************************************************************************)
(* SharedMemoryQueue (shared_memory_queue.cpp): the ring of slots through  *)
(* which the shared-memory bridge and a module in another process exchange *)
(* messages, with one writer and one reader that interleave at every       *)
(* access to the shared segment.  The k-th message of the writer is k.     *)
(*                                                                         *)
(* The invalid queue and the oversized message, refused before any access, *)
(* are left out.                                                           *)
(***************************************************************************)
EXTENDS Naturals, SequencesExt

CONSTANTS
  SlotCount,   \* Header::slot_count
  MaxWrites    \* bound: calls of write()

VARIABLES
  write_seq, read_seq,  \* the header
  sequence, data,       \* the slots
  wpc, wpos,            \* the writer: program point and local pos
  rpc,                  \* the reader: program point; its pos is read_seq
  writes,               \* calls of write() so far
  accepted,             \* messages the writer has claimed a slot for, in order
  received              \* messages read() has returned

header == <<write_seq, read_seq>>
slots == <<sequence, data>>
writer == <<wpc, wpos, writes, accepted>>
reader == <<rpc, received>>
vars == <<header, slots, writer, reader>>

Slot(pos) == pos % SlotCount

Init ==
  /\ write_seq = 0 /\ read_seq = 0
  /\ sequence = [i \in 0..(SlotCount - 1) |-> i]
  /\ data = [i \in 0..(SlotCount - 1) |-> 0]
  /\ wpc = "idle" /\ wpos = 0 /\ writes = 0 /\ accepted = <<>>
  /\ rpc = "idle" /\ received = <<>>

-----------------------------------------------------------------------------
(* write()                                                                 *)

BeginWrite ==
  /\ wpc = "idle" /\ writes < MaxWrites
  /\ writes' = writes + 1
  /\ wpos' = write_seq
  /\ wpc' = "check"
  /\ UNCHANGED <<header, slots, accepted, reader>>

\* diff == 0: the compare-exchange of a lone writer succeeds.
Claim ==
  /\ wpc = "check" /\ sequence[Slot(wpos)] = wpos
  /\ write_seq' = wpos + 1
  /\ accepted' = Append(accepted, writes)
  /\ wpc' = "copy"
  /\ UNCHANGED <<read_seq, slots, wpos, writes, reader>>

\* diff < 0
RefuseWrite ==
  /\ wpc = "check" /\ sequence[Slot(wpos)] < wpos
  /\ wpc' = "idle"
  /\ UNCHANGED <<header, slots, wpos, writes, accepted, reader>>

\* diff > 0: pos is loaded again and the loop starts over.
ReloadWriteSeq ==
  /\ wpc = "check" /\ sequence[Slot(wpos)] > wpos
  /\ wpos' = write_seq
  /\ UNCHANGED <<header, slots, wpc, writes, accepted, reader>>

CopyIn ==
  /\ wpc = "copy"
  /\ data' = [data EXCEPT ![Slot(wpos)] = writes]
  /\ wpc' = "publish"
  /\ UNCHANGED <<header, sequence, wpos, writes, accepted, reader>>

Publish ==
  /\ wpc = "publish"
  /\ sequence' = [sequence EXCEPT ![Slot(wpos)] = wpos + 1]
  /\ wpc' = "idle"
  /\ UNCHANGED <<header, data, wpos, writes, accepted, reader>>

-----------------------------------------------------------------------------
(* read(); a call that finds nothing changes nothing                       *)

BeginRead ==
  /\ rpc = "idle" /\ sequence[Slot(read_seq)] = read_seq + 1
  /\ rpc' = "copy"
  /\ UNCHANGED <<header, slots, writer, received>>

CopyOut ==
  /\ rpc = "copy"
  /\ received' = Append(received, data[Slot(read_seq)])
  /\ rpc' = "release"
  /\ UNCHANGED <<header, slots, writer>>

Release ==
  /\ rpc = "release"
  /\ sequence' = [sequence EXCEPT ![Slot(read_seq)] = read_seq + SlotCount + 1]
  /\ rpc' = "advance"
  /\ UNCHANGED <<header, data, writer, received>>

Advance ==
  /\ rpc = "advance"
  /\ read_seq' = read_seq + 1
  /\ rpc' = "idle"
  /\ UNCHANGED <<write_seq, slots, writer, received>>

-----------------------------------------------------------------------------
Next ==
  \/ BeginWrite \/ Claim \/ RefuseWrite \/ ReloadWriteSeq \/ CopyIn \/ Publish
  \/ BeginRead \/ CopyOut \/ Release \/ Advance

Spec == Init /\ [][Next]_vars

\* With one writer and one reader, read() returns the messages that write()
\* accepted, each once and in order.
ReadsWhatWasWritten == IsPrefix(received, accepted)
=============================================================================
