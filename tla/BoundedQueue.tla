---------------------------- MODULE BoundedQueue ----------------------------
(***************************************************************************)
(* What a topic queue promises its users: a FIFO queue of bounded length.  *)
(* A producer appends an item while there is room.  When there is none the *)
(* item is refused (DROP_NEWEST) or the producer waits (BLOCK_PRODUCER,    *)
(* which takes no step here).  The single consumer takes the oldest item.  *)
(*                                                                         *)
(* This is the abstract specification that RingBuffer implements.          *)
(***************************************************************************)
EXTENDS Naturals, Sequences

CONSTANTS Capacity,  \* the number of items the queue can hold
          Items      \* the items producers put

VARIABLES queue,     \* the items accepted and not yet taken, oldest first
          out,       \* every item the consumer has taken, in order
          refused    \* how many items were refused

vars == <<queue, out, refused>>

Init ==
  /\ queue = <<>>
  /\ out = <<>>
  /\ refused = 0

Accept(x) ==
  /\ Len(queue) < Capacity
  /\ queue' = Append(queue, x)
  /\ UNCHANGED <<out, refused>>

Refuse ==
  /\ Len(queue) = Capacity
  /\ refused' = refused + 1
  /\ UNCHANGED <<queue, out>>

Take ==
  /\ queue # <<>>
  /\ queue' = Tail(queue)
  /\ out' = Append(out, Head(queue))
  /\ UNCHANGED refused

Next ==
  \/ \E x \in Items : Accept(x)
  \/ Refuse
  \/ Take

Spec == Init /\ [][Next]_vars

\* The consumer keeps taking: no queued item waits forever.
FairSpec == Spec /\ WF_vars(Take)
=============================================================================
