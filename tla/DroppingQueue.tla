---------------------------- MODULE DroppingQueue ----------------------------
(***************************************************************************)
(* What a topic queue promises under DROP_OLDEST: the bounded FIFO queue   *)
(* of BoundedQueue, from which producers may also drop items, the oldest   *)
(* first and no other.  What the consumer takes is then what was accepted, *)
(* in order, with gaps.                                                    *)
(*                                                                         *)
(* A producer drops an item because it found the queue full.  Others may   *)
(* have made room since, so the queue need not be full when it does.       *)
(***************************************************************************)
EXTENDS BoundedQueue

DropOldest ==
  /\ queue # <<>>
  /\ queue' = Tail(queue)
  /\ UNCHANGED <<out, refused>>

DroppingNext == Next \/ DropOldest

DroppingSpec == Init /\ [][DroppingNext]_vars
=============================================================================
