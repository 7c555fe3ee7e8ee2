---------------------------- MODULE MCRingBuffer ----------------------------
(* RingBuffer on small instances.                                          *)
EXTENDS RingBuffer

\* The strategies whose producers stay off _read_pos.
NonOverwriting == {"DROP_NEWEST", "BLOCK_PRODUCER"}

\* The strategy of every queue the C++ engine creates.
Overwriting == {"DROP_OLDEST"}
=============================================================================
