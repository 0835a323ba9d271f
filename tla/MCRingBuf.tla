----------------------------- MODULE MCRingBuf -----------------------------
(* RingBuf on the constants of RingBuf.cfg: four slots, so that the        *)
(* pointers wrap while the buffer is neither full nor empty, and two       *)
(* values, so that a slot's old and new contents differ.                   *)
EXTENDS RingBuf
=============================================================================
