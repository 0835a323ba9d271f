-------------------------------- MODULE Ring --------------------------------
(* The contents of a ring: `count' slots of the array `data' of `n' slots, *)
(* in order from the slot `first', wrapping at the end of the array.       *)
EXTENDS Integers, Sequences

RingSeq(data, first, count, n) ==
  [i \in 1..count |-> data[(first + i - 1) % n]]
=============================================================================
