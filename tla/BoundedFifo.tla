---------------------------- MODULE BoundedFifo ----------------------------
(***************************************************************************)
(* What a bounded first-in first-out buffer promises: at most Capacity     *)
(* items wait at any time, items leave in the order in which they entered, *)
(* and nothing leaves that did not enter.  `queue' holds the waiting items *)
(* and `got' the outcome of the last removal, None when there was nothing  *)
(* to remove (or before the first removal).                                *)
(* RingBuf (ringbuf.c, ringbufindex.c) is shown to implement it.           *)
(***************************************************************************)
EXTENDS Naturals, Sequences

CONSTANTS Item,      \* what may be stored
          None,      \* "nothing was removed"
          Capacity   \* how many items may wait

VARIABLES queue, got

Init == queue = <<>> /\ got = None

Put(v) ==
  /\ Len(queue) < Capacity
  /\ queue' = Append(queue, v)
  /\ UNCHANGED got

Get ==
  /\ queue # <<>>
  /\ got' = Head(queue)
  /\ queue' = Tail(queue)

GetNothing ==
  /\ queue = <<>>
  /\ got' = None
  /\ UNCHANGED queue

Next == (\E v \in Item : Put(v)) \/ Get \/ GetNothing

Spec == Init /\ [][Next]_<<queue, got>>
=============================================================================
