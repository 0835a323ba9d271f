----------------------------- MODULE EventQueue -----------------------------
(***************************************************************************)
(* What process_post and process_run promise about asynchronous events     *)
(* (process.h): at most Capacity events wait, process_run takes them one   *)
(* at a time, and it takes them in the order in which they were posted.    *)
(***************************************************************************)
EXTENDS Naturals, Sequences

CONSTANTS Posted,    \* the events that may be posted
          Capacity   \* PROCESS_CONF_NUMEVENTS

VARIABLE queue

Init == queue = <<>>

Post(m) == Len(queue) < Capacity /\ queue' = Append(queue, m)

Take == queue # <<>> /\ queue' = Tail(queue)

Next == (\E m \in Posted : Post(m)) \/ Take

Spec == Init /\ [][Next]_queue
=============================================================================
