----------------------------- MODULE MCProcess -----------------------------
(* Process on the constants of its configurations.  Processes are          *)
(* interchangeable: none is started in the initial state, and no action    *)
(* names one.                                                              *)
EXTENDS Process, TLC

CONSTANT p1
BroadcastAndExit == {[ev |-> "ev", p |-> NULL]} \cup [ev : {"EXIT"}, p : Proc]
BroadcastAndOne == {[ev |-> "ev", p |-> q] : q \in {NULL, p1}}

Symmetry == Permutations(Proc)

(* What the rest of a run depends on: a slot outside the queue is written  *)
(* before it is read, and the next pointer of a process that is not on the *)
(* list is read only by a loop that stands at it or gets there; of the     *)
(* event a thread handles the kernel only asks whether it is EXIT.         *)
LoopsAt == {stack[i].q : i \in {j \in DOMAIN stack :
              stack[j].fn \in {"do_poll", "do_event", "exit_process"}}}
Walked(p) == \E q \in {process_list} \cup LoopsAt : p \in Nodes(q, next, NULL)
Frames == [i \in DOMAIN stack |->
             IF stack[i].fn = "thread" THEN [stack[i] EXCEPT !.ev = (@ = "EXIT")] ELSE stack[i]]
View == <<process_list, [p \in Proc |-> IF Walked(p) THEN next[p] ELSE NULL], state,
          needspoll, poll_requested, Queue, fevent, process_current, Frames, due>>

(* The same for ProcessLive, whose properties do not read `due'; all next   *)
(* pointers are kept, to keep the view cheap.                               *)
LiveView == <<listvars, state, pollvars, Queue, fevent, process_current, Frames>>
=============================================================================
