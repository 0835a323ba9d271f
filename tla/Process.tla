------------------------------ MODULE Process ------------------------------
(***************************************************************************)
(* The process kernel, ns/sys/process.c: the process list, the event queue *)
(* and the poll flags, with the cooperative scheduling of process threads. *)
(*                                                                         *)
(* A process runs only when the kernel calls its thread function, and it   *)
(* runs on the caller's C stack: a thread may post, start, exit and call   *)
(* other processes, which run nested inside it.  `stack' is that C stack,  *)
(* innermost frame first; every loop of the kernel that calls a process    *)
(* (do_poll, do_event's broadcast, exit_process) is a frame with its loop  *)
(* variable, because the list may change under it while the process runs.  *)
(* The threads themselves are not modelled: a thread makes any of the      *)
(* kernel's calls, at most MaxCalls of them per activation, then yields or *)
(* exits.  process_poll may also come from an interrupt handler, between   *)
(* any two steps.                                                          *)
(***************************************************************************)
EXTENDS Ring, Links

CONSTANTS
  Proc,          \* the processes (struct process)
  NULL,          \* also PROCESS_NONE and PROCESS_BROADCAST
  UserEvent,     \* events threads exchange
  Posted,        \* what is posted asynchronously, see PostedAssumption
  NUMEVENTS,     \* PROCESS_CONF_NUMEVENTS
  MaxCalls,      \* bound: kernel calls one activation of a thread makes
  ExitOnStack    \* whether process_exit is used on a process that is itself
                 \* on the call stack (process.h allows it)

ASSUME NullAssumption == NULL \notin Proc /\ IsFiniteSet(Proc)
\* process_alloc_event gives out numbers above those of the kernel's events
ASSUME EventAssumption == UserEvent \cap {"INIT", "POLL", "EXIT", "EXITED"} = {}
ASSUME QueueAssumption == NUMEVENTS \in 1..128    \* two indices add up to an unsigned char
ASSUME CallsAssumption == MaxCalls \in Nat /\ ExitOnStack \in BOOLEAN

VARIABLES
  process_list, next,       \* head of the list, p->next
  state, needspoll,         \* p->state, p->needspoll
  poll_requested,
  events, fevent, nevents,  \* the event queue
  process_current,
  stack,                    \* the C stack
  due                       \* history: who a broadcast still has to reach

listvars  == <<process_list, next>>
queuevars == <<events, fevent, nevents>>
pollvars  == <<needspoll, poll_requested>>
vars == <<process_list, next, state, needspoll, poll_requested, events, fevent,
          nevents, process_current, stack, due>>

-----------------------------------------------------------------------------
(* Events.  The kernel's own events carry no state but their name; `p' is  *)
(* the receiver, NULL for a broadcast.                                     *)

Event == UserEvent \cup {"INIT", "POLL", "EXIT", "EXITED"}
NoEvent == [ev |-> "none", p |-> NULL]

(* Threads post events of their own, to one process or to all, and EXIT to *)
(* make a process exit.                                                    *)
Postable == [ev : UserEvent, p : Proc \cup {NULL}] \cup [ev : {"EXIT"}, p : Proc]
ASSUME PostedAssumption == Posted \subseteq Postable

(* Frames of the C stack.                                                  *)
Main(n) == [fn |-> "main", calls |-> n]
Run == [fn |-> "process_run"]
Poll(q) == [fn |-> "do_poll", q |-> q]
Bcast(q, ev, ph) == [fn |-> "do_event", q |-> q, ev |-> ev, ph |-> ph]
Synch(caller) == [fn |-> "process_post_synch", caller |-> caller]
Exiting(p, from, q, old, ph) ==
  [fn |-> "exit_process", p |-> p, from |-> from, q |-> q, old |-> old, ph |-> ph]
\* p's thread handling ev; `by' tells call_process from exit_process
Thread(p, ev, by) ==
  [fn |-> "thread", p |-> p, ev |-> ev, by |-> by, calls |-> MaxCalls]

Top == Head(stack)
Rest == Tail(stack)
Push(f, st) == <<f>> \o st
OnStack(p) == \E i \in DOMAIN stack :
                stack[i].fn \in {"thread", "exit_process"} /\ stack[i].p = p

-----------------------------------------------------------------------------
(* The process list.  A loop variable q = NULL stands for a loop that has  *)
(* not yet read process_list.                                              *)

Succ(q) == IF q = NULL THEN process_list ELSE next[q]

Listed(p) == p \in Nodes(process_list, next, NULL)

\* mutant: the removed process forgets its successor
UnlinkClearing(p) ==
  /\ IF p = process_list
       THEN process_list' = next[p] /\ next' = [next EXCEPT ![p] = NULL]
       ELSE /\ next' = [q \in Proc |-> IF q = p THEN NULL
                                       ELSE IF Listed(q) /\ next[q] = p THEN next[p] ELSE next[q]]
            /\ UNCHANGED process_list
  /\ due' = due \ {p}

\* the end of exit_process: p leaves the list and keeps its own next pointer
Unlink(p) ==
  /\ IF p = process_list
       THEN process_list' = next[p] /\ UNCHANGED next
       ELSE /\ next' = [q \in Proc |-> IF Listed(q) /\ next[q] = p THEN next[p] ELSE next[q]]
            /\ UNCHANGED process_list
  /\ due' = due \ {p}

-----------------------------------------------------------------------------
(* call_process and exit_process, as the functions that call them see them: *)
(* `st' is the stack to return to.                                          *)

\* mutant: a process that is already called is called again
CallRunning(s, p, ev, st) ==
  \/ /\ s[p] # "NONE"
     /\ process_current' = p
     /\ state' = [s EXCEPT ![p] = "CALLED"]
     /\ stack' = Push(Thread(p, ev, "call"), st)
  \/ /\ s[p] = "NONE"
     /\ stack' = st
     /\ state' = s
     /\ UNCHANGED process_current

\* call_process(p, ev) when the states of the processes are s
call_process(s, p, ev, st) ==
  \/ /\ s[p] = "RUNNING"
     /\ process_current' = p
     /\ state' = [s EXCEPT ![p] = "CALLED"]
     /\ stack' = Push(Thread(p, ev, "call"), st)
  \/ /\ s[p] # "RUNNING"
     /\ stack' = st
     /\ state' = s
     /\ UNCHANGED process_current

exit_process(p, from, st) ==
  \/ /\ ~Listed(p)
     /\ stack' = st
     /\ UNCHANGED <<listvars, state, due>>
  \/ /\ Listed(p) /\ state[p] # "NONE"
     /\ state' = [state EXCEPT ![p] = "NONE"]
     /\ stack' = Push(Exiting(p, from, NULL, process_current, "notify"), st)
     /\ UNCHANGED <<listvars, due>>
  \/ /\ Listed(p) /\ state[p] = "NONE"
     /\ Unlink(p)
     /\ stack' = st
     /\ UNCHANGED state

-----------------------------------------------------------------------------
(* process_init, and a main program that has not started anything yet.     *)
Init ==
  /\ process_list = NULL
  /\ next = [p \in Proc |-> NULL]
  /\ state = [p \in Proc |-> "NONE"]
  /\ needspoll = [p \in Proc |-> FALSE]
  /\ poll_requested = FALSE
  /\ events = [i \in 0..(NUMEVENTS - 1) |-> NoEvent]
  /\ fevent = 0 /\ nevents = 0
  /\ process_current = NULL
  /\ stack = <<Main(MaxCalls)>>
  /\ due = {}

(* The code that may call the kernel: a process thread, or the main program *)
(* between two calls of process_run.                                        *)
MayCall == Top.fn \in {"main", "thread"} /\ Top.calls > 0
AfterCall == Push([Top EXCEPT !.calls = @ - 1], Rest)

\* mutant: the free slot is computed without the head of the queue
process_post_slot(m) ==
  /\ MayCall
  /\ stack' = AfterCall
  /\ IF nevents = NUMEVENTS
       THEN UNCHANGED queuevars
       ELSE /\ events' = [events EXCEPT ![nevents] = m]
            /\ nevents' = nevents + 1
            /\ UNCHANGED fevent
  /\ UNCHANGED <<listvars, state, pollvars, process_current, due>>

process_num_events_t(n) == n % 256

process_post(m) ==      \* PROCESS_ERR_FULL changes nothing
  /\ MayCall
  /\ stack' = AfterCall
  /\ IF nevents = NUMEVENTS
       THEN UNCHANGED queuevars
       ELSE /\ events' = [events EXCEPT ![process_num_events_t(fevent + nevents) % NUMEVENTS] = m]
            /\ nevents' = nevents + 1
            /\ UNCHANGED fevent
  /\ UNCHANGED <<listvars, state, pollvars, process_current, due>>

process_post_synch(p, ev) ==
  /\ MayCall
  /\ call_process(state, p, ev, Push(Synch(process_current), AfterCall))
  /\ UNCHANGED <<listvars, pollvars, queuevars, due>>

\* mutant: no test whether the process is started already
process_start_twice(p) ==
  /\ MayCall
  /\ next' = [next EXCEPT ![p] = process_list]
  /\ process_list' = p
  /\ call_process([state EXCEPT ![p] = "RUNNING"], p, "INIT",
                  Push(Synch(process_current), AfterCall))
  /\ UNCHANGED <<pollvars, queuevars, due>>

process_start(p) ==
  /\ MayCall
  /\ \/ /\ Listed(p)
        /\ stack' = AfterCall
        /\ UNCHANGED <<listvars, state, process_current>>
     \/ /\ ~Listed(p)
        /\ next' = [next EXCEPT ![p] = process_list]
        /\ process_list' = p
        /\ call_process([state EXCEPT ![p] = "RUNNING"], p, "INIT",
                        Push(Synch(process_current), AfterCall))
  /\ UNCHANGED <<pollvars, queuevars, due>>

process_exit(p) ==
  /\ MayCall
  /\ ExitOnStack \/ ~OnStack(p)
  /\ exit_process(p, process_current, AfterCall)
  /\ UNCHANGED <<pollvars, queuevars, process_current>>

\* the effect of process_poll, for a thread and for an interrupt handler
RequestPoll(p) ==
  IF state[p] \in {"RUNNING", "CALLED"}
    THEN needspoll' = [needspoll EXCEPT ![p] = TRUE] /\ poll_requested' = TRUE
    ELSE UNCHANGED pollvars

process_poll(p) ==
  /\ MayCall
  /\ RequestPoll(p)
  /\ stack' = AfterCall
  /\ UNCHANGED <<listvars, state, queuevars, process_current, due>>

InterruptPoll(p) ==
  /\ RequestPoll(p)
  /\ UNCHANGED <<listvars, state, queuevars, process_current, stack, due>>

-----------------------------------------------------------------------------
(* A thread returns: to call_process, which exits the process or marks it  *)
(* runnable again, or to exit_process, which ignores what it returned.     *)

\* mutant: a thread that handled EXIT is kept when it only yields
ThreadReturnKept(exits) ==
  /\ Top.fn = "thread"
  /\ LET p == Top.p IN
       \/ /\ Top.by = "call" /\ exits
          /\ exit_process(p, p, Rest)
       \/ /\ Top.by = "call" /\ ~exits
          /\ state' = [state EXCEPT ![p] = "RUNNING"]
          /\ stack' = Rest
          /\ UNCHANGED <<listvars, due>>
       \/ /\ Top.by = "exit"
          /\ stack' = Rest
          /\ state' = [state EXCEPT ![p] = IF exits THEN "NONE" ELSE "RUNNING"]
          /\ UNCHANGED <<listvars, due>>
  /\ UNCHANGED <<pollvars, queuevars, process_current>>

ThreadReturn(exits) ==
  /\ Top.fn = "thread"
  /\ LET p == Top.p IN
       \/ /\ Top.by = "call" /\ (exits \/ Top.ev = "EXIT")
          /\ exit_process(p, p, Rest)
       \/ /\ Top.by = "call" /\ ~exits /\ Top.ev # "EXIT"
          /\ state' = [state EXCEPT ![p] = "RUNNING"]
          /\ stack' = Rest
          /\ UNCHANGED <<listvars, due>>
       \/ /\ Top.by = "exit"
          /\ stack' = Rest
          /\ UNCHANGED <<listvars, state, due>>
  /\ UNCHANGED <<pollvars, queuevars, process_current>>

\* mutant: the caller's process_current is not restored
SynchReturnStale ==
  /\ Top.fn = "process_post_synch"
  /\ stack' = Rest
  /\ UNCHANGED <<listvars, state, pollvars, queuevars, process_current, due>>

SynchReturn ==
  /\ Top.fn = "process_post_synch"
  /\ process_current' = Top.caller
  /\ stack' = Rest
  /\ UNCHANGED <<listvars, state, pollvars, queuevars, due>>

(* One turn of exit_process's loop over the other processes.               *)
ExitNotify ==
  /\ Top.fn = "exit_process" /\ Top.ph = "notify"
  /\ LET q == Succ(Top.q)
         st == Push([Top EXCEPT !.q = q], Rest)
     IN  /\ q # NULL
         /\ IF q = Top.p
              THEN stack' = st /\ UNCHANGED <<state, process_current>>
              ELSE call_process(state, q, "EXITED", st)
  /\ UNCHANGED <<listvars, pollvars, queuevars, due>>

(* The loop is done: another process's victim gets to see EXIT itself.     *)
ExitThread ==
  /\ Top.fn = "exit_process" /\ Top.ph = "notify"
  /\ Succ(Top.q) = NULL
  /\ Top.p # Top.from
  /\ process_current' = Top.p
  /\ stack' = Push(Thread(Top.p, "EXIT", "exit"),
                   Push([Top EXCEPT !.ph = "unlink"], Rest))
  /\ UNCHANGED <<listvars, state, pollvars, queuevars, due>>

ExitUnlink ==
  /\ Top.fn = "exit_process"
  /\ \/ Top.ph = "unlink"
     \/ Top.ph = "notify" /\ Succ(Top.q) = NULL /\ Top.p = Top.from
  /\ Unlink(Top.p)
  /\ process_current' = Top.old
  /\ stack' = Rest
  /\ UNCHANGED <<state, pollvars, queuevars>>

-----------------------------------------------------------------------------
(* process_run: the main loop's call, do_poll if requested, then one event. *)

\* mutant: a run that polls processes no event
process_run_either ==
  /\ Top.fn = "main"
  /\ IF poll_requested
       THEN stack' = <<Poll(NULL), Main(MaxCalls)>>
       ELSE stack' = <<Run, Main(MaxCalls)>>
  /\ poll_requested' = FALSE
  /\ UNCHANGED <<listvars, state, needspoll, queuevars, process_current, due>>

process_run ==
  /\ Top.fn = "main"
  /\ IF poll_requested
       THEN stack' = <<Poll(NULL), Run, Main(MaxCalls)>>
       ELSE stack' = <<Run, Main(MaxCalls)>>
  /\ poll_requested' = FALSE
  /\ UNCHANGED <<listvars, state, needspoll, queuevars, process_current, due>>

\* mutant: the poll request is cleared when the loop is done
PollEndClearing ==
  /\ stack' = Rest
  /\ poll_requested' = FALSE
  /\ UNCHANGED <<listvars, state, needspoll, queuevars, process_current, due>>

\* the end of do_poll's loop
PollEnd ==
  /\ stack' = Rest
  /\ UNCHANGED <<listvars, state, pollvars, queuevars, process_current, due>>

do_poll ==
  /\ Top.fn = "do_poll"
  /\ LET q == Succ(Top.q)
         st == Push(Poll(q), Rest)
     IN  \/ /\ q = NULL
            /\ PollEnd
         \/ /\ q # NULL /\ ~needspoll[q]
            /\ stack' = st
            /\ UNCHANGED <<listvars, state, pollvars, queuevars, process_current, due>>
         \/ /\ q # NULL /\ needspoll[q]
            /\ needspoll' = [needspoll EXCEPT ![q] = FALSE]
            /\ call_process([state EXCEPT ![q] = "RUNNING"], q, "POLL", st)
            /\ UNCHANGED <<listvars, poll_requested, queuevars, due>>

(* do_event takes the oldest event off the queue ...                       *)
do_event ==
  /\ Top.fn = "process_run"
  /\ \/ /\ nevents = 0
        /\ stack' = Rest
        /\ UNCHANGED <<queuevars, state, process_current, due>>
     \/ /\ nevents > 0
        /\ fevent' = (fevent + 1) % NUMEVENTS
        /\ nevents' = nevents - 1
        /\ UNCHANGED events
        /\ LET m == events[fevent] IN
             \/ /\ m.p = NULL
                /\ stack' = Push(Bcast(NULL, m.ev, "advance"), Rest)
                /\ due' = {p \in Proc : Listed(p)}
                /\ UNCHANGED <<state, process_current>>
             \/ /\ m.p # NULL
                /\ call_process(IF m.ev = "INIT" THEN [state EXCEPT ![m.p] = "RUNNING"] ELSE state,
                                m.p, m.ev, Rest)
                /\ UNCHANGED due
  /\ UNCHANGED <<listvars, pollvars>>

(* ... and a broadcast walks the list, with the pending polls in between.  *)
Broadcast ==
  /\ Top.fn = "do_event"
  /\ LET q == IF Top.ph = "advance" THEN Succ(Top.q) ELSE Top.q
     IN  \/ /\ q = NULL
            /\ stack' = Rest
            /\ UNCHANGED <<state, process_current, poll_requested, due>>
         \/ /\ q # NULL /\ Top.ph = "advance" /\ poll_requested
            /\ poll_requested' = FALSE
            /\ stack' = Push(Poll(NULL), Push(Bcast(q, Top.ev, "call"), Rest))
            /\ UNCHANGED <<state, process_current, due>>
         \/ /\ q # NULL /\ (Top.ph = "call" \/ ~poll_requested)
            /\ call_process(state, q, Top.ev, Push(Bcast(q, Top.ev, "advance"), Rest))
            /\ due' = due \ {q}
            /\ UNCHANGED poll_requested
  /\ UNCHANGED <<listvars, needspoll, queuevars>>

-----------------------------------------------------------------------------
(* Steps of the main program and of the threads, and of the kernel.        *)
Calls ==
  \/ \E m \in Posted : process_post(m)
  \/ \E p \in Proc, ev \in UserEvent : process_post_synch(p, ev)
  \/ \E p \in Proc : process_start(p)
  \/ \E p \in Proc : process_exit(p)
  \/ \E p \in Proc : process_poll(p)

Kernel ==
  \/ process_run \/ do_poll \/ do_event \/ Broadcast
  \/ ExitNotify \/ ExitThread \/ ExitUnlink \/ SynchReturn

Next ==
  \/ Calls
  \/ \E exits \in BOOLEAN : ThreadReturn(exits)
  \/ Kernel
  \/ \E p \in Proc : InterruptPoll(p)

Spec == Init /\ [][Next]_vars

(* The main loop calls process_run again and again, the kernel's loops go  *)
(* on and a thread returns (it makes at most MaxCalls calls).              *)
FairSpec ==
  Spec /\ WF_vars(Kernel) /\ WF_vars(\E exits \in BOOLEAN : ThreadReturn(exits))
-----------------------------------------------------------------------------
Frame ==
  [fn : {"main"}, calls : 0..MaxCalls]
  \cup [fn : {"process_run"}]
  \cup [fn : {"do_poll"}, q : Proc \cup {NULL}]
  \cup [fn : {"do_event"}, q : Proc \cup {NULL}, ev : UserEvent, ph : {"advance", "call"}]
  \cup [fn : {"process_post_synch"}, caller : Proc \cup {NULL}]
  \cup [fn : {"exit_process"}, p : Proc, from : Proc \cup {NULL}, q : Proc \cup {NULL},
        old : Proc \cup {NULL}, ph : {"notify", "unlink"}]
  \cup [fn : {"thread"}, p : Proc, ev : Event, by : {"call", "exit"}, calls : 0..MaxCalls]

(* Types; the queue never holds more than its array, and the stack ends in *)
(* the main program.                                                       *)
TypeOK ==
  /\ process_list \in Proc \cup {NULL}
  /\ next \in [Proc -> Proc \cup {NULL}]
  /\ state \in [Proc -> {"NONE", "RUNNING", "CALLED"}]
  /\ needspoll \in [Proc -> BOOLEAN] /\ poll_requested \in BOOLEAN
  /\ events \in [0..(NUMEVENTS - 1) -> Posted \cup {NoEvent}]
  /\ fevent \in 0..(NUMEVENTS - 1) /\ nevents \in 0..NUMEVENTS
  /\ process_current \in Proc \cup {NULL}
  /\ stack \in Seq(Frame) /\ stack # <<>>
  /\ due \subseteq Proc

(* Whatever is started and exited while the list is being walked, the list *)
(* ends and holds no process twice.                                        *)
ListOK == Ends(process_list, next, NULL)

(* The frames in which p's thread is running.                              *)
Activations(p) == {i \in DOMAIN stack : stack[i].fn = "thread" /\ stack[i].p = p}
ExitsOf(p) == {i \in DOMAIN stack : stack[i].fn = "exit_process" /\ stack[i].p = p}

(* No thread is entered a second time while it is running: its protothread *)
(* state would be overwritten.                                             *)
NoReentry == \A p \in Proc : Cardinality(Activations(p)) <= 1

(* While a thread runs, process_current is its process: etimers and        *)
(* PROCESS_PAUSE take the owner from it.                                   *)
CurrentOK == Top.fn = "thread" => process_current = Top.p

(* A process that process_is_running reports is on the list, where polls   *)
(* and broadcasts reach it; one on the list that does not run is being     *)
(* exited; and one is CALLED exactly while its thread handles an event.    *)
StateOK ==
  \A p \in Proc :
    /\ state[p] # "NONE" => Listed(p)
    /\ Listed(p) /\ state[p] = "NONE" => ExitsOf(p) # {}
    /\ state[p] = "CALLED" <=> \E i \in Activations(p) : stack[i].by = "call"

(* When a broadcast is over it has been offered to every process that was  *)
(* on the list when it began and has not left it since.                    *)
BroadcastComplete ==
  (\A i \in DOMAIN stack : stack[i].fn # "do_event") => due = {}

(* exit_process informs all other processes of the exit, so that services  *)
(* can deallocate state associated with the process (the comment in        *)
(* exit_process); the process that asked for the exit knows already.  Not  *)
(* so: a process that waits for a synchronous call to return is left out.  *)
ExitInformsAll ==
  (Top.fn = "exit_process" /\ Top.ph = "notify" /\ Succ(Top.q) \notin {NULL, Top.p, Top.from})
    => state[Succ(Top.q)] # "CALLED"

(* The events in the queue, oldest first, and the FIFO they form: posted   *)
(* events are taken in the order of the posts, none lost or repeated.      *)
Queue == RingSeq(events, fevent, nevents, NUMEVENTS)
Fifo == INSTANCE EventQueue WITH queue <- Queue, Capacity <- NUMEVENTS
FifoSpec == Fifo!Spec

(* A requested poll is served unless the process exits first, whoever      *)
(* starts, exits or is polled meanwhile.                                   *)
PollServed ==
  \A p \in Proc : (needspoll[p] /\ poll_requested /\ Listed(p)) ~> (~needspoll[p] \/ ~Listed(p))

(* The queue does not stay non-empty without an event being taken, however  *)
(* many polls are requested, so every event is taken; provided that         *)
(* processes are not started for ever.  A broadcast whose current process   *)
(* the poll handlers in between exit and start again goes on from the head  *)
(* of the list, and need not end.                                           *)
StartsEnd == <>[][\A p \in Proc : Listed(p)' => Listed(p)]_vars
EventTaken == StartsEnd => []<>(nevents = 0) \/ []<><<nevents' < nevents>>_vars
=============================================================================
