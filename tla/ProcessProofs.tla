--------------------------- MODULE ProcessProofs ---------------------------
(***************************************************************************)
(* Proofs about Process, for every set of processes, queue length and      *)
(* bound on the threads' calls.                                            *)
(***************************************************************************)
EXTENDS Process, LibTheorems

(* The types of the event queue's variables.                               *)
QueueOK ==
  /\ events \in [0..(NUMEVENTS - 1) -> Posted \cup {NoEvent}]
  /\ fevent \in 0..(NUMEVENTS - 1)
  /\ nevents \in 0..NUMEVENTS

LEMMA QueueSize == NUMEVENTS \in Nat \ {0}
  BY QueueAssumption

(* What process_post and do_event do to the queue.                         *)
Enqueue(m) ==
  /\ nevents # NUMEVENTS
  /\ events' = [events EXCEPT ![(fevent + nevents) % NUMEVENTS] = m]
  /\ nevents' = nevents + 1
  /\ fevent' = fevent

Dequeue ==
  /\ nevents > 0
  /\ fevent' = (fevent + 1) % NUMEVENTS
  /\ nevents' = nevents - 1
  /\ events' = events

(* No other operation of the kernel touches the queue.                     *)
LEMMA QueueSteps ==
  ASSUME QueueOK, [Next]_vars
  PROVE  \/ UNCHANGED queuevars
         \/ \E m \in Posted : Enqueue(m)
         \/ Dequeue
<1>1. ASSUME NEW m \in Posted, process_post(m)
      PROVE  UNCHANGED queuevars \/ Enqueue(m)
  <2>1. fevent + nevents \in 0..255 \/ nevents = NUMEVENTS
    BY QueueAssumption DEF QueueOK
  <2>2. \A n \in 0..255 : process_num_events_t(n) = n
    BY DEF process_num_events_t
  <2> QED BY <1>1, <2>1, <2>2 DEF process_post, Enqueue, queuevars
<1>2. CASE do_event
  BY <1>2 DEF do_event, Dequeue, queuevars
<1>3. CASE \/ \E p \in Proc, ev \in UserEvent : process_post_synch(p, ev)
           \/ \E p \in Proc : process_start(p)
           \/ \E p \in Proc : process_exit(p)
           \/ \E p \in Proc : process_poll(p)
  BY <1>3 DEF process_post_synch, process_start, process_exit, process_poll
<1>4. CASE \/ process_run \/ Broadcast
           \/ ExitNotify \/ ExitThread \/ ExitUnlink \/ SynchReturn
  BY <1>4 DEF process_run, Broadcast, ExitNotify, ExitThread, ExitUnlink, SynchReturn
<1>5. CASE do_poll
  BY <1>5 DEF do_poll, PollEnd
<1>6. CASE \/ \E exits \in BOOLEAN : ThreadReturn(exits)
           \/ \E p \in Proc : InterruptPoll(p)
  BY <1>6 DEF ThreadReturn, InterruptPoll
<1>7. CASE UNCHANGED vars
  BY <1>7 DEF vars, queuevars
<1> QED BY <1>1, <1>2, <1>3, <1>4, <1>5, <1>6, <1>7 DEF Next, Calls, Kernel

LEMMA QueueOKInit == Init => QueueOK
BY QueueAssumption DEF Init, QueueOK

LEMMA QueueOKNext == QueueOK /\ [Next]_vars => QueueOK'
<1> SUFFICES ASSUME QueueOK, [Next]_vars PROVE QueueOK'
  OBVIOUS
<1> USE QueueSize
<1>1. CASE UNCHANGED queuevars
  BY <1>1 DEF QueueOK, queuevars
<1>2. ASSUME NEW m \in Posted, Enqueue(m) PROVE QueueOK'
  BY <1>2, ModRange DEF QueueOK, Enqueue
<1>3. CASE Dequeue
  BY <1>3, ModRange DEF QueueOK, Dequeue
<1> QED BY <1>1, <1>2, <1>3, QueueSteps

(* The queue never overflows its array and its indices stay inside it.     *)
THEOREM QueueTypes == Spec => []QueueOK
BY QueueOKInit, QueueOKNext, PTL DEF Spec

(* Every step of the kernel is a post, a take or nothing to the queue seen *)
(* as a sequence.                                                          *)
LEMMA FifoNext ==
  ASSUME QueueOK, [Next]_vars
  PROVE  [Fifo!Next]_Queue
<1> USE QueueSize
<1>1. CASE UNCHANGED queuevars
  BY <1>1 DEF queuevars, Queue
<1>2. ASSUME NEW m \in Posted, Enqueue(m) PROVE Fifo!Post(m)
  <2> DEFINE slot == (fevent + nevents) % NUMEVENTS
  <2>1. /\ slot \in 0..(NUMEVENTS - 1)
        /\ nevents \in 0..(NUMEVENTS - 1) /\ fevent \in 0..(NUMEVENTS - 1)
        /\ DOMAIN events = 0..(NUMEVENTS - 1)
    BY <1>2, ModRange DEF QueueOK, Enqueue
  <2>2. RingSeq(events', fevent, nevents, NUMEVENTS) = Queue
    BY <1>2, <2>1, RingSeqStore DEF Enqueue, Queue
  <2>3. events' \in [0..(NUMEVENTS - 1) -> Posted \cup {NoEvent}] /\ events'[slot] = m
    BY <1>2, <2>1 DEF Enqueue, QueueOK
  <2>4. RingSeq(events', fevent, nevents + 1, NUMEVENTS)
          = Append(RingSeq(events', fevent, nevents, NUMEVENTS), m)
    BY <2>1, <2>3, RingSeqAppend
  <2>5. Queue' = Append(Queue, m)
    BY <1>2, <2>2, <2>4 DEF Enqueue, Queue
  <2>6. Len(Queue) = nevents
    BY <2>1, RingSeqLen DEF Queue
  <2> QED BY <2>1, <2>5, <2>6 DEF Fifo!Post
<1>3. CASE Dequeue
  <2>1. nevents \in 1..NUMEVENTS
    BY <1>3 DEF Dequeue, QueueOK
  <2>2. /\ Queue # <<>>
        /\ RingSeq(events, (fevent + 1) % NUMEVENTS, nevents - 1, NUMEVENTS) = Tail(Queue)
    BY <2>1, RingSeqTail DEF QueueOK, Queue
  <2> QED BY <1>3, <2>2 DEF Dequeue, Fifo!Next, Fifo!Take, Queue
<1> QED BY <1>1, <1>2, <1>3, QueueSteps DEF Fifo!Next

(* Posted events are taken in the order of the posts, whatever the threads *)
(* and interrupts do in between: the circular array implements the event   *)
(* queue of EventQueue.                                                    *)
THEOREM EventOrder == Spec => FifoSpec
<1>1. Init => Fifo!Init
  <2> SUFFICES ASSUME Init PROVE Queue = <<>>
    BY DEF Fifo!Init
  <2> QED BY DEF Init, Queue, RingSeq
<1>2. QueueOK /\ [Next]_vars => [Fifo!Next]_Queue
  BY FifoNext
<1> QED BY QueueTypes, <1>1, <1>2, PTL DEF Spec, FifoSpec, Fifo!Spec


-----------------------------------------------------------------------------
(* The C stack.                                                            *)

(* The frames of the main program and of process_run: no thread and no     *)
(* exit_process is ever below one of them.                                 *)
BottomFn == {"main", "process_run", "do_poll", "do_event"}
(* The frame of a thread that call_process called.                         *)
Called(f) == f.fn = "thread" /\ f.by = "call"
(* Which function runs directly above which, f above g.  Above a thread    *)
(* there is only what restores process_current to the thread's process,    *)
(* and above do_poll only the process it polls.                            *)
Over(f, g) ==
  /\ f.fn # "main"
  /\ f.fn \in {"process_run", "do_event"} => g.fn = "main"
  /\ f.fn = "do_poll" => g.fn \in {"process_run", "do_event"}
  /\ f.fn = "process_post_synch" => g.fn \in {"main", "thread"}
  /\ f.fn = "thread" /\ f.by = "exit" => g.fn = "exit_process" /\ g.p = f.p 
  /\ g.fn = "thread" => \/ f.fn = "process_post_synch" /\ f.caller = g.p
                        \/ f.fn = "exit_process" /\ f.old = g.p
  /\ g.fn = "do_poll" => (f.fn = "exit_process" \/ Called(f)) /\ f.p = g.q

(* f may be pushed on st.                                                  *)
MayPush(f, st) ==
  IF st = <<>> THEN f.fn = "main"
               ELSE Over(f, st[1]) /\ (f.fn \in BottomFn => st[1].fn \in BottomFn)

(* The C stack: every frame may stand on the one below it, down to the     *)
(* main program.                                                           *)
StackOK(st) ==
  /\ st \in Seq(Frame)
  /\ st # <<>> => st[Len(st)].fn = "main"
  /\ \A i \in 1..(Len(st) - 1) : Over(st[i], st[i + 1])
  /\ \A i, j \in 1..Len(st) : i <= j /\ st[i].fn \in BottomFn => st[j].fn \in BottomFn

(* A call keeps the stack's shape if its frame may stand where it is put.  *)
LEMMA PushFrame ==
  ASSUME NEW st, NEW f \in Frame, StackOK(st), MayPush(f, st)
  PROVE  StackOK(Push(f, st))
<1> DEFINE r == Push(f, st)
<1>1. PICK n \in Nat : n = Len(st)
  BY DEF StackOK
<1>2. /\ r \in Seq(Frame) /\ Len(r) = n + 1 /\ r[1] = f
      /\ \A i \in 2..(n + 1) : i - 1 \in 1..n /\ r[i] = st[i - 1]
      /\ st = <<>> <=> n = 0
  BY <1>1 DEF StackOK, Push
<1> HIDE DEF r
<1>3. r[Len(r)].fn = "main"
  BY <1>1, <1>2 DEF StackOK, MayPush
<1>4. ASSUME NEW i \in 1..n PROVE Over(r[i], r[i + 1])
  <2>1. CASE i = 1
    <3>1. r[i] = f /\ r[i + 1] = st[1] /\ st # <<>>
      BY <1>2, <2>1
    <3> QED BY <3>1 DEF MayPush
  <2>2. CASE i # 1
    <3>1. i - 1 \in 1..(n - 1) /\ r[i] = st[i - 1] /\ r[i + 1] = st[(i - 1) + 1]
      BY <1>2, <2>2
    <3> QED BY <1>1, <3>1 DEF StackOK
  <2> QED BY <2>1, <2>2
<1>5. ASSUME NEW i \in 1..(n + 1), NEW j \in 1..(n + 1), i <= j, r[i].fn \in BottomFn
      PROVE  r[j].fn \in BottomFn
  <2>1. CASE j = 1
    BY <1>5, <2>1
  <2>2. CASE j # 1 /\ i # 1
    <3>1. i - 1 \in 1..n /\ j - 1 \in 1..n /\ i - 1 <= j - 1
          /\ r[i] = st[i - 1] /\ r[j] = st[j - 1]
      BY <1>2, <1>5, <2>2
    <3> QED BY <1>1, <1>5, <3>1 DEF StackOK
  <2>3. CASE j # 1 /\ i = 1
    <3>1. 1 \in 1..n /\ j - 1 \in 1..n /\ 1 <= j - 1
          /\ r[i] = f /\ r[j] = st[j - 1] /\ st # <<>>
      BY <1>2, <1>5, <2>3
    <3>2. st[1].fn \in BottomFn
      BY <1>5, <3>1 DEF MayPush
    <3> QED BY <1>1, <3>1, <3>2 DEF StackOK
  <2> QED BY <2>1, <2>2, <2>3
<1> QED BY <1>2, <1>3, <1>4, <1>5 DEF StackOK, r

(* A return keeps the shape, and gives back what could be pushed.          *)
LEMMA PopFrame ==
  ASSUME NEW st, StackOK(st), st # <<>>
  PROVE  /\ StackOK(Tail(st)) /\ Head(st) \in Frame
         /\ MayPush(Head(st), Tail(st))
         /\ st = Push(Head(st), Tail(st))
<1> DEFINE r == Tail(st)
<1>0. st \in Seq(Frame) /\ Len(st) \in Nat \ {0}
  BY EmptySeq DEF StackOK
<1>1. PICK n \in Nat : n = Len(st) - 1
  BY <1>0
<1>2. /\ r \in Seq(Frame) /\ Len(r) = n
      /\ \A i \in 1..n : i + 1 \in 1..(n + 1) /\ r[i] = st[i + 1]
      /\ r = <<>> <=> n = 0
      /\ Head(st) = st[1] /\ Head(st) \in Frame
  <2>1. r \in Seq(Frame) /\ Len(r) = n /\ Head(st) \in Frame
        /\ \A i \in 1..Len(r) : r[i] = st[i + 1]
    BY <1>0, <1>1, HeadTailProperties
  <2>2. r = <<>> <=> n = 0
    BY <2>1, EmptySeq
  <2> QED BY <1>0, <1>1, <2>1, <2>2
<1>3. st = Push(Head(st), r)
  <2>1. /\ Push(Head(st), r) \in Seq(Frame) /\ Len(Push(Head(st), r)) = Len(st)
        /\ \A i \in 1..(n + 1) : Push(Head(st), r)[i] = IF i = 1 THEN Head(st) ELSE r[i - 1]
    BY <1>0, <1>1, <1>2 DEF Push
  <2>2. ASSUME NEW i \in 1..Len(st) PROVE st[i] = Push(Head(st), r)[i]
    <3>1. CASE i = 1
      BY <1>0, <1>1, <1>2, <2>1, <3>1
    <3>2. CASE i # 1
      <4>1. i - 1 \in 1..n /\ r[i - 1] = st[(i - 1) + 1] /\ (i - 1) + 1 = i /\ i \in 1..(n + 1)
        BY <1>0, <1>1, <1>2, <3>2
      <4> QED BY <2>1, <3>2, <4>1
    <3> QED BY <3>1, <3>2
  <2> HIDE DEF r
  <2> QED BY <1>0, <2>1, <2>2, SeqEqual
<1> HIDE DEF r
<1>4. r # <<>> => r[Len(r)].fn = "main"
  BY <1>1, <1>2 DEF StackOK
<1>5. ASSUME NEW i \in 1..(n - 1) PROVE Over(r[i], r[i + 1])
  <2>1. i + 1 \in 1..n /\ r[i] = st[i + 1] /\ r[i + 1] = st[(i + 1) + 1]
    BY <1>2
  <2> QED BY <1>1, <2>1 DEF StackOK
<1>6. ASSUME NEW i \in 1..n, NEW j \in 1..n, i <= j, r[i].fn \in BottomFn
      PROVE  r[j].fn \in BottomFn
  <2>1. i + 1 \in 1..(n + 1) /\ j + 1 \in 1..(n + 1) /\ i + 1 <= j + 1
        /\ r[i] = st[i + 1] /\ r[j] = st[j + 1]
    BY <1>2, <1>6
  <2> QED BY <1>1, <1>6, <2>1 DEF StackOK
<1>7. StackOK(r)
  BY <1>2, <1>4, <1>5, <1>6 DEF StackOK
<1>8. MayPush(Head(st), r)
  <2>1. CASE n = 0
    <3>1. r = <<>> /\ Len(st) = 1
      BY <1>1, <1>2, <2>1
    <3> QED BY <1>2, <3>1 DEF StackOK, MayPush
  <2>2. CASE n # 0
    <3>1. 1 \in 1..(Len(st) - 1) /\ 2 \in 1..Len(st) /\ r # <<>> /\ r[1] = st[1 + 1] /\ r[1] = st[2]
          /\ 1 \in 1..Len(st) /\ 1 <= 2
      BY <1>1, <1>2, <2>2
    <3>2. Over(st[1], st[1 + 1])
      BY <3>1 DEF StackOK
    <3>3. st[1].fn \in BottomFn => st[2].fn \in BottomFn
      BY <3>1 DEF StackOK
    <3> QED BY <1>2, <3>1, <3>2, <3>3 DEF MayPush
  <2> QED BY <2>1, <2>2
<1> QED BY <1>2, <1>7, <1>8, <1>3 DEF r

(* The frames the kernel's functions push are frames.                      *)
LEMMA FramesMade ==
  /\ \A n \in 0..MaxCalls : Main(n) \in Frame
  /\ Run \in Frame
  /\ \A q \in Proc \cup {NULL} : Poll(q) \in Frame
  /\ \A q \in Proc \cup {NULL}, ev \in UserEvent, ph \in {"advance", "call"} :
       Bcast(q, ev, ph) \in Frame
  /\ \A c \in Proc \cup {NULL} : Synch(c) \in Frame
  /\ \A p \in Proc, from, q, old \in Proc \cup {NULL}, ph \in {"notify", "unlink"} :
       Exiting(p, from, q, old, ph) \in Frame
  /\ \A p \in Proc, ev \in Event, by \in {"call", "exit"} : Thread(p, ev, by) \in Frame
BY CallsAssumption DEF Frame, Main, Run, Poll, Bcast, Synch, Exiting, Thread

(* A call uses up one of the caller's calls and changes nothing else.      *)
LEMMA AfterCallFrame ==
  ASSUME NEW f \in Frame, f.fn \in {"main", "thread"}, f.calls > 0
  PROVE  LET g == [f EXCEPT !.calls = @ - 1] IN
         /\ g \in Frame /\ g.fn = f.fn
         /\ f.fn = "thread" => f.p \in Proc /\ g.p = f.p /\ g.by = f.by /\ g.ev = f.ev
<1> USE CallsAssumption
<1>1. CASE f \in [fn : {"main"}, calls : 0..MaxCalls]
  BY <1>1 DEF Frame
<1>2. CASE f \in [fn : {"thread"}, p : Proc, ev : Event, by : {"call", "exit"}, calls : 0..MaxCalls]
  BY <1>2 DEF Frame
<1> QED BY <1>1, <1>2 DEF Frame

(* The types of a frame's variables.                                       *)
LEMMA FrameFields ==
  ASSUME NEW f \in Frame
  PROVE  /\ f.fn = "thread" => f.p \in Proc /\ f.ev \in Event /\ f.by \in {"call", "exit"}
         /\ f.fn = "process_post_synch" => f.caller \in Proc \cup {NULL}
         /\ f.fn = "do_poll" => f.q \in Proc \cup {NULL}
         /\ f.fn = "do_event" => /\ f.q \in Proc \cup {NULL} /\ f.ev \in UserEvent
                                 /\ f.ph \in {"advance", "call"}
         /\ f.fn = "exit_process" =>
              /\ f.p \in Proc /\ f.from \in Proc \cup {NULL} /\ f.q \in Proc \cup {NULL}
              /\ f.old \in Proc \cup {NULL} /\ f.ph \in {"notify", "unlink"}
              /\ f = Exiting(f.p, f.from, f.q, f.old, f.ph)
BY DEF Frame, Exiting

(* What a pushed frame looks like from the top.                            *)
LEMMA PushTop ==
  ASSUME NEW st \in Seq(Frame), NEW f \in Frame
  PROVE  /\ Push(f, st) # <<>> /\ Push(f, st)[1] = f
         /\ Head(Push(f, st)) = f /\ Tail(Push(f, st)) = st
BY DEF Push

(* The frame of the running function is on top of the rest of the stack.   *)
LEMMA TopRest ==
  ASSUME StackOK(stack), stack # <<>>
  PROVE  /\ StackOK(Rest) /\ Top \in Frame /\ MayPush(Top, Rest)
         /\ stack = Push(Top, Rest) /\ stack[1] = Top
         /\ Top.fn # "main" => Rest # <<>>
<1>1. PICK st : st = stack
  OBVIOUS
<1>2. StackOK(Tail(st)) /\ Head(st) \in Frame /\ MayPush(Head(st), Tail(st))
      /\ st = Push(Head(st), Tail(st))
  BY <1>1, PopFrame
<1> QED BY <1>1, <1>2 DEF Top, Rest, MayPush

(* The shape of the stack, and process_current for what runs.              *)
Shape == StackOK(stack) /\ stack # <<>> /\ CurrentOK

(* call_process may call p with st below it.                               *)
Calling(p, st) ==
  /\ StackOK(st) /\ st # <<>>
  /\ st[1].fn # "thread"
  /\ st[1].fn = "do_poll" => st[1].q = p

LEMMA CallShape ==
  ASSUME NEW s, NEW p \in Proc, NEW ev \in Event, NEW st, Calling(p, st),
         call_process(s, p, ev, st)
  PROVE  Shape'
<1>1. CASE stack' = st
  BY <1>1 DEF Shape, Calling, CurrentOK, Top
<1>2. CASE process_current' = p /\ stack' = Push(Thread(p, ev, "call"), st)
  <2> DEFINE f == Thread(p, ev, "call")
  <2>1. f \in Frame /\ f.fn = "thread" /\ f.by = "call" /\ f.p = p
    BY FramesMade DEF Thread
  <2> HIDE DEF f
  <2>2. MayPush(f, st)
    BY <2>1 DEF Calling, MayPush, Over, Called, BottomFn
  <2>3. StackOK(Push(f, st))
    BY <2>1, <2>2, PushFrame DEF Calling
  <2>4. Push(f, st) # <<>> /\ Head(Push(f, st)) = f
    BY <2>1, PushTop DEF Calling, StackOK
  <2> QED BY <1>2, <2>1, <2>3, <2>4 DEF Shape, CurrentOK, Top, f
<1> QED BY <1>1, <1>2 DEF call_process

(* exit_process may be called with st below it.                            *)
Leaving(p, cur, st) ==
  /\ StackOK(st) /\ st # <<>>
  /\ st[1].fn = "thread" => st[1].p = cur
  /\ st[1].fn = "do_poll" => st[1].q = p

LEMMA ExitShape ==
  ASSUME NEW p \in Proc, NEW from \in Proc \cup {NULL}, NEW st,
         process_current \in Proc \cup {NULL}, Leaving(p, process_current, st),
         exit_process(p, from, st), UNCHANGED process_current
  PROVE  Shape'
<1>1. CASE stack' = st
  BY <1>1 DEF Shape, Leaving, CurrentOK, Top
<1>2. CASE stack' = Push(Exiting(p, from, NULL, process_current, "notify"), st)
  <2>1. PICK f, cur : f = Exiting(p, from, NULL, cur, "notify") /\ cur = process_current
    OBVIOUS
  <2>2. f \in Frame /\ f.fn = "exit_process" /\ f.p = p /\ f.old = cur
    BY <2>1, FramesMade DEF Exiting
  <2>3. MayPush(f, st)
    BY <2>1, <2>2 DEF Leaving, MayPush, Over, Called, BottomFn
  <2>4. StackOK(Push(f, st))
    BY <2>2, <2>3, PushFrame DEF Leaving
  <2>5. Push(f, st) # <<>> /\ Head(Push(f, st)) = f
    BY <2>2, PushTop DEF Leaving, StackOK
  <2>6. stack' = Push(f, st)
    BY <1>2, <2>1
  <2> QED BY <2>2, <2>4, <2>5, <2>6 DEF Shape, CurrentOK, Top
<1> QED BY <1>1, <1>2 DEF exit_process

(* The caller's frame once it has made a call.                             *)
LEMMA AfterCallOK ==
  ASSUME Shape, MayCall
  PROVE  /\ StackOK(AfterCall) /\ AfterCall # <<>>
         /\ AfterCall[1].fn \in {"main", "thread"}
         /\ AfterCall[1].fn = "thread" => AfterCall[1].p = process_current
         /\ Head(AfterCall) = AfterCall[1]
<1>1. PICK f, rest : f = Top /\ rest = Rest
  OBVIOUS
<1>2. f \in Frame /\ f.fn \in {"main", "thread"} /\ f.calls > 0
      /\ StackOK(rest) /\ MayPush(f, rest)
  BY <1>1, TopRest DEF Shape, MayCall
<1>3. PICK g : g = [f EXCEPT !.calls = @ - 1]
  OBVIOUS
<1>4. g \in Frame /\ g.fn = f.fn /\ (f.fn = "thread" => g.p = f.p /\ g.by = f.by)
  BY <1>2, <1>3, AfterCallFrame
<1>5. MayPush(g, rest)
  BY <1>2, <1>4 DEF MayPush, Over, Called, BottomFn
<1>6. AfterCall = Push(g, rest)
  BY <1>1, <1>3 DEF AfterCall
<1>7. StackOK(Push(g, rest)) /\ Push(g, rest) # <<>> /\ Push(g, rest)[1] = g
      /\ Head(Push(g, rest)) = g
  BY <1>2, <1>4, <1>5, PushFrame, PushTop DEF StackOK
<1> QED BY <1>1, <1>2, <1>4, <1>6, <1>7 DEF Shape, CurrentOK

LEMMA SynchShape ==
  ASSUME Shape, MayCall, process_current \in Proc \cup {NULL}
  PROVE  LET st == Push(Synch(process_current), AfterCall)
         IN  StackOK(st) /\ st # <<>> /\ st[1].fn = "process_post_synch"
<1>1. PICK f, rest, cur : f = Synch(cur) /\ rest = AfterCall /\ cur = process_current
  OBVIOUS
<1>2. f \in Frame /\ f.fn = "process_post_synch" /\ f.caller = cur
  BY <1>1, FramesMade DEF Synch
<1>3. /\ StackOK(rest) /\ rest # <<>> /\ rest[1].fn \in {"main", "thread"}
      /\ rest[1].fn = "thread" => rest[1].p = cur
  BY <1>1, AfterCallOK
<1>4. MayPush(f, rest)
  BY <1>2, <1>3 DEF MayPush, Over, Called, BottomFn
<1>5. StackOK(Push(f, rest)) /\ Push(f, rest) # <<>> /\ Push(f, rest)[1] = f
  BY <1>2, <1>3, <1>4, PushFrame, PushTop DEF StackOK
<1> QED BY <1>1, <1>2, <1>5

(* The types of the kernel's other variables.                              *)
KernelTypes ==
  /\ process_list \in Proc \cup {NULL}
  /\ next \in [Proc -> Proc \cup {NULL}]
  /\ state \in [Proc -> {"NONE", "RUNNING", "CALLED"}]
  /\ needspoll \in [Proc -> BOOLEAN] /\ poll_requested \in BOOLEAN
  /\ process_current \in Proc \cup {NULL}
  /\ due \subseteq Proc

(* Only posted events are in the queue.                                    *)
QueuedPosted == Queue \in Seq(Posted)

ShapeInv == KernelTypes /\ QueueOK /\ QueuedPosted /\ Shape

(* The event do_event takes.                                               *)
LEMMA TakenPosted ==
  ASSUME QueueOK, QueuedPosted, nevents > 0
  PROVE  LET m == events[fevent]
         IN  /\ m \in Posted /\ m.ev \in Event
             /\ m.p = NULL => m.ev \in UserEvent
             /\ m.p # NULL => m.p \in Proc
<1> USE QueueSize
<1>1. nevents \in 1..NUMEVENTS
  BY DEF QueueOK
<1>2. Queue # <<>> /\ Head(Queue) = events[fevent]
  BY <1>1, RingSeqTail DEF QueueOK, Queue
<1>3. events[fevent] \in Posted
  BY <1>2, HeadTailProperties DEF QueuedPosted
<1> QED BY <1>3, PostedAssumption, NullAssumption DEF Postable, Event

LEMMA QueuedPostedNext == QueueOK /\ QueuedPosted /\ [Next]_vars => QueuedPosted'
<1> SUFFICES ASSUME QueueOK, QueuedPosted, [Next]_vars PROVE QueuedPosted'
  OBVIOUS
<1>1. CASE Queue' = Queue
  BY <1>1 DEF QueuedPosted
<1>2. ASSUME NEW m \in Posted, Queue' = Append(Queue, m) PROVE QueuedPosted'
  BY <1>2 DEF QueuedPosted
<1>3. CASE Queue # <<>> /\ Queue' = Tail(Queue)
  BY <1>3, HeadTailProperties DEF QueuedPosted
<1> QED BY <1>1, <1>2, <1>3, FifoNext DEF Fifo!Next, Fifo!Post, Fifo!Take

(* A call that returns at once.                                            *)
LEMMA ReturnedShape ==
  ASSUME Shape, MayCall, stack' = AfterCall, UNCHANGED process_current
  PROVE  Shape'
BY AfterCallOK DEF Shape, CurrentOK, Top

LEMMA CallsShape ==
  ASSUME ShapeInv, Calls
  PROVE  Shape'
<1> USE DEF ShapeInv, KernelTypes
<1>1. ASSUME NEW m \in Posted, process_post(m) PROVE Shape'
  BY <1>1, ReturnedShape DEF process_post
<1>2. ASSUME NEW p \in Proc, process_poll(p) PROVE Shape'
  BY <1>2, ReturnedShape DEF process_poll
<1>3. ASSUME NEW p \in Proc, NEW ev \in Event, NEW s, MayCall,
             call_process(s, p, ev, Push(Synch(process_current), AfterCall))
      PROVE  Shape'
  <2>1. PICK st : st = Push(Synch(process_current), AfterCall)
    OBVIOUS
  <2>2. Calling(p, st)
    BY <1>3, <2>1, SynchShape DEF Calling
  <2>3. call_process(s, p, ev, st)
    BY <1>3, <2>1
  <2> QED BY <2>2, <2>3, CallShape
<1>4. ASSUME NEW p \in Proc, NEW ev \in UserEvent, process_post_synch(p, ev) PROVE Shape'
  <2>1. PICK s : s = state
    OBVIOUS
  <2>2. MayCall /\ call_process(s, p, ev, Push(Synch(process_current), AfterCall))
    BY <1>4, <2>1 DEF process_post_synch
  <2> QED BY <1>3, <2>2 DEF Event
<1>5. ASSUME NEW p \in Proc, process_start(p) PROVE Shape'
  <2>1. CASE stack' = AfterCall /\ UNCHANGED process_current
    BY <1>5, <2>1, ReturnedShape DEF process_start
  <2>2. CASE call_process([state EXCEPT ![p] = "RUNNING"], p, "INIT",
                          Push(Synch(process_current), AfterCall))
    <3>1. PICK s : s = [state EXCEPT ![p] = "RUNNING"]
      OBVIOUS
    <3>2. MayCall /\ call_process(s, p, "INIT", Push(Synch(process_current), AfterCall))
      BY <1>5, <2>2, <3>1 DEF process_start
    <3> QED BY <1>3, <3>2 DEF Event
  <2> QED BY <1>5, <2>1, <2>2 DEF process_start
<1>6. ASSUME NEW p \in Proc, process_exit(p) PROVE Shape'
  <2>1. PICK st, cur : st = AfterCall /\ cur = process_current
    OBVIOUS
  <2>2. Leaving(p, cur, st)
    BY <1>6, <2>1, AfterCallOK DEF Leaving, process_exit
  <2>3. exit_process(p, cur, st) /\ UNCHANGED process_current
    BY <1>6, <2>1 DEF process_exit
  <2> QED BY <2>1, <2>2, <2>3, ExitShape
<1> QED BY <1>1, <1>2, <1>4, <1>5, <1>6 DEF Calls

LEMMA ReturnShape ==
  ASSUME ShapeInv, NEW exits, ThreadReturn(exits)
  PROVE  Shape'
<1> USE DEF ShapeInv, KernelTypes
<1>1. PICK f, rest : f = Top /\ rest = Rest
  OBVIOUS
<1>2. /\ f \in Frame /\ f.fn = "thread" /\ f.p \in Proc /\ f.by \in {"call", "exit"}
      /\ StackOK(rest) /\ rest # <<>> /\ MayPush(f, rest)
  BY <1>1, TopRest, FrameFields DEF ThreadReturn, Shape
<1>3. /\ rest[1].fn # "thread"
      /\ rest[1].fn = "do_poll" => rest[1].q = f.p
  BY <1>2 DEF MayPush, Over
<1>4. CASE stack' = Rest
  BY <1>1, <1>2, <1>3, <1>4 DEF Shape, CurrentOK, Top
<1>5. CASE exit_process(Top.p, Top.p, Rest)
  <2>1. exit_process(f.p, f.p, rest) /\ UNCHANGED process_current
    BY <1>1, <1>5 DEF ThreadReturn
  <2>2. Leaving(f.p, process_current, rest)
    BY <1>2, <1>3 DEF Leaving
  <2>3. PICK p \in Proc : p = f.p
    BY <1>2
  <2> QED BY <2>1, <2>2, <2>3, ExitShape
<1> QED BY <1>4, <1>5 DEF ThreadReturn

(* The successor a loop over the process list reads.                       *)
LEMMA SuccType ==
  ASSUME KernelTypes, NEW q \in Proc \cup {NULL}
  PROVE  Succ(q) \in Proc \cup {NULL}
BY DEF KernelTypes, Succ

LEMMA ExitStepsShape ==
  ASSUME ShapeInv, ExitNotify \/ ExitThread \/ ExitUnlink \/ SynchReturn
  PROVE  Shape'
<1> USE DEF ShapeInv
<1>1. PICK f, rest : f = Top /\ rest = Rest
  OBVIOUS
<1>2. /\ f \in Frame /\ f.fn \in {"exit_process", "process_post_synch"}
      /\ StackOK(rest) /\ rest # <<>> /\ MayPush(f, rest)
  BY <1>1, TopRest DEF Shape, ExitNotify, ExitThread, ExitUnlink, SynchReturn
<1>3. CASE SynchReturn
  <2>1. f.fn = "process_post_synch" /\ process_current' = f.caller /\ stack' = rest
    BY <1>1, <1>3 DEF SynchReturn
  <2>2. rest[1].fn = "thread" => f.caller = rest[1].p
    BY <1>2, <2>1 DEF MayPush, Over
  <2> QED BY <1>2, <2>1, <2>2 DEF Shape, CurrentOK, Top
<1>4. CASE ExitUnlink
  <2>1. f.fn = "exit_process" /\ process_current' = f.old /\ stack' = rest
    BY <1>1, <1>4 DEF ExitUnlink
  <2>2. rest[1].fn = "thread" => f.old = rest[1].p
    BY <1>2, <2>1 DEF MayPush, Over
  <2> QED BY <1>2, <2>1, <2>2 DEF Shape, CurrentOK, Top
<1>5. ASSUME f.fn = "exit_process", NEW g \in Frame, g.fn = "exit_process", g.p = f.p,
             g.old = f.old
      PROVE  StackOK(Push(g, rest)) /\ Push(g, rest) # <<>> /\ Push(g, rest)[1] = g
  <2>1. MayPush(g, rest)
    BY <1>2, <1>5 DEF MayPush, Over, Called, BottomFn
  <2> QED BY <1>2, <2>1, PushFrame, PushTop DEF StackOK
<1>6. CASE ExitNotify
  <2>1. f.fn = "exit_process"
    BY <1>1, <1>6 DEF ExitNotify
  <2>2. /\ f.p \in Proc /\ f.q \in Proc \cup {NULL}
        /\ f.from \in Proc \cup {NULL} /\ f.old \in Proc \cup {NULL}
        /\ f.ph \in {"notify", "unlink"} /\ f = Exiting(f.p, f.from, f.q, f.old, f.ph)
    BY <1>2, <2>1, FrameFields
  <2>3. PICK q \in Proc : q = Succ(f.q)
    <3>1. Succ(f.q) # NULL
      BY <1>1, <1>6 DEF ExitNotify
    <3> QED BY <2>2, <3>1, SuccType
  <2>4. PICK g : g = [f EXCEPT !.q = q]
    OBVIOUS
  <2>5. g = Exiting(f.p, f.from, q, f.old, f.ph)
    BY <2>2, <2>4 DEF Exiting
  <2>6. g \in Frame /\ g.fn = "exit_process" /\ g.p = f.p /\ g.old = f.old
    <3>1. g \in Frame
      BY <2>2, <2>3, <2>5, FramesMade
    <3> QED BY <2>5, <3>1 DEF Exiting
  <2>7. PICK st : st = Push(g, rest)
    OBVIOUS
  <2>8. StackOK(st) /\ st # <<>> /\ st[1] = g
    BY <1>5, <2>1, <2>6, <2>7
  <2>9. CASE stack' = st
    BY <2>6, <2>8, <2>9 DEF Shape, CurrentOK, Top
  <2>10. CASE call_process(state, q, "EXITED", st)
    <3>1. Calling(q, st)
      BY <2>6, <2>8 DEF Calling
    <3>2. PICK s : s = state
      OBVIOUS
    <3>3. call_process(s, q, "EXITED", st)
      BY <2>10, <3>2
    <3> QED BY <3>1, <3>3, CallShape DEF Event
  <2> QED BY <1>1, <1>6, <2>3, <2>4, <2>7, <2>9, <2>10 DEF ExitNotify
<1>7. CASE ExitThread
  <2>1. f.fn = "exit_process"
    BY <1>1, <1>7 DEF ExitThread
  <2>2. /\ f.p \in Proc /\ f.q \in Proc \cup {NULL}
        /\ f.from \in Proc \cup {NULL} /\ f.old \in Proc \cup {NULL}
        /\ f = Exiting(f.p, f.from, f.q, f.old, f.ph)
    BY <1>2, <2>1, FrameFields
  <2>3. PICK g : g = [f EXCEPT !.ph = "unlink"]
    OBVIOUS
  <2>4. g = Exiting(f.p, f.from, f.q, f.old, "unlink")
    BY <2>2, <2>3 DEF Exiting
  <2>5. g \in Frame /\ g.fn = "exit_process" /\ g.p = f.p /\ g.old = f.old
    <3>1. g \in Frame
      BY <2>2, <2>4, FramesMade
    <3> QED BY <2>4, <3>1 DEF Exiting
  <2>6. PICK st, t : st = Push(g, rest) /\ t = Thread(f.p, "EXIT", "exit")
    OBVIOUS
  <2>7. StackOK(st) /\ st # <<>> /\ st[1] = g
    BY <1>5, <2>1, <2>5, <2>6
  <2>8. t \in Frame /\ t.fn = "thread" /\ t.by = "exit" /\ t.p = f.p
    <3>1. t \in Frame
      BY <2>2, <2>6, FramesMade DEF Event
    <3> QED BY <2>6, <3>1 DEF Thread
  <2>9. MayPush(t, st)
    BY <2>5, <2>7, <2>8 DEF MayPush, Over, Called, BottomFn
  <2>10. StackOK(Push(t, st)) /\ Push(t, st) # <<>> /\ Head(Push(t, st)) = t
    BY <2>7, <2>8, <2>9, PushFrame, PushTop DEF StackOK
  <2>11. process_current' = f.p /\ stack' = Push(t, st)
    BY <1>1, <1>7, <2>3, <2>6 DEF ExitThread
  <2> QED BY <2>8, <2>10, <2>11 DEF Shape, CurrentOK, Top
<1> QED BY <1>3, <1>4, <1>6, <1>7

LEMMA PushTuple ==
  ASSUME NEW a \in Frame, NEW b \in Frame, NEW c \in Frame
  PROVE  Push(b, <<c>>) = <<b, c>> /\ Push(a, <<b, c>>) = <<a, b, c>>
<1>1. /\ <<a>> \in Seq(Frame) /\ <<b>> \in Seq(Frame) /\ <<c>> \in Seq(Frame)
      /\ <<b, c>> \in Seq(Frame) /\ <<a, b, c>> \in Seq(Frame)
  OBVIOUS
<1>2. Push(b, <<c>>) = <<b, c>>
  <2> DEFINE s == <<b>> \o <<c>>
  <2>1. s \in Seq(Frame) /\ Len(s) = 2 /\ \A i \in 1..2 : s[i] = IF i <= 1 THEN b ELSE c
    BY <1>1, ConcatProperties
  <2>2. \A i \in 1..2 : s[i] = <<b, c>>[i]
    BY <2>1
  <2> HIDE DEF s
  <2>3. s = <<b, c>>
    BY <1>1, <2>1, <2>2, SeqEqual
  <2> QED BY <2>3 DEF s, Push
<1>3. Push(a, <<b, c>>) = <<a, b, c>>
  <2> DEFINE s == <<a>> \o <<b, c>>
  <2>1. s \in Seq(Frame) /\ Len(s) = 3
        /\ \A i \in 1..3 : s[i] = IF i <= 1 THEN a ELSE <<b, c>>[i - 1]
    BY <1>1, ConcatProperties
  <2>2. \A i \in 1..3 : s[i] = <<a, b, c>>[i]
    BY <2>1
  <2> HIDE DEF s
  <2>3. s = <<a, b, c>>
    BY <1>1, <2>1, <2>2, SeqEqual
  <2> QED BY <2>3 DEF s, Push
<1> QED BY <1>2, <1>3

LEMMA RunShape ==
  ASSUME process_run
  PROVE  Shape'
<1>1. PICK a, b, c : a = Poll(NULL) /\ b = Run /\ c = Main(MaxCalls)
  OBVIOUS
<1>2. /\ a \in Frame /\ b \in Frame /\ c \in Frame
      /\ a.fn = "do_poll" /\ b.fn = "process_run" /\ c.fn = "main"
  <2>1. a \in Frame /\ b \in Frame /\ c \in Frame
    BY <1>1, FramesMade, CallsAssumption
  <2> QED BY <1>1, <2>1 DEF Poll, Run, Main
<1>3. PICK s1 : s1 = Push(c, <<>>)
  OBVIOUS
<1>4. StackOK(s1) /\ s1[1] = c /\ s1 # <<>> /\ s1 = <<c>>
  <2>1. StackOK(<<>>)
    BY DEF StackOK
  <2>2. MayPush(c, <<>>)
    BY <1>2 DEF MayPush
  <2>3. StackOK(s1)
    BY <1>2, <1>3, <2>1, <2>2, PushFrame
  <2>4. s1 = <<c>>
    BY <1>3 DEF Push
  <2> QED BY <2>3, <2>4
<1>5. PICK s2 : s2 = Push(b, s1)
  OBVIOUS
<1>6. StackOK(s2) /\ s2[1] = b /\ s2 # <<>> /\ s2 = <<b, c>>
  <2>1. MayPush(b, s1)
    BY <1>2, <1>4 DEF MayPush, Over, BottomFn
  <2>2. StackOK(s2)
    BY <1>2, <1>4, <1>5, <2>1, PushFrame
  <2>3. Push(b, <<c>>) = <<b, c>>
    BY <1>2, PushTuple
  <2> QED BY <1>4, <1>5, <2>2, <2>3
<1>7. PICK s3 : s3 = Push(a, s2)
  OBVIOUS
<1>8. StackOK(s3) /\ s3[1] = a /\ s3 # <<>> /\ s3 = <<a, b, c>>
  <2>1. MayPush(a, s2)
    BY <1>2, <1>6 DEF MayPush, Over, BottomFn
  <2>2. StackOK(s3)
    BY <1>2, <1>6, <1>7, <2>1, PushFrame
  <2>3. Push(a, <<b, c>>) = <<a, b, c>>
    BY <1>2, PushTuple
  <2> QED BY <1>6, <1>7, <2>2, <2>3
<1>9. stack' = s3 \/ stack' = s2
  BY <1>1, <1>6, <1>8 DEF process_run
<1> QED BY <1>2, <1>6, <1>8, <1>9 DEF Shape, CurrentOK, Top

LEMMA PollShape ==
  ASSUME ShapeInv, do_poll
  PROVE  Shape'
<1> USE DEF ShapeInv
<1>1. PICK f, rest : f = Top /\ rest = Rest
  OBVIOUS
<1>2. /\ f \in Frame /\ f.fn = "do_poll" /\ f.q \in Proc \cup {NULL}
      /\ StackOK(rest) /\ rest # <<>> /\ MayPush(f, rest)
  BY <1>1, TopRest, FrameFields DEF Shape, do_poll
<1>3. rest[1].fn \in {"process_run", "do_event"}
  BY <1>2 DEF MayPush, Over
<1>4. PICK q \in Proc \cup {NULL} : q = Succ(f.q)
  BY <1>2, SuccType
<1>5. PICK g, st : g = Poll(q) /\ st = Push(g, rest)
  OBVIOUS
<1>6. g \in Frame /\ g.fn = "do_poll" /\ g.q = q
  BY <1>5, FramesMade DEF Poll
<1>7. MayPush(g, rest)
  BY <1>2, <1>3, <1>6 DEF MayPush, Over, BottomFn
<1>8. StackOK(st) /\ st # <<>> /\ st[1] = g
  BY <1>2, <1>5, <1>6, <1>7, PushFrame, PushTop DEF StackOK
<1>9. CASE stack' = rest
  BY <1>2, <1>3, <1>9 DEF Shape, CurrentOK, Top
<1>10. CASE stack' = st
  BY <1>6, <1>8, <1>10 DEF Shape, CurrentOK, Top
<1>11. CASE q # NULL /\ call_process([state EXCEPT ![q] = "RUNNING"], q, "POLL", st)
  <2>1. Calling(q, st) /\ q \in Proc
    BY <1>6, <1>8, <1>11 DEF Calling
  <2>2. PICK s : s = [state EXCEPT ![q] = "RUNNING"]
    OBVIOUS
  <2>3. call_process(s, q, "POLL", st)
    BY <1>11, <2>2
  <2> QED BY <2>1, <2>3, CallShape DEF Event
<1> QED BY <1>1, <1>4, <1>5, <1>9, <1>10, <1>11 DEF do_poll, PollEnd

LEMMA EventShape ==
  ASSUME ShapeInv, do_event
  PROVE  Shape'
<1> USE DEF ShapeInv
<1>1. PICK f, rest : f = Top /\ rest = Rest
  OBVIOUS
<1>2. /\ f \in Frame /\ f.fn = "process_run"
      /\ StackOK(rest) /\ rest # <<>> /\ MayPush(f, rest)
  BY <1>1, TopRest DEF Shape, do_event
<1>3. rest[1].fn = "main"
  BY <1>2 DEF MayPush, Over
<1>4. CASE stack' = rest
  BY <1>2, <1>3, <1>4 DEF Shape, CurrentOK, Top
<1>5. CASE nevents > 0
  <2>1. PICK m : m = events[fevent]
    OBVIOUS
  <2>2. /\ m \in Posted /\ m.ev \in Event
        /\ m.p = NULL => m.ev \in UserEvent
        /\ m.p # NULL => m.p \in Proc
    BY <1>5, <2>1, TakenPosted
  <2>3. CASE m.p = NULL /\ stack' = Push(Bcast(NULL, m.ev, "advance"), rest)
    <3>1. PICK g : g = Bcast(NULL, m.ev, "advance")
      OBVIOUS
    <3>2. g \in Frame /\ g.fn = "do_event"
      BY <2>2, <2>3, <3>1, FramesMade DEF Bcast
    <3>3. MayPush(g, rest)
      BY <1>2, <1>3, <3>2 DEF MayPush, Over, BottomFn
    <3>4. StackOK(Push(g, rest)) /\ Push(g, rest) # <<>> /\ Head(Push(g, rest)) = g
      BY <1>2, <3>2, <3>3, PushFrame, PushTop DEF StackOK
    <3> QED BY <2>3, <3>1, <3>2, <3>4 DEF Shape, CurrentOK, Top
  <2>4. ASSUME m.p # NULL, NEW s, call_process(s, m.p, m.ev, rest) PROVE Shape'
    <3>1. PICK p \in Proc, ev \in Event : p = m.p /\ ev = m.ev
      BY <2>2, <2>4
    <3>2. Calling(p, rest) /\ call_process(s, p, ev, rest)
      BY <1>2, <1>3, <2>4, <3>1 DEF Calling
    <3> QED BY <3>2, CallShape
  <2>5. CASE m.p # NULL /\ call_process(IF m.ev = "INIT" THEN [state EXCEPT ![m.p] = "RUNNING"]
                                        ELSE state, m.p, m.ev, rest)
    <3>1. PICK s : s = IF m.ev = "INIT" THEN [state EXCEPT ![m.p] = "RUNNING"] ELSE state
      OBVIOUS
    <3> QED BY <2>4, <2>5, <3>1
  <2> QED BY <1>1, <1>4, <1>5, <2>1, <2>3, <2>5 DEF do_event, QueueOK
<1> QED BY <1>1, <1>4, <1>5 DEF do_event

LEMMA BroadcastShape ==
  ASSUME ShapeInv, Broadcast
  PROVE  Shape'
<1> USE DEF ShapeInv
<1>1. PICK f, rest : f = Top /\ rest = Rest
  OBVIOUS
<1>2. /\ f \in Frame /\ f.fn = "do_event" /\ f.q \in Proc \cup {NULL} /\ f.ev \in UserEvent
      /\ StackOK(rest) /\ rest # <<>> /\ MayPush(f, rest)
  BY <1>1, TopRest, FrameFields DEF Shape, Broadcast
<1>3. rest[1].fn = "main"
  BY <1>2 DEF MayPush, Over
<1>4. CASE stack' = rest
  BY <1>2, <1>3, <1>4 DEF Shape, CurrentOK, Top
<1>5. PICK q \in Proc \cup {NULL} : q = IF f.ph = "advance" THEN Succ(f.q) ELSE f.q
  BY <1>2, SuccType
<1>6. ASSUME NEW g, g.fn = "do_event", g \in Frame
      PROVE  StackOK(Push(g, rest)) /\ Push(g, rest) # <<>> /\ Push(g, rest)[1] = g
  <2>1. MayPush(g, rest)
    BY <1>2, <1>3, <1>6 DEF MayPush, Over, BottomFn
  <2> QED BY <1>2, <1>6, <2>1, PushFrame, PushTop DEF StackOK
<1>7. CASE stack' = Push(Poll(NULL), Push(Bcast(q, f.ev, "call"), rest))
  <2>1. PICK g, st, h : g = Bcast(q, f.ev, "call") /\ st = Push(g, rest) /\ h = Poll(NULL)
    OBVIOUS
  <2>2. g \in Frame /\ g.fn = "do_event" /\ h \in Frame /\ h.fn = "do_poll"
    BY <1>2, <2>1, FramesMade DEF Bcast, Poll
  <2>3. StackOK(st) /\ st # <<>> /\ st[1] = g
    BY <1>6, <2>1, <2>2
  <2>4. MayPush(h, st)
    BY <2>2, <2>3 DEF MayPush, Over, BottomFn
  <2>5. StackOK(Push(h, st)) /\ Push(h, st) # <<>> /\ Head(Push(h, st)) = h
    BY <2>2, <2>3, <2>4, PushFrame, PushTop DEF StackOK
  <2> QED BY <1>7, <2>1, <2>2, <2>5 DEF Shape, CurrentOK, Top
<1>8. CASE q # NULL /\ call_process(state, q, f.ev, Push(Bcast(q, f.ev, "advance"), rest))
  <2>1. PICK g, st, s : g = Bcast(q, f.ev, "advance") /\ st = Push(g, rest) /\ s = state
    OBVIOUS
  <2>2. g \in Frame /\ g.fn = "do_event"
    BY <1>2, <2>1, FramesMade DEF Bcast
  <2>3. StackOK(st) /\ st # <<>> /\ st[1] = g
    BY <1>6, <2>1, <2>2
  <2>4. q \in Proc /\ Calling(q, st) /\ call_process(s, q, f.ev, st)
    BY <1>8, <2>1, <2>2, <2>3 DEF Calling
  <2>5. PICK ev \in Event : ev = f.ev
    BY <1>2 DEF Event
  <2> QED BY <2>4, <2>5, CallShape
<1> QED BY <1>1, <1>4, <1>5, <1>7, <1>8 DEF Broadcast

LEMMA ShapeNext ==
  ASSUME ShapeInv, [Next]_vars
  PROVE  Shape'
<1>1. CASE Calls
  BY <1>1, CallsShape
<1>2. CASE \E exits \in BOOLEAN : ThreadReturn(exits)
  BY <1>2, ReturnShape
<1>3. CASE Kernel
  BY <1>3, RunShape, PollShape, EventShape, BroadcastShape, ExitStepsShape DEF Kernel
<1>4. CASE (\E p \in Proc : InterruptPoll(p)) \/ UNCHANGED vars
  BY <1>4 DEF InterruptPoll, vars, ShapeInv, Shape, CurrentOK, Top
<1> QED BY <1>1, <1>2, <1>3, <1>4 DEF Next

LEMMA CallTypes ==
  ASSUME NEW s \in [Proc -> {"NONE", "RUNNING", "CALLED"}], NEW p \in Proc, NEW ev, NEW st,
         process_current \in Proc \cup {NULL}, call_process(s, p, ev, st)
  PROVE  /\ state' \in [Proc -> {"NONE", "RUNNING", "CALLED"}]
         /\ process_current' \in Proc \cup {NULL}
BY DEF call_process

LEMMA UnlinkTypes ==
  ASSUME KernelTypes, NEW p \in Proc, Unlink(p)
  PROVE  /\ process_list' \in Proc \cup {NULL}
         /\ next' \in [Proc -> Proc \cup {NULL}]
         /\ due' \subseteq Proc
BY DEF KernelTypes, Unlink

LEMMA ExitTypes ==
  ASSUME KernelTypes, NEW p \in Proc, NEW from, NEW st, exit_process(p, from, st)
  PROVE  /\ process_list' \in Proc \cup {NULL}
         /\ next' \in [Proc -> Proc \cup {NULL}]
         /\ due' \subseteq Proc
         /\ state' \in [Proc -> {"NONE", "RUNNING", "CALLED"}]
<1>1. CASE UNCHANGED <<listvars, due>> /\ (state' = state \/ state' = [state EXCEPT ![p] = "NONE"])
  BY <1>1 DEF KernelTypes, listvars
<1>2. CASE Unlink(p) /\ state' = state
  BY <1>2, UnlinkTypes DEF KernelTypes
<1> QED BY <1>1, <1>2 DEF exit_process, listvars

LEMMA PollTypes ==
  ASSUME KernelTypes, NEW p \in Proc, RequestPoll(p)
  PROVE  needspoll' \in [Proc -> BOOLEAN] /\ poll_requested' \in BOOLEAN
BY DEF KernelTypes, RequestPoll, pollvars

LEMMA TypesNext ==
  ASSUME ShapeInv, [Next]_vars
  PROVE  KernelTypes'
<1>0. KernelTypes /\ Shape
  BY DEF ShapeInv
<1>1. ASSUME NEW m \in Posted, process_post(m) PROVE KernelTypes'
  BY <1>0, <1>1 DEF process_post, KernelTypes, listvars, pollvars
<1>2. ASSUME NEW p \in Proc, NEW ev \in UserEvent, process_post_synch(p, ev) PROVE KernelTypes'
  <2>1. PICK s, st : s = state /\ st = Push(Synch(process_current), AfterCall)
    OBVIOUS
  <2>2. call_process(s, p, ev, st) /\ s \in [Proc -> {"NONE", "RUNNING", "CALLED"}]
    BY <1>0, <1>2, <2>1 DEF process_post_synch, KernelTypes
  <2>3. /\ state' \in [Proc -> {"NONE", "RUNNING", "CALLED"}]
        /\ process_current' \in Proc \cup {NULL}
    BY <1>0, <2>2, CallTypes DEF KernelTypes
  <2> QED BY <1>0, <1>2, <2>3 DEF process_post_synch, KernelTypes, listvars, pollvars
<1>3. ASSUME NEW p \in Proc, process_start(p) PROVE KernelTypes'
  <2>1. CASE UNCHANGED <<listvars, state, process_current>>
    BY <1>0, <1>3, <2>1 DEF process_start, KernelTypes, listvars, pollvars
  <2>2. CASE /\ next' = [next EXCEPT ![p] = process_list] /\ process_list' = p
             /\ call_process([state EXCEPT ![p] = "RUNNING"], p, "INIT",
                             Push(Synch(process_current), AfterCall))
    <3>1. PICK s, st : /\ s = [state EXCEPT ![p] = "RUNNING"]
                       /\ st = Push(Synch(process_current), AfterCall)
      OBVIOUS
    <3>2. call_process(s, p, "INIT", st) /\ s \in [Proc -> {"NONE", "RUNNING", "CALLED"}]
      BY <1>0, <2>2, <3>1 DEF KernelTypes
    <3>3. /\ state' \in [Proc -> {"NONE", "RUNNING", "CALLED"}]
          /\ process_current' \in Proc \cup {NULL}
      BY <1>0, <3>2, CallTypes DEF KernelTypes
    <3> QED BY <1>0, <1>3, <2>2, <3>3 DEF process_start, KernelTypes, pollvars
  <2> QED BY <1>3, <2>1, <2>2 DEF process_start
<1>4. ASSUME NEW p \in Proc, process_exit(p) PROVE KernelTypes'
  <2>1. PICK from, st : from = process_current /\ st = AfterCall
    OBVIOUS
  <2>2. exit_process(p, from, st)
    BY <1>4, <2>1 DEF process_exit
  <2>3. /\ process_list' \in Proc \cup {NULL}
        /\ next' \in [Proc -> Proc \cup {NULL}]
        /\ due' \subseteq Proc
        /\ state' \in [Proc -> {"NONE", "RUNNING", "CALLED"}]
    BY <1>0, <2>2, ExitTypes
  <2> QED BY <1>0, <1>4, <2>3 DEF process_exit, KernelTypes, pollvars
<1>5. ASSUME NEW p \in Proc, process_poll(p) \/ InterruptPoll(p) PROVE KernelTypes'
  <2>1. RequestPoll(p) /\ UNCHANGED <<listvars, state, process_current, due>>
    BY <1>5 DEF process_poll, InterruptPoll
  <2> QED BY <1>0, <2>1, PollTypes DEF KernelTypes, listvars
<1>6. ASSUME NEW exits \in BOOLEAN, ThreadReturn(exits) PROVE KernelTypes'
  <2>1. PICK f, st : f = Top /\ st = Rest
    OBVIOUS
  <2>2. f.p \in Proc
    BY <1>0, <1>6, <2>1, TopRest, FrameFields DEF Shape, ThreadReturn
  <2>3. PICK p \in Proc : p = f.p
    BY <2>2
  <2>4. CASE exit_process(p, p, st)
    <3>1. /\ process_list' \in Proc \cup {NULL}
          /\ next' \in [Proc -> Proc \cup {NULL}]
          /\ due' \subseteq Proc
          /\ state' \in [Proc -> {"NONE", "RUNNING", "CALLED"}]
      BY <1>0, <2>4, ExitTypes
    <3> QED BY <1>0, <1>6, <3>1 DEF ThreadReturn, KernelTypes, pollvars
  <2>5. CASE /\ state' = [state EXCEPT ![p] = "RUNNING"] \/ state' = state
             /\ UNCHANGED <<listvars, due>>
    BY <1>0, <1>6, <2>5 DEF ThreadReturn, KernelTypes, pollvars, listvars
  <2> QED BY <1>6, <2>1, <2>3, <2>4, <2>5 DEF ThreadReturn
<1>7. CASE process_run
  BY <1>0, <1>7 DEF process_run, KernelTypes, listvars
<1>8. CASE SynchReturn
  <2>1. Top.caller \in Proc \cup {NULL}
    BY <1>0, <1>8, TopRest, FrameFields DEF Shape, SynchReturn
  <2> QED BY <1>0, <1>8, <2>1 DEF SynchReturn, KernelTypes, listvars, pollvars
<1>9. CASE ExitNotify \/ ExitThread \/ ExitUnlink
  <2>1. PICK f : f = Top
    OBVIOUS
  <2>2. f.p \in Proc /\ f.q \in Proc \cup {NULL} /\ f.old \in Proc \cup {NULL}
    BY <1>0, <1>9, <2>1, TopRest, FrameFields DEF Shape, ExitNotify, ExitThread, ExitUnlink
  <2>3. CASE ExitNotify
    <3>1. PICK q \in Proc \cup {NULL} : q = Succ(f.q)
      BY <1>0, <2>2, SuccType
    <3>2. PICK s, st : s = state /\ st = Push([f EXCEPT !.q = q], Rest)
      OBVIOUS
    <3>3. CASE UNCHANGED <<state, process_current>>
      BY <1>0, <2>3, <3>3 DEF ExitNotify, KernelTypes, listvars, pollvars
    <3>4. CASE q # NULL /\ call_process(s, q, "EXITED", st)
      <4>1. q \in Proc /\ s \in [Proc -> {"NONE", "RUNNING", "CALLED"}]
        BY <1>0, <3>2, <3>4 DEF KernelTypes
      <4>2. /\ state' \in [Proc -> {"NONE", "RUNNING", "CALLED"}]
            /\ process_current' \in Proc \cup {NULL}
        BY <1>0, <3>4, <4>1, CallTypes DEF KernelTypes
      <4> QED BY <1>0, <2>3, <4>2 DEF ExitNotify, KernelTypes, listvars, pollvars
    <3> QED BY <2>1, <2>3, <3>1, <3>2, <3>3, <3>4 DEF ExitNotify
  <2>4. CASE ExitThread
    BY <1>0, <2>1, <2>2, <2>4 DEF ExitThread, KernelTypes, listvars, pollvars
  <2>5. CASE ExitUnlink
    <3>1. Unlink(f.p) /\ process_current' = f.old
      BY <2>1, <2>5 DEF ExitUnlink
    <3>2. PICK p \in Proc : p = f.p
      BY <2>2
    <3>3. /\ process_list' \in Proc \cup {NULL}
          /\ next' \in [Proc -> Proc \cup {NULL}]
          /\ due' \subseteq Proc
      BY <1>0, <3>1, <3>2, UnlinkTypes
    <3> QED BY <1>0, <2>2, <2>5, <3>1, <3>3 DEF ExitUnlink, KernelTypes, pollvars
  <2> QED BY <1>9, <2>3, <2>4, <2>5
<1>10. CASE do_poll
  <2>1. PICK f : f = Top
    OBVIOUS
  <2>2. f.q \in Proc \cup {NULL}
    BY <1>0, <1>10, <2>1, TopRest, FrameFields DEF Shape, do_poll
  <2>3. PICK q \in Proc \cup {NULL} : q = Succ(f.q)
    BY <1>0, <2>2, SuccType
  <2>4. PICK s, st : s = [state EXCEPT ![q] = "RUNNING"] /\ st = Push(Poll(q), Rest)
    OBVIOUS
  <2>5. CASE UNCHANGED <<listvars, state, pollvars, process_current, due>>
    BY <1>0, <2>5 DEF KernelTypes, listvars, pollvars
  <2>6. CASE /\ q # NULL /\ needspoll' = [needspoll EXCEPT ![q] = FALSE]
             /\ call_process(s, q, "POLL", st)
             /\ UNCHANGED <<listvars, poll_requested, due>>
    <3>1. q \in Proc /\ s \in [Proc -> {"NONE", "RUNNING", "CALLED"}]
      BY <1>0, <2>4, <2>6 DEF KernelTypes
    <3>2. /\ state' \in [Proc -> {"NONE", "RUNNING", "CALLED"}]
          /\ process_current' \in Proc \cup {NULL}
      BY <1>0, <2>6, <3>1, CallTypes DEF KernelTypes
    <3> QED BY <1>0, <2>6, <3>2 DEF KernelTypes, listvars
  <2> QED BY <1>10, <2>1, <2>3, <2>4, <2>5, <2>6 DEF do_poll, PollEnd
<1>11. CASE do_event
  <2>1. CASE UNCHANGED <<state, process_current>> /\ due' \subseteq Proc
    BY <1>0, <1>11, <2>1 DEF do_event, KernelTypes, listvars, pollvars
  <2>2. CASE /\ nevents > 0 /\ events[fevent].p # NULL /\ UNCHANGED due
             /\ call_process(IF events[fevent].ev = "INIT"
                               THEN [state EXCEPT ![events[fevent].p] = "RUNNING"] ELSE state,
                             events[fevent].p, events[fevent].ev, Rest)
    <3>1. PICK m : m = events[fevent]
      OBVIOUS
    <3>2. m.p \in Proc
      BY <2>2, <3>1, TakenPosted DEF ShapeInv
    <3>3. PICK s, p, ev, st :
            /\ s = IF m.ev = "INIT" THEN [state EXCEPT ![m.p] = "RUNNING"] ELSE state
            /\ p = m.p /\ ev = m.ev /\ st = Rest
      OBVIOUS
    <3>4. s \in [Proc -> {"NONE", "RUNNING", "CALLED"}] /\ call_process(s, p, ev, st)
      BY <1>0, <2>2, <3>1, <3>2, <3>3 DEF KernelTypes
    <3>5. /\ state' \in [Proc -> {"NONE", "RUNNING", "CALLED"}]
          /\ process_current' \in Proc \cup {NULL}
      BY <1>0, <3>2, <3>3, <3>4, CallTypes DEF KernelTypes
    <3> QED BY <1>0, <1>11, <2>2, <3>5 DEF do_event, KernelTypes, listvars, pollvars
  <2> QED BY <1>0, <1>11, <2>1, <2>2 DEF do_event, KernelTypes
<1>12. CASE Broadcast
  <2>1. PICK f : f = Top
    OBVIOUS
  <2>2. f.q \in Proc \cup {NULL}
    BY <1>0, <1>12, <2>1, TopRest, FrameFields DEF Shape, Broadcast
  <2>3. PICK q \in Proc \cup {NULL} : q = IF f.ph = "advance" THEN Succ(f.q) ELSE f.q
    BY <1>0, <2>2, SuccType
  <2>4. PICK s, st, ev : s = state /\ st = Push(Bcast(q, f.ev, "advance"), Rest) /\ ev = f.ev
    OBVIOUS
  <2>5. CASE UNCHANGED <<state, process_current, due>> /\ poll_requested' \in BOOLEAN
    BY <1>0, <1>12, <2>5 DEF Broadcast, KernelTypes, listvars
  <2>6. CASE /\ q # NULL /\ call_process(s, q, ev, st)
             /\ due' = due \ {q} /\ UNCHANGED poll_requested
    <3>1. q \in Proc /\ s \in [Proc -> {"NONE", "RUNNING", "CALLED"}]
      BY <1>0, <2>4, <2>6 DEF KernelTypes
    <3>2. /\ state' \in [Proc -> {"NONE", "RUNNING", "CALLED"}]
          /\ process_current' \in Proc \cup {NULL}
      BY <1>0, <2>6, <3>1, CallTypes DEF KernelTypes
    <3> QED BY <1>0, <1>12, <2>6, <3>2 DEF Broadcast, KernelTypes, listvars
  <2> QED BY <1>0, <1>12, <2>1, <2>3, <2>4, <2>5, <2>6 DEF Broadcast, KernelTypes
<1>13. CASE UNCHANGED vars
  BY <1>0, <1>13 DEF vars, KernelTypes
<1> QED BY <1>1, <1>2, <1>3, <1>4, <1>5, <1>6, <1>7, <1>8, <1>9, <1>10, <1>11, <1>12, <1>13
        DEF Next, Calls, Kernel

-----------------------------------------------------------------------------
(* The process list.                                                       *)

(* The pointers form a list of different processes.                        *)
ListInv == \E s : Chain(process_list, next, NULL, s)

LEMMA ListSteps ==
  ASSUME ShapeInv, [Next]_vars
  PROVE  \/ UNCHANGED listvars
         \/ \E p \in Proc : /\ ~Listed(p) /\ next' = [next EXCEPT ![p] = process_list]
                            /\ process_list' = p
         \/ \E p \in Proc : Unlink(p)
<1>1. ASSUME NEW p \in Proc, NEW from, NEW st, exit_process(p, from, st)
      PROVE  UNCHANGED listvars \/ Unlink(p)
  BY <1>1 DEF exit_process, listvars
<1>2. ASSUME NEW p \in Proc, process_exit(p)
      PROVE  UNCHANGED listvars \/ Unlink(p)
  <2>1. PICK from, st : from = process_current /\ st = AfterCall
    OBVIOUS
  <2> QED BY <1>1, <1>2, <2>1 DEF process_exit
<1>3. ASSUME NEW exits \in BOOLEAN, ThreadReturn(exits)
      PROVE  UNCHANGED listvars \/ \E p \in Proc : Unlink(p)
  <2>1. PICK p, st : p = Top.p /\ st = Rest
    OBVIOUS
  <2>2. p \in Proc
    BY <1>3, <2>1, TopRest, FrameFields DEF ShapeInv, Shape, ThreadReturn
  <2>3. CASE exit_process(p, p, st)
    BY <1>1, <2>2, <2>3
  <2>4. CASE UNCHANGED listvars
    BY <2>4
  <2> QED BY <1>3, <2>1, <2>3, <2>4 DEF ThreadReturn
<1>4. ASSUME ExitUnlink PROVE \E p \in Proc : Unlink(p)
  <2>1. Top.p \in Proc
    BY <1>4, TopRest, FrameFields DEF ShapeInv, Shape, ExitUnlink
  <2>2. PICK p \in Proc : p = Top.p
    BY <2>1
  <2> QED BY <1>4, <2>2 DEF ExitUnlink
<1>5. ASSUME NEW p \in Proc, process_start(p)
      PROVE  \/ UNCHANGED listvars
             \/ /\ ~Listed(p) /\ next' = [next EXCEPT ![p] = process_list]
                /\ process_list' = p
  BY <1>5 DEF process_start
<1>6. CASE \/ \E m \in Posted : process_post(m)
           \/ \E p \in Proc, ev \in UserEvent : process_post_synch(p, ev)
           \/ \E p \in Proc : process_poll(p) \/ InterruptPoll(p)
  BY <1>6 DEF process_post, process_post_synch, process_poll, InterruptPoll
<1>7. CASE process_run \/ do_event \/ Broadcast \/ ExitNotify \/ ExitThread \/ SynchReturn
  BY <1>7 DEF process_run, do_event, Broadcast, ExitNotify, ExitThread, SynchReturn
<1>8. CASE do_poll
  BY <1>8 DEF do_poll, PollEnd
<1>9. CASE UNCHANGED vars
  BY <1>9 DEF vars, listvars
<1> QED BY <1>2, <1>3, <1>4, <1>5, <1>6, <1>7, <1>8, <1>9 DEF Next, Calls, Kernel

LEMMA ListedChain ==
  ASSUME NEW head, NEW nxt \in [Proc -> Proc \cup {NULL}], NEW s, Chain(head, nxt, NULL, s)
  PROVE  /\ Nodes(head, nxt, NULL) = Elems(s) /\ Elems(s) \subseteq Proc
         /\ Ends(head, nxt, NULL)
<1>1. DOMAIN nxt = Proc
  OBVIOUS
<1>2. Elems(s) \subseteq Proc
  BY <1>1 DEF Chain, Elems
<1> QED BY <1>1, <1>2, NullAssumption, ChainNodes

(* process_start: p becomes the head.                                      *)
LEMMA Linked ==
  ASSUME ListInv, KernelTypes, NEW p \in Proc, ~Listed(p),
         next' = [next EXCEPT ![p] = process_list], process_list' = p
  PROVE  /\ ListInv'
         /\ \A q : Listed(q)' <=> Listed(q) \/ q = p
<1>1. PICK s, head, nxt : Chain(head, nxt, NULL, s) /\ head = process_list /\ nxt = next
  BY DEF ListInv
<1>2. nxt \in [Proc -> Proc \cup {NULL}] /\ DOMAIN nxt = Proc
  BY <1>1 DEF KernelTypes
<1>3. Nodes(head, nxt, NULL) = Elems(s)
  BY <1>1, <1>2, ListedChain
<1>4. p \notin Elems(s)
  BY <1>1, <1>3 DEF Listed
<1>5. PICK t : t = <<p>> \o s
  OBVIOUS
<1>6. PICK nxt2 : nxt2 = [nxt EXCEPT ![p] = head]
  OBVIOUS
<1>7. Chain(p, nxt2, NULL, t) /\ Elems(t) = Elems(s) \cup {p}
  <2>1. p \in DOMAIN nxt /\ NULL \notin DOMAIN nxt /\ Chain(head, nxt, NULL, s)
    BY <1>1, <1>2, NullAssumption
  <2>2. Prepends(head, nxt, s, p, nxt2, t)
    BY <1>5, <1>6 DEF Prepends
  <2> QED BY <1>4, <2>1, <2>2, ChainPush
<1>8. nxt2 \in [Proc -> Proc \cup {NULL}]
  BY <1>1, <1>2, <1>6 DEF KernelTypes
<1>9. Nodes(p, nxt2, NULL) = Elems(t)
  BY <1>7, <1>6, <1>8, ListedChain
<1>10. next' = nxt2 /\ process_list' = p
  BY <1>1, <1>6
<1>11. ListInv'
  <2>1. Chain(process_list', next', NULL, t)
    BY <1>7, <1>10
  <2> QED BY <2>1 DEF ListInv
<1>12. ASSUME NEW q PROVE Listed(q)' <=> Listed(q) \/ q = p
  <2>1. Listed(q)' <=> q \in Elems(t)
    BY <1>9, <1>10 DEF Listed
  <2>2. Listed(q) <=> q \in Elems(s)
    BY <1>1, <1>3 DEF Listed
  <2> QED BY <1>7, <2>1, <2>2
<1> QED BY <1>11, <1>12

(* exit_process: p leaves the list, and its own next pointer still leads   *)
(* back into it.                                                           *)
LEMMA Unlinked ==
  ASSUME ListInv, KernelTypes, NEW p \in Proc, Unlink(p)
  PROVE  /\ ListInv'
         /\ \A q : Listed(q)' <=> Listed(q) /\ q # p
         /\ Listed(p) => (next[p] = NULL \/ Listed(next[p]))'
<1>1. PICK s, head, nxt, head2, nxt2 :
        /\ Chain(head, nxt, NULL, s) /\ head = process_list /\ nxt = next
        /\ head2 = process_list' /\ nxt2 = next'
  BY DEF ListInv
<1>2. nxt \in [Proc -> Proc \cup {NULL}] /\ nxt2 \in [Proc -> Proc \cup {NULL}]
      /\ DOMAIN nxt = Proc /\ DOMAIN nxt2 = Proc
  BY <1>1, UnlinkTypes DEF KernelTypes
<1>3. Nodes(head, nxt, NULL) = Elems(s) /\ \A q : Listed(q) <=> q \in Elems(s)
  BY <1>1, <1>2, ListedChain DEF Listed
<1>4. IF p = head
        THEN head2 = nxt[p] /\ nxt2 = nxt
        ELSE /\ nxt2 = [q \in Proc |-> IF q \in Elems(s) /\ nxt[q] = p THEN nxt[p] ELSE nxt[q]]
             /\ head2 = head
  BY <1>1, <1>3 DEF Unlink
<1>5. PICK n \in Nat : n = Len(s)
  BY <1>1 DEF Chain
<1>6. /\ \A i \in 1..n : s[i] \in Proc
      /\ \A i, j \in 1..n : s[i] = s[j] => i = j
      /\ head = IF n = 0 THEN NULL ELSE s[1]
      /\ \A i \in 1..n : nxt[s[i]] = IF i = n THEN NULL ELSE s[i + 1]
      /\ \A q : q \in Elems(s) <=> \E i \in 1..n : q = s[i]
  <2>1. s = <<>> <=> n = 0
    BY <1>1, <1>5 DEF Chain
  <2> QED BY <1>1, <1>2, <1>5, <2>1 DEF Chain, Elems
<1>7. CASE p \notin Elems(s)
  <2>1. p # head
    BY <1>6, <1>7, NullAssumption
  <2>2. ASSUME NEW q \in Elems(s) PROVE nxt[q] # p
    <3>1. PICK i \in 1..n : q = s[i]
      BY <1>6
    <3>2. nxt[q] = NULL \/ (i + 1 \in 1..n /\ nxt[q] = s[i + 1])
      BY <1>6, <3>1
    <3> QED BY <1>6, <1>7, <3>2, NullAssumption
  <2>3. nxt2 = nxt
    BY <1>2, <1>4, <2>1, <2>2
  <2> QED BY <1>1, <1>3, <1>4, <1>7, <2>1, <2>3 DEF ListInv, Listed
<1>8. CASE p \in Elems(s)
  <2>1. PICK k \in 1..n : p = s[k]
    BY <1>6, <1>8
  <2>2. p = head <=> k = 1
    BY <1>6, <2>1
  <2>3. head2 = IF k = 1 THEN nxt[s[1]] ELSE head
    BY <1>4, <2>1, <2>2
  <2>4. ASSUME NEW i \in 1..n, i # k
        PROVE  nxt2[s[i]] = IF i = k - 1 THEN nxt[s[k]] ELSE nxt[s[i]]
    <3>1. nxt[s[i]] = p <=> i = k - 1
      BY <1>6, <2>1, <2>4, NullAssumption
    <3> QED BY <1>4, <1>6, <2>1, <2>2, <3>1
  <2>5. PICK t : t = Cut(s, k)
    OBVIOUS
  <2>6. Chain(head2, nxt2, NULL, t) /\ Elems(t) = Elems(s) \ {s[k]}
    <3>1. k \in 1..Len(s) /\ Skips(head, nxt, s, k, head2, nxt2)
      BY <1>2, <1>5, <2>3, <2>4 DEF Skips
    <3> QED BY <1>1, <2>5, <3>1, ChainCut
  <2>7. Nodes(head2, nxt2, NULL) = Elems(t)
    BY <1>2, <2>6, ListedChain
  <2>8. \A q : Listed(q)' <=> q \in Elems(t)
    BY <1>1, <2>7 DEF Listed
  <2>9. nxt2[p] = NULL \/ nxt2[p] \in Elems(t)
    <3>1. nxt[p] # p
      BY <1>6, <2>1, NullAssumption
    <3>2. nxt2[p] = nxt[p]
      BY <1>2, <1>4, <3>1
    <3>3. nxt[p] = NULL \/ nxt[p] \in Elems(s)
      BY <1>6, <2>1
    <3> QED BY <2>1, <2>6, <3>1, <3>2, <3>3
  <2>10. ListInv'
    <3>1. Chain(process_list', next', NULL, t)
      BY <1>1, <2>6
    <3> QED BY <3>1 DEF ListInv
  <2>11. ASSUME NEW q PROVE Listed(q)' <=> Listed(q) /\ q # p
    BY <1>3, <2>1, <2>6, <2>8
  <2>12. (next[p] = NULL \/ Listed(next[p]))'
    <3>1. PICK x : x = next'[p]
      OBVIOUS
    <3>2. x = NULL \/ Listed(x)'
      BY <1>1, <2>8, <2>9, <3>1
    <3> QED BY <3>1, <3>2 DEF Listed
  <2> QED BY <2>10, <2>11, <2>12
<1> QED BY <1>7, <1>8

KernelInv == ShapeInv /\ ListInv

LEMMA KernelInvInit == Init => KernelInv
<1> SUFFICES ASSUME Init PROVE KernelInv
  OBVIOUS
<1>1. KernelTypes
  BY DEF Init, KernelTypes
<1>2. QueueOK
  BY QueueOKInit
<1>3. QueuedPosted
  BY DEF Init, QueuedPosted, Queue, RingSeq
<1>4. PICK f : f = Main(MaxCalls)
  OBVIOUS
<1>5. f \in Frame /\ f.fn = "main" /\ stack = <<f>>
  BY <1>4, FramesMade, CallsAssumption DEF Main, Init
<1>6. StackOK(Push(f, <<>>)) /\ Push(f, <<>>) = <<f>>
  <2>1. StackOK(<<>>) /\ MayPush(f, <<>>)
    BY <1>5 DEF StackOK, MayPush
  <2>2. StackOK(Push(f, <<>>))
    BY <1>5, <2>1, PushFrame
  <2> QED BY <2>2 DEF Push
<1>7. Shape
  BY <1>5, <1>6 DEF Shape, CurrentOK, Top
<1>8. ListInv
  <2>1. Chain(process_list, next, NULL, <<>>)
    BY DEF Init, Chain
  <2> QED BY <2>1 DEF ListInv
<1> QED BY <1>1, <1>2, <1>3, <1>7, <1>8 DEF KernelInv, ShapeInv

LEMMA KernelInvNext == KernelInv /\ [Next]_vars => KernelInv'
<1> SUFFICES ASSUME KernelInv, [Next]_vars PROVE KernelInv'
  OBVIOUS
<1> USE DEF KernelInv
<1>1. ShapeInv'
  BY TypesNext, ShapeNext, QueueOKNext, QueuedPostedNext DEF ShapeInv
<1>2. ListInv'
  <2>1. CASE UNCHANGED listvars
    BY <2>1 DEF ListInv, listvars
  <2>2. ASSUME NEW p \in Proc, ~Listed(p), next' = [next EXCEPT ![p] = process_list],
               process_list' = p
        PROVE  ListInv'
    BY <2>2, Linked DEF ShapeInv
  <2>3. ASSUME NEW p \in Proc, Unlink(p) PROVE ListInv'
    BY <2>3, Unlinked DEF ShapeInv
  <2> QED BY <2>1, <2>2, <2>3, ListSteps
<1> QED BY <1>1, <1>2

LEMMA KernelInvariance == Spec => []KernelInv
BY KernelInvInit, KernelInvNext, PTL DEF Spec

(* The kernel's variables keep their types, and the stack holds the frames *)
(* of its functions only.                                                  *)
THEOREM Typed == Spec => []TypeOK
<1>1. KernelInv => TypeOK
  BY DEF KernelInv, ShapeInv, KernelTypes, QueueOK, Shape, StackOK, TypeOK
<1> QED BY <1>1, KernelInvariance, PTL

(* Whatever threads start and exit while the kernel walks the process list *)
(* in do_poll, do_event and exit_process, the list ends and holds no       *)
(* process twice.                                                          *)
THEOREM ListKept == Spec => []ListOK
<1>1. KernelInv => ListOK
  <2> SUFFICES ASSUME KernelInv PROVE ListOK
    OBVIOUS
  <2>1. PICK s, head, nxt : Chain(head, nxt, NULL, s) /\ head = process_list /\ nxt = next
    BY DEF KernelInv, ListInv
  <2>2. nxt \in [Proc -> Proc \cup {NULL}]
    BY <2>1 DEF KernelInv, ShapeInv, KernelTypes
  <2>3. Ends(head, nxt, NULL)
    BY <2>1, <2>2, ListedChain
  <2> QED BY <2>1, <2>3 DEF ListOK
<1> QED BY <1>1, KernelInvariance, PTL

(* Through every nesting of synchronous calls and exits, process_current   *)
(* is the process whose thread runs: process_post_synch and exit_process   *)
(* put it back before the thread they were called from goes on.            *)
THEOREM CurrentKept == Spec => []CurrentOK
<1>1. KernelInv => CurrentOK
  BY DEF KernelInv, ShapeInv, Shape
<1> QED BY <1>1, KernelInvariance, PTL

-----------------------------------------------------------------------------
(* Processes that are called and exited, when no process on the stack is   *)
(* exited from above.                                                      *)

States == [Proc -> {"NONE", "RUNNING", "CALLED"}]

(* The frame of an exit_process.                                           *)
Exits(f) == f.fn = "exit_process"

(* call_process has called p, exit_process exits p.                        *)
HasCall(st, p) == \E i \in 1..Len(st) : Called(st[i]) /\ st[i].p = p
HasExit(st, p) == \E i \in 1..Len(st) : Exits(st[i]) /\ st[i].p = p

(* At most one of the two is going on for a process.                       *)
Owns(f, p) == (Called(f) \/ Exits(f)) /\ f.p = p
Once(st) == \A p \in Proc : \A i, j \in 1..Len(st) : Owns(st[i], p) /\ Owns(st[j], p) => i = j

(* The states s of the processes and the processes L on the list are those *)
(* the stack accounts for.                                                 *)
Fits(st, s, L) ==
  /\ Once(st)
  /\ \A p \in Proc : /\ s[p] = "CALLED" <=> HasCall(st, p)
                     /\ HasExit(st, p) <=> p \in L /\ s[p] = "NONE"
                     /\ s[p] # "NONE" => p \in L

LEMMA HasPush ==
  ASSUME NEW st \in Seq(Frame), NEW f \in Frame
  PROVE  /\ \A p : HasCall(Push(f, st), p) <=> (Called(f) /\ f.p = p) \/ HasCall(st, p)
         /\ \A p : HasExit(Push(f, st), p) <=> (Exits(f) /\ f.p = p) \/ HasExit(st, p)
         /\ Once(Push(f, st)) <=>
              /\ Once(st)
              /\ \A p \in Proc : Owns(f, p) => ~HasCall(st, p) /\ ~HasExit(st, p)
<1> DEFINE r == Push(f, st)
<1>1. PICK n \in Nat : n = Len(st)
  OBVIOUS
<1>2. /\ Len(r) = n + 1 /\ r[1] = f /\ 1 \in 1..(n + 1)
      /\ \A i \in 1..n : i + 1 \in 1..(n + 1) /\ r[i + 1] = st[i]
      /\ \A i \in 1..(n + 1) : i = 1 \/ (i - 1 \in 1..n /\ r[i] = st[i - 1])
  BY <1>1 DEF Push
<1> HIDE DEF r
<1>3. ASSUME NEW p PROVE HasCall(r, p) <=> (Called(f) /\ f.p = p) \/ HasCall(st, p)
  <2>1. ASSUME HasCall(r, p) PROVE (Called(f) /\ f.p = p) \/ HasCall(st, p)
    <3>1. PICK i \in 1..(n + 1) : Called(r[i]) /\ r[i].p = p
      BY <1>2, <2>1 DEF HasCall
    <3> QED BY <1>1, <1>2, <3>1 DEF HasCall
  <2>2. ASSUME Called(f), f.p = p PROVE HasCall(r, p)
    BY <1>2, <2>2 DEF HasCall
  <2>3. ASSUME HasCall(st, p) PROVE HasCall(r, p)
    <3>1. PICK i \in 1..n : Called(st[i]) /\ st[i].p = p
      BY <1>1, <2>3 DEF HasCall
    <3>2. i + 1 \in 1..(n + 1) /\ r[i + 1] = st[i]
      BY <1>2
    <3> QED BY <1>2, <3>1, <3>2 DEF HasCall
  <2> QED BY <2>1, <2>2, <2>3
<1>4. ASSUME NEW p PROVE HasExit(r, p) <=> (Exits(f) /\ f.p = p) \/ HasExit(st, p)
  BY <1>1, <1>2 DEF HasExit
<1>5. ASSUME Once(r)
      PROVE  Once(st) /\ \A p \in Proc : Owns(f, p) => ~HasCall(st, p) /\ ~HasExit(st, p)
  <2>1. ASSUME NEW p \in Proc, NEW i \in 1..n, NEW j \in 1..n, Owns(st[i], p), Owns(st[j], p)
        PROVE  i = j
    <3>1. /\ i + 1 \in 1..(n + 1) /\ j + 1 \in 1..(n + 1)
          /\ r[i + 1] = st[i] /\ r[j + 1] = st[j]
      BY <1>2
    <3>2. i + 1 = j + 1
      BY <1>2, <1>5, <2>1, <3>1 DEF Once
    <3> QED BY <3>2
  <2>2. ASSUME NEW p \in Proc, NEW i \in 1..n, Owns(f, p), Owns(st[i], p)
        PROVE  FALSE
    <3>1. i + 1 \in 1..(n + 1) /\ r[i + 1] = st[i] /\ 1 \in 1..(n + 1) /\ r[1] = f
      BY <1>2
    <3>2. i + 1 = 1
      BY <1>2, <1>5, <2>2, <3>1 DEF Once
    <3> QED BY <3>2
  <2>3. Once(st)
    BY <1>1, <2>1 DEF Once
  <2> QED BY <1>1, <2>2, <2>3 DEF HasCall, HasExit, Owns
<1>6. ASSUME Once(st), \A p \in Proc : Owns(f, p) => ~HasCall(st, p) /\ ~HasExit(st, p)
      PROVE  Once(r)
  <2> SUFFICES ASSUME NEW p \in Proc, NEW i \in 1..(n + 1), NEW j \in 1..(n + 1),
                      Owns(r[i], p), Owns(r[j], p)
               PROVE  i = j
    BY <1>2 DEF Once
  <2>1. ASSUME NEW k \in 1..n, Owns(f, p), Owns(st[k], p) PROVE FALSE
    BY <1>1, <1>6, <2>1 DEF HasCall, HasExit, Owns
  <2>2. CASE i = 1 /\ j # 1
    BY <1>2, <2>1, <2>2
  <2>3. CASE i # 1 /\ j = 1
    BY <1>2, <2>1, <2>3
  <2>4. CASE i # 1 /\ j # 1
    <3>1. /\ i - 1 \in 1..n /\ j - 1 \in 1..n
          /\ r[i] = st[i - 1] /\ r[j] = st[j - 1]
      BY <1>2, <2>4
    <3>2. i - 1 = j - 1
      BY <1>1, <1>6, <3>1 DEF Once
    <3> QED BY <3>2
  <2> QED BY <2>2, <2>3, <2>4
<1> QED BY <1>3, <1>4, <1>5, <1>6 DEF r

(* A frame that is neither.                                                *)
LEMMA FitsOther ==
  ASSUME NEW st \in Seq(Frame), NEW f \in Frame, NEW s, NEW L, ~Called(f), ~Exits(f)
  PROVE  Fits(Push(f, st), s, L) <=> Fits(st, s, L)
<1>1. PICK r : r = Push(f, st)
  OBVIOUS
<1>2. /\ \A p : HasCall(r, p) <=> HasCall(st, p)
      /\ \A p : HasExit(r, p) <=> HasExit(st, p)
      /\ Once(r) <=> Once(st)
  BY <1>1, HasPush DEF Owns
<1> QED BY <1>1, <1>2 DEF Fits

(* A process is called.                                                    *)
LEMMA FitsCall ==
  ASSUME NEW st \in Seq(Frame), NEW f \in Frame, NEW s \in States, NEW L, NEW p \in Proc,
         Called(f), f.p = p, s[p] = "RUNNING", Fits(st, s, L)
  PROVE  Fits(Push(f, st), [s EXCEPT ![p] = "CALLED"], L)
<1>1. PICK r, t : r = Push(f, st) /\ t = [s EXCEPT ![p] = "CALLED"]
  OBVIOUS
<1>2. ~Exits(f) /\ f.fn = "thread"
  BY DEF Called, Exits
<1>3. /\ \A q : HasCall(r, q) <=> q = p \/ HasCall(st, q)
      /\ \A q : HasExit(r, q) <=> HasExit(st, q)
      /\ Once(r) <=> Once(st) /\ ~HasCall(st, p) /\ ~HasExit(st, p)
  BY <1>1, <1>2, HasPush DEF Owns
<1>4. Once(st) /\ ~HasCall(st, p) /\ ~HasExit(st, p) /\ p \in L
  BY DEF Fits
<1>5. t[p] = "CALLED" /\ \A q \in Proc : q # p => t[q] = s[q]
  BY <1>1 DEF States
<1> QED BY <1>1, <1>3, <1>4, <1>5 DEF Fits

(* A called process returns.                                               *)
LEMMA FitsReturn ==
  ASSUME NEW st \in Seq(Frame), NEW f \in Frame, NEW s \in States, NEW L, NEW p \in Proc,
         Called(f), f.p = p, Fits(Push(f, st), s, L)
  PROVE  s[p] = "CALLED" /\ p \in L /\ Fits(st, [s EXCEPT ![p] = "RUNNING"], L)
<1>1. PICK r, t : r = Push(f, st) /\ t = [s EXCEPT ![p] = "RUNNING"]
  OBVIOUS
<1>2. ~Exits(f) /\ f.fn = "thread"
  BY DEF Called, Exits
<1>3. /\ \A q : HasCall(r, q) <=> q = p \/ HasCall(st, q)
      /\ \A q : HasExit(r, q) <=> HasExit(st, q)
      /\ Once(r) <=> Once(st) /\ ~HasCall(st, p) /\ ~HasExit(st, p)
  BY <1>1, <1>2, HasPush DEF Owns
<1>4. Fits(r, s, L)
  BY <1>1
<1>5. s[p] = "CALLED" /\ p \in L /\ Once(st) /\ ~HasCall(st, p) /\ ~HasExit(st, p)
  BY <1>3, <1>4 DEF Fits
<1>6. t[p] = "RUNNING" /\ \A q \in Proc : q # p => t[q] = s[q]
  BY <1>1 DEF States
<1> QED BY <1>1, <1>3, <1>4, <1>5, <1>6 DEF Fits

(* A process begins to exit.                                               *)
LEMMA FitsExit ==
  ASSUME NEW st \in Seq(Frame), NEW f \in Frame, NEW s \in States, NEW L, NEW p \in Proc,
         Exits(f), f.p = p, s[p] = "RUNNING", Fits(st, s, L)
  PROVE  Fits(Push(f, st), [s EXCEPT ![p] = "NONE"], L)
<1>1. PICK r, t : r = Push(f, st) /\ t = [s EXCEPT ![p] = "NONE"]
  OBVIOUS
<1>2. ~Called(f)
  BY DEF Called, Exits
<1>3. /\ \A q : HasCall(r, q) <=> HasCall(st, q)
      /\ \A q : HasExit(r, q) <=> q = p \/ HasExit(st, q)
      /\ Once(r) <=> Once(st) /\ ~HasCall(st, p) /\ ~HasExit(st, p)
  BY <1>1, <1>2, HasPush DEF Owns
<1>4. Once(st) /\ ~HasCall(st, p) /\ ~HasExit(st, p) /\ p \in L
  BY DEF Fits
<1>5. t[p] = "NONE" /\ \A q \in Proc : q # p => t[q] = s[q]
  BY <1>1 DEF States
<1> QED BY <1>1, <1>3, <1>4, <1>5 DEF Fits

(* A process has exited and leaves the list.                               *)
LEMMA FitsGone ==
  ASSUME NEW st \in Seq(Frame), NEW f \in Frame, NEW s \in States, NEW L, NEW p \in Proc,
         Exits(f), f.p = p, Fits(Push(f, st), s, L)
  PROVE  p \in L /\ Fits(st, s, L \ {p})
<1>1. PICK r : r = Push(f, st)
  OBVIOUS
<1>2. ~Called(f)
  BY DEF Called, Exits
<1>3. /\ \A q : HasCall(r, q) <=> HasCall(st, q)
      /\ \A q : HasExit(r, q) <=> q = p \/ HasExit(st, q)
      /\ Once(r) <=> Once(st) /\ ~HasCall(st, p) /\ ~HasExit(st, p)
  BY <1>1, <1>2, HasPush DEF Owns
<1>4. Fits(r, s, L)
  BY <1>1
<1>5. s[p] = "NONE" /\ p \in L /\ Once(st) /\ ~HasCall(st, p) /\ ~HasExit(st, p)
  BY <1>3, <1>4 DEF Fits
<1> QED BY <1>3, <1>4, <1>5 DEF Fits

(* The frame on top goes on with other values of its variables.            *)
LEMMA FitsSame ==
  ASSUME NEW st \in Seq(Frame), NEW f \in Frame, NEW g \in Frame, NEW s, NEW L,
         Called(f) <=> Called(g), Exits(f) <=> Exits(g),
         Called(f) \/ Exits(f) => g.p = f.p
  PROVE  Fits(Push(f, st), s, L) <=> Fits(Push(g, st), s, L)
<1>1. PICK r, t : r = Push(f, st) /\ t = Push(g, st)
  OBVIOUS
<1>2. /\ \A p : HasCall(r, p) <=> HasCall(t, p)
      /\ \A p : HasExit(r, p) <=> HasExit(t, p)
      /\ Once(r) <=> Once(t)
  BY <1>1, HasPush DEF Owns
<1> QED BY <1>1, <1>2 DEF Fits

(* A process that neither is called nor exits becomes runnable on the list. *)
LEMMA FitsRunning ==
  ASSUME NEW st, NEW s \in States, NEW L, NEW p \in Proc, Fits(st, s, L),
         ~HasCall(st, p), ~HasExit(st, p)
  PROVE  Fits(st, [s EXCEPT ![p] = "RUNNING"], L \cup {p})
<1>1. PICK t : t = [s EXCEPT ![p] = "RUNNING"]
  OBVIOUS
<1>2. t[p] = "RUNNING" /\ \A q \in Proc : q # p => t[q] = s[q]
  BY <1>1 DEF States
<1> QED BY <1>1, <1>2 DEF Fits

(* The processes on the list.                                              *)
Procs == {p \in Proc : Listed(p)}

(* The stack accounts for the states, and where do_poll goes on, the next  *)
(* process is on the list.                                                 *)
StateInv ==
  /\ Fits(stack, state, Procs)
  /\ Top.fn = "do_poll" => Succ(Top.q) = NULL \/ Listed(Succ(Top.q))

(* A loop that stands at a listed process goes on to a listed process.     *)
LEMMA SuccListed ==
  ASSUME ListInv, KernelTypes, NEW q \in Proc \cup {NULL}, q = NULL \/ Listed(q)
  PROVE  Succ(q) = NULL \/ Listed(Succ(q))
<1>1. PICK s, head, nxt : Chain(head, nxt, NULL, s) /\ head = process_list /\ nxt = next
  BY DEF ListInv
<1>2. nxt \in [Proc -> Proc \cup {NULL}] /\ DOMAIN nxt = Proc
  BY <1>1 DEF KernelTypes
<1>3. \A x : Listed(x) <=> x \in Elems(s)
  BY <1>1, <1>2, ListedChain DEF Listed
<1>4. PICK n \in Nat : n = Len(s)
  BY <1>1 DEF Chain
<1>5. /\ head = IF n = 0 THEN NULL ELSE s[1]
      /\ \A i \in 1..n : nxt[s[i]] = IF i = n THEN NULL ELSE s[i + 1]
      /\ \A x : x \in Elems(s) <=> \E i \in 1..n : x = s[i]
  <2>1. s = <<>> <=> n = 0
    BY <1>1, <1>4 DEF Chain
  <2> QED BY <1>1, <1>4, <2>1 DEF Chain, Elems
<1>6. PICK x : x = Succ(q)
  OBVIOUS
<1>7. x = NULL \/ x \in Elems(s)
  <2>1. CASE q = NULL
    <3>1. x = head
      BY <1>1, <1>6, <2>1 DEF Succ
    <3> QED BY <1>5, <3>1
  <2>2. CASE q # NULL /\ Listed(q)
    <3>1. x = nxt[q]
      BY <1>1, <1>6, <2>2 DEF Succ
    <3>2. PICK i \in 1..n : q = s[i]
      BY <1>3, <1>5, <2>2
    <3>3. i # n => i + 1 \in 1..n
      OBVIOUS
    <3> QED BY <1>5, <3>1, <3>2, <3>3
  <2> QED BY <2>1, <2>2
<1> QED BY <1>3, <1>6, <1>7

(* call_process.                                                           *)
LEMMA CallFits ==
  ASSUME NEW s \in States, NEW p \in Proc, NEW ev \in Event, NEW st \in Seq(Frame), NEW L,
         Fits(st, s, L), call_process(s, p, ev, st)
  PROVE  Fits(stack', state', L)
<1>1. CASE stack' = st /\ state' = s
  BY <1>1
<1>2. CASE /\ s[p] = "RUNNING" /\ state' = [s EXCEPT ![p] = "CALLED"]
           /\ stack' = Push(Thread(p, ev, "call"), st)
  <2>1. PICK f : f = Thread(p, ev, "call")
    OBVIOUS
  <2>2. f \in Frame /\ Called(f) /\ f.p = p
    <3>1. f \in Frame
      BY <2>1, FramesMade
    <3> QED BY <2>1, <3>1 DEF Thread, Called
  <2>3. Fits(Push(f, st), [s EXCEPT ![p] = "CALLED"], L)
    BY <1>2, <2>2, FitsCall
  <2> QED BY <1>2, <2>1, <2>3
<1> QED BY <1>1, <1>2 DEF call_process

(* The caller's frame accounts for the same after its call.                *)
LEMMA AfterCallFits ==
  ASSUME Shape, MayCall, NEW s, NEW L, Fits(stack, s, L)
  PROVE  Fits(AfterCall, s, L) /\ AfterCall \in Seq(Frame)
<1>1. PICK f, rest : f = Top /\ rest = Rest
  OBVIOUS
<1>2. f \in Frame /\ f.fn \in {"main", "thread"} /\ f.calls > 0 /\ rest \in Seq(Frame)
      /\ stack = Push(f, rest)
  BY <1>1, TopRest DEF Shape, MayCall, StackOK
<1>3. PICK g : g = [f EXCEPT !.calls = @ - 1]
  OBVIOUS
<1>4. g \in Frame /\ g.fn = f.fn /\ (f.fn = "thread" => g.p = f.p /\ g.by = f.by)
  BY <1>2, <1>3, AfterCallFrame
<1>5. /\ Called(f) <=> Called(g) 
      /\ Exits(f) <=> Exits(g)
      /\ Called(f) \/ Exits(f) => g.p = f.p
  BY <1>2, <1>4 DEF Called, Exits
<1>6. Fits(Push(f, rest), s, L) <=> Fits(Push(g, rest), s, L)
  BY <1>2, <1>4, <1>5, FitsSame
<1>7. AfterCall = Push(g, rest)
  BY <1>1, <1>3 DEF AfterCall
<1>8. Push(g, rest) \in Seq(Frame)
  BY <1>2, <1>4 DEF Push
<1> QED BY <1>2, <1>6, <1>7, <1>8

(* Nothing is called and nothing exits below process_run's own frames.     *)
LEMMA BottomFits ==
  ASSUME NEW st, StackOK(st), st # <<>>, st[1].fn \in BottomFn, NEW p
  PROVE  ~HasCall(st, p) /\ ~HasExit(st, p)
<1>1. Len(st) \in Nat /\ 1 \in 1..Len(st)
  BY EmptySeq DEF StackOK
<1>2. \A j \in 1..Len(st) : st[j].fn \in BottomFn
  BY <1>1 DEF StackOK
<1> QED BY <1>2 DEF HasCall, HasExit, Called, Exits, BottomFn

LEMMA NotOnStack ==
  ASSUME NEW p, Shape, ~OnStack(p)
  PROVE  ~HasCall(stack, p) /\ ~HasExit(stack, p)
<1>1. DOMAIN stack = 1..Len(stack)
  BY DEF Shape, StackOK
<1> QED BY <1>1 DEF OnStack, HasCall, HasExit, Called, Exits

LEMMA CallsState ==
  ASSUME ~ExitOnStack, KernelInv, StateInv, Calls
  PROVE  StateInv'
<1>1. PICK s, L, cur, st :
        s = state /\ L = Procs /\ cur = process_current /\ st = AfterCall
  OBVIOUS
<1>2. /\ s \in States /\ KernelTypes /\ ListInv /\ Shape /\ cur \in Proc \cup {NULL}
      /\ \A p \in Proc : Listed(p) <=> p \in L
  BY <1>1 DEF KernelInv, ShapeInv, KernelTypes, States, Procs
<1>3. MayCall
  BY DEF Calls, process_post, process_post_synch, process_start, process_exit, process_poll
<1>4. Fits(st, s, L) /\ Fits(stack, s, L) /\ st \in Seq(Frame)
  BY <1>1, <1>2, <1>3, AfterCallFits DEF StateInv
<1>5. Head(st).fn \in {"main", "thread"}
  BY <1>1, <1>2, <1>3, AfterCallOK
<1>6. CASE stack' = st /\ state' = s /\ UNCHANGED listvars
  BY <1>1, <1>4, <1>5, <1>6 DEF StateInv, Procs, Listed, listvars, Top
<1>7. ASSUME NEW t \in States, NEW M, Fits(st, t, M), NEW p \in Proc, NEW ev \in Event,
             call_process(t, p, ev, Push(Synch(process_current), AfterCall))
      PROVE  Fits(stack', state', M) /\ Top'.fn # "do_poll"
  <2>1. PICK g, r : g = Synch(cur) /\ r = Push(g, st)
    OBVIOUS
  <2>2. g \in Frame /\ ~Called(g) /\ ~Exits(g) /\ g.fn = "process_post_synch"
    <3>1. g \in Frame
      BY <1>2, <2>1, FramesMade
    <3> QED BY <2>1, <3>1 DEF Synch, Called, Exits
  <2>3. Fits(r, t, M) /\ r \in Seq(Frame) /\ Head(r) = g
    <3>1. Fits(Push(g, st), t, M)
      BY <1>4, <1>7, <2>2, FitsOther
    <3>2. Push(g, st) \in Seq(Frame) /\ Head(Push(g, st)) = g
      BY <1>4, <2>2 DEF Push
    <3> QED BY <2>1, <3>1, <3>2
  <2>4. call_process(t, p, ev, r)
    BY <1>1, <1>7, <2>1
  <2>5. Fits(stack', state', M)
    BY <1>7, <2>3, <2>4, CallFits
  <2>6. stack' = r \/ \E f \in Frame : f.fn = "thread" /\ stack' = Push(f, r)
    <3>1. PICK f : f = Thread(p, ev, "call")
      OBVIOUS
    <3>2. f \in Frame /\ f.fn = "thread"
      BY <3>1, FramesMade DEF Thread
    <3> QED BY <2>4, <3>1, <3>2 DEF call_process
  <2>7. Top'.fn # "do_poll"
    BY <2>2, <2>3, <2>6, PushTop DEF Top
  <2> QED BY <2>5, <2>7
<1>8. ASSUME NEW p \in Proc, NEW ev \in UserEvent, process_post_synch(p, ev) PROVE StateInv'
  <2>1. /\ call_process(s, p, ev, Push(Synch(process_current), AfterCall))
        /\ UNCHANGED listvars /\ ev \in Event
    BY <1>1, <1>8 DEF process_post_synch, Event
  <2>2. Fits(stack', state', L) /\ Top'.fn # "do_poll"
    BY <1>2, <1>4, <1>7, <2>1
  <2>3. Procs' = L
    BY <1>1, <2>1 DEF Procs, Listed, listvars
  <2> QED BY <2>2, <2>3 DEF StateInv
<1>9. ASSUME NEW p \in Proc, process_start(p) PROVE StateInv'
  <2>1. CASE Listed(p)
    BY <1>1, <1>6, <1>9, <2>1 DEF process_start
  <2>2. CASE ~Listed(p)
    <3>1. /\ next' = [next EXCEPT ![p] = process_list] /\ process_list' = p
          /\ call_process([s EXCEPT ![p] = "RUNNING"], p, "INIT",
                          Push(Synch(process_current), AfterCall))
      BY <1>1, <1>9, <2>2 DEF process_start
    <3>2. PICK t, M : t = [s EXCEPT ![p] = "RUNNING"] /\ M = L \cup {p}
      OBVIOUS
    <3>3. ~HasCall(st, p) /\ ~HasExit(st, p)
      BY <1>2, <1>4, <2>2 DEF Fits
    <3>4. Fits(st, t, M) /\ t \in States
      BY <1>2, <1>4, <3>2, <3>3, FitsRunning DEF States
    <3>5. Fits(stack', state', M) /\ Top'.fn # "do_poll"
      BY <1>7, <3>1, <3>2, <3>4 DEF Event
    <3>6. \A q : Listed(q)' <=> Listed(q) \/ q = p
      BY <1>2, <2>2, <3>1, Linked
    <3>7. Procs' = M
      <4>1. L \subseteq Proc /\ Procs' = {q \in Proc : Listed(q)'}
        BY <1>1 DEF Procs
      <4> QED BY <1>2, <3>2, <3>6, <4>1
    <3> QED BY <3>5, <3>7 DEF StateInv
  <2> QED BY <2>1, <2>2
<1>10. ASSUME NEW p \in Proc, process_exit(p) PROVE StateInv'
  <2>1. ~HasCall(stack, p) /\ ~HasExit(stack, p)
    BY <1>2, <1>10, NotOnStack DEF process_exit
  <2>2. s[p] # "CALLED" /\ (p \in L => s[p] = "RUNNING")
    BY <1>2, <1>4, <2>1 DEF Fits, States
  <2>3. CASE ~Listed(p)
    BY <1>1, <1>6, <1>10, <2>3 DEF process_exit, exit_process
  <2>4. CASE Listed(p)
    <3>1. s[p] = "RUNNING"
      BY <1>2, <2>2, <2>4
    <3>2. PICK g : g = Exiting(p, cur, NULL, cur, "notify")
      OBVIOUS
    <3>3. /\ state' = [s EXCEPT ![p] = "NONE"] /\ stack' = Push(g, st)
          /\ UNCHANGED listvars
      BY <1>1, <1>10, <2>4, <3>1, <3>2 DEF process_exit, exit_process
    <3>4. g \in Frame /\ Exits(g) /\ g.p = p /\ g.fn = "exit_process"
      <4>1. g \in Frame
        BY <1>2, <3>2, FramesMade
      <4> QED BY <3>2, <4>1 DEF Exiting, Exits
    <3>5. Fits(Push(g, st), [s EXCEPT ![p] = "NONE"], L)
      BY <1>2, <1>4, <3>1, <3>4, FitsExit
    <3>6. Procs' = L
      BY <1>1, <3>3 DEF Procs, Listed, listvars
    <3>7. Head(Push(g, st)) = g
      BY <1>4, <3>4, PushTop
    <3> QED BY <3>3, <3>4, <3>5, <3>6, <3>7 DEF StateInv, Top
  <2> QED BY <2>3, <2>4
<1>11. ASSUME NEW m \in Posted, process_post(m) PROVE StateInv'
  BY <1>1, <1>6, <1>11 DEF process_post
<1>12. ASSUME NEW p \in Proc, process_poll(p) PROVE StateInv'
  BY <1>1, <1>6, <1>12 DEF process_poll
<1> QED BY <1>8, <1>9, <1>10, <1>11, <1>12 DEF Calls

LEMMA ReturnState ==
  ASSUME KernelInv, StateInv, NEW exits, ThreadReturn(exits)
  PROVE  StateInv'
<1>1. PICK s, L, f, rest : s = state /\ L = Procs /\ f = Top /\ rest = Rest
  OBVIOUS
<1>2. /\ s \in States /\ KernelTypes /\ ListInv /\ Shape
      /\ \A p \in Proc : Listed(p) <=> p \in L
  BY <1>1 DEF KernelInv, ShapeInv, KernelTypes, States, Procs
<1>3. /\ f \in Frame /\ f.fn = "thread" /\ f.p \in Proc /\ f.by \in {"call", "exit"}
      /\ StackOK(rest) /\ rest # <<>> /\ MayPush(f, rest) /\ stack = Push(f, rest)
      /\ rest \in Seq(Frame)
  BY <1>1, <1>2, TopRest, FrameFields DEF ThreadReturn, Shape, StackOK
<1>4. Fits(Push(f, rest), s, L)
  BY <1>1, <1>3 DEF StateInv
<1>5. rest[1] = Head(rest) /\ Head(rest) \in Frame
  BY <1>3
<1>6. CASE f.by = "exit"
  <2>1. /\ stack' = rest /\ state' = s /\ UNCHANGED listvars
    BY <1>1, <1>6 DEF ThreadReturn
  <2>2. ~Called(f) /\ ~Exits(f)
    BY <1>3, <1>6 DEF Called, Exits
  <2>3. Fits(rest, s, L)
    BY <1>3, <1>4, <2>2, FitsOther
  <2>4. rest[1].fn = "exit_process"
    BY <1>3, <1>6 DEF MayPush, Over
  <2>5. Procs' = L
    BY <1>1, <2>1 DEF Procs, Listed, listvars
  <2> QED BY <1>5, <2>1, <2>3, <2>4, <2>5 DEF StateInv, Top
<1>7. CASE f.by = "call"
  <2>0. PICK p \in Proc : p = f.p
    BY <1>3
  <2>1. PICK t : p = f.p /\ t = [s EXCEPT ![p] = "RUNNING"]
    BY <2>0
  <2>2. Called(f)
    BY <1>3, <1>7 DEF Called
  <2>3. s[p] = "CALLED" /\ p \in L /\ Fits(rest, t, L)
    <3>1. /\ rest \in Seq(Frame) /\ f \in Frame /\ s \in States /\ p \in Proc
          /\ Called(f) /\ f.p = p /\ Fits(Push(f, rest), s, L)
      BY <1>2, <1>3, <1>4, <2>1, <2>2
    <3>2. s[p] = "CALLED" /\ p \in L /\ Fits(rest, [s EXCEPT ![p] = "RUNNING"], L)
      BY <3>1, FitsReturn
    <3> QED BY <2>1, <3>2
  <2>4. CASE state' = t /\ stack' = rest /\ UNCHANGED listvars
    <3>1. Procs' = L
      BY <1>1, <2>4 DEF Procs, Listed, listvars
    <3>2. rest[1].fn = "do_poll" => rest[1].q = p
      BY <1>3, <2>1 DEF MayPush, Over
    <3>3. Succ(p) = NULL \/ Listed(Succ(p))
      BY <1>2, <2>3, SuccListed
    <3>4. Succ(p)' = Succ(p) /\ \A x : Listed(x)' <=> Listed(x)
      BY <2>4 DEF Succ, Listed, listvars
    <3>5. Top'.fn = "do_poll" => Top'.q = p
      BY <1>5, <2>4, <3>2 DEF Top
    <3>6. (Top.fn = "do_poll" => Succ(Top.q) = NULL \/ Listed(Succ(Top.q)))'
      BY <3>3, <3>4, <3>5, <2>4 DEF Succ, Listed, listvars
    <3> QED BY <2>3, <2>4, <3>1, <3>6 DEF StateInv
  <2>5. CASE exit_process(p, p, rest)
    <3>1. PICK cur, g : cur = process_current /\ g = Exiting(p, p, NULL, cur, "notify")
      OBVIOUS
    <3>2. /\ state' = [s EXCEPT ![p] = "NONE"] /\ stack' = Push(g, rest)
          /\ UNCHANGED listvars
      BY <1>1, <1>2, <2>3, <2>5, <3>1 DEF exit_process
    <3>3. g \in Frame /\ Exits(g) /\ g.p = p /\ g.fn = "exit_process"
      <4>1. g \in Frame
        BY <1>2, <3>1, FramesMade DEF KernelTypes
      <4> QED BY <3>1, <4>1 DEF Exiting, Exits
    <3>4. t \in States /\ t[p] = "RUNNING" /\ [t EXCEPT ![p] = "NONE"] = [s EXCEPT ![p] = "NONE"]
      BY <1>2, <2>1 DEF States
    <3>5. Fits(Push(g, rest), [t EXCEPT ![p] = "NONE"], L)
      BY <1>3, <2>3, <3>3, <3>4, FitsExit
    <3>6. Procs' = L
      BY <1>1, <3>2 DEF Procs, Listed, listvars
    <3>7. Head(Push(g, rest)) = g
      BY <1>3, <3>3, PushTop
    <3> QED BY <3>2, <3>3, <3>4, <3>5, <3>6, <3>7 DEF StateInv, Top
  <2> QED BY <1>1, <1>7, <2>1, <2>4, <2>5 DEF ThreadReturn
<1> QED BY <1>3, <1>6, <1>7

LEMMA ExitStepsState ==
  ASSUME KernelInv, StateInv, ExitNotify \/ ExitThread \/ ExitUnlink \/ SynchReturn
  PROVE  StateInv'
<1>1. PICK s, L, f, rest : s = state /\ L = Procs /\ f = Top /\ rest = Rest
  OBVIOUS
<1>2. /\ s \in States /\ KernelTypes /\ ListInv /\ Shape
      /\ \A p \in Proc : Listed(p) <=> p \in L
      /\ L \subseteq Proc
  BY <1>1 DEF KernelInv, ShapeInv, KernelTypes, States, Procs
<1>3. /\ f \in Frame /\ f.fn \in {"exit_process", "process_post_synch"}
      /\ StackOK(rest) /\ rest # <<>> /\ MayPush(f, rest) /\ stack = Push(f, rest)
      /\ rest \in Seq(Frame)
  BY <1>1, <1>2, TopRest DEF Shape, StackOK, ExitNotify, ExitThread, ExitUnlink, SynchReturn
<1>4. Fits(Push(f, rest), s, L)
  BY <1>1, <1>3 DEF StateInv
<1>5. rest[1] = Head(rest) /\ Head(rest) \in Frame
  BY <1>3
<1>6. CASE SynchReturn
  <2>1. f.fn = "process_post_synch" /\ state' = s /\ stack' = rest /\ UNCHANGED listvars
    BY <1>1, <1>6 DEF SynchReturn
  <2>2. ~Called(f) /\ ~Exits(f)
    BY <2>1 DEF Called, Exits
  <2>3. Fits(rest, s, L)
    BY <1>3, <1>4, <2>2, FitsOther
  <2>4. rest[1].fn \in {"main", "thread"}
    BY <1>3, <2>1 DEF MayPush, Over
  <2>5. Procs' = L
    BY <1>1, <2>1 DEF Procs, Listed, listvars
  <2> QED BY <1>5, <2>1, <2>3, <2>4, <2>5 DEF StateInv, Top
<1>7. CASE f.fn = "exit_process"
  <2>1. Exits(f) /\ ~Called(f)
    BY <1>7 DEF Exits, Called
  <2>2. /\ f.p \in Proc /\ f.q \in Proc \cup {NULL}
        /\ f.from \in Proc \cup {NULL} /\ f.old \in Proc \cup {NULL}
        /\ f.ph \in {"notify", "unlink"} /\ f = Exiting(f.p, f.from, f.q, f.old, f.ph)
    BY <1>3, <1>7, FrameFields
  <2>3. ASSUME NEW q \in Proc \cup {NULL}, NEW ph \in {"notify", "unlink"}, NEW g,
               g = Exiting(f.p, f.from, q, f.old, ph)
        PROVE  /\ g \in Frame /\ g.fn = "exit_process" /\ Push(g, rest) \in Seq(Frame)
               /\ Head(Push(g, rest)) = g
               /\ Fits(Push(g, rest), s, L)
    <3>1. g \in Frame
      BY <2>2, <2>3, FramesMade
    <3>2. g.fn = "exit_process" /\ g.p = f.p
      BY <2>3 DEF Exiting
    <3>3. Exits(g) /\ ~Called(g)
      BY <3>2 DEF Exits, Called
    <3>4. Fits(Push(g, rest), s, L)
      BY <1>3, <1>4, <2>1, <3>1, <3>2, <3>3, FitsSame
    <3>5. Push(g, rest) \in Seq(Frame) /\ Head(Push(g, rest)) = g
      BY <1>3, <3>1 DEF Push
    <3> QED BY <3>1, <3>2, <3>4, <3>5
  <2>4. CASE ExitNotify
    <3>1. PICK q \in Proc : q = Succ(f.q)
      <4>1. Succ(f.q) # NULL
        BY <1>1, <2>4 DEF ExitNotify
      <4> QED BY <1>2, <2>2, <4>1, SuccType
    <3>2. PICK g, st : g = [f EXCEPT !.q = q] /\ st = Push(g, rest)
      OBVIOUS
    <3>3. g = Exiting(f.p, f.from, q, f.old, f.ph)
      BY <2>2, <3>2 DEF Exiting
    <3>4. st \in Seq(Frame) /\ Head(st).fn = "exit_process" /\ Fits(st, s, L)
      <4>1. PICK ph \in {"notify", "unlink"} : ph = f.ph
        BY <2>2
      <4>2. q \in Proc \cup {NULL} /\ g = Exiting(f.p, f.from, q, f.old, ph)
        BY <3>3, <4>1
      <4>3. /\ g.fn = "exit_process" /\ Push(g, rest) \in Seq(Frame)
            /\ Head(Push(g, rest)) = g /\ Fits(Push(g, rest), s, L)
        BY <2>3, <4>2
      <4> QED BY <3>2, <4>3
    <3>5. UNCHANGED listvars
      BY <2>4 DEF ExitNotify
    <3>6. Procs' = L
      BY <1>1, <3>5 DEF Procs, Listed, listvars
    <3>7. CASE stack' = st /\ state' = s
      BY <3>4, <3>6, <3>7 DEF StateInv, Top
    <3>8. CASE call_process(s, q, "EXITED", st)
      <4>1. Fits(stack', state', L)
        BY <1>2, <3>4, <3>8, CallFits DEF Event
      <4>2. PICK h : h = Thread(q, "EXITED", "call")
        OBVIOUS
      <4>3. h \in Frame /\ h.fn = "thread"
        BY <4>2, FramesMade DEF Thread, Event
      <4>4. Top'.fn # "do_poll"
        BY <3>4, <3>8, <4>2, <4>3, PushTop DEF call_process, Top
      <4> QED BY <3>6, <4>1, <4>4 DEF StateInv
    <3> QED BY <1>1, <2>4, <3>1, <3>2, <3>7, <3>8 DEF ExitNotify
  <2>5. CASE ExitThread
    <3>1. PICK g, st, h : /\ g = [f EXCEPT !.ph = "unlink"] /\ st = Push(g, rest)
                          /\ h = Thread(f.p, "EXIT", "exit")
      OBVIOUS
    <3>2. g = Exiting(f.p, f.from, f.q, f.old, "unlink")
      BY <2>2, <3>1 DEF Exiting
    <3>3. st \in Seq(Frame) /\ Fits(st, s, L)
      BY <2>2, <2>3, <3>1, <3>2
    <3>4. h \in Frame
      BY <2>2, <3>1, FramesMade DEF Event
    <3>5. h.fn = "thread" /\ ~Called(h) /\ ~Exits(h)
      BY <3>1 DEF Thread, Called, Exits
    <3>6. Fits(Push(h, st), s, L) /\ Head(Push(h, st)) = h
      BY <3>3, <3>4, <3>5, FitsOther, PushTop
    <3>7. stack' = Push(h, st) /\ state' = s /\ UNCHANGED listvars
      BY <1>1, <2>5, <3>1 DEF ExitThread
    <3>8. Procs' = L
      BY <1>1, <3>7 DEF Procs, Listed, listvars
    <3> QED BY <3>5, <3>6, <3>7, <3>8 DEF StateInv, Top
  <2>6. CASE ExitUnlink
    <3>1. PICK p \in Proc : p = f.p
      BY <2>2
    <3>2. Unlink(p) /\ stack' = rest /\ state' = s
      BY <1>1, <2>6, <3>1 DEF ExitUnlink
    <3>3. p \in L /\ Fits(rest, s, L \ {p})
      BY <1>2, <1>3, <1>4, <2>1, <3>1, FitsGone
    <3>4. /\ \A q : Listed(q)' <=> Listed(q) /\ q # p
          /\ (next[p] = NULL \/ Listed(next[p]))'
      BY <1>2, <3>2, <3>3, Unlinked
    <3>5. Procs' = L \ {p}
      <4>1. Procs' = {q \in Proc : Listed(q)'}
        BY DEF Procs
      <4> QED BY <1>2, <3>4, <4>1
    <3>6. rest[1].fn = "do_poll" => rest[1].q = p
      BY <1>3, <3>1 DEF MayPush, Over
    <3>7. Top'.fn = "do_poll" => Top'.q = p
      BY <1>5, <3>2, <3>6 DEF Top
    <3>8. (Top.fn = "do_poll" => Succ(Top.q) = NULL \/ Listed(Succ(Top.q)))'
      BY <3>4, <3>7, NullAssumption DEF Succ
    <3> QED BY <3>2, <3>3, <3>5, <3>8 DEF StateInv
  <2> QED BY <1>1, <1>7, <2>4, <2>5, <2>6 DEF SynchReturn
<1> QED BY <1>1, <1>6, <1>7 DEF ExitNotify, ExitThread, ExitUnlink

LEMMA RunState ==
  ASSUME KernelInv, StateInv, process_run
  PROVE  StateInv'
<1>1. PICK s, L : s = state /\ L = Procs
  OBVIOUS
<1>2. state' = s /\ Procs' = L /\ UNCHANGED listvars
  BY <1>1 DEF process_run, Procs, Listed, listvars
<1>3. ListInv /\ KernelTypes /\ ListInv' /\ KernelTypes'
  <2>1. Next
    BY DEF Next, Kernel
  <2> QED BY <2>1, KernelInvNext DEF KernelInv, ShapeInv
<1>4. StackOK(stack) /\ stack # <<>> /\ StackOK(stack') /\ stack' # <<>>
  BY RunShape DEF KernelInv, ShapeInv, Shape
<1>5. PICK st, r : st = stack /\ r = stack'
  OBVIOUS
<1>6. st[1].fn \in BottomFn /\ r[1].fn \in BottomFn
  <2>1. st[1].fn = "main"
    BY <1>4, <1>5, TopRest DEF process_run
  <2>2. r[1] = Poll(NULL) \/ r[1] = Run
    BY <1>5 DEF process_run
  <2> QED BY <2>1, <2>2 DEF BottomFn, Poll, Run
<1>7. /\ \A p : ~HasCall(st, p) /\ ~HasExit(st, p)
      /\ \A p : ~HasCall(r, p) /\ ~HasExit(r, p)
  BY <1>4, <1>5, <1>6, BottomFits
<1>8. Once(r)
  <2>1. \A p : \A i \in 1..Len(r) : ~Owns(r[i], p)
    BY <1>7 DEF HasCall, HasExit, Owns
  <2> QED BY <2>1 DEF Once
<1>9. Fits(st, s, L)
  BY <1>1, <1>5 DEF StateInv
<1>10. Fits(r, s, L)
  BY <1>7, <1>8, <1>9 DEF Fits
<1>11. (Top.fn = "do_poll" => Succ(Top.q) = NULL \/ Listed(Succ(Top.q)))'
  <2>1. Top' = Poll(NULL) \/ Top' = Run
    BY DEF process_run, Top
  <2>2. (Succ(NULL) = NULL \/ Listed(Succ(NULL)))'
    BY <1>2, <1>3, SuccListed DEF Succ, Listed, listvars
  <2>3. Top'.fn = "do_poll" => Top'.q = NULL
    BY <2>1 DEF Poll, Run
  <2> QED BY <2>2, <2>3
<1> QED BY <1>2, <1>5, <1>10, <1>11 DEF StateInv

LEMMA PollState ==
  ASSUME KernelInv, StateInv, do_poll
  PROVE  StateInv'
<1>1. PICK s, L, f, rest : s = state /\ L = Procs /\ f = Top /\ rest = Rest
  OBVIOUS
<1>2. /\ s \in States /\ KernelTypes /\ ListInv /\ Shape
      /\ \A p \in Proc : Listed(p) <=> p \in L
      /\ L \subseteq Proc
  BY <1>1 DEF KernelInv, ShapeInv, KernelTypes, States, Procs
<1>3. /\ f \in Frame /\ f.fn = "do_poll" /\ f.q \in Proc \cup {NULL}
      /\ StackOK(rest) /\ rest # <<>> /\ MayPush(f, rest) /\ stack = Push(f, rest)
      /\ rest \in Seq(Frame)
  BY <1>1, <1>2, TopRest, FrameFields DEF Shape, StackOK, do_poll
<1>4. rest[1].fn \in {"process_run", "do_event"} /\ rest[1] = Head(rest)
  BY <1>3 DEF MayPush, Over
<1>5. Fits(rest, s, L)
  <2>1. ~Called(f) /\ ~Exits(f) /\ Fits(Push(f, rest), s, L)
    BY <1>1, <1>3 DEF Called, Exits, StateInv
  <2> QED BY <1>3, <2>1, FitsOther
<1>6. PICK q \in Proc \cup {NULL} : q = Succ(f.q)
  BY <1>2, <1>3, SuccType
<1>7. q = NULL \/ Listed(q)
  BY <1>1, <1>3, <1>6 DEF StateInv
<1>8. UNCHANGED listvars
  BY DEF do_poll, PollEnd
<1>9. Procs' = L
  BY <1>1, <1>8 DEF Procs, Listed, listvars
<1>10. CASE stack' = rest /\ state' = s
  BY <1>4, <1>5, <1>9, <1>10 DEF StateInv, Top
<1>11. PICK g, st : g = Poll(q) /\ st = Push(g, rest)
  OBVIOUS
<1>12. g \in Frame
  BY <1>11, FramesMade
<1>13. g.fn = "do_poll" /\ g.q = q /\ ~Called(g) /\ ~Exits(g)
  BY <1>11 DEF Poll, Called, Exits
<1>14. st \in Seq(Frame) /\ Head(st) = g /\ \A t, M : Fits(st, t, M) <=> Fits(rest, t, M)
  <2>1. Push(g, rest) \in Seq(Frame) /\ Head(Push(g, rest)) = g
    BY <1>3, <1>12 DEF Push
  <2> QED BY <1>3, <1>11, <1>12, <1>13, <2>1, FitsOther
<1>15. CASE stack' = st /\ state' = s
  <2>1. Succ(q) = NULL \/ Listed(Succ(q))
    BY <1>2, <1>7, SuccListed
  <2>2. (Succ(q) = NULL \/ Listed(Succ(q)))'
    BY <1>8, <2>1 DEF Succ, Listed, listvars
  <2>3. Top' = g
    BY <1>14, <1>15 DEF Top
  <2>4. (Top.fn = "do_poll" => Succ(Top.q) = NULL \/ Listed(Succ(Top.q)))'
    BY <1>13, <2>2, <2>3
  <2> QED BY <1>5, <1>9, <1>14, <1>15, <2>4 DEF StateInv
<1>16. CASE q # NULL /\ call_process([s EXCEPT ![q] = "RUNNING"], q, "POLL", st)
  <2>1. PICK t, M : t = [s EXCEPT ![q] = "RUNNING"] /\ M = L \cup {q}
    OBVIOUS
  <2>2. q \in Proc /\ q \in L /\ M = L /\ t \in States /\ t[q] = "RUNNING"
    BY <1>2, <1>7, <1>16, <2>1 DEF States
  <2>3. ~HasCall(rest, q) /\ ~HasExit(rest, q)
    BY <1>3, <1>4, BottomFits DEF BottomFn
  <2>4. Fits(rest, t, L)
    <3>1. Fits(rest, [s EXCEPT ![q] = "RUNNING"], L \cup {q})
      BY <1>2, <1>5, <2>2, <2>3, FitsRunning
    <3> QED BY <2>1, <2>2, <3>1
  <2>5. call_process(t, q, "POLL", st) /\ Fits(st, t, L)
    BY <1>14, <1>16, <2>1, <2>4
  <2>6. Fits(stack', state', L)
    BY <1>14, <2>2, <2>5, CallFits DEF Event
  <2>7. PICK h : h = Thread(q, "POLL", "call")
    OBVIOUS
  <2>8. h \in Frame /\ h.fn = "thread"
    BY <2>2, <2>7, FramesMade DEF Thread, Event
  <2>9. Top'.fn # "do_poll"
    BY <1>14, <2>2, <2>5, <2>7, <2>8, PushTop DEF call_process, Top
  <2> QED BY <1>9, <2>6, <2>9 DEF StateInv
<1> QED BY <1>1, <1>6, <1>10, <1>11, <1>15, <1>16 DEF do_poll, PollEnd

(* A call of call_process from process_run's own frames.                   *)
LEMMA CalledState ==
  ASSUME NEW s \in States, NEW p \in Proc, NEW ev \in Event, NEW st \in Seq(Frame), NEW L,
         Fits(st, s, L), st # <<>>, Head(st).fn # "do_poll",
         call_process(s, p, ev, st), Procs' = L
  PROVE  StateInv'
<1>1. Fits(stack', state', L)
  BY CallFits
<1>2. PICK h : h = Thread(p, ev, "call")
  OBVIOUS
<1>3. h \in Frame /\ h.fn = "thread"
  BY <1>2, FramesMade DEF Thread
<1>4. Top'.fn # "do_poll"
  BY <1>2, <1>3, PushTop DEF call_process, Top
<1> QED BY <1>1, <1>4 DEF StateInv

LEMMA EventState ==
  ASSUME KernelInv, StateInv, do_event
  PROVE  StateInv'
<1>1. PICK s, L, f, rest : s = state /\ L = Procs /\ f = Top /\ rest = Rest
  OBVIOUS
<1>2. /\ s \in States /\ Shape /\ QueueOK /\ QueuedPosted
  BY <1>1 DEF KernelInv, ShapeInv, KernelTypes, States
<1>3. /\ f \in Frame /\ f.fn = "process_run"
      /\ StackOK(rest) /\ rest # <<>> /\ MayPush(f, rest) /\ stack = Push(f, rest)
      /\ rest \in Seq(Frame)
  BY <1>1, <1>2, TopRest DEF Shape, StackOK, do_event
<1>4. rest[1].fn = "main" /\ rest[1] = Head(rest)
  BY <1>3 DEF MayPush, Over
<1>5. Fits(rest, s, L)
  <2>1. ~Called(f) /\ ~Exits(f) /\ Fits(Push(f, rest), s, L)
    BY <1>1, <1>3 DEF Called, Exits, StateInv
  <2> QED BY <1>3, <2>1, FitsOther
<1>6. Procs' = L
  BY <1>1 DEF do_event, Procs, Listed, listvars
<1>7. CASE stack' = rest /\ state' = s
  BY <1>4, <1>5, <1>6, <1>7 DEF StateInv, Top
<1>8. CASE nevents > 0
  <2>1. PICK m : m = events[fevent]
    OBVIOUS
  <2>2. /\ m \in Posted /\ m.ev \in Event
        /\ m.p = NULL => m.ev \in UserEvent
        /\ m.p # NULL => m.p \in Proc
    BY <1>2, <1>8, <2>1, TakenPosted
  <2>3. m.ev # "INIT"
    BY <2>2, PostedAssumption, EventAssumption DEF Postable
  <2>4. CASE m.p = NULL
    <3>1. PICK g : g = Bcast(NULL, m.ev, "advance")
      OBVIOUS
    <3>2. g \in Frame
      BY <2>2, <2>4, <3>1, FramesMade
    <3>3. g.fn = "do_event" /\ ~Called(g) /\ ~Exits(g)
      BY <3>1 DEF Bcast, Called, Exits
    <3>4. stack' = Push(g, rest) /\ state' = s
      BY <1>1, <1>2, <1>8, <2>1, <2>4, <3>1 DEF do_event, QueueOK
    <3>5. Fits(Push(g, rest), s, L) /\ Head(Push(g, rest)) = g
      BY <1>3, <1>5, <3>2, <3>3, FitsOther, PushTop
    <3> QED BY <1>6, <3>3, <3>4, <3>5 DEF StateInv, Top
  <2>5. CASE m.p # NULL
    <3>1. PICK p \in Proc, ev \in Event : p = m.p /\ ev = m.ev
      BY <2>2, <2>5
    <3>2. call_process(s, p, ev, rest)
      BY <1>1, <1>2, <1>8, <2>1, <2>3, <2>5, <3>1 DEF do_event, QueueOK
    <3> QED BY <1>2, <1>3, <1>4, <1>5, <1>6, <3>2, CalledState
  <2> QED BY <2>4, <2>5
<1> QED BY <1>1, <1>7, <1>8 DEF do_event

LEMMA BroadcastState ==
  ASSUME KernelInv, StateInv, Broadcast
  PROVE  StateInv'
<1>1. PICK s, L, f, rest : s = state /\ L = Procs /\ f = Top /\ rest = Rest
  OBVIOUS
<1>2. /\ s \in States /\ KernelTypes /\ ListInv /\ Shape
  BY <1>1 DEF KernelInv, ShapeInv, KernelTypes, States
<1>3. /\ f \in Frame /\ f.fn = "do_event" /\ f.q \in Proc \cup {NULL} /\ f.ev \in UserEvent
      /\ StackOK(rest) /\ rest # <<>> /\ MayPush(f, rest) /\ stack = Push(f, rest)
      /\ rest \in Seq(Frame)
  BY <1>1, <1>2, TopRest, FrameFields DEF Shape, StackOK, Broadcast
<1>4. rest[1].fn = "main" /\ rest[1] = Head(rest)
  BY <1>3 DEF MayPush, Over
<1>5. Fits(rest, s, L)
  <2>1. ~Called(f) /\ ~Exits(f) /\ Fits(Push(f, rest), s, L)
    BY <1>1, <1>3 DEF Called, Exits, StateInv
  <2> QED BY <1>3, <2>1, FitsOther
<1>6. Procs' = L /\ UNCHANGED listvars
  BY <1>1 DEF Broadcast, Procs, Listed, listvars
<1>7. CASE stack' = rest /\ state' = s
  BY <1>4, <1>5, <1>6, <1>7 DEF StateInv, Top
<1>8. PICK q \in Proc \cup {NULL} : q = IF f.ph = "advance" THEN Succ(f.q) ELSE f.q
  BY <1>2, <1>3, SuccType
<1>9. ASSUME NEW ph \in {"advance", "call"}, NEW g, g = Bcast(q, f.ev, ph)
      PROVE  /\ Push(g, rest) \in Seq(Frame) /\ Head(Push(g, rest)) = g
             /\ Push(g, rest) # <<>> /\ g.fn = "do_event"
             /\ Fits(Push(g, rest), s, L)
  <2>1. g \in Frame
    BY <1>3, <1>9, FramesMade
  <2>2. g.fn = "do_event" /\ ~Called(g) /\ ~Exits(g)
    BY <1>9 DEF Bcast, Called, Exits
  <2>3. Push(g, rest) \in Seq(Frame) /\ Head(Push(g, rest)) = g /\ Push(g, rest) # <<>>
    BY <1>3, <2>1 DEF Push
  <2> QED BY <1>3, <1>5, <2>1, <2>2, <2>3, FitsOther
<1>10. CASE /\ stack' = Push(Poll(NULL), Push(Bcast(q, f.ev, "call"), rest))
            /\ state' = s
  <2>1. PICK g, st, h : g = Bcast(q, f.ev, "call") /\ st = Push(g, rest) /\ h = Poll(NULL)
    OBVIOUS
  <2>2. st \in Seq(Frame) /\ Fits(st, s, L)
    BY <1>9, <2>1
  <2>3. h \in Frame
    BY <2>1, FramesMade
  <2>4. h.fn = "do_poll" /\ h.q = NULL /\ ~Called(h) /\ ~Exits(h)
    BY <2>1 DEF Poll, Called, Exits
  <2>5. Fits(Push(h, st), s, L) /\ Head(Push(h, st)) = h
    BY <2>2, <2>3, <2>4, FitsOther, PushTop
  <2>6. stack' = Push(h, st)
    BY <1>10, <2>1
  <2>7. (Succ(NULL) = NULL \/ Listed(Succ(NULL)))'
    BY <1>2, <1>6, SuccListed DEF Succ, Listed, listvars
  <2>8. Top' = h
    BY <2>5, <2>6 DEF Top
  <2>9. (Top.fn = "do_poll" => Succ(Top.q) = NULL \/ Listed(Succ(Top.q)))'
    BY <2>4, <2>7, <2>8
  <2> QED BY <1>6, <1>10, <2>5, <2>6, <2>9 DEF StateInv
<1>11. CASE q # NULL /\ call_process(s, q, f.ev, Push(Bcast(q, f.ev, "advance"), rest))
  <2>1. PICK g, st : g = Bcast(q, f.ev, "advance") /\ st = Push(g, rest)
    OBVIOUS
  <2>2. PICK ev \in Event : ev = f.ev
    BY <1>3 DEF Event
  <2>3. /\ st \in Seq(Frame) /\ Fits(st, s, L) /\ st # <<>> /\ Head(st).fn # "do_poll"
    BY <1>9, <2>1
  <2>4. q \in Proc /\ call_process(s, q, ev, st)
    BY <1>11, <2>1, <2>2
  <2> QED BY <1>2, <1>6, <2>3, <2>4, CalledState
<1> QED BY <1>1, <1>7, <1>8, <1>10, <1>11 DEF Broadcast

LEMMA StateInvNext ==
  ASSUME ~ExitOnStack
  PROVE  KernelInv /\ StateInv /\ [Next]_vars => StateInv'
<1> SUFFICES ASSUME KernelInv, StateInv, [Next]_vars PROVE StateInv'
  OBVIOUS
<1>1. CASE Calls
  BY <1>1, CallsState
<1>2. CASE \E exits \in BOOLEAN : ThreadReturn(exits)
  BY <1>2, ReturnState
<1>3. CASE Kernel
  BY <1>3, RunState, PollState, EventState, BroadcastState, ExitStepsState DEF Kernel
<1>4. CASE (\E p \in Proc : InterruptPoll(p)) \/ UNCHANGED vars
  <2>1. UNCHANGED <<process_list, next, state, stack>>
    BY <1>4 DEF InterruptPoll, vars, listvars
  <2> QED BY <2>1 DEF StateInv, Procs, Listed, Top, Succ
<1> QED BY <1>1, <1>2, <1>3, <1>4 DEF Next

LEMMA StateInvInit == Init => StateInv
<1> SUFFICES ASSUME Init PROVE StateInv
  OBVIOUS
<1>1. KernelInv
  BY KernelInvInit
<1>2. PICK st : st = stack
  OBVIOUS
<1>3. StackOK(st) /\ st # <<>> /\ st = <<Main(MaxCalls)>>
  BY <1>1, <1>2 DEF KernelInv, ShapeInv, Shape, Init
<1>4. st[1].fn = "main" /\ Head(st).fn = "main"
  BY <1>3 DEF Main
<1>5. \A p : ~HasCall(st, p) /\ ~HasExit(st, p)
  BY <1>3, <1>4, BottomFits DEF BottomFn
<1>6. Once(st)
  <2>1. \A p : \A i \in 1..Len(st) : ~Owns(st[i], p)
    BY <1>5 DEF HasCall, HasExit, Owns
  <2> QED BY <2>1 DEF Once
<1>7. \A p \in Proc : ~Listed(p) /\ state[p] = "NONE"
  <2>1. PICK head, nxt : head = process_list /\ nxt = next
    OBVIOUS
  <2>2. Chain(head, nxt, NULL, <<>>) /\ nxt \in [Proc -> Proc \cup {NULL}]
    BY <2>1 DEF Init, Chain
  <2>3. Nodes(head, nxt, NULL) = Elems(<<>>)
    BY <2>2, ListedChain
  <2>4. Elems(<<>>) = {}
    BY DEF Elems
  <2> QED BY <2>1, <2>3, <2>4 DEF Listed, Init
<1>8. Fits(st, state, Procs)
  BY <1>5, <1>6, <1>7 DEF Fits, Procs
<1> QED BY <1>2, <1>4, <1>8 DEF StateInv, Top

(* As long as no process on the C stack is exited from above, every        *)
(* process that process_is_running reports is on the list, a listed one    *)
(* that does not run is being exited, and one is CALLED exactly while its  *)
(* thread handles an event, through every nesting of polls, broadcasts,    *)
(* synchronous calls and exits.                                            *)
THEOREM StateKept ==
  ASSUME ~ExitOnStack
  PROVE  Spec => []StateOK
<1>1. KernelInv /\ StateInv => StateOK
  <2> SUFFICES ASSUME KernelInv, StateInv, NEW p \in Proc
               PROVE  /\ state[p] # "NONE" => Listed(p)
                      /\ Listed(p) /\ state[p] = "NONE" => ExitsOf(p) # {}
                      /\ state[p] = "CALLED" <=> \E i \in Activations(p) : stack[i].by = "call"
    BY DEF StateOK
  <2>1. DOMAIN stack = 1..Len(stack)
    BY DEF KernelInv, ShapeInv, Shape, StackOK
  <2>2. /\ state[p] = "CALLED" <=> HasCall(stack, p)
        /\ HasExit(stack, p) <=> p \in Procs /\ state[p] = "NONE"
        /\ state[p] # "NONE" => p \in Procs
    BY DEF StateInv, Fits
  <2>3. p \in Procs <=> Listed(p)
    BY DEF Procs
  <2>4. HasExit(stack, p) => ExitsOf(p) # {}
    BY <2>1 DEF HasExit, Exits, ExitsOf
  <2>5. HasCall(stack, p) <=> \E i \in Activations(p) : stack[i].by = "call"
    BY <2>1 DEF HasCall, Called, Activations
  <2> QED BY <2>2, <2>3, <2>4, <2>5
<1>2. Init => StateInv
  BY StateInvInit
<1>3. KernelInv /\ StateInv /\ [Next]_vars => StateInv'
  BY StateInvNext
<1> QED BY <1>1, <1>2, <1>3, KernelInvariance, PTL DEF Spec

(* As long as no process on the C stack is exited from above, no thread is *)
(* entered again while it is running, by whatever way its process is       *)
(* called, polled or exited.                                               *)
THEOREM NotReentered ==
  ASSUME ~ExitOnStack
  PROVE  Spec => []NoReentry
<1>1. KernelInv /\ StateInv => NoReentry
  <2> SUFFICES ASSUME KernelInv, StateInv, NEW p \in Proc
               PROVE  Cardinality(Activations(p)) <= 1
    BY DEF NoReentry
  <2>1. PICK st : st = stack
    OBVIOUS
  <2>2. StackOK(st) /\ Once(st) /\ Len(st) \in Nat /\ DOMAIN st = 1..Len(st)
    BY <2>1 DEF KernelInv, ShapeInv, Shape, StackOK, StateInv, Fits
  <2>3. ASSUME NEW i \in Activations(p), ~Called(st[i])
        PROVE  i + 1 \in 1..Len(st) /\ Owns(st[i + 1], p)
    <3>1. i \in 1..Len(st) /\ st[i].fn = "thread" /\ st[i].p = p /\ st[i] \in Frame
      BY <2>1, <2>2 DEF Activations, StackOK
    <3>2. st[i].by = "exit"
      BY <2>3, <3>1, FrameFields DEF Called
    <3>3. PICK n : n = Len(st)
      OBVIOUS
    <3>4. PICK k : k = i
      OBVIOUS
    <3>5. n \in Nat
      BY <2>2, <3>3
    <3>6. k \in 1..n
      BY <3>1, <3>3, <3>4
    <3>7. n \in Nat /\ k \in Nat /\ n = Len(st) /\ k = i
      BY <3>3, <3>4, <3>5, <3>6
    <3>8. st[n].fn = "main" /\ st[k].fn = "thread" /\ k \in 1..n
      BY <2>2, <3>1, <3>7 DEF StackOK
    <3>9. k # n
      BY <3>8
    <3>10. k \in 1..(n - 1) /\ k + 1 \in 1..n
      BY <3>8, <3>9, <3>5
    <3>11. i \in 1..(Len(st) - 1) /\ i + 1 \in 1..Len(st)
      BY <3>7, <3>10
    <3>12. Over(st[i], st[i + 1])
      BY <2>2, <3>11 DEF StackOK
    <3> QED BY <3>1, <3>2, <3>11, <3>12 DEF Over, Owns, Exits
  <2>4. ASSUME NEW i \in Activations(p), Called(st[i])
        PROVE  i \in 1..Len(st) /\ Owns(st[i], p)
    BY <2>1, <2>2, <2>4 DEF Activations, Owns
  <2>5. ASSUME NEW i \in Activations(p), NEW j \in Activations(p) PROVE i = j
    <3>0. i \in 1..Len(st) /\ j \in 1..Len(st) /\ st[i].fn = "thread" /\ st[j].fn = "thread"
      BY <2>1, <2>2 DEF Activations
    <3>1. CASE Called(st[i]) /\ Called(st[j])
      BY <2>2, <2>4, <3>1 DEF Once
    <3>2. CASE ~Called(st[i]) /\ ~Called(st[j])
      <4>1. i + 1 = j + 1
        BY <2>2, <2>3, <3>2 DEF Once
      <4> QED BY <3>0, <4>1
    <3>3. ASSUME NEW a \in Activations(p), NEW b \in Activations(p),
                 Called(st[a]), ~Called(st[b])
          PROVE  FALSE
      <4>1. a = b + 1
        BY <2>2, <2>3, <2>4, <3>3 DEF Once
      <4>2. Over(st[b], st[b + 1]) /\ st[b].fn = "thread" /\ st[b].by = "exit"
        <5>1. b \in 1..Len(st) /\ st[b].fn = "thread" /\ st[b] \in Frame /\ b + 1 \in 1..Len(st)
          BY <2>1, <2>2, <2>3, <3>3 DEF Activations, StackOK
        <5>2. b \in 1..(Len(st) - 1)
          BY <2>2, <5>1
        <5> QED BY <2>2, <3>3, <5>1, <5>2, FrameFields DEF StackOK, Called
      <4> QED BY <3>3, <4>1, <4>2 DEF Over, Called
    <3> QED BY <3>1, <3>2, <3>3
  <2>6. CASE Activations(p) = {}
    BY <2>6, FS_EmptySet
  <2>7. CASE Activations(p) # {}
    <3>1. PICK i : i \in Activations(p)
      BY <2>7
    <3>2. Activations(p) = {i}
      BY <2>5, <3>1
    <3>3. Cardinality({i}) = 1
      BY FS_Singleton
    <3> QED BY <3>2, <3>3
  <2> QED BY <2>6, <2>7
<1>2. Init => StateInv
  BY StateInvInit
<1>3. KernelInv /\ StateInv /\ [Next]_vars => StateInv'
  BY StateInvNext
<1> QED BY <1>1, <1>2, <1>3, KernelInvariance, PTL DEF Spec

-----------------------------------------------------------------------------
(* Broadcasts.                                                             *)

(* d is met on the way from a along the next pointers nx, those of         *)
(* processes that have left the list included: it is in every set that     *)
(* holds a and is closed under nx.                                         *)
Closed(S, nx) == \A x \in S : nx[x] = NULL \/ nx[x] \in S
Reaches(a, nx, d) ==
  \A S \in SUBSET Proc : (a = NULL \/ a \in S) /\ Closed(S, nx) => d \in S
AllReached(a, nx, D) == \A d \in D : Reaches(a, nx, d)

Pointers == [Proc -> Proc \cup {NULL}]

(* Nothing is left beyond the end of the list.                             *)
LEMMA ReachEnd ==
  ASSUME NEW nx, NEW D, AllReached(NULL, nx, D)
  PROVE  D = {}
<1>1. {} \in SUBSET Proc /\ Closed({}, nx)
  BY DEF Closed
<1> QED BY <1>1 DEF AllReached, Reaches

(* One step on, all is still ahead but the process the loop stood at.      *)
LEMMA ReachNext ==
  ASSUME NEW nx \in Pointers, NEW a \in Proc, NEW D, AllReached(a, nx, D)
  PROVE  AllReached(nx[a], nx, D \ {a})
<1> SUFFICES ASSUME NEW d \in D, d # a, NEW S \in SUBSET Proc,
                    nx[a] = NULL \/ nx[a] \in S, Closed(S, nx)
             PROVE  d \in S
  BY DEF AllReached, Reaches
<1>1. PICK U : U = S \cup {a}
  OBVIOUS
<1>2. U \in SUBSET Proc /\ a \in U /\ Closed(U, nx)
  BY <1>1 DEF Closed
<1>3. d \in U
  BY <1>2 DEF AllReached, Reaches
<1> QED BY <1>1, <1>3

(* From the head of a list all its nodes are met.                          *)
LEMMA ReachList ==
  ASSUME NEW head, NEW nx \in Pointers, NEW s, Chain(head, nx, NULL, s)
  PROVE  AllReached(head, nx, Elems(s))
<1> SUFFICES ASSUME NEW S \in SUBSET Proc, head = NULL \/ head \in S, Closed(S, nx),
                    NEW d \in Elems(s), d \notin S
             PROVE  FALSE
  BY DEF AllReached, Reaches
<1>1. PICK n \in Nat : n = Len(s)
  BY DEF Chain
<1>2. /\ \A i \in 1..n : s[i] \in Proc
      /\ head = IF n = 0 THEN NULL ELSE s[1]
      /\ \A i \in 1..n : nx[s[i]] = IF i = n THEN NULL ELSE s[i + 1]
      /\ \E i \in 1..n : d = s[i]
  <2>1. s = <<>> <=> n = 0
    BY <1>1 DEF Chain
  <2> QED BY <1>1, <2>1 DEF Chain, Elems, Pointers
<1>3. PICK T : T = {i \in 1..n : s[i] \notin S}
  OBVIOUS
<1>4. T \subseteq Nat /\ T # {}
  BY <1>2, <1>3
<1>5. PICK k \in T : \A j \in T : k <= j
  BY <1>4, Least
<1>6. k \in 1..n /\ s[k] \notin S
  BY <1>3, <1>5
<1>7. CASE k = 1
  BY <1>2, <1>6, <1>7, NullAssumption
<1>8. CASE k # 1
  <2>1. PICK j \in 1..n : k = j + 1 /\ j # n
    <3>1. k - 1 \in 1..n /\ k = (k - 1) + 1 /\ k - 1 # n
      BY <1>6, <1>8
    <3> QED BY <3>1
  <2>2. s[j] \in S
    BY <1>3, <1>5, <2>1
  <2>3. nx[s[j]] = s[k] /\ s[k] # NULL
    BY <1>2, <1>6, <2>1, NullAssumption
  <2> QED BY <1>6, <2>2, <2>3 DEF Closed
<1> QED BY <1>7, <1>8

(* exit_process: pointers that led to p lead past it, p's own stays.       *)
Bypass(nx, p, nx2) ==
  \A x \in Proc : nx2[x] = nx[x] \/ (nx[x] = p /\ nx2[x] = nx[p])

LEMMA ReachBypass ==
  ASSUME NEW nx \in Pointers, NEW nx2 \in Pointers, NEW p \in Proc, Bypass(nx, p, nx2),
         NEW a, NEW D, AllReached(a, nx, D)
  PROVE  AllReached(a, nx2, D \ {p})
<1> SUFFICES ASSUME NEW d \in D, d # p, NEW S \in SUBSET Proc,
                    a = NULL \/ a \in S, Closed(S, nx2)
             PROVE  d \in S
  BY DEF AllReached, Reaches
<1>1. CASE \A x \in S : nx2[x] = nx[x]
  <2>1. Closed(S, nx)
    BY <1>1 DEF Closed
  <2> QED BY <2>1 DEF AllReached, Reaches
<1>2. CASE \E x \in S : nx2[x] # nx[x]
  <2>1. PICK x \in S : nx[x] = p /\ nx2[x] = nx[p]
    BY <1>2 DEF Bypass
  <2>2. nx[p] = NULL \/ nx[p] \in S
    BY <2>1 DEF Closed
  <2>3. PICK U : U = S \cup {p}
    OBVIOUS
  <2>4. Closed(U, nx)
    <3> SUFFICES ASSUME NEW y \in U PROVE nx[y] = NULL \/ nx[y] \in U
      BY DEF Closed
    <3>1. CASE y = p
      BY <2>2, <2>3, <3>1
    <3>2. CASE y \in S
      <4>1. nx2[y] = NULL \/ nx2[y] \in S
        BY <3>2 DEF Closed
      <4>2. nx2[y] = nx[y] \/ nx[y] = p
        BY <3>2 DEF Bypass
      <4> QED BY <2>3, <4>1, <4>2
    <3> QED BY <2>3, <3>1, <3>2
  <2>5. U \in SUBSET Proc /\ (a = NULL \/ a \in U)
    BY <2>3
  <2>6. d \in U
    BY <2>4, <2>5 DEF AllReached, Reaches
  <2> QED BY <2>3, <2>6
<1> QED BY <1>1, <1>2

(* process_start: what is met from the new head p is still met by a loop   *)
(* that stands at p or comes to it, and nothing else has changed.          *)
Prefixed(nx, p, nx2) == \A x \in Proc : x # p => nx2[x] = nx[x]

LEMMA ReachPrefixed ==
  ASSUME NEW nx \in Pointers, NEW nx2 \in Pointers, NEW p \in Proc, Prefixed(nx, p, nx2),
         NEW a, NEW D, AllReached(a, nx, D), AllReached(p, nx2, D)
  PROVE  AllReached(a, nx2, D)
<1> SUFFICES ASSUME NEW d \in D, NEW S \in SUBSET Proc, a = NULL \/ a \in S, Closed(S, nx2)
             PROVE  d \in S
  BY DEF AllReached, Reaches
<1>1. CASE p \in S
  BY <1>1 DEF AllReached, Reaches
<1>2. CASE p \notin S
  <2>1. Closed(S, nx)
    BY <1>2 DEF Closed, Prefixed
  <2> QED BY <2>1 DEF AllReached, Reaches
<1> QED BY <1>1, <1>2

(* The broadcasts under way.                                               *)
Bcasts(st) == {f \in Frame : f.fn = "do_event" /\ \E i \in 1..Len(st) : st[i] = f}

LEMMA BcastsPush ==
  ASSUME NEW st \in Seq(Frame), NEW f \in Frame
  PROVE  Bcasts(Push(f, st)) = Bcasts(st) \cup (IF f.fn = "do_event" THEN {f} ELSE {})
<1>1. PICK n \in Nat : n = Len(st)
  OBVIOUS
<1>2. PICK r : r = Push(f, st)
  OBVIOUS
<1>3. Len(r) = n + 1 /\ r[1] = f /\ \A i \in 2..(n + 1) : r[i] = st[i - 1]
  BY <1>1, <1>2 DEF Push
<1>4. ASSUME NEW g PROVE (\E i \in 1..(n + 1) : r[i] = g) <=> g = f \/ \E i \in 1..n : st[i] = g
  <2>1. ASSUME NEW i \in 1..(n + 1), r[i] = g PROVE g = f \/ \E j \in 1..n : st[j] = g
    <3>1. CASE i = 1
      BY <1>3, <2>1, <3>1
    <3>2. CASE i # 1
      <4>1. i \in 2..(n + 1) /\ i - 1 \in 1..n
        BY <3>2
      <4>2. st[i - 1] = g
        BY <1>3, <2>1, <4>1
      <4> QED BY <4>1, <4>2
    <3> QED BY <3>1, <3>2
  <2>2. ASSUME NEW i \in 1..n, st[i] = g PROVE \E j \in 1..(n + 1) : r[j] = g
    <3>1. i + 1 \in 2..(n + 1) /\ i + 1 \in 1..(n + 1) /\ (i + 1) - 1 = i
      OBVIOUS
    <3>2. r[i + 1] = g
      BY <1>3, <2>2, <3>1
    <3> QED BY <3>1, <3>2
  <2>3. ASSUME g = f PROVE \E j \in 1..(n + 1) : r[j] = g
    <3>1. 1 \in 1..(n + 1)
      OBVIOUS
    <3> QED BY <1>3, <2>3, <3>1
  <2> QED BY <2>1, <2>2, <2>3
<1>5. \A g \in Frame : (\E i \in 1..Len(r) : r[i] = g) <=> g = f \/ \E i \in 1..Len(st) : st[i] = g
  BY <1>1, <1>3, <1>4
<1>6. Bcasts(r) = Bcasts(st) \cup (IF f.fn = "do_event" THEN {f} ELSE {})
  BY <1>5 DEF Bcasts
<1> QED BY <1>2, <1>6

(* A frame of another function makes no difference.                        *)
LEMMA BcastsKept ==
  ASSUME NEW st \in Seq(Frame), NEW f \in Frame, f.fn # "do_event"
  PROVE  Bcasts(Push(f, st)) = Bcasts(st) /\ Push(f, st) \in Seq(Frame)
<1>1. Bcasts(Push(f, st)) = Bcasts(st)
  BY BcastsPush
<1> QED BY <1>1 DEF Push

LEMMA BcastsRest ==
  ASSUME Shape
  PROVE  /\ Rest \in Seq(Frame) /\ Top \in Frame
         /\ Top.fn # "do_event" => Bcasts(Rest) = Bcasts(stack)
         /\ Top.fn = "do_event" => Bcasts(stack) = Bcasts(Rest) \cup {Top}
<1>1. PICK f, rest : f = Top /\ rest = Rest
  OBVIOUS
<1>2. f \in Frame /\ rest \in Seq(Frame) /\ stack = Push(f, rest)
  BY <1>1, TopRest DEF Shape, StackOK
<1>3. Bcasts(Push(f, rest)) = Bcasts(rest) \cup (IF f.fn = "do_event" THEN {f} ELSE {})
  BY <1>2, BcastsPush
<1> QED BY <1>1, <1>2, <1>3

LEMMA BcastsAfterCall ==
  ASSUME Shape, MayCall
  PROVE  Bcasts(AfterCall) = Bcasts(stack) /\ AfterCall \in Seq(Frame)
<1>1. PICK f, rest : f = Top /\ rest = Rest
  OBVIOUS
<1>2. /\ f \in Frame /\ f.fn \in {"main", "thread"} /\ f.calls > 0
      /\ rest \in Seq(Frame) /\ Bcasts(rest) = Bcasts(stack)
  BY <1>1, BcastsRest DEF MayCall
<1>3. PICK g : g = [f EXCEPT !.calls = @ - 1]
  OBVIOUS
<1>4. g \in Frame /\ g.fn # "do_event"
  BY <1>2, <1>3, AfterCallFrame
<1>5. Bcasts(Push(g, rest)) = Bcasts(rest) /\ Push(g, rest) \in Seq(Frame)
  BY <1>2, <1>4, BcastsKept
<1>6. AfterCall = Push(g, rest)
  BY <1>1, <1>3 DEF AfterCall
<1> QED BY <1>2, <1>5, <1>6

LEMMA BcastsCall ==
  ASSUME NEW s, NEW p \in Proc, NEW ev \in Event, NEW st \in Seq(Frame), call_process(s, p, ev, st)
  PROVE  Bcasts(stack') = Bcasts(st)
<1>1. PICK f : f = Thread(p, ev, "call")
  OBVIOUS
<1>2. f \in Frame /\ f.fn # "do_event"
  <2>1. f \in Frame
    BY <1>1, FramesMade
  <2> QED BY <1>1, <2>1 DEF Thread
<1>3. stack' = st \/ stack' = Push(f, st)
  BY <1>1 DEF call_process
<1>4. Bcasts(Push(f, st)) = Bcasts(st)
  BY <1>2, BcastsKept
<1> QED BY <1>3, <1>4

LEMMA BcastsExit ==
  ASSUME NEW p \in Proc, NEW from \in Proc \cup {NULL}, NEW st \in Seq(Frame),
         process_current \in Proc \cup {NULL}, exit_process(p, from, st)
  PROVE  /\ Bcasts(stack') = Bcasts(st)
         /\ UNCHANGED <<listvars, due>> \/ Unlink(p)
<1>1. PICK f, cur : f = Exiting(p, from, NULL, cur, "notify") /\ cur = process_current
  OBVIOUS
<1>2. f \in Frame /\ f.fn # "do_event"
  <2>1. f \in Frame
    BY <1>1, FramesMade
  <2> QED BY <1>1, <2>1 DEF Exiting
<1>3. stack' = st \/ stack' = Push(f, st)
  BY <1>1 DEF exit_process
<1>4. Bcasts(Push(f, st)) = Bcasts(st)
  BY <1>2, BcastsKept
<1>5. UNCHANGED <<listvars, due>> \/ Unlink(p)
  BY DEF exit_process
<1> QED BY <1>3, <1>4, <1>5

-----------------------------------------------------------------------------
(* Where the walk of the broadcast b goes on.                              *)
Start(b, head, nx) ==
  IF b.ph = "advance" THEN (IF b.q = NULL THEN head ELSE nx[b.q]) ELSE b.q

(* Whoever the broadcast has to reach is on the list and ahead of it.      *)
BcastInv ==
  /\ due \subseteq Procs
  /\ Bcasts(stack) = {} => due = {}
  /\ \A b \in Bcasts(stack) : AllReached(Start(b, process_list, next), next, due)

LEMMA BcastSame ==
  ASSUME BcastInv, Bcasts(stack') = Bcasts(stack), UNCHANGED <<listvars, due>>
  PROVE  BcastInv'
<1>1. UNCHANGED <<process_list, next, due>>
  BY DEF listvars
<1>2. Procs' = Procs
  BY <1>1 DEF Procs, Listed
<1>3. PICK B, hd, nx, D : B = Bcasts(stack) /\ hd = process_list /\ nx = next /\ D = due
  OBVIOUS
<1>4. B = Bcasts(stack)' /\ hd = process_list' /\ nx = next' /\ D = due'
  BY <1>1, <1>3
<1>5. \A b \in B : AllReached(Start(b, hd, nx), nx, D)
  BY <1>3 DEF BcastInv
<1> QED BY <1>1, <1>2, <1>3, <1>4, <1>5 DEF BcastInv

(* All that is listed is ahead of a walk that has not begun.               *)
LEMMA ListReached ==
  ASSUME ListInv, KernelTypes
  PROVE  AllReached(process_list, next, Procs)
<1>1. PICK s, hd, nx : Chain(hd, nx, NULL, s) /\ hd = process_list /\ nx = next
  BY DEF ListInv
<1>2. nx \in Pointers
  BY <1>1 DEF KernelTypes, Pointers
<1>3. AllReached(hd, nx, Elems(s))
  BY <1>1, <1>2, ReachList
<1>4. Nodes(hd, nx, NULL) = Elems(s)
  BY <1>1, <1>2, ListedChain DEF Pointers
<1>5. Procs \subseteq Elems(s)
  BY <1>1, <1>4 DEF Procs, Listed
<1>6. AllReached(hd, nx, Procs)
  BY <1>3, <1>5 DEF AllReached
<1> QED BY <1>1, <1>6

LEMMA ListReachedPrime ==
  ASSUME ListInv', KernelTypes'
  PROVE  AllReached(process_list, next, Procs)'
<1>1. PICK s, hd, nx : Chain(hd, nx, NULL, s) /\ hd = process_list' /\ nx = next'
  BY DEF ListInv
<1>2. nx \in Pointers
  BY <1>1 DEF KernelTypes, Pointers
<1>3. AllReached(hd, nx, Elems(s))
  BY <1>1, <1>2, ReachList
<1>4. Nodes(hd, nx, NULL) = Elems(s)
  BY <1>1, <1>2, ListedChain DEF Pointers
<1>5. Procs' \subseteq Elems(s)
  BY <1>1, <1>4 DEF Procs, Listed
<1>6. \A d \in Procs' : Reaches(hd, nx, d)
  BY <1>3, <1>5 DEF AllReached
<1> QED BY <1>1, <1>6 DEF AllReached

(* A process leaves the list while the broadcast walks it.                 *)
LEMMA BcastUnlink ==
  ASSUME KernelInv, KernelInv', BcastInv, Bcasts(stack') = Bcasts(stack),
         NEW p \in Proc, Unlink(p)
  PROVE  BcastInv'
<1>1. PICK B, hd, nx, D, hd2, nx2 :
        /\ B = Bcasts(stack) /\ hd = process_list /\ nx = next /\ D = due
        /\ hd2 = process_list' /\ nx2 = next'
  OBVIOUS
<1>2. nx \in Pointers /\ nx2 \in Pointers
  BY <1>1 DEF KernelInv, ShapeInv, KernelTypes, Pointers
<1>3. due' = D \ {p} /\ Bypass(nx, p, nx2)
  <2>1. due' = D \ {p}
    BY <1>1 DEF Unlink
  <2>2. CASE nx2 = nx
    BY <2>1, <2>2 DEF Bypass
  <2>3. CASE nx2 = [q \in Proc |-> IF Listed(q) /\ nx[q] = p THEN nx[p] ELSE nx[q]]
    BY <2>1, <2>3 DEF Bypass
  <2> QED BY <1>1, <2>2, <2>3 DEF Unlink
<1>4. D \subseteq Procs /\ (B = {} => D = {})
      /\ \A b \in B : AllReached(Start(b, hd, nx), nx, D)
  BY <1>1 DEF BcastInv
<1>5. \A q : Listed(q)' <=> Listed(q) /\ q # p
  BY Unlinked DEF KernelInv, ShapeInv
<1>6. due' \subseteq Procs'
  BY <1>3, <1>4, <1>5 DEF Procs
<1>7. AllReached(hd2, nx2, D \ {p})
  <2>1. AllReached(process_list, next, Procs)'
    BY ListReachedPrime DEF KernelInv, ShapeInv
  <2> QED BY <1>1, <1>3, <1>6, <2>1 DEF AllReached
<1>8. ASSUME NEW b \in B PROVE AllReached(Start(b, hd2, nx2), nx2, D \ {p})
  <2>1. b.q \in Proc \cup {NULL} /\ b.ph \in {"advance", "call"}
    BY <1>1, FrameFields DEF Bcasts
  <2>2. AllReached(Start(b, hd, nx), nx, D)
    BY <1>4
  <2>3. CASE b.ph = "advance" /\ b.q = NULL
    BY <1>7, <2>3 DEF Start
  <2>4. CASE b.ph # "advance"
    <3>1. PICK a : a = Start(b, hd, nx)
      OBVIOUS
    <3>2. Start(b, hd2, nx2) = a
      BY <2>4, <3>1 DEF Start
    <3>3. AllReached(a, nx2, D \ {p})
      BY <1>2, <1>3, <2>2, <3>1, ReachBypass
    <3> QED BY <3>2, <3>3
  <2>5. CASE b.ph = "advance" /\ b.q # NULL
    <3>1. PICK q \in Proc : q = b.q
      BY <2>1, <2>5
    <3>2. AllReached(nx[q], nx, D) /\ Start(b, hd2, nx2) = nx2[q]
      BY <2>2, <2>5, <3>1 DEF Start
    <3>3. CASE nx2[q] = nx[q]
      <4>1. AllReached(nx[q], nx2, D \ {p})
        BY <1>2, <1>3, <3>2, ReachBypass
      <4> QED BY <3>2, <3>3, <4>1
    <3>4. CASE nx[q] = p /\ nx2[q] = nx[p]
      <4>1. AllReached(nx[p], nx, D \ {p})
        BY <1>2, <3>2, <3>4, ReachNext
      <4>2. PICK E : E = D \ {p}
        OBVIOUS
      <4>3. AllReached(nx[p], nx2, E \ {p})
        BY <1>2, <1>3, <4>1, <4>2, ReachBypass
      <4>4. E \ {p} = D \ {p}
        BY <4>2
      <4> QED BY <3>2, <3>4, <4>3, <4>4
    <3> QED BY <1>3, <3>3, <3>4 DEF Bypass
  <2> QED BY <2>3, <2>4, <2>5
<1>9. B = Bcasts(stack)' /\ hd2 = process_list' /\ nx2 = next' /\ due' = D \ {p}
  BY <1>1, <1>3
<1> QED BY <1>4, <1>6, <1>8, <1>9 DEF BcastInv

(* A process is started while the broadcast walks the list.                *)
LEMMA BcastLink ==
  ASSUME KernelInv, KernelInv', BcastInv, Bcasts(stack') = Bcasts(stack),
         NEW p \in Proc, ~Listed(p), next' = [next EXCEPT ![p] = process_list],
         process_list' = p, due' = due
  PROVE  BcastInv'
<1>1. PICK B, hd, nx, D, nx2 :
        /\ B = Bcasts(stack) /\ hd = process_list /\ nx = next /\ D = due /\ nx2 = next'
  OBVIOUS
<1>2. nx \in Pointers /\ nx2 \in Pointers
  BY <1>1 DEF KernelInv, ShapeInv, KernelTypes, Pointers
<1>3. Prefixed(nx, p, nx2) /\ nx2[p] = hd
  BY <1>1, <1>2 DEF Prefixed, Pointers
<1>4. D \subseteq Procs /\ (B = {} => D = {})
      /\ \A b \in B : AllReached(Start(b, hd, nx), nx, D)
  BY <1>1 DEF BcastInv
<1>5. \A q : Listed(q)' <=> Listed(q) \/ q = p
  BY Linked DEF KernelInv, ShapeInv
<1>6. D \subseteq Procs' /\ p \notin D
  BY <1>4, <1>5 DEF Procs
<1>7. AllReached(p, nx2, D)
  <2>1. AllReached(process_list, next, Procs)'
    BY ListReachedPrime DEF KernelInv, ShapeInv
  <2> QED BY <1>1, <1>6, <2>1 DEF AllReached
<1>8. ASSUME NEW b \in B PROVE AllReached(Start(b, p, nx2), nx2, D)
  <2>1. b.q \in Proc \cup {NULL} /\ b.ph \in {"advance", "call"}
    BY <1>1, FrameFields DEF Bcasts
  <2>2. PICK a : a = Start(b, hd, nx)
    OBVIOUS
  <2>3. AllReached(a, nx2, D)
    BY <1>2, <1>3, <1>4, <1>7, <2>2, ReachPrefixed
  <2>4. CASE b.ph = "advance" /\ b.q = NULL
    BY <1>7, <2>4 DEF Start
  <2>5. CASE b.ph # "advance"
    BY <2>2, <2>3, <2>5 DEF Start
  <2>6. CASE b.ph = "advance" /\ b.q # NULL /\ b.q # p
    <3>1. Start(b, p, nx2) = a
      BY <1>3, <2>1, <2>2, <2>6 DEF Start, Prefixed
    <3> QED BY <2>3, <3>1
  <2>7. CASE b.ph = "advance" /\ b.q = p
    <3>1. Start(b, p, nx2) = nx2[p]
      BY <2>7, NullAssumption DEF Start
    <3>2. AllReached(nx2[p], nx2, D \ {p})
      BY <1>2, <1>7, ReachNext
    <3>3. D \ {p} = D
      BY <1>6
    <3> QED BY <3>1, <3>2, <3>3
  <2> QED BY <2>4, <2>5, <2>6, <2>7
<1>9. B = Bcasts(stack)' /\ p = process_list' /\ nx2 = next' /\ D = due'
  BY <1>1
<1> QED BY <1>4, <1>6, <1>8, <1>9 DEF BcastInv

LEMMA BcastCalls ==
  ASSUME KernelInv, KernelInv', BcastInv, Calls
  PROVE  BcastInv'
<1>1. PICK s, cur, st, st2 :
        /\ s = state /\ cur = process_current /\ st = AfterCall
        /\ st2 = Push(Synch(process_current), AfterCall)
  OBVIOUS
<1>2. Shape /\ MayCall /\ cur \in Proc \cup {NULL}
  BY <1>1 DEF KernelInv, ShapeInv, KernelTypes, Calls, process_post, process_post_synch,
              process_start, process_exit, process_poll
<1>3. st \in Seq(Frame) /\ Bcasts(st) = Bcasts(stack)
  BY <1>1, <1>2, BcastsAfterCall
<1>4. st2 \in Seq(Frame) /\ Bcasts(st2) = Bcasts(stack)
  <2>1. PICK f : f = Synch(cur)
    OBVIOUS
  <2>2. f \in Frame /\ f.fn # "do_event"
    <3>1. f \in Frame
      BY <1>2, <2>1, FramesMade
    <3> QED BY <2>1, <3>1 DEF Synch
  <2>3. Push(f, st) \in Seq(Frame) /\ Bcasts(Push(f, st)) = Bcasts(st)
    BY <1>3, <2>2, BcastsKept
  <2> QED BY <1>1, <1>3, <2>1, <2>3
<1>5. CASE (\E m \in Posted : process_post(m)) \/ (\E p \in Proc : process_poll(p))
  <2>1. stack' = st /\ UNCHANGED <<listvars, due>>
    BY <1>1, <1>5 DEF process_post, process_poll
  <2> QED BY <1>3, <2>1, BcastSame
<1>6. ASSUME NEW p \in Proc, NEW ev \in UserEvent, process_post_synch(p, ev) PROVE BcastInv'
  <2>1. call_process(s, p, ev, st2) /\ UNCHANGED <<listvars, due>> /\ ev \in Event
    BY <1>1, <1>6 DEF process_post_synch, Event
  <2>2. Bcasts(stack') = Bcasts(st2)
    BY <1>4, <2>1, BcastsCall
  <2> QED BY <1>4, <2>1, <2>2, BcastSame
<1>7. ASSUME NEW p \in Proc, process_start(p) PROVE BcastInv'
  <2>1. CASE stack' = st /\ UNCHANGED listvars /\ due' = due
    BY <1>3, <2>1, BcastSame
  <2>2. CASE /\ ~Listed(p) /\ next' = [next EXCEPT ![p] = process_list] /\ process_list' = p
             /\ call_process([s EXCEPT ![p] = "RUNNING"], p, "INIT", st2) /\ due' = due
    <3>1. PICK s2 : s2 = [s EXCEPT ![p] = "RUNNING"]
      OBVIOUS
    <3>2. call_process(s2, p, "INIT", st2) /\ "INIT" \in Event
      BY <2>2, <3>1 DEF Event
    <3>3. Bcasts(stack') = Bcasts(st2)
      BY <1>4, <3>2, BcastsCall
    <3> QED BY <1>4, <2>2, <3>3, BcastLink
  <2> QED BY <1>1, <1>7, <2>1, <2>2 DEF process_start
<1>8. ASSUME NEW p \in Proc, process_exit(p) PROVE BcastInv'
  <2>1. exit_process(p, cur, st) /\ process_current \in Proc \cup {NULL}
    BY <1>1, <1>2, <1>8 DEF process_exit
  <2>2. Bcasts(stack') = Bcasts(st) /\ (UNCHANGED <<listvars, due>> \/ Unlink(p))
    BY <1>2, <1>3, <2>1, BcastsExit
  <2> QED BY <1>3, <2>2, BcastSame, BcastUnlink
<1> QED BY <1>5, <1>6, <1>7, <1>8 DEF Calls

LEMMA BcastReturns ==
  ASSUME KernelInv, KernelInv', BcastInv,
         \/ \E exits \in BOOLEAN : ThreadReturn(exits)
         \/ SynchReturn \/ ExitNotify \/ ExitThread \/ ExitUnlink
  PROVE  BcastInv'
<1>1. PICK s, cur, f, rest : s = state /\ cur = process_current /\ f = Top /\ rest = Rest
  OBVIOUS
<1>2. Shape /\ KernelTypes /\ cur \in Proc \cup {NULL}
  BY <1>1 DEF KernelInv, ShapeInv, KernelTypes
<1>3. /\ f \in Frame /\ f.fn \in {"thread", "process_post_synch", "exit_process"}
      /\ rest \in Seq(Frame) /\ Bcasts(rest) = Bcasts(stack)
  <2>1. Top.fn \in {"thread", "process_post_synch", "exit_process"}
    BY DEF ThreadReturn, SynchReturn, ExitNotify, ExitThread, ExitUnlink
  <2> QED BY <1>1, <1>2, <2>1, BcastsRest
<1>4. ASSUME NEW exits \in BOOLEAN, ThreadReturn(exits) PROVE BcastInv'
  <2>1. PICK p : p = f.p
    OBVIOUS
  <2>2. p \in Proc /\ f.fn = "thread"
    BY <1>1, <1>3, <1>4, <2>1, FrameFields DEF ThreadReturn
  <2>3. CASE stack' = rest /\ UNCHANGED <<listvars, due>>
    BY <1>3, <2>3, BcastSame
  <2>4. CASE exit_process(p, p, rest)
    <3>1. Bcasts(stack') = Bcasts(rest) /\ (UNCHANGED <<listvars, due>> \/ Unlink(p))
      BY <1>1, <1>2, <1>3, <2>2, <2>4, BcastsExit
    <3> QED BY <1>3, <2>2, <3>1, BcastSame, BcastUnlink
  <2> QED BY <1>1, <1>4, <2>1, <2>3, <2>4 DEF ThreadReturn
<1>5. CASE SynchReturn
  <2>1. stack' = rest /\ UNCHANGED <<listvars, due>>
    BY <1>1, <1>5 DEF SynchReturn
  <2> QED BY <1>3, <2>1, BcastSame
<1>6. CASE ExitUnlink
  <2>1. PICK p : p = f.p
    OBVIOUS
  <2>2. p \in Proc /\ Unlink(p) /\ stack' = rest
    BY <1>1, <1>3, <1>6, <2>1, FrameFields DEF ExitUnlink
  <2> QED BY <1>3, <2>2, BcastUnlink
<1>7. CASE ExitNotify
  <2>1. f.fn = "exit_process" /\ f.q \in Proc \cup {NULL} /\ f.p \in Proc
        /\ f = Exiting(f.p, f.from, f.q, f.old, f.ph)
        /\ f.from \in Proc \cup {NULL} /\ f.old \in Proc \cup {NULL} /\ f.ph \in {"notify", "unlink"}
    BY <1>1, <1>3, <1>7, FrameFields DEF ExitNotify
  <2>2. PICK q \in Proc \cup {NULL} : q = Succ(f.q)
    BY <1>2, <2>1, SuccType
  <2>3. PICK g, st : g = [f EXCEPT !.q = q] /\ st = Push(g, rest)
    OBVIOUS
  <2>4. g \in Frame /\ g.fn # "do_event"
    <3>1. g = Exiting(f.p, f.from, q, f.old, f.ph)
      BY <2>1, <2>3 DEF Exiting
    <3>2. g \in Frame
      BY <2>1, <3>1, FramesMade
    <3> QED BY <3>1, <3>2 DEF Exiting
  <2>5. st \in Seq(Frame) /\ Bcasts(st) = Bcasts(stack)
    BY <1>3, <2>3, <2>4, BcastsKept
  <2>6. /\ q # NULL /\ UNCHANGED <<listvars, due>>
        /\ stack' = st \/ call_process(s, q, "EXITED", st)
    BY <1>1, <1>7, <2>2, <2>3 DEF ExitNotify
  <2>7. Bcasts(stack') = Bcasts(st)
    <3>1. q \in Proc /\ "EXITED" \in Event
      BY <2>6 DEF Event
    <3>2. CASE call_process(s, q, "EXITED", st)
      BY <2>5, <3>1, <3>2, BcastsCall
    <3> QED BY <2>6, <3>2
  <2> QED BY <2>5, <2>6, <2>7, BcastSame
<1>8. CASE ExitThread
  <2>1. f.fn = "exit_process" /\ f.q \in Proc \cup {NULL} /\ f.p \in Proc
        /\ f = Exiting(f.p, f.from, f.q, f.old, f.ph)
        /\ f.from \in Proc \cup {NULL} /\ f.old \in Proc \cup {NULL}
    BY <1>1, <1>3, <1>8, FrameFields DEF ExitThread
  <2>2. PICK g, h, st : /\ g = [f EXCEPT !.ph = "unlink"] /\ st = Push(g, rest)
                        /\ h = Thread(f.p, "EXIT", "exit")
    OBVIOUS
  <2>3. g \in Frame /\ g.fn # "do_event"
    <3>1. g = Exiting(f.p, f.from, f.q, f.old, "unlink")
      BY <2>1, <2>2 DEF Exiting
    <3>2. g \in Frame
      BY <2>1, <3>1, FramesMade
    <3> QED BY <3>1, <3>2 DEF Exiting
  <2>4. h \in Frame /\ h.fn # "do_event"
    <3>1. h \in Frame
      BY <2>1, <2>2, FramesMade DEF Event
    <3> QED BY <2>2, <3>1 DEF Thread
  <2>5. st \in Seq(Frame) /\ Bcasts(st) = Bcasts(stack)
    BY <1>3, <2>2, <2>3, BcastsKept
  <2>6. Bcasts(Push(h, st)) = Bcasts(st)
    BY <2>4, <2>5, BcastsKept
  <2>7. stack' = Push(h, st) /\ UNCHANGED <<listvars, due>>
    BY <1>1, <1>8, <2>2 DEF ExitThread
  <2> QED BY <2>5, <2>6, <2>7, BcastSame
<1> QED BY <1>4, <1>5, <1>6, <1>7, <1>8

(* The main program is at the bottom of the stack, no broadcast below it.  *)
LEMMA NoBcastBelow ==
  ASSUME NEW st, StackOK(st), st # <<>>, st[1].fn = "main"
  PROVE  Bcasts(st) = {}
<1>1. PICK f, rest : f = Head(st) /\ rest = Tail(st)
  OBVIOUS
<1>2. f \in Frame /\ MayPush(f, rest) /\ st = Push(f, rest) /\ StackOK(rest)
  BY <1>1, PopFrame
<1>3. f.fn = "main" /\ rest \in Seq(Frame)
  <2>1. rest \in Seq(Frame)
    BY <1>2 DEF StackOK
  <2>2. Push(f, rest)[1] = f
    BY <1>2, <2>1, PushTop
  <2> QED BY <1>2, <2>1, <2>2
<1>4. rest = <<>>
  BY <1>2, <1>3 DEF MayPush, Over
<1>5. Bcasts(Push(f, rest)) = Bcasts(rest)
  BY <1>2, <1>3, BcastsKept
<1>6. Bcasts(<<>>) = {}
  BY DEF Bcasts
<1> QED BY <1>2, <1>4, <1>5, <1>6

LEMMA BcastRun ==
  ASSUME KernelInv, KernelInv', BcastInv, process_run
  PROVE  BcastInv'
<1>1. Shape /\ Top.fn = "main" /\ UNCHANGED <<listvars, due>>
  BY DEF KernelInv, ShapeInv, process_run
<1>2. Bcasts(stack) = {}
  <2>1. PICK st : st = stack
    OBVIOUS
  <2>2. StackOK(st) /\ st # <<>> /\ st[1].fn = "main"
    BY <1>1, <2>1, TopRest DEF Shape
  <2> QED BY <2>1, <2>2, NoBcastBelow
<1>3. Bcasts(stack') = {}
  <2>1. PICK st : st = stack'
    OBVIOUS
  <2>2. st = <<Poll(NULL), Run, Main(MaxCalls)>> \/ st = <<Run, Main(MaxCalls)>>
    BY <2>1 DEF process_run
  <2>3. \A i \in 1..Len(st) : st[i].fn # "do_event"
    <3>1. CASE st = <<Poll(NULL), Run, Main(MaxCalls)>>
      <4>1. /\ Len(st) = 3 /\ st[1] = Poll(NULL) /\ st[2] = Run /\ st[3] = Main(MaxCalls)
        BY <3>1
      <4>2. Poll(NULL).fn # "do_event" /\ Run.fn # "do_event" /\ Main(MaxCalls).fn # "do_event"
        BY DEF Poll, Run, Main
      <4> QED BY <4>1, <4>2
    <3>2. CASE st = <<Run, Main(MaxCalls)>>
      <4>1. /\ Len(st) = 2 /\ st[1] = Run /\ st[2] = Main(MaxCalls)
        BY <3>2
      <4>2. Run.fn # "do_event" /\ Main(MaxCalls).fn # "do_event"
        BY DEF Run, Main
      <4> QED BY <4>1, <4>2
    <3> QED BY <2>2, <3>1, <3>2
  <2> QED BY <2>1, <2>3 DEF Bcasts
<1> QED BY <1>1, <1>2, <1>3, BcastSame

LEMMA BcastPoll ==
  ASSUME KernelInv, KernelInv', BcastInv, do_poll
  PROVE  BcastInv'
<1>1. PICK s, f, rest : s = state /\ f = Top /\ rest = Rest
  OBVIOUS
<1>2. Shape /\ KernelTypes
  BY DEF KernelInv, ShapeInv
<1>3. /\ f \in Frame /\ f.fn = "do_poll" /\ f.q \in Proc \cup {NULL}
      /\ rest \in Seq(Frame) /\ Bcasts(rest) = Bcasts(stack)
  BY <1>1, <1>2, BcastsRest, FrameFields DEF do_poll
<1>4. PICK q \in Proc \cup {NULL} : q = Succ(f.q)
  BY <1>2, <1>3, SuccType
<1>5. PICK g, st : g = Poll(q) /\ st = Push(g, rest)
  OBVIOUS
<1>6. g \in Frame /\ g.fn # "do_event"
  <2>1. g \in Frame
    BY <1>5, FramesMade
  <2> QED BY <1>5, <2>1 DEF Poll
<1>7. st \in Seq(Frame) /\ Bcasts(st) = Bcasts(stack)
  BY <1>3, <1>5, <1>6, BcastsKept
<1>8. UNCHANGED <<listvars, due>>
  BY DEF do_poll, PollEnd
<1>9. CASE stack' = rest \/ stack' = st
  BY <1>3, <1>7, <1>8, <1>9, BcastSame
<1>10. CASE q # NULL /\ call_process([s EXCEPT ![q] = "RUNNING"], q, "POLL", st)
  <2>1. PICK s2 : s2 = [s EXCEPT ![q] = "RUNNING"]
    OBVIOUS
  <2>2. call_process(s2, q, "POLL", st) /\ q \in Proc /\ "POLL" \in Event
    BY <1>10, <2>1 DEF Event
  <2>3. Bcasts(stack') = Bcasts(st)
    BY <1>7, <2>2, BcastsCall
  <2> QED BY <1>7, <1>8, <2>3, BcastSame
<1> QED BY <1>1, <1>4, <1>5, <1>9, <1>10 DEF do_poll, PollEnd

(* A broadcast begins.                                                     *)
LEMMA BcastEvent ==
  ASSUME KernelInv, KernelInv', BcastInv, do_event
  PROVE  BcastInv'
<1>1. PICK s, f, rest, m : s = state /\ f = Top /\ rest = Rest /\ m = events[fevent]
  OBVIOUS
<1>2. Shape /\ KernelTypes /\ ListInv
  BY DEF KernelInv, ShapeInv
<1>3. /\ f \in Frame /\ f.fn = "process_run"
      /\ rest \in Seq(Frame) /\ Bcasts(rest) = Bcasts(stack)
  BY <1>1, <1>2, BcastsRest DEF do_event
<1>4. Bcasts(rest) = {}
  <2>1. StackOK(rest) /\ rest # <<>> /\ MayPush(f, rest)
    BY <1>1, <1>2, <1>3, TopRest DEF Shape
  <2>2. rest[1].fn = "main"
    BY <1>3, <2>1 DEF MayPush, Over
  <2> QED BY <2>1, <2>2, NoBcastBelow
<1>5. UNCHANGED listvars
  BY DEF do_event
<1>6. CASE stack' = rest /\ due' = due
  BY <1>3, <1>5, <1>6, BcastSame
<1>7. m \in Posted \/ nevents = 0
  BY <1>1, TakenPosted DEF KernelInv, ShapeInv, QueueOK
<1>8. CASE /\ nevents > 0 /\ m.p # NULL /\ due' = due
           /\ call_process(IF m.ev = "INIT" THEN [s EXCEPT ![m.p] = "RUNNING"] ELSE s, m.p, m.ev, rest)
  <2>1. PICK s2, p, ev : /\ s2 = (IF m.ev = "INIT" THEN [s EXCEPT ![m.p] = "RUNNING"] ELSE s)
                         /\ p = m.p /\ ev = m.ev
    OBVIOUS
  <2>2. p \in Proc /\ ev \in Event
    BY <1>7, <1>8, <2>1, PostedAssumption DEF Postable, Event
  <2>3. call_process(s2, p, ev, rest)
    BY <1>8, <2>1
  <2>4. Bcasts(stack') = Bcasts(rest)
    BY <1>3, <2>2, <2>3, BcastsCall
  <2> QED BY <1>3, <1>5, <1>8, <2>4, BcastSame
<1>9. CASE /\ nevents > 0 /\ m.p = NULL /\ due' = Procs
           /\ stack' = Push(Bcast(NULL, m.ev, "advance"), rest)
  <2>1. PICK b : b = Bcast(NULL, m.ev, "advance")
    OBVIOUS
  <2>2. b \in Frame /\ b.fn = "do_event" /\ b.q = NULL /\ b.ph = "advance"
    <3>1. m.ev \in UserEvent
      BY <1>7, <1>9, PostedAssumption, NullAssumption DEF Postable
    <3>2. b \in Frame
      BY <2>1, <3>1, FramesMade
    <3> QED BY <2>1, <3>2 DEF Bcast
  <2>3. Bcasts(Push(b, rest)) = Bcasts(rest) \cup (IF b.fn = "do_event" THEN {b} ELSE {})
    BY <1>3, <2>2, BcastsPush
  <2>4. Bcasts(stack') = {b}
    BY <1>4, <1>9, <2>1, <2>2, <2>3
  <2>5. Procs' = Procs
    BY <1>5 DEF Procs, Listed, listvars
  <2>6. AllReached(process_list, next, Procs)
    BY <1>2, ListReached
  <2>7. PICK hd, nx, D : hd = process_list' /\ nx = next' /\ D = due'
    OBVIOUS
  <2>8. AllReached(Start(b, hd, nx), nx, D)
    <3>1. Start(b, hd, nx) = hd
      BY <2>2 DEF Start
    <3>2. AllReached(hd, nx, D)
      BY <1>5, <1>9, <2>6, <2>7 DEF listvars
    <3> QED BY <3>1, <3>2
  <2>9. \A c \in Bcasts(stack') : AllReached(Start(c, process_list', next'), next', due')
    BY <2>4, <2>7, <2>8
  <2> QED BY <1>9, <2>4, <2>5, <2>9 DEF BcastInv
<1> QED BY <1>1, <1>6, <1>8, <1>9 DEF do_event, Procs

(* The broadcast goes on.                                                  *)
LEMMA BcastWalk ==
  ASSUME KernelInv, KernelInv', BcastInv, Broadcast
  PROVE  BcastInv'
<1>1. PICK s, f, rest, hd, nx, D :
        /\ s = state /\ f = Top /\ rest = Rest
        /\ hd = process_list /\ nx = next /\ D = due
  OBVIOUS
<1>2. Shape /\ KernelTypes /\ nx \in Pointers
  BY <1>1 DEF KernelInv, ShapeInv, KernelTypes, Pointers
<1>3. /\ f \in Frame /\ f.fn = "do_event" /\ rest \in Seq(Frame)
      /\ f.q \in Proc \cup {NULL} /\ f.ev \in UserEvent /\ f.ph \in {"advance", "call"}
      /\ Bcasts(stack) = Bcasts(rest) \cup {f}
  BY <1>1, <1>2, BcastsRest, FrameFields DEF Broadcast
<1>4. PICK q : q = Start(f, hd, nx)
  OBVIOUS
<1>5. q \in Proc \cup {NULL} /\ q = IF f.ph = "advance" THEN Succ(f.q) ELSE f.q
  BY <1>1, <1>2, <1>3, <1>4 DEF Start, Succ, KernelTypes
<1>6. /\ D \subseteq Procs /\ AllReached(q, nx, D)
      /\ \A b \in Bcasts(rest) : AllReached(Start(b, hd, nx), nx, D)
  BY <1>1, <1>3, <1>4 DEF BcastInv
<1>7. UNCHANGED <<process_list, next>> /\ Procs' = Procs
  <2>1. UNCHANGED <<process_list, next>>
    BY DEF Broadcast, listvars
  <2> QED BY <2>1 DEF Procs, Listed
<1>8. ASSUME NEW g \in Frame, g.fn = "do_event", NEW E \in SUBSET D, due' = E,
             Bcasts(stack') = Bcasts(rest) \cup {g}, AllReached(Start(g, hd, nx), nx, E)
      PROVE  BcastInv'
  <2>1. ASSUME NEW b \in Bcasts(rest) \cup {g} PROVE AllReached(Start(b, hd, nx), nx, E)
    <3>1. CASE b = g
      BY <1>8, <3>1
    <3>2. CASE b \in Bcasts(rest)
      <4>1. AllReached(Start(b, hd, nx), nx, D)
        BY <1>6, <3>2
      <4> QED BY <4>1 DEF AllReached
    <3> QED BY <3>1, <3>2
  <2>2. \A b \in Bcasts(stack') : AllReached(Start(b, process_list', next'), next', due')
    BY <1>1, <1>7, <1>8, <2>1
  <2>3. Bcasts(stack') # {} /\ due' \subseteq Procs'
    BY <1>6, <1>7, <1>8
  <2> QED BY <2>2, <2>3 DEF BcastInv
<1>9. CASE q = NULL /\ due' = due
  <2>1. D = {}
    BY <1>6, <1>9, ReachEnd
  <2>2. due' = {}
    BY <1>1, <1>9, <2>1
  <2> QED BY <2>2 DEF BcastInv, AllReached
<1>10. CASE /\ q # NULL /\ due' = due
            /\ stack' = Push(Poll(NULL), Push(Bcast(q, f.ev, "call"), rest))
  <2>1. PICK g, h, st : g = Bcast(q, f.ev, "call") /\ h = Poll(NULL) /\ st = Push(g, rest)
    OBVIOUS
  <2>2. g \in Frame /\ h \in Frame
    BY <1>3, <1>5, <2>1, FramesMade
  <2>3. /\ g.fn = "do_event" /\ g.q = q /\ g.ph = "call" /\ h.fn # "do_event"
    BY <2>1 DEF Bcast, Poll
  <2>4. Bcasts(st) = Bcasts(rest) \cup {g} /\ st \in Seq(Frame)
    <3>1. Bcasts(Push(g, rest)) = Bcasts(rest) \cup (IF g.fn = "do_event" THEN {g} ELSE {})
      BY <1>3, <2>2, BcastsPush
    <3>2. st \in Seq(Frame)
      BY <1>3, <2>1, <2>2 DEF Push
    <3> QED BY <2>1, <2>3, <3>1, <3>2
  <2>5. Bcasts(Push(h, st)) = Bcasts(st)
    BY <2>2, <2>3, <2>4, BcastsKept
  <2>6. Bcasts(stack') = Bcasts(rest) \cup {g}
    BY <1>10, <2>1, <2>4, <2>5
  <2>7. Start(g, hd, nx) = q
    BY <2>3 DEF Start
  <2>8. due' = D /\ AllReached(Start(g, hd, nx), nx, D)
    BY <1>1, <1>6, <1>10, <2>7
  <2> QED BY <1>8, <2>2, <2>3, <2>6, <2>8
<1>11. CASE /\ q # NULL /\ due' = due \ {q}
            /\ call_process(s, q, f.ev, Push(Bcast(q, f.ev, "advance"), rest))
  <2>1. PICK g, st, ev, E : /\ g = Bcast(q, ev, "advance") /\ st = Push(g, rest) /\ ev = f.ev
                            /\ E = D \ {q}
    OBVIOUS
  <2>2. g \in Frame /\ ev \in Event
    BY <1>3, <1>5, <2>1, FramesMade DEF Event
  <2>3. g.fn = "do_event" /\ g.q = q /\ g.ph = "advance"
    BY <2>1 DEF Bcast
  <2>4. Bcasts(st) = Bcasts(rest) \cup {g} /\ st \in Seq(Frame)
    <3>1. Bcasts(Push(g, rest)) = Bcasts(rest) \cup (IF g.fn = "do_event" THEN {g} ELSE {})
      BY <1>3, <2>2, BcastsPush
    <3>2. st \in Seq(Frame)
      BY <1>3, <2>1, <2>2 DEF Push
    <3> QED BY <2>1, <2>3, <3>1, <3>2
  <2>5. q \in Proc /\ call_process(s, q, ev, st)
    BY <1>5, <1>11, <2>1
  <2>6. Bcasts(stack') = Bcasts(st)
    BY <2>2, <2>4, <2>5, BcastsCall
  <2>7. Start(g, hd, nx) = nx[q]
    BY <1>11, <2>3 DEF Start
  <2>8. AllReached(nx[q], nx, D \ {q})
    BY <1>2, <1>6, <2>5, ReachNext
  <2>9. due' = E /\ E \in SUBSET D /\ AllReached(Start(g, hd, nx), nx, E)
    BY <1>1, <1>11, <2>1, <2>7, <2>8
  <2>10. Bcasts(stack') = Bcasts(rest) \cup {g}
    BY <2>4, <2>6
  <2> QED BY <1>8, <2>2, <2>3, <2>9, <2>10
<1> QED BY <1>1, <1>5, <1>9, <1>10, <1>11 DEF Broadcast

LEMMA BcastInvNext == KernelInv /\ BcastInv /\ [Next]_vars => BcastInv'
<1> SUFFICES ASSUME KernelInv, BcastInv, [Next]_vars PROVE BcastInv'
  OBVIOUS
<1>1. KernelInv'
  BY KernelInvNext
<1>2. CASE Calls
  BY <1>1, <1>2, BcastCalls
<1>3. CASE \E exits \in BOOLEAN : ThreadReturn(exits)
  BY <1>1, <1>3, BcastReturns
<1>4. CASE Kernel
  BY <1>1, <1>4, BcastRun, BcastPoll, BcastEvent, BcastWalk, BcastReturns DEF Kernel
<1>5. CASE (\E p \in Proc : InterruptPoll(p)) \/ UNCHANGED vars
  <2>1. UNCHANGED <<listvars, stack, due>>
    BY <1>5 DEF InterruptPoll, vars, listvars
  <2> QED BY <2>1, BcastSame
<1> QED BY <1>2, <1>3, <1>4, <1>5 DEF Next

LEMMA BcastInvInit == Init => BcastInv
BY DEF Init, BcastInv, AllReached

(* A broadcast is offered to every process that was on the list when it    *)
(* began and has stayed on it, although the processes it calls, and the    *)
(* polls in between, start and exit processes under its loop: the loop may *)
(* stand at a process that has left the list, whose next pointer still     *)
(* leads past everyone who has not been called.                            *)
THEOREM BroadcastReachesAll == Spec => []BroadcastComplete
<1>1. KernelInv /\ BcastInv => BroadcastComplete
  <2> SUFFICES ASSUME KernelInv, BcastInv, \A i \in DOMAIN stack : stack[i].fn # "do_event"
               PROVE  due = {}
    BY DEF BroadcastComplete
  <2>1. DOMAIN stack = 1..Len(stack)
    BY DEF KernelInv, ShapeInv, Shape, StackOK
  <2>2. Bcasts(stack) = {}
    BY <2>1 DEF Bcasts
  <2> QED BY <2>2 DEF BcastInv
<1> QED BY <1>1, BcastInvInit, BcastInvNext, KernelInvariance, PTL DEF Spec
=============================================================================
