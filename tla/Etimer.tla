------------------------------- MODULE Etimer -------------------------------
(***************************************************************************)
(* Event timers: ns/sys/timer.c and ns/sys/etimer.c, with the port's code  *)
(* that polls the etimer process (ports/unix/nsport/clock.c,               *)
(* ports/nrf/nsport/clock.c).                                              *)
(*                                                                         *)
(* A process arms a timer, the etimer process, when polled, posts TIMER to *)
(* the process of every expired timer and takes the timer off its list.    *)
(* Of the kernel only what etimer.c uses is here: the bounded event queue  *)
(* (the EventQueue that Process implements) and the etimer process's poll  *)
(* flag.  The clock wraps at Wrap; it is read modulo Wrap, and the model   *)
(* follows the true time since each timer's start in `age'.                *)
(***************************************************************************)
EXTENDS Links, Integers, Sequences

CONSTANTS
  Timer,       \* struct etimer
  Proc,        \* processes that own timers
  NULL,        \* NULL and PROCESS_NONE
  Interval,    \* intervals that timers are set to
  Adjustment,  \* differences etimer_adjust is called with
  Wrap,        \* clock_time_t wraps here
  NUMEVENTS,   \* PROCESS_CONF_NUMEVENTS
  PollPeriod,  \* unix: the clock is sampled and must be a multiple of
               \* US_PER_MS; 0: nrf, every clock interrupt polls
  Callers,     \* what PROCESS_CURRENT() may be in etimer_set and its likes
  MaxCalls,    \* bound: calls of the etimer functions in a run
  Prompt       \* whether an armed timer is polled before the clock wraps past it

ASSUME TimerAssumption ==
  /\ NULL \notin Timer \cup Proc
  /\ IsFiniteSet(Timer)
  /\ Wrap \in Nat \ {0} /\ Interval \subseteq 0..(Wrap - 2) /\ Adjustment \subseteq Int
  /\ NUMEVENTS \in Nat \ {0} /\ PollPeriod \in Nat
  /\ Callers \subseteq Proc \cup {NULL}
  /\ MaxCalls \in Nat /\ Prompt \in BOOLEAN

VARIABLES
  clock,                     \* clock_time()
  timerlist, tnext,          \* head of the list, t->next
  start, interval, tp,       \* t->timer.start, t->timer.interval, t->p
  next_expiration,
  needspoll,                 \* etimer_process.needspoll
  scanning,                  \* the etimer process is handling POLL
  queue,                     \* the kernel's event queue
  alive,                     \* the processes that have not exited
  calls,                     \* bound: calls still to be made
  age                        \* true time since t->timer.start, up to Wrap - 1;
                             \* negative if the start lies in the future

timervars == <<timerlist, tnext, start, interval, tp, next_expiration, age>>
vars == <<clock, timerlist, tnext, start, interval, tp, next_expiration,
          needspoll, scanning, queue, alive, calls, age>>

Listed(t) == t \in Nodes(timerlist, tnext, NULL)

-----------------------------------------------------------------------------
(* timer.c                                                                  *)

\* mutant: the comparison does not allow for the clock's wrap
timer_expired_nowrap(t) == (start[t] + interval[t]) % Wrap <= clock

timer_expired(t) == interval[t] < ((clock - start[t]) + 1) % Wrap

(* update_time: the earliest expiration of the timers on the list, as a     *)
(* distance from now.  The arguments are the values after the call's other  *)
(* assignments.                                                             *)
Distance(t, st, iv) == (st[t] + iv[t] - clock) % Wrap
update_time(head, nxt, st, iv) ==
  LET on == Nodes(head, nxt, NULL)
      nearest == CHOOSE t \in on : \A u \in on : Distance(t, st, iv) <= Distance(u, st, iv)
  IN  IF head = NULL THEN 0 ELSE (clock + Distance(nearest, st, iv)) % Wrap

-----------------------------------------------------------------------------
\* mutant: no test whether the timer is on the list
add_timer_twice(t, p, st, iv) ==
  /\ needspoll' = TRUE
  /\ tp' = [tp EXCEPT ![t] = p]
  /\ tnext' = [tnext EXCEPT ![t] = timerlist]
  /\ timerlist' = t
  /\ next_expiration' = update_time(timerlist', tnext', st, iv)

\* add_timer(t) by process p, once start and interval have become st and iv
add_timer(t, p, st, iv) ==
  /\ needspoll' = TRUE
  /\ tp' = [tp EXCEPT ![t] = p]
  /\ IF tp[t] # NULL /\ Listed(t)
       THEN UNCHANGED <<timerlist, tnext>>
       ELSE tnext' = [tnext EXCEPT ![t] = timerlist] /\ timerlist' = t
  /\ next_expiration' = update_time(timerlist', tnext', st, iv)

etimer_set(t, i, p) ==
  /\ start' = [start EXCEPT ![t] = clock]
  /\ interval' = [interval EXCEPT ![t] = i]
  /\ age' = [age EXCEPT ![t] = 0]
  /\ add_timer(t, p, start', interval')

\* timer_reset; iv is the interval as it will be afterwards
Reset(t, iv, p) ==
  /\ start' = [start EXCEPT ![t] = (@ + interval[t]) % Wrap]
  /\ interval' = iv
  /\ age' = [age EXCEPT ![t] = @ - interval[t]]
  /\ add_timer(t, p, start', interval')

etimer_reset(t, p) == Reset(t, interval, p)

etimer_reset_with_new_interval(t, i, p) == Reset(t, [interval EXCEPT ![t] = i], p)

etimer_restart(t, p) ==
  /\ start' = [start EXCEPT ![t] = clock]
  /\ age' = [age EXCEPT ![t] = 0]
  /\ UNCHANGED interval
  /\ add_timer(t, p, start', interval)

etimer_adjust(t, timediff) ==
  /\ start' = [start EXCEPT ![t] = (@ + timediff) % Wrap]
  /\ age' = [age EXCEPT ![t] = @ - timediff]
  /\ next_expiration' = update_time(timerlist, tnext, start', interval)
  /\ UNCHANGED <<timerlist, tnext, interval, tp, needspoll>>

\* take t off the list by its predecessor's pointer; t->next becomes NULL
Remove(t) ==
  /\ timerlist' = IF t = timerlist THEN tnext[t] ELSE timerlist
  /\ tnext' = [u \in Timer |-> IF u = t THEN NULL
                               ELSE IF Listed(u) /\ tnext[u] = t THEN tnext[t] ELSE tnext[u]]
  /\ tp' = [tp EXCEPT ![t] = NULL]

etimer_stop(t) ==
  /\ Remove(t)
  /\ next_expiration' = IF Listed(t) THEN update_time(timerlist', tnext', start, interval)
                                     ELSE next_expiration
  /\ UNCHANGED <<start, interval, age, needspoll>>

-----------------------------------------------------------------------------
(* The etimer process.                                                      *)

\* POLL arrives, from do_poll
EtimerPoll ==
  /\ needspoll /\ ~scanning
  /\ needspoll' = FALSE /\ scanning' = TRUE
  /\ UNCHANGED <<clock, timervars, queue, alive, calls>>

(* One pass of the loop from `again': the first expired timer on the list   *)
(* is posted and removed, and the scan starts again; when the queue is full *)
(* every further post of the pass fails and the process asks for a poll.    *)
Expired == {t \in Nodes(timerlist, tnext, NULL) : timer_expired(t)}

ScanPost ==
  /\ scanning /\ Expired # {} /\ Len(queue) < NUMEVENTS
  /\ LET t == FirstIn(Expired, timerlist, tnext, NULL)
     IN  /\ queue' = Append(queue, [p |-> tp[t], t |-> t])
         /\ Remove(t)
         /\ next_expiration' = update_time(timerlist', tnext', start, interval)
  /\ UNCHANGED <<clock, start, interval, needspoll, scanning, alive, calls, age>>

ScanFull ==
  /\ scanning /\ Expired # {} /\ Len(queue) = NUMEVENTS
  /\ needspoll' = TRUE /\ scanning' = FALSE
  /\ UNCHANGED <<clock, timervars, queue, alive, calls>>

ScanEnd ==
  /\ scanning /\ Expired = {}
  /\ scanning' = FALSE
  /\ UNCHANGED <<clock, timervars, needspoll, queue, alive, calls>>

(* EXITED: the timers of p are taken off the list, and keep t->p and t->next; *)
(* next_expiration is not updated.                                            *)
Exited(p) ==
  LET kept == {t \in Timer : tp[t] # p}
  IN  /\ timerlist' = FirstIn(kept, timerlist, tnext, NULL)
      /\ tnext' = [t \in Timer |-> IF Listed(t) /\ t \in kept
                                     THEN FirstIn(kept, tnext[t], tnext, NULL) ELSE tnext[t]]
      /\ UNCHANGED <<start, interval, tp, next_expiration, age>>

-----------------------------------------------------------------------------
(* The surroundings.  Nothing else runs while the etimer process does,      *)
(* except the clock.                                                        *)

\* mutant: the clock interrupt does not poll the etimer process
TickSilent ==
  /\ (Prompt \/ needspoll \/ scanning) => \A t \in Nodes(timerlist, tnext, NULL) : age[t] < Wrap - 2
  /\ clock' = (clock + 1) % Wrap
  /\ age' = [t \in Timer |-> IF age[t] < Wrap - 1 THEN age[t] + 1 ELSE age[t]]
  /\ UNCHANGED <<timerlist, tnext, start, interval, tp, next_expiration, needspoll, scanning,
                 queue, alive, calls>>

(* The clock interrupt; on nrf it polls the etimer process (clock_update).  *)
(* Once polled, the etimer process runs before the clock wraps.             *)
Tick ==
  /\ (Prompt \/ needspoll \/ scanning) => \A t \in Nodes(timerlist, tnext, NULL) : age[t] < Wrap - 2
  /\ clock' = (clock + 1) % Wrap
  /\ age' = [t \in Timer |-> IF age[t] < Wrap - 1 THEN age[t] + 1 ELSE age[t]]
  /\ needspoll' = (needspoll \/ (PollPeriod = 0 /\ timerlist # NULL))
  /\ UNCHANGED <<timerlist, tnext, start, interval, tp, next_expiration, scanning, queue, alive, calls>>

\* unix: etimer_pending_process, from the main loop
etimer_pending_process ==
  /\ PollPeriod > 0 /\ ~scanning
  /\ clock % PollPeriod = 0 /\ timerlist # NULL
  /\ needspoll' = TRUE
  /\ UNCHANGED <<clock, timervars, scanning, queue, alive, calls>>

\* process_run's do_event, for an event of any process
TakeEvent ==
  /\ ~scanning /\ queue # <<>>
  /\ queue' = Tail(queue)
  /\ UNCHANGED <<clock, timervars, needspoll, scanning, alive, calls>>

ProcessExit(p) ==
  /\ ~scanning /\ p \in alive
  /\ alive' = alive \ {p}
  /\ Exited(p)
  /\ UNCHANGED <<clock, needspoll, scanning, queue, calls>>

(* timer_reset must not be executed before the timer expired (timer.c).     *)
MayReset(t) == interval[t] <= age[t] /\ age[t] < Wrap - 1

(* Bound: the true age of a timer is known up to one round of the clock;    *)
(* adjustments do not pass it.  They may move the start into the future.    *)
MayAdjust(t, d) == age[t] < Wrap - 1 /\ age[t] - d < Wrap - 1

(* A process calls the etimer functions.                                    *)
Calls(p) ==
  /\ ~scanning /\ p \in alive \cup {NULL}
  /\ calls > 0 /\ calls' = calls - 1
  /\ \E t \in Timer :
       \/ \E i \in Interval : etimer_set(t, i, p)
       \/ MayReset(t) /\ etimer_reset(t, p)
       \/ \E i \in Interval : MayReset(t) /\ etimer_reset_with_new_interval(t, i, p)
       \/ etimer_restart(t, p)
       \/ \E d \in Adjustment : MayAdjust(t, d) /\ etimer_adjust(t, d)
       \/ etimer_stop(t)
  /\ UNCHANGED <<clock, scanning, queue, alive>>

Init ==
  /\ clock = Wrap - 1
  /\ timerlist = NULL /\ tnext = [t \in Timer |-> NULL]
  /\ start = [t \in Timer |-> 0] /\ interval = [t \in Timer |-> 0]
  /\ tp = [t \in Timer |-> NULL]
  /\ next_expiration = 0
  /\ needspoll = FALSE /\ scanning = FALSE
  /\ queue = <<>>
  /\ alive = Proc
  /\ calls = MaxCalls
  /\ age = [t \in Timer |-> Wrap - 1]

Next ==
  \/ Tick \/ etimer_pending_process
  \/ EtimerPoll \/ ScanPost \/ ScanFull \/ ScanEnd
  \/ TakeEvent
  \/ \E p \in Proc : ProcessExit(p)
  \/ \E p \in Callers : Calls(p)

Spec == Init /\ [][Next]_vars

(* The clock goes on, the main loop calls process_run and, on unix,         *)
(* etimer_pending_process.  process_run takes an event after each poll,     *)
(* hence the strong fairness of TakeEvent.                                  *)
FairSpec ==
  /\ Spec
  /\ WF_vars(Tick) /\ WF_vars(etimer_pending_process)
  /\ WF_vars(EtimerPoll \/ ScanPost \/ ScanFull \/ ScanEnd) /\ SF_vars(TakeEvent)
-----------------------------------------------------------------------------
TypeOK ==
  /\ clock \in 0..(Wrap - 1)
  /\ timerlist \in Timer \cup {NULL} /\ tnext \in [Timer -> Timer \cup {NULL}]
  /\ start \in [Timer -> 0..(Wrap - 1)] /\ interval \in [Timer -> 0..(Wrap - 1)]
  /\ tp \in [Timer -> Proc \cup {NULL}]
  /\ next_expiration \in 0..(Wrap - 1)
  /\ needspoll \in BOOLEAN /\ scanning \in BOOLEAN
  /\ queue \in Seq([p : Proc \cup {NULL}, t : Timer \cup {NULL}]) /\ Len(queue) <= NUMEVENTS
  /\ alive \subseteq Proc /\ calls \in 0..MaxCalls
  /\ age \in [Timer -> {a \in Int : a <= Wrap - 1}]

(* The timer list ends, and it holds exactly the timers that a live process *)
(* has pending: a timer is neither forgotten nor served after its process   *)
(* has exited.                                                              *)
PendingListed ==
  /\ Ends(timerlist, tnext, NULL)
  /\ \A t \in Timer : Listed(t) <=> tp[t] \in alive

Posts(t) == scanning /\ Listed(t) /\ ~Listed(t)'

(* TIMER is never posted before the interval has passed in true time,       *)
(* although timer_expired only sees the clock modulo its wrap: unless an    *)
(* adjustment has moved the start two ticks or more into the future (one    *)
(* is made good by the 1 that timer_expired adds).                          *)
NeverEarly == [][\A t \in Timer : Posts(t) => age[t] >= interval[t] \/ age[t] < -1]_vars

(* etimer_adjust adjusts the time the event timer will expire (etimer.h).   *)
(* Not so: with a start in the future the unsigned difference wraps, and a  *)
(* timer that was put off fires at once.                                    *)
AdjustedExpiry == [][\A t \in Timer : Posts(t) => age[t] >= interval[t]]_vars

(* etimer_next_expiration_time is the next expiration time of all pending   *)
(* event timers (etimer.h), when none of them is overdue.  Not so after a   *)
(* process exit, which does not call update_time.                           *)
NextExpirationOK ==
  (timerlist # NULL /\ \A t \in Timer : Listed(t) => age[t] <= interval[t])
     => next_expiration = update_time(timerlist, tnext, start, interval)

(* A timer that is due does not stay due: TIMER is posted to its process,   *)
(* even if the queue was full at first, unless it is set anew or stopped.   *)
Due(t) == Listed(t) /\ age[t] >= interval[t]
TimerFires == \A t \in Timer : Due(t) ~> ~Due(t)

(* When the event timer expires, the event is posted (etimer.h): so the     *)
(* etimer process gets to look at a timer that is due.  Not so with the     *)
(* unix port's etimer_pending_process, which may miss it for ever.          *)
DuePolled == \A t \in Timer : Due(t) ~> (scanning \/ ~Due(t))
=============================================================================
