------------------------------- MODULE Ctimer -------------------------------
(***************************************************************************)
(* Callback timers, ns/sys/ctimer.c, on the event timers of Etimer.        *)
(*                                                                         *)
(* A callback timer is an event timer that belongs to the ctimer process,  *)
(* and a place on ctimer_list.  When TIMER reaches the ctimer process, the *)
(* timer leaves ctimer_list and its callback runs; what the callback does  *)
(* to the callback timers is in the steps that follow.  A Timer is a       *)
(* struct ctimer and the struct etimer in it.                              *)
(***************************************************************************)
EXTENDS Etimer

CONSTANT ctimer_process
ASSUME CtimerAssumption == ctimer_process \in Proc

VARIABLES
  ctimer_list,    \* in order of list_add
  initialized

cvars == <<ctimer_list, initialized>>
allvars == <<vars, cvars>>

InList(c) == \E k \in DOMAIN ctimer_list : ctimer_list[k] = c

-----------------------------------------------------------------------------
(* The list is emptied, and the ctimer process, started, finds nothing to   *)
(* set on it.                                                               *)
ctimer_init ==
  /\ ~initialized
  /\ ctimer_list' = <<>>
  /\ initialized' = TRUE
  /\ UNCHANGED vars

\* ctimer_set and ctimer_set_with_process
ctimer_set(c, t) ==
  /\ ctimer_list' = list_add(ctimer_list, c)
  /\ \/ initialized /\ etimer_set(c, t, ctimer_process)
     \/ /\ ~initialized
        /\ interval' = [interval EXCEPT ![c] = t]
        /\ UNCHANGED <<timerlist, tnext, start, tp, next_expiration, age, needspoll>>

ctimer_reset(c) ==
  /\ ctimer_list' = list_add(ctimer_list, c)
  /\ \/ initialized /\ MayReset(c) /\ etimer_reset(c, ctimer_process)
     \/ ~initialized /\ UNCHANGED <<timervars, needspoll>>

\* mutant: a timer that is not pending is put on the list but not armed
ctimer_restart_unarmed(c) ==
  /\ ctimer_list' = list_add(ctimer_list, c)
  /\ \/ initialized /\ Listed(c) /\ etimer_restart(c, ctimer_process)
     \/ ~(initialized /\ Listed(c)) /\ UNCHANGED <<timervars, needspoll>>

ctimer_restart(c) ==
  /\ ctimer_list' = list_add(ctimer_list, c)
  /\ \/ initialized /\ etimer_restart(c, ctimer_process)
     \/ ~initialized /\ UNCHANGED <<timervars, needspoll>>

\* mutant: the callback timer stays on ctimer_list
ctimer_stop_listed(c) ==
  /\ UNCHANGED ctimer_list
  /\ \/ initialized /\ etimer_stop(c)
     \/ /\ ~initialized
        /\ tnext' = [tnext EXCEPT ![c] = NULL] /\ tp' = [tp EXCEPT ![c] = NULL]
        /\ UNCHANGED <<timerlist, start, interval, next_expiration, age, needspoll>>

ctimer_stop(c) ==
  /\ ctimer_list' = list_remove(ctimer_list, c)
  /\ \/ initialized /\ etimer_stop(c)
     \/ /\ ~initialized
        /\ tnext' = [tnext EXCEPT ![c] = NULL] /\ tp' = [tp EXCEPT ![c] = NULL]
        /\ UNCHANGED <<timerlist, start, interval, next_expiration, age, needspoll>>

-----------------------------------------------------------------------------
(* TIMER reaches the ctimer process: the callback runs if its timer is      *)
(* still on the list.                                                       *)
Callback(c) ==
  /\ TakeEvent
  /\ Head(queue).t = c /\ InList(c)
  /\ ctimer_list' = list_remove(ctimer_list, c)
  /\ UNCHANGED initialized

NoCallback ==
  /\ TakeEvent
  /\ ~InList(Head(queue).t)
  /\ UNCHANGED cvars

CCalls ==
  /\ ~scanning
  /\ calls > 0 /\ calls' = calls - 1
  /\ \E c \in Timer :
       \/ \E t \in Interval : ctimer_set(c, t)
       \/ ctimer_reset(c)
       \/ ctimer_restart(c)
       \/ ctimer_stop(c)
  /\ UNCHANGED <<clock, scanning, queue, alive, initialized>>

(* The etimer process is polled the way the nrf port does it, by Tick: the  *)
(* unix port's etimer_pending_process may miss it for ever (DuePolled).     *)
CInit == Init /\ ctimer_list = <<>> /\ initialized = FALSE

CNext ==
  \/ /\ Tick \/ EtimerPoll \/ ScanPost \/ ScanFull \/ ScanEnd
     /\ UNCHANGED cvars
  \/ ctimer_init
  \/ \E c \in Timer : Callback(c)
  \/ NoCallback
  \/ CCalls

CSpec == CInit /\ [][CNext]_allvars

CFairSpec ==
  /\ CSpec
  /\ WF_allvars(Tick /\ UNCHANGED cvars)
  /\ WF_allvars((EtimerPoll \/ ScanPost \/ ScanFull \/ ScanEnd) /\ UNCHANGED cvars)
  /\ SF_allvars(NoCallback \/ \E c \in Timer : Callback(c))
-----------------------------------------------------------------------------
(* The callback of a timer on ctimer_list is not forgotten: its event timer *)
(* is pending, or the TIMER event it posted is still in the queue.          *)
CallbackKept ==
  initialized => \A c \in Timer :
    InList(c) => Listed(c) \/ \E k \in DOMAIN queue : queue[k].t = c

(* A callback timer that was set is called or stopped in the end, even if   *)
(* the event queue is full when it expires.                                 *)
CallbackRuns ==
  \A c \in Timer : (initialized /\ InList(c)) ~> ~InList(c)

(* A callback runs early only if its timer was set again while the TIMER    *)
(* event of the earlier expiration was in the queue, and then while its     *)
(* event timer is still pending: the ctimer process matches the event to    *)
(* the timer by its address.  (ctimer.h promises that it never runs early:  *)
(* "When the callback timer expires, the callback function f will be        *)
(* called".)                                                                *)
EarlyOnlyWhenSetAgain ==
  [][\A c \in Timer : Callback(c) => age[c] >= interval[c] \/ Listed(c)]_allvars
=============================================================================
