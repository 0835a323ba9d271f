-------------------------------- MODULE Coap --------------------------------
(***************************************************************************)
(* CoAP transactions (coap-transactions.c), with what opens and ends them: *)
(* requests of the callback API (coap-callback-api.c), notifications to    *)
(* observers (coap-observe.c), received messages (coap_receive in          *)
(* coap-engine.c) and the retransmission timers (coap-timer.c).  Peers may *)
(* answer a confirmable message never, late or several times, and messages *)
(* are lost and delayed: any message that was sent may be answered at any  *)
(* later time.  A timer may run out at any time, since the first interval  *)
(* is random.  What a message says is left out.                            *)
(***************************************************************************)
EXTENDS Links, Integers, Sequences, FiniteSets, SequencesExt, FiniteSetsExt

CONSTANTS
  Request,                     \* request states of the application
  Endpoint,                    \* remote endpoints
  Uri,                         \* observable resources
  COAP_MAX_OPEN_TRANSACTIONS,  \* blocks in transactions_memb
  COAP_MAX_OBSERVERS,          \* blocks in observers_memb
  COAP_MAX_RETRANSMIT,
  MaxMid,                      \* bound: message ids handed out
  MaxBlock,                    \* bound: blocks of one blockwise response
  NULL                         \* no request, no endpoint

ASSUME CoapAssumption ==
  /\ COAP_MAX_OPEN_TRANSACTIONS \in Nat \ {0} /\ COAP_MAX_OBSERVERS \in Nat
  /\ COAP_MAX_RETRANSMIT \in Nat /\ MaxMid \in Nat /\ MaxBlock \in Nat
  /\ NULL \notin Request \cup Endpoint

Block == 1..COAP_MAX_OPEN_TRANSACTIONS

VARIABLES
  trans,        \* block -> its coap_transaction_t, which keeps its content when freed
  list,         \* transactions_list
  timers,       \* the blocks whose retrans_timer is on coap-timer.c's timer_list
  current_mid,  \* the last message id handed out
  observers,    \* observers_list
  req,          \* request -> the message id it waits for (0: finished), its block_num
  sent,         \* the confirmable messages that may still be answered: <<mid, endpoint>>
  stray         \* history: whether the last callback was for another's transaction

vars == <<trans, list, timers, current_mid, observers, req, sent, stray>>

NoTransaction ==
  [mid |-> 0, endpoint |-> NULL, con |-> FALSE, retrans_counter |-> 0, callback |-> NULL]

Init ==
  /\ trans = [b \in Block |-> NoTransaction]
  /\ list = <<>> /\ timers = {}
  /\ current_mid = 0
  /\ observers = <<>>
  /\ req = [r \in Request |-> [mid |-> 0, block_num |-> 0]]
  /\ sent = {}
  /\ stray = FALSE

(***************************************************************************)
(* coap-transactions.c on a state x = [trans, list, timers, sent], so that *)
(* one handler can take several of its steps.                              *)
(***************************************************************************)
Tx == [trans |-> trans, list |-> list, timers |-> timers, sent |-> sent]
Become(x) == trans' = x.trans /\ list' = x.list /\ timers' = x.timers /\ sent' = x.sent

FreeBlocks(x) == Block \ ToSet(x.list)

(* memb_alloc takes the first free block; the callback field is not set.   *)
coap_new_transaction(x, mid, ep) ==
  LET b == Min(FreeBlocks(x))
  IN  [x EXCEPT !.list = list_add(@, b),
                !.trans[b] = [@ EXCEPT !.mid = mid, !.endpoint = ep, !.retrans_counter = 0]]
Opened(x) == Last(x.list)

clear_keeping_timer(x, b) ==  \* mutation
  [x EXCEPT !.list = list_remove(@, b)]

(* Nothing of a freed block is erased, but only its callback can be read   *)
(* before it is written again.                                             *)
coap_clear_transaction(x, b) ==
  [x EXCEPT !.list = list_remove(@, b), !.timers = @ \ {b},
            !.trans[b] = [NoTransaction EXCEPT !.callback = x.trans[b].callback]]

(* coap_send_transaction while the message may still be sent: one that is  *)
(* confirmable is kept with its timer set, any other is done with.         *)
coap_send_transaction(x, b) ==
  IF x.trans[b].con
  THEN [x EXCEPT !.timers = @ \cup {b},
                 !.sent = @ \cup {<<x.trans[b].mid, x.trans[b].endpoint>>}]
  ELSE coap_clear_transaction(x, b)

coap_get_transaction_by_mid(mid) == {b \in ToSet(list) : trans[b].mid = mid}

(***************************************************************************)
(* coap-observe.c                                                          *)
(***************************************************************************)
(* The loops of the coap_remove_observer_by functions go on from the       *)
(* removed observer, whose next pointer list_remove has cleared: they      *)
(* remove the first match only.                                            *)
coap_remove_observer_by_client(ep) == RemoveFirstMatch(observers, LAMBDA o : o.endpoint = ep)
coap_remove_observer_by_mid(ep, mid) ==
  RemoveFirstMatch(observers, LAMBDA o : o.endpoint = ep /\ o.last_mid = mid)
coap_remove_observer_by_uri(ep, uri) ==
  RemoveFirstMatch(observers, LAMBDA o : o.endpoint = ep /\ o.uri = uri)

add_observer(ep, uri) ==
  LET rest == coap_remove_observer_by_uri(ep, uri)
  IN  IF Len(rest) < COAP_MAX_OBSERVERS
      THEN Append(rest, [endpoint |-> ep, uri |-> uri, last_mid |-> 0]) ELSE rest

(* One turn of the loop of coap_notify_observers_sub; s adds to a Tx the   *)
(* message id and the observers gone through.                              *)
Notify(s, o, con) ==
  LET mid == s.mid + 1
      x == coap_new_transaction(s.x, mid, o.endpoint)
      y == [x EXCEPT !.trans[Opened(x)].con = con]
  IN  IF FreeBlocks(s.x) = {}
      THEN [s EXCEPT !.mid = mid, !.obs = Append(@, o)]
      ELSE [mid |-> mid, x |-> coap_send_transaction(y, Opened(y)),
            obs |-> Append(s.obs, [o EXCEPT !.last_mid = mid])]

(* The loop after i observers.  Once one notification is made confirmable  *)
(* (obs_counter reaches a multiple of COAP_OBSERVE_REFRESH_INTERVAL), so   *)
(* are those after it.                                                     *)
NotifyTurn(s, i, uri, first) ==
  IF observers[i].uri = uri THEN Notify(s, observers[i], i >= first)
  ELSE [s EXCEPT !.obs = Append(@, observers[i])]
Notified(uri, first) ==
  LET after[i \in 0..Len(observers)] ==
        IF i = 0 THEN [mid |-> current_mid, x |-> Tx, obs |-> <<>>]
        ELSE NotifyTurn(after[i - 1], i, uri, first)
  IN  after

coap_notify_observers(uri, first) ==
  LET done == Notified(uri, first)[Len(observers)]
  IN  /\ current_mid + Len(observers) <= MaxMid
      /\ \E o \in ToSet(observers) : o.uri = uri
      /\ Become(done.x) /\ current_mid' = done.mid /\ observers' = done.obs
      /\ UNCHANGED <<req, stray>>

(***************************************************************************)
(* coap-callback-api.c                                                     *)
(***************************************************************************)
(* progress_request: state x with request r's transaction to ep opened.    *)
Progressed(x, r, mid, ep) ==
  LET y == coap_new_transaction(x, mid, ep)
      z == [y EXCEPT !.trans[Opened(y)].callback = r, !.trans[Opened(y)].con = TRUE]
  IN  coap_send_transaction(z, Opened(z))

(* The application sends a request; without a free block it is refused.    *)
coap_send_request(r, ep) ==
  /\ req[r].mid = 0 /\ current_mid < MaxMid
  /\ current_mid' = current_mid + 1
  /\ \/ /\ FreeBlocks(Tx) # {}
        /\ Become(Progressed(Tx, r, current_mid', ep))
        /\ req' = [req EXCEPT ![r] = [mid |-> current_mid', block_num |-> 0]]
     \/ /\ FreeBlocks(Tx) = {}
        /\ UNCHANGED <<trans, list, timers, sent, req>>
  /\ UNCHANGED <<observers, stray>>

(* coap_request_callback for request r when the transaction of block b has *)
(* been cleared, giving state x: a timeout, a last block or too many block *)
(* errors finish the request; another block, or after an error the same    *)
(* one, is requested under a new message id, which block_num counts.       *)
Finish(x, b) ==
  LET r == trans[b].callback
  IN  /\ Become(x) /\ UNCHANGED current_mid
      /\ \/ r = NULL /\ UNCHANGED <<req, stray>>
         \/ r # NULL /\ req' = [req EXCEPT ![r].mid = 0] /\ stray' = (trans[b].mid # req[r].mid)

More(x, b) ==
  LET r == trans[b].callback
  IN  /\ r # NULL /\ req[r].block_num < MaxBlock /\ current_mid < MaxMid
      /\ current_mid' = current_mid + 1
      /\ Become(Progressed(x, r, current_mid', trans[b].endpoint))
      /\ req' = [req EXCEPT ![r] = [mid |-> current_mid', block_num |-> @.block_num + 1]]
      /\ stray' = (trans[b].mid # req[r].mid)

(***************************************************************************)
(* coap_retransmit_transaction: the timer of block b runs out.             *)
(***************************************************************************)
retransmit_uncounted(b) ==  \* mutation
  /\ trans[b].retrans_counter + 1 <= COAP_MAX_RETRANSMIT
  /\ Become(coap_send_transaction([Tx EXCEPT !.timers = @ \ {b}], b))
  /\ UNCHANGED <<current_mid, observers, req, stray>>

Retransmit(b) ==
  LET x == [Tx EXCEPT !.timers = @ \ {b}, !.trans[b].retrans_counter = @ + 1]
  IN  /\ x.trans[b].retrans_counter <= COAP_MAX_RETRANSMIT
      /\ Become(coap_send_transaction(x, b))
      /\ UNCHANGED <<current_mid, observers, req, stray>>

GiveUp_uncalled(b) ==  \* mutation
  /\ trans[b].retrans_counter + 1 > COAP_MAX_RETRANSMIT
  /\ observers' = coap_remove_observer_by_client(trans[b].endpoint)
  /\ Become(coap_clear_transaction(Tx, b))
  /\ UNCHANGED <<current_mid, req, stray>>

GiveUp(b) ==
  /\ trans[b].retrans_counter + 1 > COAP_MAX_RETRANSMIT
  /\ observers' = coap_remove_observer_by_client(trans[b].endpoint)
  /\ Finish(coap_clear_transaction(Tx, b), b)

TimerRuns(b) == b \in timers /\ (Retransmit(b) \/ GiveUp(b))

(***************************************************************************)
(* coap_receive                                                            *)
(***************************************************************************)
(* A request.  Its response is made in a transaction of its own, sent as   *)
(* an ACK, a NON or an error and cleared before the handler returns; a     *)
(* request to observe changes the observers, unless no block is free.      *)
ReceiveRequest(obs) ==
  /\ observers' = IF FreeBlocks(Tx) = {} THEN observers ELSE obs
  /\ UNCHANGED <<trans, list, timers, sent, current_mid, req, stray>>

Register(ep, uri) == ReceiveRequest(add_observer(ep, uri))
Deregister(ep, uri) == ReceiveRequest(coap_remove_observer_by_uri(ep, uri))

(* The response to a NON request takes a message id.                       *)
GetNon ==
  /\ FreeBlocks(Tx) # {} /\ current_mid < MaxMid
  /\ current_mid' = current_mid + 1
  /\ UNCHANGED <<trans, list, timers, sent, observers, req, stray>>

(* Anything else: an acknowledgement or a reset of a message that was sent *)
(* to ep, or a response under ep's own message id, which may be any.  The  *)
(* transaction is looked up by the message id alone, and freed before the  *)
(* callback.                                                               *)
ReceiveResponse(type, mid, ep) ==
  /\ type \in {"ACK", "RST"} => <<mid, ep>> \in sent
  /\ observers' = IF type = "RST" THEN coap_remove_observer_by_mid(ep, mid) ELSE observers
  /\ \/ \E b \in coap_get_transaction_by_mid(mid) :
          LET x == coap_clear_transaction(Tx, b) IN Finish(x, b) \/ More(x, b)
     \/ /\ coap_get_transaction_by_mid(mid) = {}
        /\ UNCHANGED <<trans, list, timers, sent, current_mid, req, stray>>

Next ==
  \/ \E r \in Request, ep \in Endpoint : coap_send_request(r, ep)
  \/ \E uri \in Uri, first \in 1..(COAP_MAX_OBSERVERS + 1) : coap_notify_observers(uri, first)
  \/ \E b \in Block : TimerRuns(b)
  \/ \E ep \in Endpoint, uri \in Uri : Register(ep, uri) \/ Deregister(ep, uri)
  \/ GetNon
  \/ \E type \in {"ACK", "RST", "CON"}, mid \in 1..MaxMid, ep \in Endpoint :
       ReceiveResponse(type, mid, ep)

(***************************************************************************)
(* Specification and properties.                                           *)
(***************************************************************************)
(* The timer process runs each timer that stays set.                       *)
Spec == Init /\ [][Next]_vars
FairSpec == Spec /\ \A b \in Block : WF_vars(TimerRuns(b))

OpenMids == {trans[b].mid : b \in ToSet(list)}

(* Between handlers every open transaction is a confirmable message whose  *)
(* timer is set, so that it will be sent again or given up, and no timer   *)
(* of a freed block is set, which would send again what is done with or    *)
(* belongs to somebody else; no transaction has the message id of another. *)
TimersServe ==
  /\ timers = ToSet(list) /\ IsInjective(list)
  /\ \A b \in ToSet(list) : trans[b].con /\ trans[b].retrans_counter <= COAP_MAX_RETRANSMIT
  /\ Cardinality(OpenMids) = Len(list)

(* Every transaction is closed in the end, however often its timer runs    *)
(* and whatever is answered, so that its block can be used again.          *)
TransactionCloses == \A m \in 1..MaxMid : (m \in OpenMids) ~> (m \notin OpenMids)

(* A request is finished in the end: by a response or, if no peer ever     *)
(* answers, by the callback without one.                                   *)
RequestFinishes == \A r \in Request : (req[r].mid # 0) ~> (req[r].mid = 0)

(* A request's callback is executed for its own transaction only           *)
(* (coap-callback-api.h: "callback to execute when the response arrives or *)
(* the timeout expires").                                                  *)
CallbackOwn == ~stray
=============================================================================
