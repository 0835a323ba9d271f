------------------------------ MODULE UnixLink ------------------------------
(***************************************************************************)
(* Nodes of the unix port: the CSMA sender of CsmaOutput over the radio     *)
(* driver ports/unix/nsport/radio.c, whose frames are UDP datagrams, and    *)
(* the receiver ns/net/mac/csma/csma.c with its duplicate detection         *)
(* ns/net/mac/mac-sequence.c.                                               *)
(*                                                                          *)
(* One node, Me, is modelled step by step.  It runs the main loop of the    *)
(* example applications: process_run(), that is the polled radio thread and *)
(* then one event, then unix_process_update().  unix_transmit does not      *)
(* return before the frame has been sent and its acknowledgement received   *)
(* or given up, and it calls unix_process_update() meanwhile; `sending' is  *)
(* that call.  Of its peer, Peer, only the receiver is modelled step by     *)
(* step; Peer and further nodes send data and acknowledgements of their own *)
(* at any time.  Every frame, an acknowledgement too, is sent to all nodes; *)
(* each of them may lose it, and a datagram overwrites the one receive      *)
(* buffer of a radio.                                                       *)
(***************************************************************************)
EXTENDS CsmaOutput

CONSTANTS
  Me, Peer, Other,         \* senders: this node, its peer, further nodes in reach
  ForeignDest,             \* receivers of the frames that Peer and Other send
  ForeignSeqno,            \* seqnos of those frames, and of Other's acknowledgements
  FirstSeqno,              \* bound: values of the random first seqno
  MAX_SEQNOS,              \* senders remembered by mac-sequence.c
  Medium,                  \* bound: datagrams in one socket
  Noise                    \* bound: frames that Peer and Other send

ASSUME LinkAssumption ==
  /\ FirstSeqno \subseteq 0..(SeqWrap - 1) /\ ForeignSeqno \subseteq 0..(SeqWrap - 1)
  /\ Me # Peer /\ Me \notin Other /\ Peer \notin Other
  /\ Peer \in Addr \ {Broadcast}
  /\ MAX_SEQNOS \in Nat \ {0} /\ Medium \in Nat \ {0} /\ Noise \in Nat
  /\ "own" \notin Packet

NoFrame == [type |-> "none"]
Ack(d) == [type |-> "ack", dsn |-> d]
Data(s, r, d, pk) == [type |-> "data", src |-> s, dst |-> r, dsn |-> d, pk |-> pk]
Own == "own"                             \* payload of the frames Peer and Other send

VARIABLES
  loop,                    \* the main loop: "run", "event" or "update" comes next
  sending,                 \* the frame unix_transmit was called for, or NoFrame
  radio_state, radio_ack_wait, radio_is_ack_received,
  late,                    \* ack_timeout < RTIMER_NOW()
  radio_rx,                \* radio_rx_buf; NoFrame is radio_rx_len = 0
  radio_rx_pkt_counter,
  needspoll,               \* of unix_radio_thread
  sock,                    \* the datagrams waiting in each node's socket
  received_seqnos,         \* of each node, the last seqno of the last senders
  noise,                   \* frames that Peer and Other have sent
  given,                   \* history: the seqno of each packet given to CSMA, or 0
  confirmed,               \* history: unicasts to Peer reported OK
  stray,                   \* history: seqnos acknowledged to others than Me
  delivered,               \* history: how often Peer has passed a packet up
  since                    \* history: senders registered at Peer after that

radiovars == <<radio_state, radio_ack_wait, radio_is_ack_received, late, radio_rx>>
peervars == <<noise, stray, delivered, since>>
linkvars == <<loop, sending, radiovars, radio_rx_pkt_counter, needspoll, sock,
              received_seqnos, given, confirmed, peervars>>
-----------------------------------------------------------------------------
(* mac-sequence.c: the senders heard last, each with its last seqno, which  *)
(* does not count any more when it is older than SEQNO_MAX_AGE              *)

mac_sequence_is_duplicate(tab, f) ==
  \E i \in DOMAIN tab : tab[i].sender = f.src /\ tab[i].seqno = f.dsn /\ ~tab[i].old

Seqno(f) == [sender |-> f.src, seqno |-> f.dsn, old |-> FALSE]

\* mutant: the entry found is left in its place and not overwritten
register_seqno_once(tab, f) ==
  IF \E i \in DOMAIN tab : tab[i].sender = f.src
    THEN tab
    ELSE SubSeq(<<Seqno(f)>> \o tab, 1,
                IF Len(tab) + 1 < MAX_SEQNOS THEN Len(tab) + 1 ELSE MAX_SEQNOS)

\* mutant: the sender heard longest ago is not pushed out
register_seqno_overflow(tab, f) ==
  <<Seqno(f)>> \o SelectSeq(tab, LAMBDA e : e.sender # f.src)

(* The place that is overwritten: the sender's own entry, or the next one,  *)
(* or that of the sender heard longest ago.                                 *)
Place(tab, f) ==
  IF \E i \in DOMAIN tab : tab[i].sender = f.src
    THEN CHOOSE i \in DOMAIN tab : tab[i].sender = f.src
    ELSE IF Len(tab) < MAX_SEQNOS THEN Len(tab) + 1 ELSE MAX_SEQNOS

\* the entries before that place move up, and the new one is the first
mac_sequence_register_seqno(tab, f) ==
  LET k == Place(tab, f)
  IN  [i \in 1..(IF k <= Len(tab) THEN Len(tab) ELSE k) |->
         IF i = 1 THEN Seqno(f) ELSE IF i <= k THEN tab[i - 1] ELSE tab[i]]

ForNode(n, f) == f.type = "data" /\ f.dst \in {n, Broadcast}

\* received_seqnos of node n after input_packet of frame f
Registered(n, f) ==
  IF ForNode(n, f) /\ ~mac_sequence_is_duplicate(received_seqnos[n], f)
    THEN [received_seqnos EXCEPT ![n] = mac_sequence_register_seqno(@, f)]
    ELSE received_seqnos

PassedUp(n, f) == ForNode(n, f) /\ ~mac_sequence_is_duplicate(received_seqnos[n], f)

(* The soft acknowledgement: for a data frame to this very node, and also   *)
(* for a duplicate, whose acknowledgement may have been lost.               *)
SoftAck(n, f) == f.type = "data" /\ f.dst = n
-----------------------------------------------------------------------------
(* The medium: node s sends f to all ports but its own; the datagram gets   *)
(* to any of the nodes that have room for it, and is lost to the others.    *)
Sent(socks, s, f) ==
  {[n \in {Me, Peer} |-> IF n \in N THEN Append(socks[n], f) ELSE socks[n]] :
     N \in SUBSET {n \in {Me, Peer} \ {s} : Len(socks[n]) < Medium}}

\* radio_rx_pkt_counter is an int8_t: after 127 comes -128
Int8(n) == ((n + 128) % 256) - 128
\* the radio thread has handled a frame
Decremented == IF radio_rx_pkt_counter > 0 THEN radio_rx_pkt_counter - 1 ELSE radio_rx_pkt_counter

unix_pending_packet == radio_rx_pkt_counter # 0 \/ radio_is_ack_received
unix_channel_clear == ~radio_ack_wait /\ radio_state # "TRANSMIT"

\* mutant: reading does not forget the acknowledgement
unix_read_kept == radio_rx' = NoFrame /\ UNCHANGED radio_is_ack_received

\* mutant: reading leaves the frame in the buffer
unix_read_left ==
  /\ UNCHANGED radio_rx
  /\ radio_is_ack_received' = (radio_is_ack_received /\ radio_rx.type # "ack")

\* unix_read empties the buffer, whatever the caller then makes of the frame
unix_read ==
  /\ radio_rx' = NoFrame
  /\ radio_is_ack_received' = (radio_is_ack_received /\ radio_rx.type # "ack")

\* mutant: the wait ends only with an acknowledgement
WaitDoneAcked(acked, l) == radio_ack_wait /\ radio_state = "TRANSMIT" /\ acked /\ ~l

(* The two exits of the wait: acknowledged in time, or not acknowledged and *)
(* the time is up.                                                          *)
WaitDone(acked, l) == radio_ack_wait /\ radio_state = "TRANSMIT" /\ acked # l

(* unix_radio_process: a waiting datagram is received, over the one in the  *)
(* buffer; an acknowledgement is noted; the wait ends; data is announced to *)
(* the radio thread; the frame to send is sent.                             *)
unix_radio_process(l) ==
  LET rx == IF sock[Me] # <<>> THEN Head(sock[Me]) ELSE radio_rx
      rest == IF sock[Me] # <<>> THEN [sock EXCEPT ![Me] = Tail(@)] ELSE sock
      acked == radio_is_ack_received \/ (rx.type = "ack" /\ radio_ack_wait)
      done == WaitDone(acked, l)
      data == rx.type = "data" /\ (radio_state = "RECEIVE" \/ done) /\ ~acked
      sends == radio_state = "TRANSMIT" /\ ~radio_ack_wait
      waits == sends /\ sending.type = "data" /\ sending.dst # Broadcast
  IN  /\ l \in {late, TRUE} /\ (l => radio_ack_wait)
      /\ radio_rx' = rx
      /\ radio_is_ack_received' = acked
      /\ radio_rx_pkt_counter' = IF data THEN Int8(radio_rx_pkt_counter + 1) ELSE radio_rx_pkt_counter
      /\ needspoll' = (needspoll \/ data)
      /\ radio_ack_wait' = (waits \/ (radio_ack_wait /\ ~done))
      /\ radio_state' = IF done \/ (sends /\ ~waits) THEN "RECEIVE" ELSE radio_state
      /\ late' = (l /\ ~done)
      /\ IF sends THEN sock' \in Sent(rest, Me, sending) ELSE sock' = rest

-----------------------------------------------------------------------------
(* The main loop of Me                                                      *)

\* process_run: the radio thread, when it has been polled.  The frame it reads
\* is acknowledged before it is passed up.
RadioThread ==
  /\ loop = "run" /\ needspoll /\ sending = NoFrame
  /\ needspoll' = FALSE
  /\ unix_read
  /\ received_seqnos' = Registered(Me, radio_rx)
  /\ loop' = "event"
  /\ IF SoftAck(Me, radio_rx)
       THEN /\ sending' = Ack(radio_rx.dsn) /\ radio_state' = "TRANSMIT"
            /\ UNCHANGED radio_rx_pkt_counter
       ELSE /\ radio_rx_pkt_counter' = Decremented
            /\ UNCHANGED <<sending, radio_state>>
  /\ UNCHANGED <<vars, radio_ack_wait, late, sock, given, confirmed, peervars>>

\* the radio thread goes on when the acknowledgement has been sent
RadioThreadEnd ==
  /\ sending.type = "ack" /\ radio_state = "RECEIVE"
  /\ sending' = NoFrame
  /\ radio_rx_pkt_counter' = Decremented
  /\ UNCHANGED <<vars, loop, radiovars, needspoll, sock, received_seqnos, given,
                 confirmed, peervars>>

\* process_run handles one event, after the polls
AtEvent == sending = NoFrame /\ (loop = "event" \/ (loop = "run" /\ ~needspoll))

\* an event in which a packet is given to CSMA
Submit(pk) ==
  /\ AtEvent /\ given[pk] = 0
  /\ \E a \in Addr, max \in MaxTransmissions : csma_output_packet(pk, a, max, 0)
  /\ given' = [given EXCEPT ![pk] = NextSeqno]
  /\ loop' = "update"
  /\ UNCHANGED <<sending, radiovars, radio_rx_pkt_counter, needspoll, sock,
                 received_seqnos, confirmed, peervars>>

\* no event, or one that is not about this link
OtherEvent ==
  /\ AtEvent /\ loop' = "update"
  /\ UNCHANGED <<vars, sending, radiovars, radio_rx_pkt_counter, needspoll, sock,
                 received_seqnos, given, confirmed, peervars>>

Frame(n) == LET e == packet_queue[n][Sought(n)]
            IN  Data(Me, addr[n], e.seqno, e.pk)

(* The event of neighbor n's transmit timer, send_one_packet: a unicast is  *)
(* not sent while the radio holds an unread packet.                         *)
Blocked(n) == (addr[n] # Broadcast /\ unix_pending_packet) \/ ~unix_channel_clear

send_one_packet(n) ==
  /\ AtEvent /\ n \in armed /\ packet_queue[n] # <<>>
  /\ \/ /\ Blocked(n)
        /\ transmit_from_queue(n, "COLLISION")
        /\ loop' = "update"
        /\ UNCHANGED <<sending, radio_state>>
     \/ /\ ~Blocked(n)
        /\ sending' = Frame(n) /\ radio_state' = "TRANSMIT"
        /\ loop' = "event"
        /\ UNCHANGED vars
  /\ UNCHANGED <<radio_ack_wait, radio_is_ack_received, late, radio_rx, radio_rx_pkt_counter,
                 needspoll, sock, received_seqnos, given, confirmed, peervars>>

\* mutant: any acknowledgement will do
TxResultAny ==
  CASE sending.dst = Broadcast -> "OK"
    [] sending.dst # Broadcast /\ ~unix_pending_packet -> "NOACK"
    [] OTHER -> IF radio_rx.type = "ack" THEN "OK" ELSE "COLLISION"

\* the result, once unix_transmit has returned
TxResult ==
  CASE sending.dst = Broadcast -> "OK"
    [] sending.dst # Broadcast /\ ~unix_pending_packet -> "NOACK"
    [] OTHER -> IF radio_rx = Ack(sending.dsn) THEN "OK" ELSE "COLLISION"

\* send_one_packet goes on: the acknowledgement is read, and packet_sent called
SendEnd(n) ==
  /\ sending.type = "data" /\ radio_state = "RECEIVE"
  /\ n \in armed /\ packet_queue[n] # <<>> /\ Frame(n) = sending
  /\ transmit_from_queue(n, TxResult)
  /\ IF sending.dst # Broadcast /\ unix_pending_packet
       THEN unix_read ELSE UNCHANGED <<radio_rx, radio_is_ack_received>>
  /\ confirmed' = IF TxResult = "OK" /\ sending.dst = Peer
                    THEN confirmed \cup {sending.pk} ELSE confirmed
  /\ sending' = NoFrame
  /\ loop' = "update"
  /\ UNCHANGED <<radio_state, radio_ack_wait, late, radio_rx_pkt_counter, needspoll, sock,
                 received_seqnos, given, peervars>>

\* unix_process_update, from the main loop or from inside unix_transmit
unix_process_update(l) ==
  /\ \/ loop = "update" /\ sending = NoFrame /\ loop' = "run"
     \/ sending # NoFrame /\ radio_state = "TRANSMIT" /\ UNCHANGED loop
  /\ unix_radio_process(l)
  /\ UNCHANGED <<vars, sending, received_seqnos, given, confirmed, peervars>>

-----------------------------------------------------------------------------
(* The other nodes                                                          *)

\* Peer handles a frame: input_packet, with the history of what it passes up
Handle(f, socks) ==
  /\ received_seqnos' = Registered(Peer, f)
  /\ IF SoftAck(Peer, f) THEN sock' \in Sent(socks, Peer, Ack(f.dsn)) ELSE sock' = socks
  /\ stray' = IF SoftAck(Peer, f) /\ f.src # Me THEN stray \cup {f.dsn} ELSE stray
  /\ delivered' = IF PassedUp(Peer, f) /\ f.pk \in Packet
                    THEN [delivered EXCEPT ![f.pk] = @ + 1] ELSE delivered
  /\ since' = [pk \in Packet |->
                 IF ~PassedUp(Peer, f) \/ delivered'[pk] = 0 THEN since[pk]
                 ELSE IF f.pk = pk THEN {} ELSE since[pk] \cup {f.src}]

PeerInput ==
  /\ sock[Peer] # <<>>
  /\ Handle(Head(sock[Peer]), [sock EXCEPT ![Peer] = Tail(@)])
  /\ UNCHANGED <<vars, loop, sending, radiovars, radio_rx_pkt_counter, needspoll,
                 given, confirmed, noise>>

\* Peer or a further node sends a frame to anyone; it repeats one when its
\* acknowledgement was lost
OthersSend ==
  /\ noise < Noise
  /\ \E s \in {Peer} \cup Other, r \in ForeignDest, d \in ForeignSeqno :
       r # s /\ sock' \in Sent(sock, s, Data(s, r, d, Own))
  /\ noise' = noise + 1
  /\ UNCHANGED <<vars, loop, sending, radiovars, radio_rx_pkt_counter, needspoll,
                 received_seqnos, given, confirmed, stray, delivered, since>>

\* a further node acknowledges a frame that was not for Peer
OthersAck ==
  /\ noise < Noise
  /\ \E s \in Other, d \in ForeignSeqno :
       sock' \in Sent(sock, s, Ack(d)) /\ stray' = stray \cup {d}
  /\ noise' = noise + 1
  /\ UNCHANGED <<vars, loop, sending, radiovars, radio_rx_pkt_counter, needspoll,
                 received_seqnos, given, confirmed, delivered, since>>

\* Time passes: what Peer heard longest ago gets older than SEQNO_MAX_AGE.  (What
\* Me passes up itself is not observed, so its own seqnos do not age here.)
SeqnosAge ==
  /\ \E k \in DOMAIN received_seqnos[Peer] :
       /\ ~received_seqnos[Peer][k].old
       /\ received_seqnos' = [received_seqnos EXCEPT ![Peer] =
            [i \in DOMAIN @ |-> IF i >= k THEN [@[i] EXCEPT !.old = TRUE] ELSE @[i]]]
  /\ UNCHANGED <<vars, loop, sending, radiovars, radio_rx_pkt_counter, needspoll, sock,
                 given, confirmed, peervars>>

-----------------------------------------------------------------------------
\* unix_init, csma_output_init; nothing has been received
LinkInit ==
  /\ Init /\ seqno \in FirstSeqno
  /\ loop = "run" /\ sending = NoFrame
  /\ radio_state = "RECEIVE" /\ radio_ack_wait = FALSE
  /\ radio_is_ack_received = FALSE /\ late = FALSE
  /\ radio_rx = NoFrame /\ radio_rx_pkt_counter = 0 /\ needspoll = FALSE
  /\ sock = [n \in {Me, Peer} |-> <<>>]
  /\ received_seqnos = [n \in {Me, Peer} |-> <<>>]
  /\ noise = 0 /\ given = [pk \in Packet |-> 0] /\ confirmed = {} /\ stray = {}
  /\ delivered = [pk \in Packet |-> 0] /\ since = [pk \in Packet |-> {}]

LinkNext ==
  \/ RadioThread \/ RadioThreadEnd
  \/ \E pk \in Packet : Submit(pk)
  \/ OtherEvent
  \/ \E n \in Neighbor : send_one_packet(n) \/ SendEnd(n)
  \/ \E l \in BOOLEAN : unix_process_update(l)
  \/ PeerInput \/ OthersSend \/ OthersAck \/ SeqnosAge

LinkSpec == LinkInit /\ [][LinkNext]_<<vars, linkvars>>

(* The main loop runs on; time passes, so an acknowledgement not received   *)
(* is late in the end.  Nothing is assumed of the transmit timers, which    *)
(* the unix port may fail to poll (DuePolled of Etimer).                    *)
LinkFairSpec ==
  /\ LinkSpec
  /\ WF_<<vars, linkvars>>(RadioThread \/ RadioThreadEnd \/ OtherEvent
                           \/ unix_process_update(late) \/ \E n \in Neighbor : SendEnd(n))
  /\ WF_<<vars, linkvars>>(unix_process_update(TRUE))
-----------------------------------------------------------------------------
Frames == {NoFrame} \cup {Ack(d) : d \in 0..(SeqWrap - 1)}
          \cup {Data(s, r, d, pk) : s \in {Me, Peer} \cup Other, r \in Addr \cup ForeignDest,
                                    d \in 0..(SeqWrap - 1), pk \in Packet \cup {Own}}

LinkTypeOK ==
  /\ loop \in {"run", "event", "update"}
  /\ sending \in Frames /\ radio_rx \in Frames
  /\ radio_state \in {"RECEIVE", "TRANSMIT"}
  /\ radio_ack_wait \in BOOLEAN /\ radio_is_ack_received \in BOOLEAN /\ late \in BOOLEAN
  /\ radio_rx_pkt_counter \in -128..127 /\ needspoll \in BOOLEAN
  /\ sock \in [{Me, Peer} -> Seq(Frames)]
  /\ \A n \in {Me, Peer} : Len(sock[n]) <= Medium /\ Len(received_seqnos[n]) <= MAX_SEQNOS
  /\ given \in [Packet -> 0..(SeqWrap - 1)] /\ confirmed \subseteq Packet
  /\ noise \in 0..Noise /\ stray \subseteq 0..(SeqWrap - 1) /\ delivered \in [Packet -> Nat]
  /\ since \in [Packet -> SUBSET ({Me, Peer} \cup Other)]

(* Between two transmissions the radio receives, it does not wait for an    *)
(* acknowledgement and it remembers none: an acknowledgement remembered     *)
(* would make it drop every data frame.                                     *)
RadioReady ==
  sending = NoFrame =>
    radio_state = "RECEIVE" /\ ~radio_ack_wait /\ ~radio_is_ack_received /\ ~late

(* A frame is counted once at most, although it may be found in the buffer  *)
(* by several passes of unix_radio_process and be read by send_one_packet   *)
(* or by the radio thread: the counter of unread frames is no more than the *)
(* frames that others have sent, and it takes 128 of them to overflow it.   *)
CountedOnce == noise < 128 => radio_rx_pkt_counter \in 0..noise

(* What MAC_TX_OK says of a unicast: Peer has passed up a packet with its   *)
(* sequence number, although an acknowledgement may be that of an earlier   *)
(* try, or of an earlier packet, that was still on its way; unless somebody *)
(* has acknowledged this sequence number to another node.                   *)
ConfirmedDelivered ==
  \A pk \in confirmed :
    \/ given[pk] \in stray
    \/ \E q \in Packet : given[q] = given[pk] /\ delivered[q] > 0

(* MAC_TX_OK: the MAC layer transmission was OK (mac.h).  Not so: the       *)
(* acknowledgement names neither sender nor receiver, and that of a frame   *)
(* of other nodes is taken for the one awaited.                             *)
OkDelivered == \A pk \in confirmed : delivered[pk] > 0

(* Peer passes a packet up again only when it has heard another frame of    *)
(* the same sender, or of as many senders as it remembers, in between, or   *)
(* when what it remembers is too old: only the last seqno of a sender is    *)
(* kept.                                                                    *)
DuplicateExplained ==
  [][\A pk \in Packet : delivered'[pk] > delivered[pk] =>
       \/ delivered[pk] = 0
       \/ Me \in since[pk]
       \/ Cardinality(since[pk]) >= MAX_SEQNOS
       \/ \E i \in DOMAIN received_seqnos[Peer] :
            received_seqnos[Peer][i].sender = Me /\ received_seqnos[Peer][i].old]_<<vars, linkvars>>

\* an acknowledgement that came too late: neither exit of the wait is left
Spinning == radio_ack_wait /\ radio_is_ack_received /\ late

(* unix_transmit returns, whatever is lost and whatever frames of others    *)
(* come in meanwhile, unless the acknowledgement is received after          *)
(* ack_timeout: the main loop is not held up for ever.                      *)
TransmitReturns == []<>(sending = NoFrame \/ Spinning)

(* pending_packet means that there is a packet to be read: with the radio   *)
(* thread not polled and the buffer empty, nothing would ever clear it, and *)
(* no unicast would be sent again.                                          *)
PendingIsReal ==
  sending = NoFrame /\ ~needspoll /\ unix_pending_packet => radio_rx # NoFrame
=============================================================================
