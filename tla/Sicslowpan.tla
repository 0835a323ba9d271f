----------------------------- MODULE Sicslowpan -----------------------------
(***************************************************************************)
(* Fragmentation and reassembly of IPv6 packets, ns/net/ipv6/sicslowpan.c, *)
(* over the CSMA sender of CsmaOutput.                                     *)
(*                                                                         *)
(* The sender cuts a packet and gives its fragments to CSMA in one call of *)
(* output, during which no transmit timer runs.  A transmission reaches    *)
(* the receiver or does not; when it is repeated it may be passed up again,*)
(* since duplicate detection may miss it (DuplicateExplained of UnixLink). *)
(* A further sender's fragments arrive in between.  The sender may crash   *)
(* and start again with its first tag.  Header compression is taken for    *)
(* what matters here, the lengths of the header before and after.          *)
(***************************************************************************)
EXTENDS CsmaOutput, FiniteSetsExt

CONSTANTS
  Datagram, Size, Dest,    \* the packets to send, their uip_len and link address
  Foreign,                 \* a packet of a further sender
  max_payload,             \* room for 6LoWPAN in a MAC frame
  uncomp_hdr_len, packetbuf_hdr_len,   \* headers before and after compression
  REASS_CONTEXTS, FRAGMENT_BUFFERS,
  TagWrap,                 \* my_tag is a uint16_t: it wraps here
  MaxRestarts              \* bound: crashes of the sender

FRAG1_HDR_LEN == 4
FRAGN_HDR_LEN == 5

UIP_BUFSIZE == 1280
Context == 1..REASS_CONTEXTS
Buffer == 1..FRAGMENT_BUFFERS

\* fragment number k of a packet, and the part of the packet it carries
Fragment(d, k, tag, off, len) ==
  [src |-> IF d = Foreign THEN "foreign" ELSE "node", d |-> d, k |-> k, tag |-> tag,
   off |-> off, len |-> len, again |-> FALSE]

NoInfo == [len |-> 0]
NoBuf == [len |-> 0]
NoDelivery == [parts |-> {}]
Idle == [d |-> Foreign]
NotSent == -1

VARIABLES
  my_tag,
  out,                     \* output at work: packet, bytes done, tag
  cut,                     \* history: the fragments of each packet, as cut
  epoch,                   \* history: restarts at the time a packet was sent, or NotSent
  frag_info, frag_buf,     \* the receiver's contexts and buffers
  heard,                   \* history: neighbors whose first frame was passed up at an earlier try
  ip_input,                \* what this step has given to the IP layer
  foreign,                 \* what is left to come of the foreign packet
  restarts

outvars == <<my_tag, out, cut, epoch>>
invars == <<frag_info, frag_buf>>
lowpanvars == <<outvars, invars, heard, ip_input, foreign, restarts>>
-----------------------------------------------------------------------------
(* output                                                                   *)

Down8(n) == IF n >= 0 THEN 8 * (n \div 8) ELSE n   \* n & 0xfffffff8, for n < 0 still < 0

frag_needed(len) == len - uncomp_hdr_len + packetbuf_hdr_len > max_payload
frag1_payload == Down8(max_payload - packetbuf_hdr_len - FRAG1_HDR_LEN)
fragn_max_payload == Down8(max_payload - FRAGN_HDR_LEN)
last_fragn_max_payload == max_payload - FRAGN_HDR_LEN

\* the estimate made before the first fragment is cut
fragment_count(len) ==
  LET middle == len - uncomp_hdr_len - frag1_payload - last_fragn_max_payload
  IN  IF middle > 0 THEN 3 + (middle - 1) \div fragn_max_payload ELSE 2

(* Where fragment number k of a packet begins when the packet is cut.       *)
Offset(k) == IF k = 1 THEN 0
             ELSE uncomp_hdr_len + frag1_payload + (k - 2) * fragn_max_payload

\* mutant: the queuebuf that is held while a fragment is given to CSMA is forgotten
freebuf_all == QUEUEBUF_NUM - bufmem

freebuf == QUEUEBUF_NUM - bufmem - 1

\* mutant: the second fragment takes all the rest
PayloadRest(len, done) == IF done = 0 THEN uncomp_hdr_len + frag1_payload ELSE len - done

\* the fragment that follows the first `done' bytes
Payload(len, done) ==
  CASE done = 0 -> uncomp_hdr_len + frag1_payload
    [] done > 0 /\ len - done > last_fragn_max_payload -> fragn_max_payload
    [] OTHER -> len - done

ASSUME SicslowpanAssumption ==
  /\ IsFiniteSet(Datagram) /\ Foreign \notin Datagram
  /\ Size \in [Datagram \cup {Foreign} -> 1..UIP_BUFSIZE] /\ Dest \in [Datagram -> Addr]
  /\ max_payload \in Nat /\ max_payload >= FRAGN_HDR_LEN + 8
  /\ uncomp_hdr_len \in Nat \ {0} /\ packetbuf_hdr_len \in Nat
  /\ uncomp_hdr_len % 8 = 0               \* IPv6, extension and UDP headers
  /\ REASS_CONTEXTS \in Nat \ {0} /\ FRAGMENT_BUFFERS \in Nat \ {0}
  /\ TagWrap \in Nat /\ Cardinality(Datagram) < TagWrap   \* no tag comes twice between two starts
  /\ MAX_PACKET_PER_NEIGHBOR >= QUEUEBUF_NUM   \* the default of csma-output.c
  /\ MaxRestarts \in Nat
  /\ frag_needed(Size[Foreign])
  /\ 0 \in MaxTransmissions               \* the default number of transmissions
  /\ \A d \in Datagram : \A k \in 1..(IF frag_needed(Size[d]) THEN fragment_count(Size[d]) ELSE 1) :
       <<d, k>> \in Packet

(* A packet is cut when there are queuebufs for all its fragments and the   *)
(* headers fit into the first; else output returns and has changed nothing. *)
output(d) ==
  /\ out = Idle /\ epoch[d] = NotSent /\ frag_needed(Size[d])
  /\ freebuf >= fragment_count(Size[d]) /\ frag1_payload >= 0
  /\ out' = [d |-> d, done |-> 0, tag |-> my_tag]
  /\ my_tag' = (my_tag + 1) % TagWrap
  /\ epoch' = [epoch EXCEPT ![d] = restarts]
  /\ ip_input' = NoDelivery
  /\ UNCHANGED <<vars, cut, invars, heard, foreign, restarts>>

\* a packet that fits into one frame is given to CSMA as it is
OutputWhole(d) ==
  /\ out = Idle /\ epoch[d] = NotSent /\ ~frag_needed(Size[d])
  /\ csma_output_packet(<<d, 1>>, Dest[d], 0, 0)
  /\ cut' = [cut EXCEPT ![d] = <<Fragment(d, 1, 0, 0, Size[d])>>]
  /\ epoch' = [epoch EXCEPT ![d] = restarts]
  /\ ip_input' = NoDelivery
  /\ UNCHANGED <<my_tag, out, invars, heard, foreign, restarts>>

(* fragment_copy_payload_and_send: the fragment is kept in a queuebuf while *)
(* it is given to CSMA; when CSMA refuses it the rest is dropped.           *)
fragment_copy_payload_and_send ==
  /\ out # Idle
  /\ LET d == out.d
         k == Len(cut[d]) + 1
         len == Payload(Size[d], out.done)
     IN  IF bufmem = QUEUEBUF_NUM
           THEN out' = Idle /\ UNCHANGED <<vars, cut>>
           ELSE /\ csma_output_packet(<<d, k>>, Dest[d], 0, 1)
                /\ IF open'[<<d, k>>] = 0
                     THEN out' = Idle /\ UNCHANGED cut
                     ELSE /\ cut' = [cut EXCEPT ![d] = Append(@, Fragment(d, k, out.tag, out.done, len))]
                          /\ out' = IF out.done + len < Size[d]
                                      THEN [out EXCEPT !.done = @ + len] ELSE Idle
  /\ ip_input' = NoDelivery
  /\ UNCHANGED <<my_tag, epoch, invars, heard, foreign, restarts>>
-----------------------------------------------------------------------------
(* Reassembly.  The fields of a free context or buffer are dead.            *)

\* mutant: the buffers stay in use
clear_fragments_info(S) ==
  [info |-> [c \in Context |-> IF c \in S THEN NoInfo ELSE frag_info[c]], buf |-> frag_buf]

\* contexts and buffers after clear_fragments of the contexts in S
clear_fragments(S) ==
  [info |-> [c \in Context |-> IF c \in S THEN NoInfo ELSE frag_info[c]],
   buf |-> [b \in Buffer |-> IF frag_buf[b].len > 0 /\ frag_buf[b].index \in S
                               THEN NoBuf ELSE frag_buf[b]]]

Timed == {c \in Context : frag_info[c].len > 0 /\ frag_info[c].expired}
FreeSlots(tab) == {i \in DOMAIN tab : tab[i].len = 0}

\* add_fragment and input for a first fragment: a context, or it is dropped
First(f) ==
  LET st == clear_fragments(Timed)
      c == Min(FreeSlots(st.info))
  IN  /\ frag_info' = IF FreeSlots(st.info) = {} THEN st.info
                      ELSE [st.info EXCEPT ![c] =
                              [len |-> Size[f.d], tag |-> f.tag, sender |-> f.src,
                               expired |-> FALSE, reassembled_len |-> f.len, first |-> f]]
      /\ frag_buf' = st.buf
      /\ ip_input' = NoDelivery

\* mutant: the sender is not compared
MatchingTag(f) == {c \in Context : frag_info[c].len > 0 /\ frag_info[c].tag = f.tag}

Matching(f) == {c \in Context : /\ frag_info[c].len > 0
                                /\ frag_info[c].tag = f.tag /\ frag_info[c].sender = f.src}

last_fragment(f, len) == len >= Size[f.d]

\* what copy_frags2uip puts together, the fragment f included
Parts(c, f) == {frag_info[c].first, f}
               \cup {frag_buf[b].part : b \in {b \in Buffer : frag_buf[b].len > 0 /\ frag_buf[b].index = c}}

(* add_fragment and input for a further fragment: it goes to the context of *)
(* its sender and tag, into a free buffer, for which timed out contexts are *)
(* cleared if there is none; when as many bytes have come as the packet has *)
(* it is delivered.                                                         *)
Further(f) ==
  IF Matching(f) = {} THEN UNCHANGED invars /\ ip_input' = NoDelivery
  ELSE LET c == Min(Matching(f))
           st == clear_fragments(IF FreeSlots(frag_buf) # {} THEN {} ELSE Timed \ {c})
           len == frag_info[c].reassembled_len + f.len
           b == Min(FreeSlots(st.buf))
       IN  CASE FreeSlots(st.buf) = {} ->
                  /\ frag_info' = st.info /\ frag_buf' = st.buf
                  /\ ip_input' = NoDelivery
             [] FreeSlots(st.buf) # {} /\ ~last_fragment(f, len) ->
                  /\ frag_info' = [st.info EXCEPT ![c].reassembled_len = len]
                  /\ frag_buf' = [st.buf EXCEPT ![b] = [len |-> f.len, index |-> c, part |-> f]]
                  /\ ip_input' = NoDelivery
             [] OTHER ->
                  /\ ip_input' = [parts |-> Parts(c, f), size |-> Size[f.d]]
                  /\ frag_info' = [st.info EXCEPT ![c] = NoInfo]
                  /\ frag_buf' = [i \in Buffer |-> IF st.buf[i].len > 0 /\ st.buf[i].index = c
                                                     THEN NoBuf ELSE st.buf[i]]

(* The frames are those that output makes.  Three error returns come after  *)
(* add_fragment has opened a context, which stays with the reassembled_len  *)
(* of an earlier packet: an unknown page, an unknown dispatch, headers      *)
(* longer than the frame.  Such a frame is never sent.                      *)
input(f) ==
  CASE ~frag_needed(Size[f.d]) ->
         ip_input' = [parts |-> {f}, size |-> Size[f.d]] /\ UNCHANGED invars
    [] frag_needed(Size[f.d]) /\ f.off = 0 -> First(f)
    [] OTHER -> Further(f)

Lost == UNCHANGED invars /\ ip_input' = NoDelivery

-----------------------------------------------------------------------------
(* The transmit timer of neighbor n: the first frame of its queue goes on   *)
(* the air.  MAC_TX_OK does not mean that it has been passed up: it may be   *)
(* due to the acknowledgement of another frame (OkDelivered of UnixLink).   *)
Air(n, ret, up) ==
  /\ out = Idle
  /\ transmit_from_queue(n, ret)
  /\ ret \in {"ERR", "ERR_FATAL"} => ~up
  /\ LET pk == Head(packet_queue[n]).pk
         f == [cut[pk[1]][pk[2]] EXCEPT !.again = n \in heard]
     IN  /\ IF up THEN input(f) ELSE Lost
         /\ heard' = IF open'[pk] = 0 THEN heard \ {n} ELSE IF up THEN heard \cup {n} ELSE heard
  /\ UNCHANGED <<outvars, foreign, restarts>>

\* the fragments the further sender has cut its packet into
ForeignCut ==
  [k \in 1..fragment_count(Size[Foreign]) |->
     Fragment(Foreign, k, 0, Offset(k), Payload(Size[Foreign], Offset(k)))]

\* the foreign packet's fragments come in their order, or are lost
ForeignFragment ==
  /\ foreign # <<>>
  /\ foreign' = Tail(foreign)
  /\ input(Head(foreign)) \/ Lost
  /\ UNCHANGED <<vars, outvars, heard, restarts>>

\* the receiver's reassembly timer of context c runs out
Expire(c) ==
  /\ frag_info[c].len > 0 /\ ~frag_info[c].expired
  /\ frag_info' = [frag_info EXCEPT ![c].expired = TRUE]
  /\ ip_input' = NoDelivery
  /\ UNCHANGED <<vars, outvars, frag_buf, heard, foreign, restarts>>

\* the sender crashes and starts again: everything in its memory is gone
Restart ==
  /\ restarts < MaxRestarts
  /\ restarts' = restarts + 1
  /\ neighbor_list' = {} /\ armed' = {} /\ neighbor_memb' = {}
  /\ packet_queue' = [n \in Neighbor |-> <<>>]
  /\ transmissions' = [n \in Neighbor |-> 0] /\ collisions' = [n \in Neighbor |-> 0]
  /\ packet_memb' = 0 /\ metadata_memb' = 0 /\ bufmem' = 0
  /\ seqno' \in 0..(SeqWrap - 1)
  /\ open' = [pk \in Packet |-> 0] /\ attempts' = [n \in Neighbor |-> 0]
  /\ UNCHANGED addr
  /\ my_tag' = 0 /\ out' = Idle
  /\ heard' = {} /\ ip_input' = NoDelivery
  /\ UNCHANGED <<cut, epoch, invars, foreign>>

LowpanInit ==
  /\ Init
  /\ my_tag = 0 /\ out = Idle
  /\ cut = [d \in Datagram |-> <<>>] /\ epoch = [d \in Datagram |-> NotSent]
  /\ frag_info = [c \in Context |-> NoInfo] /\ frag_buf = [b \in Buffer |-> NoBuf]
  /\ heard = {} /\ ip_input = NoDelivery
  /\ foreign = IF frag1_payload >= 0 THEN ForeignCut ELSE <<>>
  /\ restarts = 0

LowpanNext ==
  \/ \E d \in Datagram : output(d) \/ OutputWhole(d)
  \/ fragment_copy_payload_and_send
  \/ \E n \in Neighbor, ret \in Result(Broadcast) \cup {"NOACK"}, up \in BOOLEAN : Air(n, ret, up)
  \/ ForeignFragment
  \/ \E c \in Context : Expire(c)
  \/ Restart

LowpanSpec == LowpanInit /\ [][LowpanNext]_<<vars, lowpanvars>>
-----------------------------------------------------------------------------
(* The types; every fragment fits into a frame, and its offset can be sent  *)
(* in units of eight bytes.                                                 *)
LowpanTypeOK ==
  /\ my_tag \in 0..(TagWrap - 1) /\ restarts \in 0..MaxRestarts
  /\ \A d \in Datagram : \A k \in DOMAIN cut[d] :
       /\ cut[d][k].d = d /\ cut[d][k].k = k /\ cut[d][k].off % 8 = 0
       /\ k > 1 => cut[d][k].len \in 1..last_fragn_max_payload
  /\ \A c \in Context : frag_info[c].len > 0 =>
       /\ frag_info[c].tag \in 0..(TagWrap - 1) /\ frag_info[c].expired \in BOOLEAN
       /\ frag_info[c].reassembled_len \in 1..UIP_BUFSIZE
  /\ \A b \in Buffer : frag_buf[b].len \in 0..last_fragn_max_payload
  /\ heard \subseteq neighbor_list

(* A packet's fragments are given to CSMA all or none: once CSMA has taken  *)
(* the first, it refuses no other, and there are as many as were counted.   *)
AllOrNone ==
  [][out # Idle /\ out' = Idle /\ restarts' = restarts =>
       Len(cut'[out.d]) \in {0, fragment_count(Size[out.d])}]_<<vars, lowpanvars>>

\* f[1] + ... + f[n]
Total(f, n) == LET sum[i \in 0..n] == IF i = 0 THEN 0 ELSE sum[i - 1] + f[i] IN sum[n]

Holds(b, c) == frag_buf[b].len > 0 /\ frag_buf[b].index = c
BytesHeld(c) == Total([b \in Buffer |-> IF Holds(b, c) THEN frag_buf[b].len ELSE 0], FRAGMENT_BUFFERS)

(* A buffer in use belongs to a context in use, a context counts exactly    *)
(* the bytes it holds, and none that is complete is left undelivered: unless *)
(* fragments with its tag are of another packet, whose size is the one they *)
(* carry, which only a restart of the sender can bring about.               *)
ReassemblyAccounts ==
  /\ \A b \in Buffer : frag_buf[b].len > 0 => frag_info[frag_buf[b].index].len > 0
  /\ \A c \in Context : frag_info[c].len > 0 =>
       /\ frag_info[c].reassembled_len = frag_info[c].first.len + BytesHeld(c)
       /\ \/ frag_info[c].reassembled_len < frag_info[c].len
          \/ \E b \in Buffer : /\ Holds(b, c)
                               /\ epoch[frag_buf[b].part.d] # epoch[frag_info[c].first.d]

\* the parts are those of one packet, and they cover it without gap or overlap
Whole(del) ==
  /\ \E p \in del.parts : p.off = 0
  /\ \A p, q \in del.parts : p.d = q.d /\ (p.off = q.off => p.len = q.len)
  /\ \A p \in del.parts : p.off + p.len \in {q.off : q \in del.parts} \cup {del.size}

(* A packet delivered to the IP layer is the packet that was sent, whatever *)
(* is lost and whichever fragments of other packets come in between: unless *)
(* a fragment was passed up twice, or the sender has restarted and used the *)
(* tag again.                                                               *)
DeliveredWhole ==
  ip_input # NoDelivery =>
    \/ Whole(ip_input)
    \/ \E p \in ip_input.parts : p.again
    \/ \E p, q \in ip_input.parts :
         {p.d, q.d} \subseteq Datagram /\ epoch[p.d] # epoch[q.d]

(* "If the IP packet is complete it is copied to uip_buf and the IP layer   *)
(* is called": what the IP layer gets is a complete packet.  Not so: a      *)
(* fragment that is passed up twice is counted twice.                       *)
OnlyCompleteDelivered == ip_input # NoDelivery => Whole(ip_input)
=============================================================================
