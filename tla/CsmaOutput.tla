----------------------------- MODULE CsmaOutput -----------------------------
(***************************************************************************)
(* The CSMA sender, ns/net/mac/csma/csma-output.c: a queue of packets per  *)
(* neighbor, blocks taken from fixed pools (ns/lib/memb.c,                 *)
(* ns/net/queuebuf.c), backoff and retransmission, one report to the upper *)
(* layer per packet.                                                       *)
(*                                                                         *)
(* The transmit timer is a callback timer: what Ctimer promises is that a  *)
(* timer that is set calls back in the end (CallbackRuns), so here a timer *)
(* is armed or not.  How long the backoff is does not matter.  The report  *)
(* is the last thing csma_output_packet and tx_done do, so what the upper  *)
(* layer does in it is in the steps that follow.                           *)
(***************************************************************************)
EXTENDS Integers, Sequences, FiniteSets

CONSTANTS
  Addr, Broadcast,         \* link addresses, and linkaddr_null
  Packet,                  \* what the upper layer has to send
  MAX_NEIGHBOR_QUEUES, QUEUEBUF_NUM, MAX_PACKET_PER_NEIGHBOR,
  MaxTransmissions,        \* values of PACKETBUF_ATTR_MAX_MAC_TRANSMISSIONS
  MAX_FRAME_RETRIES, MAX_BACKOFF,
  SeqWrap                  \* seqno is a uint8_t: it wraps here

ASSUME CsmaAssumption ==
  /\ Broadcast \in Addr
  /\ MAX_NEIGHBOR_QUEUES \in Nat /\ QUEUEBUF_NUM \in Nat
  /\ MAX_PACKET_PER_NEIGHBOR \in Nat \ {0}
  /\ MaxTransmissions \subseteq Nat
  /\ MAX_FRAME_RETRIES \in Nat /\ MAX_BACKOFF \in Nat
  /\ SeqWrap \in Nat \ {0, 1}

Neighbor == 1..MAX_NEIGHBOR_QUEUES

VARIABLES
  neighbor_list,                       \* the neighbors on the list
  addr, transmissions, collisions,     \* the fields of a neighbor
  packet_queue,
  armed,                               \* neighbors whose transmit_timer is set
  seqno,
  neighbor_memb, packet_memb, metadata_memb, bufmem,  \* blocks in use
  open,                                \* history: calls for a packet minus reports
  attempts                             \* history: tries for the first packet

queuevars == <<neighbor_list, addr, transmissions, collisions, packet_queue, armed>>
poolvars == <<neighbor_memb, packet_memb, metadata_memb, bufmem>>
vars == <<neighbor_list, addr, transmissions, collisions, packet_queue, armed, seqno,
          neighbor_memb, packet_memb, metadata_memb, bufmem, open, attempts>>

-----------------------------------------------------------------------------
(* csma_output_packet                                                       *)

\* the neighbor of address a: on the list, or a block from neighbor_memb
Known(a) == {n \in neighbor_list : addr[n] = a}
Free == Neighbor \ neighbor_memb
Target(a) == IF Known(a) # {} THEN Known(a) ELSE {n \in Free : \A m \in Free : n <= m}

Queued(n) == IF n \in neighbor_list THEN packet_queue[n] ELSE <<>>

\* zero is never used
NextSeqno == IF seqno = 0 THEN 1 ELSE seqno

\* room for one more packet, when the caller holds `held' queuebufs itself
Room(n, held) ==
  /\ Len(Queued(n)) < MAX_PACKET_PER_NEIGHBOR
  /\ packet_memb < QUEUEBUF_NUM /\ metadata_memb < QUEUEBUF_NUM
  /\ bufmem + held < QUEUEBUF_NUM

Accept(n, pk, a, max) ==
  /\ neighbor_memb' = neighbor_memb \cup {n}
  /\ neighbor_list' = neighbor_list \cup {n}
  /\ packet_memb' = packet_memb + 1
  /\ metadata_memb' = metadata_memb + 1
  /\ bufmem' = bufmem + 1
  /\ packet_queue' = [packet_queue EXCEPT ![n] =
       Append(Queued(n), [pk |-> pk, seqno |-> NextSeqno,
                          max |-> IF max = 0 THEN MAX_FRAME_RETRIES + 1 ELSE max])]
  /\ IF n \in neighbor_list
       THEN UNCHANGED <<addr, transmissions, collisions>>
       ELSE /\ addr' = [addr EXCEPT ![n] = a]
            /\ transmissions' = [transmissions EXCEPT ![n] = 0]
            /\ collisions' = [collisions EXCEPT ![n] = 0]
  /\ armed' = IF Queued(n) = <<>> THEN armed \cup {n} ELSE armed
  /\ open' = [open EXCEPT ![pk] = @ + 1]
  /\ UNCHANGED attempts

\* mutant: the packet block is not given back when there is no queuebuf
DropLeaking(n) ==
  /\ packet_memb' = IF packet_memb < QUEUEBUF_NUM THEN packet_memb + 1 ELSE packet_memb
  /\ IF Queued(n) = <<>>
       THEN neighbor_list' = neighbor_list \ {n} /\ neighbor_memb' = neighbor_memb \ {n}
       ELSE UNCHANGED <<neighbor_list, neighbor_memb>>
  /\ UNCHANGED <<addr, transmissions, collisions, packet_queue, armed, metadata_memb, bufmem,
                 open, attempts>>

(* What could be allocated is given back, a neighbor left without packets   *)
(* too, and the upper layer is told at once.                                *)
Drop(n) ==
  /\ IF Queued(n) = <<>>
       THEN neighbor_list' = neighbor_list \ {n} /\ neighbor_memb' = neighbor_memb \ {n}
       ELSE UNCHANGED <<neighbor_list, neighbor_memb>>
  /\ UNCHANGED <<addr, transmissions, collisions, packet_queue, armed, packet_memb,
                 metadata_memb, bufmem, open, attempts>>

(* The caller may hold one queuebuf during the call (sicslowpan, while it   *)
(* sends the fragments of a packet).                                        *)
csma_output_packet(pk, a, max, held) ==
  /\ open[pk] = 0
  /\ bufmem + held <= QUEUEBUF_NUM
  /\ seqno' = (NextSeqno + 1) % SeqWrap
  /\ \/ \E n \in Target(a) : Room(n, held) /\ Accept(n, pk, a, max)
     \/ \E n \in Target(a) : ~Room(n, held) /\ Drop(n)
     \/ Target(a) = {} /\ UNCHANGED <<queuevars, poolvars, open, attempts>>

-----------------------------------------------------------------------------
(* The radio's answer to send_one_packet, MAC_TX_...                        *)
Result(a) == {"OK", "COLLISION", "ERR", "ERR_FATAL"}
             \cup (IF a = Broadcast THEN {} ELSE {"NOACK"})

\* mutant: the search meets the packets in the wrong order
SoughtLast(n) ==
  LET q == packet_queue[n]
  IN  CHOOSE k \in DOMAIN q :
        /\ q[k].seqno = Head(q).seqno
        /\ \A j \in DOMAIN q : q[j].seqno = Head(q).seqno => j <= k

\* packet_sent looks for the packet with the seqno of the one in packetbuf
Sought(n) ==
  LET q == packet_queue[n]
  IN  CHOOSE k \in DOMAIN q :
        /\ q[k].seqno = Head(q).seqno
        /\ \A j \in 1..(k - 1) : q[j].seqno # Head(q).seqno

Without(q, k) == SubSeq(q, 1, k - 1) \o SubSeq(q, k + 1, Len(q))

\* mutant: the next packet is not scheduled
tx_done_unarmed(n, k) ==
  LET rest == Without(packet_queue[n], k) IN
  /\ packet_queue' = [packet_queue EXCEPT ![n] = rest]
  /\ packet_memb' = packet_memb - 1 /\ metadata_memb' = metadata_memb - 1 /\ bufmem' = bufmem - 1
  /\ transmissions' = [transmissions EXCEPT ![n] = 0]
  /\ collisions' = [collisions EXCEPT ![n] = 0]
  /\ armed' = armed \ {n}
  /\ IF rest # <<>>
       THEN UNCHANGED <<neighbor_list, neighbor_memb>>
       ELSE neighbor_list' = neighbor_list \ {n} /\ neighbor_memb' = neighbor_memb \ {n}
  /\ open' = [open EXCEPT ![packet_queue[n][k].pk] = @ - 1]
  /\ attempts' = [attempts EXCEPT ![n] = 0]
  /\ UNCHANGED addr

\* mutant: the report is forgotten when the neighbor is freed
tx_done_silent(n, k) ==
  LET rest == Without(packet_queue[n], k) IN
  /\ packet_queue' = [packet_queue EXCEPT ![n] = rest]
  /\ packet_memb' = packet_memb - 1 /\ metadata_memb' = metadata_memb - 1 /\ bufmem' = bufmem - 1
  /\ transmissions' = [transmissions EXCEPT ![n] = 0]
  /\ collisions' = [collisions EXCEPT ![n] = 0]
  /\ IF rest # <<>>
       THEN /\ armed' = armed \cup {n}
            /\ open' = [open EXCEPT ![packet_queue[n][k].pk] = @ - 1]
            /\ UNCHANGED <<neighbor_list, neighbor_memb>>
       ELSE /\ armed' = armed \ {n}
            /\ neighbor_list' = neighbor_list \ {n} /\ neighbor_memb' = neighbor_memb \ {n}
            /\ UNCHANGED open
  /\ attempts' = [attempts EXCEPT ![n] = 0]
  /\ UNCHANGED addr

(* tx_done and free_packet: the packet's blocks are freed, the next packet  *)
(* is scheduled or the neighbor freed, and the packet is reported.  The     *)
(* counters of a freed neighbor are dead.                                   *)
tx_done(n, k) ==
  LET rest == Without(packet_queue[n], k) IN
  /\ packet_queue' = [packet_queue EXCEPT ![n] = rest]
  /\ packet_memb' = packet_memb - 1 /\ metadata_memb' = metadata_memb - 1 /\ bufmem' = bufmem - 1
  /\ transmissions' = [transmissions EXCEPT ![n] = 0]
  /\ collisions' = [collisions EXCEPT ![n] = 0]
  /\ IF rest # <<>>
       THEN /\ armed' = armed \cup {n}
            /\ UNCHANGED <<neighbor_list, neighbor_memb>>
       ELSE /\ armed' = armed \ {n}
            /\ neighbor_list' = neighbor_list \ {n} /\ neighbor_memb' = neighbor_memb \ {n}
  /\ open' = [open EXCEPT ![packet_queue[n][k].pk] = @ - 1]
  /\ attempts' = [attempts EXCEPT ![n] = 0]
  /\ UNCHANGED addr

\* the packet stays first and is scheduled again
rexmit(n) ==
  /\ armed' = armed \cup {n}
  /\ attempts' = [attempts EXCEPT ![n] = @ + 1]
  /\ UNCHANGED <<neighbor_list, addr, packet_queue, poolvars, open>>

\* mutant: a retry is counted only when the channel was free
CountedSent(n, ret) ==
  [tx |-> IF ret \in {"OK", "NOACK"} THEN transmissions[n] + 1 ELSE transmissions[n],
   coll |-> IF ret = "COLLISION" /\ collisions[n] + 1 <= MAX_BACKOFF THEN collisions[n] + 1 ELSE 0]

(* The counters after tx_ok, noack or collision: more than MAX_BACKOFF      *)
(* collisions count as a transmission.                                      *)
Counted(n, ret) ==
  CASE ret \in {"OK", "NOACK"} -> [tx |-> transmissions[n] + 1, coll |-> 0]
    [] ret = "COLLISION" /\ collisions[n] + 1 > MAX_BACKOFF ->
         [tx |-> transmissions[n] + 1, coll |-> 0]
    [] ret = "COLLISION" /\ collisions[n] + 1 <= MAX_BACKOFF ->
         [tx |-> transmissions[n], coll |-> collisions[n] + 1]
    [] OTHER -> [tx |-> transmissions[n], coll |-> collisions[n]]

\* the transmit timer's callback: transmit_from_queue, send_one_packet, packet_sent
transmit_from_queue(n, ret) ==
  /\ n \in armed /\ packet_queue[n] # <<>>
  /\ ret \in Result(addr[n])
  /\ LET k == Sought(n)
         c == Counted(n, ret)
     IN  \/ /\ ret \notin {"NOACK", "COLLISION"} \/ c.tx >= packet_queue[n][k].max
            /\ tx_done(n, k)
         \/ /\ ret \in {"NOACK", "COLLISION"} /\ c.tx < packet_queue[n][k].max
            /\ transmissions' = [transmissions EXCEPT ![n] = c.tx]
            /\ collisions' = [collisions EXCEPT ![n] = c.coll]
            /\ rexmit(n)
  /\ UNCHANGED seqno

-----------------------------------------------------------------------------
\* csma_output_init, and the random first seqno
Init ==
  /\ neighbor_list = {} /\ armed = {}
  /\ addr = [n \in Neighbor |-> Broadcast]
  /\ transmissions = [n \in Neighbor |-> 0] /\ collisions = [n \in Neighbor |-> 0]
  /\ packet_queue = [n \in Neighbor |-> <<>>]
  /\ seqno \in 0..(SeqWrap - 1)
  /\ neighbor_memb = {} /\ packet_memb = 0 /\ metadata_memb = 0 /\ bufmem = 0
  /\ open = [pk \in Packet |-> 0]
  /\ attempts = [n \in Neighbor |-> 0]

Transmit(n) == \E ret \in Result(addr[n]) : transmit_from_queue(n, ret)

Next ==
  \/ \E pk \in Packet, a \in Addr, max \in MaxTransmissions, held \in {0, 1} :
       csma_output_packet(pk, a, max, held)
  \/ \E n \in Neighbor : Transmit(n)

Spec == Init /\ [][Next]_vars

\* a timer that is set calls back (CallbackRuns of Ctimer)
FairSpec == Spec /\ \A n \in Neighbor : WF_vars(Transmit(n))
-----------------------------------------------------------------------------
Entry == [pk : Packet, seqno : 1..(SeqWrap - 1),
          max : (MaxTransmissions \ {0}) \cup {MAX_FRAME_RETRIES + 1}]

(* Types; the counters stay below their limits, so they fit in a uint8_t.   *)
TypeOK ==
  /\ neighbor_list \subseteq Neighbor /\ armed \subseteq Neighbor
  /\ neighbor_memb \subseteq Neighbor
  /\ addr \in [Neighbor -> Addr]
  /\ transmissions \in [Neighbor -> Nat] /\ collisions \in [Neighbor -> 0..MAX_BACKOFF]
  /\ packet_queue \in [Neighbor -> Seq(Entry)]
  /\ seqno \in 0..(SeqWrap - 1)
  /\ packet_memb \in 0..QUEUEBUF_NUM /\ metadata_memb \in 0..QUEUEBUF_NUM
  /\ bufmem \in 0..QUEUEBUF_NUM
  /\ open \in [Packet -> 0..1] /\ attempts \in [Neighbor -> Nat]

(* The places in the queues that hold a packet, and those that hold pk.      *)
Slots == UNION {{<<n, k>> : k \in DOMAIN packet_queue[n]} : n \in Neighbor}
PacketAt(s) == packet_queue[s[1]][s[2]].pk
Holding(pk) == {s \in Slots : PacketAt(s) = pk}

(* No block leaks, on any path through a failed allocation and however the  *)
(* transmissions end: the blocks in use are those of the queued packets.    *)
PoolsConserved ==
  LET queued == Cardinality(Slots)
  IN  /\ packet_memb = queued /\ metadata_memb = queued /\ bufmem = queued
      /\ neighbor_memb = neighbor_list

(* A neighbor is on the list as long as it has packets, and then its timer  *)
(* is set: no queue waits for ever.  No address has two queues.             *)
QueuesServed ==
  /\ \A n \in Neighbor : n \in neighbor_list <=> packet_queue[n] # <<>>
  /\ armed = neighbor_list /\ neighbor_memb = neighbor_list
  /\ \A m, n \in neighbor_list : addr[m] = addr[n] => m = n

(* A packet is on the air at most max_transmissions times, and is tried at  *)
(* most MAX_BACKOFF + 1 times as often.                                     *)
AttemptsBounded ==
  \A n \in neighbor_list : packet_queue[n] # <<>> =>
    /\ transmissions[n] < packet_queue[n][1].max
    /\ attempts[n] < packet_queue[n][1].max * (MAX_BACKOFF + 1)

(* The inductive invariant of UnixLinkProofs: the tries made so far are     *)
(* paid for by the counters, and a free neighbor has none.                  *)
Paced ==
  \A n \in Neighbor :
    /\ n \in neighbor_list => transmissions[n] < packet_queue[n][1].max
    /\ n \notin neighbor_list => attempts[n] = 0
    /\ attempts[n] <= transmissions[n] * (MAX_BACKOFF + 1) + collisions[n]

QueueTypes ==
  /\ neighbor_list \subseteq Neighbor
  /\ addr \in [Neighbor -> Addr]
  /\ transmissions \in [Neighbor -> Nat] /\ collisions \in [Neighbor -> 0..MAX_BACKOFF]
  /\ packet_queue \in [Neighbor -> Seq(Entry)]
  /\ seqno \in 0..(SeqWrap - 1)
  /\ open \in [Packet -> Int] /\ attempts \in [Neighbor -> Nat]

IInv == QueueTypes /\ QueuesServed /\ Paced

(* The upper layer is told exactly once of every packet: a packet is queued *)
(* once while the report is out, and is gone when it has been made.         *)
ReportedOnce == \A pk \in Packet : open[pk] = Cardinality(Holding(pk))

(* With IInv, what makes the books inductive: the pools are counted by the  *)
(* slots, and a packet whose report is out has one slot.                    *)
Books ==
  /\ IsFiniteSet(Slots)
  /\ packet_memb = Cardinality(Slots)
  /\ metadata_memb = Cardinality(Slots) /\ bufmem = Cardinality(Slots)
  /\ Cardinality(Slots) <= QUEUEBUF_NUM
  /\ \A s, t \in Slots : PacketAt(s) = PacketAt(t) => s = t
  /\ \A pk \in Packet : /\ open[pk] \in {0, 1}
                        /\ open[pk] = 1 <=> \E s \in Slots : PacketAt(s) = pk

(* The packet that is reported is the one that was on the air, the first of *)
(* its queue, although packets are told apart only by a seqno that wraps.   *)
ReportsFirst ==
  [][\A pk \in Packet : open'[pk] < open[pk] =>
       \E n \in armed : packet_queue[n] # <<>> /\ Head(packet_queue[n]).pk = pk]_vars

(* Every packet is reported in the end, whatever the radio answers and      *)
(* however many packets follow.                                             *)
EventuallyReported == \A pk \in Packet : (open[pk] > 0) ~> (open[pk] = 0)
=============================================================================
