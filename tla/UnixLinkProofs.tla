--------------------------- MODULE UnixLinkProofs ---------------------------
(***************************************************************************)
(* Proofs about the CSMA sender and the link it works over.                 *)
(*                                                                          *)
(* CsmaOutput, for every size of the pools and every limit, and whatever    *)
(* the radio answers: no queue waits without a timer, the tries for a       *)
(* packet are bounded, the packet reported is the one that was sent, every  *)
(* packet is reported once for each time it is queued, and no block of a    *)
(* pool is lost.                                                            *)
(*                                                                          *)
(* UnixLink: the link's CSMA sender is that of CsmaOutput, the radio is     *)
(* ready between two transmissions, what is confirmed has been delivered,   *)
(* and what is passed up twice is explained.                                *)
(***************************************************************************)
EXTENDS UnixLink, LibTheorems

(* packet_sent finds the first packet of the queue, the one that was put    *)
(* into packetbuf, whatever the seqnos of the others.                       *)
LEMMA SoughtFirst ==
  ASSUME NEW n \in Neighbor, packet_queue \in [Neighbor -> Seq(Entry)], packet_queue[n] # <<>>
  PROVE  Sought(n) = 1
<1> DEFINE q == packet_queue[n]
           Is(k) == /\ q[k].seqno = Head(q).seqno
                    /\ \A j \in 1..(k - 1) : q[j].seqno # Head(q).seqno
<1>1. q \in Seq(Entry) /\ Len(q) \in Nat /\ Len(q) # 0 /\ DOMAIN q = 1..Len(q)
  OBVIOUS
<1>2. Head(q) = q[1]
  BY <1>1
<1>3. 1 \in DOMAIN q /\ Is(1)
  BY <1>1, <1>2
<1>4. \A k \in DOMAIN q : Is(k) => k = 1
  <2> SUFFICES ASSUME NEW k \in DOMAIN q, Is(k), k # 1  PROVE FALSE
    OBVIOUS
  <2>1. k \in Nat /\ 1 \in 1..(k - 1)
    BY <1>1
  <2> QED
    BY <2>1, <1>2
<1>5. Sought(n) = CHOOSE k \in DOMAIN q : Is(k)
  BY DEF Sought
<1> HIDE DEF Is, q
<1> QED
  BY <1>3, <1>4, <1>5

(* What is left of a queue is a queue.                                      *)
LEMMA WithoutType ==
  ASSUME NEW q \in Seq(Entry), q # <<>>
  PROVE  Without(q, 1) \in Seq(Entry)
<1>1. Len(q) \in Nat /\ \A i \in 1..Len(q) : q[i] \in Entry
  OBVIOUS
<1>2. SubSeq(q, 1, 1 - 1) \in Seq(Entry)
  BY <1>1
<1>3. SubSeq(q, 1 + 1, Len(q)) \in Seq(Entry)
  BY <1>1
<1> QED
  BY <1>2, <1>3, ConcatProperties DEF Without

(* Multiplication is monotone: a transmission pays for MAX_BACKOFF + 1      *)
(* tries.                                                                   *)
LEMMA Pays ==
  ASSUME NEW b \in Nat, NEW t \in Nat
  PROVE  /\ t * (b + 1) \in Nat
         /\ (t + 1) * (b + 1) = t * (b + 1) + b + 1
         /\ \A m \in Nat : t < m => (t + 1) * (b + 1) <= m * (b + 1)
  OBVIOUS

(* A function stays in its set when one value is replaced.                  *)
LEMMA Update ==
  ASSUME NEW D, NEW R, NEW f \in [D -> R], NEW d, NEW r \in R
  PROVE  [f EXCEPT ![d] = r] \in [D -> R]
  OBVIOUS

LEMMA InitIInv == Init => IInv
<1> SUFFICES ASSUME Init PROVE IInv
  OBVIOUS
<1>1. QueueTypes
  BY CsmaAssumption DEF Init, QueueTypes
<1>2. QueuesServed /\ Paced
  BY CsmaAssumption DEF Init, QueuesServed, Paced, Neighbor
<1> QED
  BY <1>1, <1>2 DEF IInv

(* An entry asks for at least one transmission.                             *)
LEMMA EntryMax ==
  ASSUME NEW e \in Entry
  PROVE  e.max \in Nat /\ e.max > 0
<1>1. e.max \in (MaxTransmissions \ {0}) \cup {MAX_FRAME_RETRIES + 1}
  BY DEF Entry
<1>2. \A m \in (MaxTransmissions \ {0}) \cup {MAX_FRAME_RETRIES + 1} : m \in Nat /\ m > 0
  BY CsmaAssumption
<1> QED
  BY <1>1, <1>2

(* The seqno wraps within its range.                                        *)
LEMMA SeqnoType ==
  ASSUME seqno \in 0..(SeqWrap - 1)
  PROVE  (NextSeqno + 1) % SeqWrap \in 0..(SeqWrap - 1)
<1>1. NextSeqno + 1 \in Int
  BY CsmaAssumption DEF NextSeqno
<1>2. SeqWrap \in Nat \ {0}
  BY CsmaAssumption
<1> HIDE DEF NextSeqno
<1> QED
  BY <1>1, <1>2, ModRange

(* csma_output_packet queues the packet: for a known neighbor behind the    *)
(* first packet, which keeps its counters, for a new one as the first.      *)
LEMMA AcceptIInv ==
  ASSUME IInv, NEW pk \in Packet, NEW a \in Addr, NEW max \in MaxTransmissions,
         NEW n \in Target(a), Accept(n, pk, a, max), seqno' = (NextSeqno + 1) % SeqWrap
  PROVE  IInv'
<1> USE CsmaAssumption
<1> DEFINE e == [pk |-> pk, seqno |-> NextSeqno,
                 max |-> IF max = 0 THEN MAX_FRAME_RETRIES + 1 ELSE max]
<1>1. n \in Neighbor /\ (n \in neighbor_list => addr[n] = a)
  BY DEF IInv, QueueTypes, QueuesServed, Target, Known, Free
<1>2. e \in Entry
  BY DEF Entry, NextSeqno, IInv, QueueTypes
<1>3. Queued(n) \in Seq(Entry)
  BY <1>1 DEF Queued, IInv, QueueTypes
<1>4. packet_queue' = [packet_queue EXCEPT ![n] = Append(Queued(n), e)]
  BY DEF Accept
<1> HIDE DEF e
<1>a. Append(Queued(n), e) \in Seq(Entry) /\ Append(Queued(n), e) # <<>>
  BY <1>2, <1>3, AppendProperties
<1>5. n \in neighbor_list => Append(Queued(n), e)[1] = packet_queue[n][1] /\ Queued(n) # <<>>
  BY <1>1, <1>2, <1>3 DEF Queued, IInv, QueuesServed
<1>6. n \notin neighbor_list => Append(Queued(n), e)[1] = e /\ Queued(n) = <<>>
  BY <1>2 DEF Queued
<1>7. seqno' \in 0..(SeqWrap - 1)
  BY SeqnoType DEF IInv, QueueTypes
<1>8. QueueTypes'
  <2>1. packet_queue' \in [Neighbor -> Seq(Entry)] /\ neighbor_list' \subseteq Neighbor
    BY <1>1, <1>4, <1>a DEF Accept, IInv, QueueTypes
  <2>2. /\ addr' \in [Neighbor -> Addr] /\ transmissions' \in [Neighbor -> Nat]
        /\ collisions' \in [Neighbor -> 0..MAX_BACKOFF]
    <3>1. 0 \in Nat /\ 0 \in 0..MAX_BACKOFF
      OBVIOUS
    <3>2. /\ addr' \in {addr, [addr EXCEPT ![n] = a]}
          /\ transmissions' \in {transmissions, [transmissions EXCEPT ![n] = 0]}
          /\ collisions' \in {collisions, [collisions EXCEPT ![n] = 0]}
      BY DEF Accept
    <3>3. [addr EXCEPT ![n] = a] \in [Neighbor -> Addr]
      BY Update DEF IInv, QueueTypes
    <3>4. [transmissions EXCEPT ![n] = 0] \in [Neighbor -> Nat]
      BY <3>1, Update DEF IInv, QueueTypes
    <3>5. [collisions EXCEPT ![n] = 0] \in [Neighbor -> 0..MAX_BACKOFF]
      BY <3>1, Update DEF IInv, QueueTypes
    <3> QED
      BY <3>2, <3>3, <3>4, <3>5 DEF IInv, QueueTypes
  <2>3. open' \in [Packet -> Int] /\ attempts' \in [Neighbor -> Nat]
    BY DEF Accept, IInv, QueueTypes
  <2> QED
    BY <1>7, <2>1, <2>2, <2>3 DEF QueueTypes
<1>9. QueuesServed'
  <2>1. \A m \in Neighbor : m \in neighbor_list' <=> packet_queue'[m] # <<>>
    BY <1>1, <1>4, <1>a DEF Accept, IInv, QueueTypes, QueuesServed
  <2>2. armed' = neighbor_list' /\ neighbor_memb' = neighbor_list'
    BY <1>5, <1>6 DEF Accept, IInv, QueuesServed
  <2>3. \A m \in neighbor_list : n \notin neighbor_list => addr[m] # a
    BY DEF Target, Known, Free, IInv, QueuesServed
  <2>4. \A l, m \in neighbor_list' : addr'[l] = addr'[m] => l = m
    <3>1. neighbor_list' = neighbor_list \cup {n} /\ neighbor_list \subseteq Neighbor
      BY DEF Accept, IInv, QueueTypes
    <3>2. CASE n \in neighbor_list
      BY <3>1, <3>2 DEF Accept, IInv, QueuesServed
    <3>3. CASE n \notin neighbor_list
      <4>1. addr' = [addr EXCEPT ![n] = a] /\ addr \in [Neighbor -> Addr]
        BY <3>3 DEF Accept, IInv, QueueTypes
      <4>2. addr'[n] = a /\ \A m \in neighbor_list : addr'[m] = addr[m]
        BY <4>1, <3>1, <3>3, <1>1
      <4> QED
        BY <3>1, <3>3, <4>2, <2>3 DEF IInv, QueuesServed
    <3> QED
      BY <3>2, <3>3
  <2> QED
    BY <2>1, <2>2, <2>4 DEF QueuesServed
<1>10. Paced'
  <2> SUFFICES ASSUME NEW m \in Neighbor
               PROVE  /\ m \in neighbor_list' => transmissions'[m] < packet_queue'[m][1].max
                      /\ m \notin neighbor_list' => attempts'[m] = 0
                      /\ attempts'[m] <= transmissions'[m] * (MAX_BACKOFF + 1) + collisions'[m]
    BY DEF Paced
  <2>1. CASE m # n
    BY <2>1, <1>1 DEF Accept, IInv, QueueTypes, Paced
  <2>2. CASE m = n /\ n \in neighbor_list
    BY <2>2, <1>1, <1>4, <1>5 DEF Accept, IInv, QueueTypes, Paced
  <2>3. CASE m = n /\ n \notin neighbor_list
    BY <2>3, <1>1, <1>2, <1>4, <1>6, EntryMax DEF Accept, IInv, QueueTypes, Paced
  <2> QED
    BY <2>1, <2>2, <2>3
<1> QED
  BY <1>8, <1>9, <1>10 DEF IInv

(* A packet that is dropped leaves every queue as it was.                   *)
LEMMA DropIInv ==
  ASSUME IInv, NEW a \in Addr, NEW n \in Target(a), Drop(n),
         seqno' = (NextSeqno + 1) % SeqWrap
  PROVE  IInv'
<1> USE CsmaAssumption
<1>1. neighbor_list' = neighbor_list /\ neighbor_memb' = neighbor_memb
  BY DEF Drop, Queued, Target, Known, Free, IInv, QueueTypes, QueuesServed
<1>2. seqno' \in 0..(SeqWrap - 1)
  BY SeqnoType DEF IInv, QueueTypes
<1> QED
  BY <1>1, <1>2 DEF Drop, IInv, QueueTypes, QueuesServed, Paced

(* The packet is scheduled again: a try more, paid for by a collision or by *)
(* a transmission.                                                          *)
LEMMA RexmitIInv ==
  ASSUME IInv, NEW n \in armed, NEW ret \in {"NOACK", "COLLISION"},
         Counted(n, ret).tx < packet_queue[n][1].max,
         transmissions' = [transmissions EXCEPT ![n] = Counted(n, ret).tx],
         collisions' = [collisions EXCEPT ![n] = Counted(n, ret).coll],
         rexmit(n), UNCHANGED seqno
  PROVE  IInv'
<1> USE CsmaAssumption
<1>1. n \in Neighbor /\ n \in neighbor_list
  BY DEF IInv, QueueTypes, QueuesServed
<1>2. /\ transmissions[n] \in Nat /\ collisions[n] \in 0..MAX_BACKOFF
      /\ attempts[n] \in Nat
      /\ attempts[n] <= transmissions[n] * (MAX_BACKOFF + 1) + collisions[n]
  BY <1>1 DEF IInv, QueueTypes, Paced
<1> DEFINE tx == Counted(n, ret).tx
           coll == Counted(n, ret).coll
<1>3. \/ tx = transmissions[n] + 1 /\ coll = 0
      \/ tx = transmissions[n] /\ coll = collisions[n] + 1 /\ coll <= MAX_BACKOFF
  BY <1>2 DEF Counted
<1> HIDE DEF tx, coll
<1>4. tx \in Nat /\ coll \in 0..MAX_BACKOFF
  BY <1>2, <1>3
<1>5. attempts[n] + 1 <= tx * (MAX_BACKOFF + 1) + coll
  BY <1>2, <1>3, Pays
<1>6. /\ transmissions' = [transmissions EXCEPT ![n] = tx]
      /\ collisions' = [collisions EXCEPT ![n] = coll]
      /\ tx < packet_queue[n][1].max
  BY DEF tx, coll
<1>7. QueueTypes'
  <2>1. attempts[n] + 1 \in Nat /\ attempts' = [attempts EXCEPT ![n] = attempts[n] + 1]
    BY <1>2 DEF rexmit
  <2>2. attempts' \in [Neighbor -> Nat]
    BY <1>1, <2>1 DEF IInv, QueueTypes
  <2>3. transmissions' \in [Neighbor -> Nat]
    BY <1>1, <1>4, <1>6 DEF IInv, QueueTypes
  <2>4. collisions' \in [Neighbor -> 0..MAX_BACKOFF]
    BY <1>1, <1>4, <1>6 DEF IInv, QueueTypes
  <2>5. UNCHANGED <<neighbor_list, addr, packet_queue, open>> /\ armed' = armed \cup {n}
    BY DEF rexmit
  <2> QED BY <1>1, <2>2, <2>3, <2>4, <2>5 DEF IInv, QueueTypes
<1>8. QueuesServed'
  BY <1>1 DEF rexmit, poolvars, IInv, QueuesServed
<1>9. Paced'
  BY <1>1, <1>5, <1>6 DEF rexmit, IInv, QueueTypes, Paced
<1> QED
  BY <1>7, <1>8, <1>9 DEF IInv

(* The first packet is done: the next one starts with fresh counters, or    *)
(* the neighbor is freed.                                                   *)
LEMMA DoneIInv ==
  ASSUME IInv, NEW n \in armed, tx_done(n, 1), UNCHANGED seqno
  PROVE  IInv'
<1> USE CsmaAssumption
<1>1. n \in Neighbor /\ n \in neighbor_list /\ packet_queue[n] \in Seq(Entry) /\ packet_queue[n] # <<>>
  BY DEF IInv, QueueTypes, QueuesServed
<1> DEFINE rest == Without(packet_queue[n], 1)
<1>2. rest \in Seq(Entry)
  BY <1>1, WithoutType
<1>3. rest # <<>> => rest[1] \in Entry
  BY <1>2
<1>4. /\ packet_queue' = [packet_queue EXCEPT ![n] = rest]
      /\ transmissions' = [transmissions EXCEPT ![n] = 0]
      /\ collisions' = [collisions EXCEPT ![n] = 0]
      /\ attempts' = [attempts EXCEPT ![n] = 0]
      /\ open' = [open EXCEPT ![packet_queue[n][1].pk] = @ - 1]
      /\ addr' = addr
      /\ IF rest # <<>>
           THEN armed' = armed \cup {n} /\ UNCHANGED <<neighbor_list, neighbor_memb>>
           ELSE /\ armed' = armed \ {n} /\ neighbor_list' = neighbor_list \ {n}
                /\ neighbor_memb' = neighbor_memb \ {n}
  BY DEF tx_done
<1> HIDE DEF rest
<1>5. QueueTypes'
  <2>1. packet_queue' \in [Neighbor -> Seq(Entry)] /\ neighbor_list' \subseteq Neighbor
    BY <1>1, <1>2, <1>4 DEF IInv, QueueTypes
  <2>2. /\ addr' \in [Neighbor -> Addr] /\ transmissions' \in [Neighbor -> Nat]
        /\ collisions' \in [Neighbor -> 0..MAX_BACKOFF] /\ attempts' \in [Neighbor -> Nat]
    <3>1. 0 \in Nat /\ 0 \in 0..MAX_BACKOFF
      OBVIOUS
    <3>2. transmissions' \in [Neighbor -> Nat]
      BY <1>4, <3>1, Update DEF IInv, QueueTypes
    <3>3. collisions' \in [Neighbor -> 0..MAX_BACKOFF]
      BY <1>4, <3>1, Update DEF IInv, QueueTypes
    <3>4. attempts' \in [Neighbor -> Nat]
      BY <1>4, <3>1, Update DEF IInv, QueueTypes
    <3> QED
      BY <1>4, <3>2, <3>3, <3>4 DEF IInv, QueueTypes
  <2>3. open' \in [Packet -> Int]
    <3>1. packet_queue[n][1] \in Entry
      BY <1>1
    <3>2. packet_queue[n][1].pk \in Packet
      BY <3>1 DEF Entry
    <3> QED
      BY <1>4, <3>2 DEF IInv, QueueTypes
  <2> QED
    BY <2>1, <2>2, <2>3 DEF IInv, QueueTypes
<1>6. QueuesServed'
  <2>1. CASE rest # <<>>
    <3>1. \A m \in Neighbor : m \in neighbor_list' <=> packet_queue'[m] # <<>>
      BY <2>1, <1>1, <1>4 DEF IInv, QueueTypes, QueuesServed
    <3>2. armed' = neighbor_list' /\ neighbor_memb' = neighbor_list'
      BY <2>1, <1>1, <1>4, ZenonT(30) DEF IInv, QueuesServed
    <3>3. \A l, m \in neighbor_list' : addr'[l] = addr'[m] => l = m
      BY <2>1, <1>4 DEF IInv, QueuesServed
    <3> QED
      BY <3>1, <3>2, <3>3 DEF QueuesServed
  <2>2. CASE rest = <<>>
    <3>1. \A m \in Neighbor : m \in neighbor_list' <=> packet_queue'[m] # <<>>
      BY <2>2, <1>1, <1>4 DEF IInv, QueueTypes, QueuesServed
    <3>2. armed' = neighbor_list' /\ neighbor_memb' = neighbor_list'
      BY <2>2, <1>4 DEF IInv, QueuesServed
    <3>3. \A l, m \in neighbor_list' : addr'[l] = addr'[m] => l = m
      BY <2>2, <1>4 DEF IInv, QueuesServed
    <3> QED
      BY <3>1, <3>2, <3>3 DEF QueuesServed
  <2> QED
    BY <2>1, <2>2
<1>7. Paced'
  <2> SUFFICES ASSUME NEW m \in Neighbor
               PROVE  /\ m \in neighbor_list' => transmissions'[m] < packet_queue'[m][1].max
                      /\ m \notin neighbor_list' => attempts'[m] = 0
                      /\ attempts'[m] <= transmissions'[m] * (MAX_BACKOFF + 1) + collisions'[m]
    BY DEF Paced
  <2>1. CASE m # n
    BY <2>1, <1>1, <1>4 DEF IInv, QueueTypes, Paced
  <2>2. CASE m = n
    BY <2>2, <1>1, <1>3, <1>4, EntryMax DEF IInv, QueueTypes
  <2> QED
    BY <2>1, <2>2
<1> QED
  BY <1>5, <1>6, <1>7 DEF IInv

LEMMA NextIInv == IInv /\ [Next]_vars => IInv'
<1> SUFFICES ASSUME IInv, [Next]_vars PROVE IInv'
  OBVIOUS
<1>1. ASSUME NEW pk \in Packet, NEW a \in Addr, NEW max \in MaxTransmissions, NEW held \in {0, 1},
             csma_output_packet(pk, a, max, held)
      PROVE  IInv'
  <2>1. ASSUME NEW n \in Target(a), Accept(n, pk, a, max) PROVE IInv'
    BY <1>1, <2>1, AcceptIInv DEF csma_output_packet
  <2>2. ASSUME NEW n \in Target(a), Drop(n) PROVE IInv'
    BY <1>1, <2>2, DropIInv DEF csma_output_packet
  <2>3. CASE UNCHANGED <<queuevars, poolvars, open, attempts>>
    <3>1. seqno' \in 0..(SeqWrap - 1)
      BY <1>1, SeqnoType DEF csma_output_packet, IInv, QueueTypes
    <3> QED
      BY <2>3, <3>1 DEF queuevars, poolvars, IInv, QueueTypes, QueuesServed, Paced
  <2> QED
    BY <1>1, <2>1, <2>2, <2>3 DEF csma_output_packet
<1>2. ASSUME NEW n \in Neighbor, NEW ret \in Result(addr[n]), transmit_from_queue(n, ret)
      PROVE  IInv'
  <2>1. n \in armed /\ Sought(n) = 1
    BY <1>2, SoughtFirst DEF transmit_from_queue, IInv, QueueTypes
  <2>2. CASE tx_done(n, 1)
    BY <1>2, <2>1, <2>2, DoneIInv DEF transmit_from_queue
  <2>3. CASE ~tx_done(n, 1)
    BY <1>2, <2>1, <2>3, RexmitIInv DEF transmit_from_queue
  <2> QED
    BY <2>2, <2>3
<1>3. CASE UNCHANGED vars
  BY <1>3 DEF vars, IInv, QueueTypes, QueuesServed, Paced
<1> QED
  BY <1>1, <1>2, <1>3 DEF Next, Transmit

(* The invariant, for every number of packets, neighbors and tries.         *)
THEOREM Invariance == Spec => []IInv
  BY InitIInv, NextIInv, PTL DEF Spec

(* No queue waits without a timer, and no address has two queues: whatever  *)
(* fails in csma_output_packet and whatever the radio answers.              *)
THEOREM Served == Spec => []QueuesServed
<1>1. IInv => QueuesServed
  BY DEF IInv
<1> QED
  BY <1>1, Invariance, PTL

(* The tries for one packet are bounded by the counters' limits.            *)
THEOREM Bounded == Spec => []AttemptsBounded
<1>1. IInv => AttemptsBounded
  <2> SUFFICES ASSUME IInv, NEW n \in neighbor_list, packet_queue[n] # <<>>
               PROVE  /\ transmissions[n] < packet_queue[n][1].max
                      /\ attempts[n] < packet_queue[n][1].max * (MAX_BACKOFF + 1)
    BY DEF AttemptsBounded
  <2> DEFINE m == packet_queue[n][1].max
             t == transmissions[n]
  <2>1. n \in Neighbor /\ packet_queue[n] \in Seq(Entry)
    BY DEF IInv, QueueTypes
  <2>2. m \in Nat
    BY <2>1, EntryMax
  <2>3. t < m /\ t \in Nat /\ collisions[n] \in 0..MAX_BACKOFF /\ attempts[n] \in Nat
        /\ attempts[n] <= t * (MAX_BACKOFF + 1) + collisions[n]
    BY <2>1 DEF IInv, QueueTypes, Paced
  <2> HIDE DEF m, t
  <2>4. /\ t * (MAX_BACKOFF + 1) \in Nat
        /\ (t + 1) * (MAX_BACKOFF + 1) = t * (MAX_BACKOFF + 1) + MAX_BACKOFF + 1
        /\ (t + 1) * (MAX_BACKOFF + 1) <= m * (MAX_BACKOFF + 1)
    BY <2>2, <2>3, CsmaAssumption, Pays
  <2> DEFINE x == t * (MAX_BACKOFF + 1)
             y == m * (MAX_BACKOFF + 1)
  <2>5. x \in Nat /\ y \in Int /\ x + MAX_BACKOFF + 1 <= y /\ attempts[n] <= x + collisions[n]
    BY <2>2, <2>3, <2>4, CsmaAssumption
  <2> HIDE DEF x, y
  <2>6. attempts[n] < y
    BY <2>3, <2>5, CsmaAssumption
  <2> QED
    BY <2>3, <2>6 DEF m, t, y
<1> QED
  BY <1>1, Invariance, PTL

(* The packet reported is the one that was sent.                            *)
THEOREM SentReported == Spec => ReportsFirst
<1> DEFINE Firsts == \A pk \in Packet : open'[pk] < open[pk] =>
                       \E n \in armed : packet_queue[n] # <<>> /\ Head(packet_queue[n]).pk = pk
<1>1. IInv /\ [Next]_vars => [Firsts]_vars
  <2> SUFFICES ASSUME IInv, Next, NEW pk \in Packet, open'[pk] < open[pk]
               PROVE  \E n \in armed : packet_queue[n] # <<>> /\ Head(packet_queue[n]).pk = pk
    OBVIOUS
  <2>0. open \in [Packet -> Int]
    BY DEF IInv, QueueTypes
  <2>1. ASSUME NEW r \in Packet, NEW a \in Addr, NEW max \in MaxTransmissions, NEW held \in {0, 1},
               csma_output_packet(r, a, max, held)
        PROVE  FALSE
    <3>1. open' = open \/ open' = [open EXCEPT ![r] = @ + 1]
      BY <2>1 DEF csma_output_packet, Accept, Drop
    <3> QED
      BY <3>1, <2>0
  <2>2. ASSUME NEW n \in Neighbor, NEW ret \in Result(addr[n]), transmit_from_queue(n, ret)
        PROVE  n \in armed /\ packet_queue[n] # <<>> /\ Head(packet_queue[n]).pk = pk
    <3>1. n \in armed /\ packet_queue[n] # <<>> /\ Sought(n) = 1
      BY <2>2, SoughtFirst DEF transmit_from_queue, IInv, QueueTypes
    <3>2. open' = open \/ open' = [open EXCEPT ![packet_queue[n][1].pk] = @ - 1]
      BY <2>2, <3>1 DEF transmit_from_queue, tx_done, rexmit
    <3>3. packet_queue[n][1].pk = pk
      BY <3>2, <2>0
    <3>4. Head(packet_queue[n]) = packet_queue[n][1]
      BY <3>1 DEF IInv, QueueTypes
    <3> QED
      BY <3>1, <3>3, <3>4
  <2> QED
    BY <2>1, <2>2 DEF Next, Transmit
<1> QED
  BY <1>1, Invariance, PTL DEF Spec, ReportsFirst

(* What is queued, slot by slot.                                            *)
LEMMA SlotsDef ==
  \A n, k : <<n, k>> \in Slots <=> n \in Neighbor /\ k \in DOMAIN packet_queue[n]
  BY DEF Slots

LEMMA SlotsPairs ==
  \A s \in Slots : \E n \in Neighbor : \E k \in DOMAIN packet_queue[n] : s = <<n, k>>
  BY DEF Slots

(* The books of an empty sender balance.                                    *)
LEMMA InitBooks == Init => Books
<1> SUFFICES ASSUME Init PROVE Books
  OBVIOUS
<1>1. Slots = {}
  BY DEF Init, Slots
<1>2. IsFiniteSet(Slots) /\ Cardinality(Slots) = 0
  BY <1>1, FS_EmptySet
<1> QED
  BY <1>1, <1>2, CsmaAssumption DEF Init, Books

(* Books depend on the queues, the counts and the open reports only.        *)
LEMMA SameBooks ==
  ASSUME Books, UNCHANGED <<packet_queue, packet_memb, metadata_memb, bufmem, open>>
  PROVE  Books'
<1>1. Slots' = Slots
  BY DEF Slots
<1>2. \A s : PacketAt(s)' = PacketAt(s)
  BY DEF PacketAt
<1> QED
  BY <1>1, <1>2 DEF Books

(* csma_output_packet queues the packet: one slot more, one block more of   *)
(* each pool, one report out.                                               *)
LEMMA AcceptBooks ==
  ASSUME IInv, Books, NEW pk \in Packet, NEW a \in Addr, NEW max \in MaxTransmissions,
         NEW held \in {0, 1}, NEW n \in Target(a),
         open[pk] = 0, Room(n, held), Accept(n, pk, a, max)
  PROVE  Books'
<1> USE CsmaAssumption
<1> DEFINE e == [pk |-> pk, seqno |-> NextSeqno,
                 max |-> IF max = 0 THEN MAX_FRAME_RETRIES + 1 ELSE max]
           q == packet_queue[n]
<1>1. n \in Neighbor /\ packet_queue \in [Neighbor -> Seq(Entry)]
  BY DEF IInv, QueueTypes, QueuesServed, Target, Known, Free
<1>2. Queued(n) = q /\ q \in Seq(Entry)
  BY <1>1 DEF Queued, IInv, QueuesServed
<1>3. packet_queue' = [packet_queue EXCEPT ![n] = Append(q, e)]
  BY <1>2 DEF Accept
<1>4. e.pk = pk
  OBVIOUS
<1> HIDE DEF e, q
<1>0. PICK len \in Nat : len = Len(q)
  BY <1>2
<1> DEFINE new == <<n, len + 1>>
<1>6. /\ DOMAIN q = 1..len
      /\ DOMAIN Append(q, e) = 1..(len + 1)
      /\ \A k \in 1..len : Append(q, e)[k] = q[k]
      /\ Append(q, e)[len + 1] = e
  BY <1>0, <1>2
<1>7. /\ \A m \in Neighbor : m # n => packet_queue'[m] = packet_queue[m]
      /\ packet_queue'[n] = Append(q, e)
  BY <1>1, <1>3
<1>8. new \notin Slots
  BY <1>6, SlotsDef DEF q
<1>9. Slots' = Slots \cup {new}
  <2>0. \A m, k : <<m, k>> \in Slots' <=> m \in Neighbor /\ k \in DOMAIN packet_queue'[m]
    BY DEF Slots
  <2>1. 1..(len + 1) = 1..len \cup {len + 1}
    OBVIOUS
  <2>2. \A m, k : <<m, k>> \in Slots' <=> <<m, k>> \in Slots \cup {new}
    BY <2>0, <2>1, <1>1, <1>6, <1>7, SlotsDef DEF q
  <2>3. \A s \in Slots' : \E m, k : s = <<m, k>>
    BY DEF Slots
  <2>4. \A s \in Slots \cup {new} : \E m, k : s = <<m, k>>
    BY DEF Slots
  <2> QED
    BY <2>2, <2>3, <2>4
<1>10. PacketAt(new)' = pk /\ \A s \in Slots : PacketAt(s)' = PacketAt(s)
  <2>1. PacketAt(new)' = pk
    BY <1>1, <1>3, <1>4, <1>6 DEF PacketAt
  <2>2. ASSUME NEW s \in Slots PROVE PacketAt(s)' = PacketAt(s)
    <3>1. PICK m \in Neighbor : \E k \in DOMAIN packet_queue[m] : s = <<m, k>>
      BY SlotsPairs
    <3>2. PICK k \in DOMAIN packet_queue[m] : s = <<m, k>>
      BY <3>1
    <3>3. packet_queue'[m][k] = packet_queue[m][k]
      BY <1>1, <1>3, <1>6 DEF q
    <3> QED
      BY <3>2, <3>3 DEF PacketAt
  <2> QED
    BY <2>1, <2>2
<1> HIDE DEF new
<1>11. IsFiniteSet(Slots') /\ Cardinality(Slots') = Cardinality(Slots) + 1
  BY <1>8, <1>9, FS_AddElement DEF Books
<1>12. Cardinality(Slots) \in Nat /\ Cardinality(Slots) < QUEUEBUF_NUM
  BY FS_CardinalityType DEF Books, Room
<1>13. /\ packet_memb' = Cardinality(Slots') /\ metadata_memb' = Cardinality(Slots')
       /\ bufmem' = Cardinality(Slots') /\ Cardinality(Slots') <= QUEUEBUF_NUM
  BY <1>11, <1>12 DEF Books, Accept
<1>14. \A s \in Slots : PacketAt(s) # pk
  BY DEF Books
<1>15. \A s, t \in Slots' : PacketAt(s)' = PacketAt(t)' => s = t
  BY <1>9, <1>10, <1>14 DEF Books
<1>16. ASSUME NEW r \in Packet
       PROVE  /\ open'[r] \in {0, 1}
              /\ open'[r] = 1 <=> \E s \in Slots' : PacketAt(s)' = r
  <2>1. open' = [open EXCEPT ![pk] = @ + 1] /\ open \in [Packet -> Int]
    BY DEF Accept, IInv, QueueTypes
  <2>2. CASE r = pk
    <3>1. open'[r] = 1
      BY <2>1, <2>2
    <3> QED
      BY <3>1, <2>2, <1>9, <1>10
  <2>3. CASE r # pk
    <3>1. open'[r] = open[r]
      BY <2>1, <2>3
    <3>2. (\E s \in Slots' : PacketAt(s)' = r) <=> (\E s \in Slots : PacketAt(s) = r)
      BY <2>3, <1>9, <1>10
    <3> QED
      BY <3>1, <3>2 DEF Books
  <2> QED
    BY <2>2, <2>3
<1> QED
  BY <1>11, <1>13, <1>15, <1>16 DEF Books

(* tx_done frees the blocks of the first packet, and reports it: the slots  *)
(* behind it move up.                                                       *)
LEMMA DoneBooks ==
  ASSUME IInv, Books, NEW n \in armed, tx_done(n, 1)
  PROVE  Books'
<1> USE CsmaAssumption
<1> DEFINE q == packet_queue[n]
           rest == Without(q, 1)
           first == <<n, 1>>
           Old(s) == IF s[1] = n THEN <<n, s[2] + 1>> ELSE s
<1>1. n \in Neighbor /\ packet_queue \in [Neighbor -> Seq(Entry)] /\ q \in Seq(Entry) /\ q # <<>>
  BY DEF IInv, QueueTypes, QueuesServed
<1>2. packet_queue' = [packet_queue EXCEPT ![n] = rest]
  BY DEF tx_done
<1>3. /\ Len(q) \in Nat \ {0} /\ DOMAIN q = 1..Len(q)
      /\ DOMAIN rest = 1..(Len(q) - 1)
      /\ \A k \in 1..(Len(q) - 1) : rest[k] = q[k + 1]
  <2>1. Len(q) \in Nat \ {0} /\ DOMAIN q = 1..Len(q)
    BY <1>1
  <2>2. SubSeq(q, 1, 1 - 1) = <<>>
    BY <1>1, <2>1
  <2>3. rest = SubSeq(q, 2, Len(q))
    <3>1. SubSeq(q, 2, Len(q)) \in Seq(Entry)
      BY <1>1, <2>1
    <3> QED
      BY <2>2, <3>1, ConcatEmptySeq DEF Without
  <2> QED
    BY <2>1, <2>3, <1>1
<1> HIDE DEF q, rest
<1> DEFINE last == <<n, Len(q)>>
<1>4. first \in Slots /\ last \in Slots
  BY <1>1, <1>3, SlotsDef DEF q
<1>5. /\ \A m \in Neighbor : m # n => packet_queue'[m] = packet_queue[m]
      /\ packet_queue'[n] = rest
  BY <1>1, <1>2
<1>6. Slots' = Slots \ {last}
  <2>0. \A m, k : <<m, k>> \in Slots' <=> m \in Neighbor /\ k \in DOMAIN packet_queue'[m]
    BY DEF Slots
  <2>1. 1..(Len(q) - 1) = 1..Len(q) \ {Len(q)}
    BY <1>3
  <2>2. \A m, k : <<m, k>> \in Slots' <=> <<m, k>> \in Slots \ {last}
    BY <2>0, <2>1, <1>1, <1>3, <1>5, SlotsDef DEF q
  <2>3. \A s \in Slots' : \E m, k : s = <<m, k>>
    BY DEF Slots
  <2>4. \A s \in Slots \ {last} : \E m, k : s = <<m, k>>
    BY DEF Slots
  <2> QED
    BY <2>2, <2>3, <2>4
<1>7. ASSUME NEW s \in Slots'
      PROVE  /\ PacketAt(s)' = PacketAt(Old(s)) /\ Old(s) \in Slots \ {first}
             /\ \A t \in Slots' : Old(s) = Old(t) => s = t
  <2>1. PICK m \in Neighbor : \E k \in DOMAIN packet_queue'[m] : s = <<m, k>>
    BY DEF Slots
  <2>2. PICK k \in DOMAIN packet_queue'[m] : s = <<m, k>>
    BY <2>1
  <2>3. CASE m # n
    <3>1. Old(s) = s /\ packet_queue'[m] = packet_queue[m] /\ s # first
      BY <2>2, <2>3, <1>1, <1>2
    <3>2. \A t \in Slots' : Old(t) = s => s = t
      BY <2>2, <2>3, <3>1
    <3> QED
      BY <2>2, <3>1, <3>2, <1>6 DEF PacketAt
  <2>4. CASE m = n
    <3>1. k \in 1..(Len(q) - 1) /\ Old(s) = <<n, k + 1>> /\ packet_queue'[m][k] = q[k + 1]
      BY <2>2, <2>4, <1>1, <1>2, <1>3
    <3>2. PacketAt(s)' = PacketAt(Old(s)) /\ Old(s) \in Slots \ {first}
      BY <3>1, <2>2, <2>4, <1>1, <1>3, SlotsDef DEF PacketAt, q
    <3>3. ASSUME NEW t \in Slots', Old(s) = Old(t) PROVE s = t
      <4>1. PICK l, j : t = <<l, j>> /\ l \in Neighbor /\ j \in DOMAIN packet_queue'[l]
        BY DEF Slots
      <4>2. l = n
        BY <3>1, <3>3, <4>1
      <4>3. j \in 1..(Len(q) - 1) /\ Old(t) = <<n, j + 1>>
        BY <4>1, <4>2, <1>1, <1>2, <1>3
      <4> QED
        BY <3>1, <3>3, <4>1, <4>2, <4>3, <2>2, <2>4
    <3> QED
      BY <3>2, <3>3
  <2> QED
    BY <2>3, <2>4
<1>8. ASSUME NEW s \in Slots \ {first} PROVE \E t \in Slots' : s = Old(t)
  <2>1. PICK m, k : s = <<m, k>> /\ m \in Neighbor /\ k \in DOMAIN packet_queue[m]
    BY SlotsPairs
  <2>2. CASE m # n
    BY <2>1, <2>2, <1>6
  <2>3. CASE m = n
    <3>1. k \in 2..Len(q)
      BY <2>1, <2>3, <1>3 DEF q
    <3>2. <<n, k - 1>> \in Slots'
      BY <3>1, <1>1, <1>3, <1>6, SlotsDef DEF q
    <3>3. Old(<<n, k - 1>>) = s
      BY <3>1, <2>1, <2>3
    <3> QED
      BY <3>2, <3>3
  <2> QED
    BY <2>2, <2>3
<1>9. PacketAt(first) = packet_queue[n][1].pk /\ PacketAt(first) \in Packet
  <2>1. packet_queue[n][1] \in Entry
    BY <1>1 DEF q
  <2> QED
    BY <2>1 DEF PacketAt, Entry
<1> HIDE DEF last, first, Old
<1>10. IsFiniteSet(Slots') /\ Cardinality(Slots') = Cardinality(Slots) - 1
  BY <1>4, <1>6, FS_RemoveElement DEF Books
<1>11. Cardinality(Slots) \in Nat
  BY FS_CardinalityType DEF Books
<1>12. /\ packet_memb' = Cardinality(Slots') /\ metadata_memb' = Cardinality(Slots')
       /\ bufmem' = Cardinality(Slots') /\ Cardinality(Slots') <= QUEUEBUF_NUM
  BY <1>10, <1>11 DEF Books, tx_done
<1>13. \A s, t \in Slots' : PacketAt(s)' = PacketAt(t)' => s = t
  BY <1>7 DEF Books
<1>14. ASSUME NEW r \in Packet
       PROVE  /\ open'[r] \in {0, 1}
              /\ open'[r] = 1 <=> \E s \in Slots' : PacketAt(s)' = r
  <2>1. open' = [open EXCEPT ![PacketAt(first)] = @ - 1] /\ open \in [Packet -> Int]
    BY <1>9 DEF tx_done, IInv, QueueTypes
  <2>2. (\E s \in Slots' : PacketAt(s)' = r) <=> (\E s \in Slots \ {first} : PacketAt(s) = r)
    BY <1>7, <1>8
  <2>3. CASE r = PacketAt(first)
    <3>1. open[r] = 1
      BY <2>3, <1>4 DEF Books
    <3>2. open'[r] = 0
      BY <3>1, <2>1, <2>3
    <3>3. \A s \in Slots \ {first} : PacketAt(s) # r
      BY <2>3, <1>4 DEF Books
    <3> QED
      BY <3>2, <3>3, <2>2
  <2>4. CASE r # PacketAt(first)
    <3>1. open'[r] = open[r]
      BY <2>1, <2>4
    <3>2. (\E s \in Slots \ {first} : PacketAt(s) = r) <=> (\E s \in Slots : PacketAt(s) = r)
      BY <2>4, <1>4
    <3> QED
      BY <3>1, <3>2, <2>2 DEF Books
  <2> QED
    BY <2>3, <2>4
<1> QED
  BY <1>10, <1>12, <1>13, <1>14 DEF Books

LEMMA NextBooks == IInv /\ Books /\ [Next]_vars => Books'
<1> SUFFICES ASSUME IInv, Books, [Next]_vars PROVE Books'
  OBVIOUS
<1>1. ASSUME NEW pk \in Packet, NEW a \in Addr, NEW max \in MaxTransmissions, NEW held \in {0, 1},
             csma_output_packet(pk, a, max, held)
      PROVE  Books'
  <2>1. ASSUME NEW n \in Target(a), Room(n, held), Accept(n, pk, a, max) PROVE Books'
    BY <1>1, <2>1, AcceptBooks DEF csma_output_packet
  <2>2. ASSUME NEW n \in Target(a), Drop(n) PROVE Books'
    BY <2>2, SameBooks DEF Drop
  <2>3. CASE UNCHANGED <<queuevars, poolvars, open, attempts>>
    BY <2>3, SameBooks DEF queuevars, poolvars
  <2> QED
    BY <1>1, <2>1, <2>2, <2>3 DEF csma_output_packet
<1>2. ASSUME NEW n \in Neighbor, NEW ret \in Result(addr[n]), transmit_from_queue(n, ret)
      PROVE  Books'
  <2>1. n \in armed /\ Sought(n) = 1
    BY <1>2, SoughtFirst DEF transmit_from_queue, IInv, QueueTypes
  <2>2. CASE tx_done(n, 1)
    BY <2>1, <2>2, DoneBooks
  <2>3. CASE rexmit(n)
    BY <2>3, SameBooks DEF rexmit, poolvars
  <2> QED
    BY <1>2, <2>1, <2>2, <2>3 DEF transmit_from_queue
<1>3. CASE UNCHANGED vars
  BY <1>3, SameBooks DEF vars
<1> QED
  BY <1>1, <1>2, <1>3 DEF Next, Transmit

(* The pools and the open reports are accounted for by the queues, for      *)
(* every size of the pools and every number of packets.                     *)
THEOREM BooksKept == Spec => []Books
  BY InitIInv, NextIInv, InitBooks, NextBooks, PTL DEF Spec

(* No block leaks, and no pool is ever overdrawn.                           *)
THEOREM Conserved == Spec => []PoolsConserved
<1>1. IInv /\ Books => PoolsConserved
  BY DEF IInv, QueuesServed, Books, PoolsConserved
<1> QED
  BY <1>1, Invariance, BooksKept, PTL

(* A packet has one slot while its report is out, and none before or after. *)
THEOREM Reported == Spec => []ReportedOnce
<1>1. IInv /\ Books => ReportedOnce
  <2> SUFFICES ASSUME IInv, Books, NEW pk \in Packet PROVE open[pk] = Cardinality(Holding(pk))
    BY DEF ReportedOnce
  <2>1. CASE open[pk] = 1
    <3>1. PICK s \in Slots : PacketAt(s) = pk
      BY <2>1 DEF Books
    <3>2. Holding(pk) = {s}
      BY <3>1 DEF Books, Holding
    <3> QED
      BY <2>1, <3>2, FS_Singleton
  <2>2. CASE open[pk] # 1
    <3>1. open[pk] = 0 /\ Holding(pk) = {}
      BY <2>2 DEF Books, Holding
    <3> QED
      BY <3>1, FS_EmptySet
  <2> QED
    BY <2>1, <2>2
<1> QED
  BY <1>1, Invariance, BooksKept, PTL

(* Every variable stays in its range: no pool goes below zero or above its  *)
(* size, and the uint8_t counters do not wrap.                              *)
THEOREM Typed == Spec => []TypeOK
<1>1. IInv /\ Books => TypeOK
  <2> SUFFICES ASSUME IInv, Books PROVE TypeOK
    OBVIOUS
  <2>1. Cardinality(Slots) \in 0..QUEUEBUF_NUM
    BY FS_CardinalityType, CsmaAssumption DEF Books
  <2>2. open \in [Packet -> 0..1]
    BY DEF IInv, QueueTypes, Books
  <2> QED
    BY <2>1, <2>2 DEF IInv, QueueTypes, QueuesServed, Books, TypeOK
<1> QED
  BY <1>1, Invariance, BooksKept, PTL
-----------------------------------------------------------------------------
(* UnixLink                                                                 *)

allvars == <<vars, linkvars>>
-----------------------------------------------------------------------------
(* The composition                                                          *)

(* Every step of the link is a step of its CSMA sender, or leaves it alone. *)
LEMMA LinkStep == [LinkNext]_allvars => [Next]_vars
<1> SUFFICES ASSUME [LinkNext]_allvars PROVE Next \/ UNCHANGED vars
  OBVIOUS
<1>1. CASE UNCHANGED allvars
  BY <1>1 DEF allvars
<1>2. ASSUME NEW pk \in Packet, Submit(pk) PROVE Next
  BY <1>2 DEF Submit, Next
<1>3. ASSUME NEW n \in Neighbor, NEW ret, transmit_from_queue(n, ret) PROVE Next
  BY <1>3 DEF transmit_from_queue, Transmit, Next
<1>4. ASSUME NEW n \in Neighbor, send_one_packet(n) PROVE Next \/ UNCHANGED vars
  BY <1>3, <1>4 DEF send_one_packet
<1>5. ASSUME NEW n \in Neighbor, SendEnd(n) PROVE Next
  BY <1>3, <1>5 DEF SendEnd
<1>6. CASE \/ RadioThread \/ RadioThreadEnd \/ OtherEvent \/ PeerInput \/ OthersSend
           \/ OthersAck \/ SeqnosAge \/ \E l \in BOOLEAN : unix_process_update(l)
  BY <1>6 DEF RadioThread, RadioThreadEnd, OtherEvent, PeerInput, OthersSend, OthersAck,
              SeqnosAge, unix_process_update
<1> QED
  BY <1>1, <1>2, <1>4, <1>5, <1>6 DEF LinkNext

(* What CsmaOutput promises whatever the radio answers holds on this radio: *)
(* the link implements the sender's specification.                          *)
THEOREM LinkSends == LinkSpec => Spec
<1>1. LinkInit => Init
  BY DEF LinkInit
<1> QED
  BY <1>1, LinkStep, PTL DEF LinkSpec, Spec, allvars
-----------------------------------------------------------------------------
(* The radio                                                                *)

AckWanted == sending.type = "data" /\ sending.dst # Broadcast

(* What the flags of the radio are in each phase of a transmission: it      *)
(* waits only for the acknowledgement of a unicast; in the wait, one that   *)
(* has been noted came too late; after it, the one noted is in the buffer.  *)
RadioPhase ==
  /\ radio_state \in {"RECEIVE", "TRANSMIT"}
  /\ radio_ack_wait \in BOOLEAN /\ radio_is_ack_received \in BOOLEAN /\ late \in BOOLEAN
  /\ sending = NoFrame => radio_state = "RECEIVE"
  /\ radio_ack_wait =>
       radio_state = "TRANSMIT" /\ AckWanted /\ radio_is_ack_received = late
  /\ ~radio_ack_wait =>
       /\ ~late
       /\ radio_is_ack_received =>
            radio_state = "RECEIVE" /\ AckWanted /\ radio_rx.type = "ack"

(* unix_radio_process keeps the phases, with a frame to send and without.   *)
LEMMA UpdatePhase ==
  ASSUME RadioPhase, NEW l \in BOOLEAN, unix_process_update(l)
  PROVE  RadioPhase'
<1> DEFINE rx == IF sock[Me] # <<>> THEN Head(sock[Me]) ELSE radio_rx
           acked == radio_is_ack_received \/ (rx.type = "ack" /\ radio_ack_wait)
           done == WaitDone(acked, l)
           sends == radio_state = "TRANSMIT" /\ ~radio_ack_wait
           waits == sends /\ AckWanted
<1>1. /\ l \in {late, TRUE} /\ (l => radio_ack_wait)
      /\ radio_rx' = rx
      /\ radio_is_ack_received' = acked
      /\ radio_ack_wait' = (waits \/ (radio_ack_wait /\ ~done))
      /\ radio_state' = IF done \/ (sends /\ ~waits) THEN "RECEIVE" ELSE radio_state
      /\ late' = (l /\ ~done)
      /\ UNCHANGED sending
  BY DEF unix_process_update, unix_radio_process, AckWanted
<1>2. done = (radio_ack_wait /\ radio_state = "TRANSMIT" /\ acked # l)
  BY DEF WaitDone
<1>3. acked \in BOOLEAN
  BY DEF RadioPhase
<1>4. AckWanted' = AckWanted
  BY <1>1 DEF AckWanted
<1>5. CASE radio_ack_wait
  BY <1>1, <1>2, <1>3, <1>4, <1>5 DEF RadioPhase
<1>6. CASE ~radio_ack_wait
  <2>1. sending = NoFrame \/ radio_state = "TRANSMIT"
    BY DEF unix_process_update
  <2>2. sending = NoFrame => ~AckWanted
    BY DEF NoFrame, AckWanted
  <2>3. ~radio_is_ack_received /\ ~late
    BY <1>6, <2>1, <2>2 DEF RadioPhase
  <2>4. ~acked /\ ~done /\ ~l
    BY <1>1, <1>2, <1>6, <2>3
  <2>5. /\ ~radio_is_ack_received' /\ ~late' /\ radio_ack_wait' = waits
        /\ radio_state' = IF sends /\ ~waits THEN "RECEIVE" ELSE radio_state
    BY <1>1, <1>6, <2>4
  <2> QED
    BY <1>1, <1>4, <2>2, <2>5 DEF RadioPhase
<1> QED
  BY <1>5, <1>6

LEMMA RadioPhaseInit == LinkInit => RadioPhase
  BY DEF LinkInit, RadioPhase, NoFrame

(* Every step keeps the phases: the radio is used by one caller at a time.  *)
LEMMA RadioPhaseNext == RadioPhase /\ [LinkNext]_allvars => RadioPhase'
<1> SUFFICES ASSUME RadioPhase, [LinkNext]_allvars PROVE RadioPhase'
  OBVIOUS
<1>1. CASE UNCHANGED <<sending, radiovars>>
  BY <1>1 DEF radiovars, RadioPhase, AckWanted
<1>2. CASE RadioThread
  <2>1. /\ sending = NoFrame /\ UNCHANGED <<radio_ack_wait, late>>
        /\ \/ sending' = Ack(radio_rx.dsn) /\ radio_state' = "TRANSMIT"
           \/ UNCHANGED <<sending, radio_state>>
        /\ radio_is_ack_received' = (radio_is_ack_received /\ radio_rx.type # "ack")
    BY <1>2 DEF RadioThread, unix_read
  <2>2. ~radio_ack_wait /\ ~radio_is_ack_received /\ ~late
    BY <2>1 DEF RadioPhase, AckWanted, NoFrame
  <2>3. ~radio_ack_wait' /\ ~radio_is_ack_received' /\ ~late'
    BY <2>1, <2>2
  <2>4. sending' = NoFrame => UNCHANGED <<sending, radio_state>>
    BY <2>1 DEF Ack, NoFrame
  <2> QED
    BY <2>1, <2>3, <2>4 DEF RadioPhase
<1>3. CASE RadioThreadEnd
  <2>1. sending.type = "ack" /\ sending' = NoFrame /\ radio_state = "RECEIVE" /\ UNCHANGED radiovars
    BY <1>3 DEF RadioThreadEnd
  <2>2. ~AckWanted
    BY <2>1 DEF AckWanted
  <2> QED
    BY <2>1, <2>2 DEF RadioPhase, radiovars
<1>4. ASSUME NEW n \in Neighbor, send_one_packet(n) PROVE RadioPhase'
  <2>1. /\ sending = NoFrame
        /\ UNCHANGED <<radio_ack_wait, radio_is_ack_received, late, radio_rx>>
        /\ \/ UNCHANGED <<sending, radio_state>>
           \/ sending' = Frame(n) /\ radio_state' = "TRANSMIT"
    BY <1>4 DEF send_one_packet, AtEvent
  <2>2. ~radio_ack_wait /\ ~radio_is_ack_received /\ ~late
    BY <2>1 DEF RadioPhase, AckWanted, NoFrame
  <2>3. sending' = NoFrame => UNCHANGED <<sending, radio_state>>
    BY <2>1 DEF Frame, Data, NoFrame
  <2> QED
    BY <2>1, <2>2, <2>3 DEF RadioPhase
<1>5. ASSUME NEW n \in Neighbor, SendEnd(n) PROVE RadioPhase'
  <2>1. /\ radio_state = "RECEIVE" /\ sending' = NoFrame
        /\ UNCHANGED <<radio_state, radio_ack_wait, late>>
        /\ \/ AckWanted /\ unix_pending_packet /\ unix_read
           \/ ~(AckWanted /\ unix_pending_packet) /\ UNCHANGED <<radio_rx, radio_is_ack_received>>
    BY <1>5 DEF SendEnd, AckWanted
  <2>2. ~radio_ack_wait /\ ~late
    BY <2>1 DEF RadioPhase
  <2>3. radio_is_ack_received => AckWanted /\ radio_rx.type = "ack" /\ unix_pending_packet
    BY <2>2 DEF RadioPhase, unix_pending_packet
  <2>4. radio_is_ack_received' = FALSE
    <3>1. CASE unix_read
      BY <2>3, <3>1 DEF unix_read
    <3>2. CASE ~(AckWanted /\ unix_pending_packet) /\ UNCHANGED radio_is_ack_received
      BY <2>3, <3>2 DEF RadioPhase
    <3> QED
      BY <2>1, <3>1, <3>2
  <2> QED
    BY <2>1, <2>2, <2>4 DEF RadioPhase
<1>6. ASSUME NEW l \in BOOLEAN, unix_process_update(l) PROVE RadioPhase'
  BY <1>6, UpdatePhase
<1>7. ASSUME NEW pk \in Packet, Submit(pk) PROVE UNCHANGED <<sending, radiovars>>
  BY <1>7 DEF Submit
<1>8. CASE OtherEvent \/ PeerInput \/ OthersSend \/ OthersAck \/ SeqnosAge \/ UNCHANGED allvars
  <2>1. UNCHANGED <<sending, radiovars>>
    BY <1>8 DEF OtherEvent, PeerInput, OthersSend, OthersAck, SeqnosAge, allvars, linkvars
  <2> QED
    BY <1>1, <2>1
<1> QED
  BY <1>1, <1>2, <1>3, <1>4, <1>5, <1>6, <1>7, <1>8 DEF LinkNext

(* Between two transmissions the radio receives, waits for nothing and      *)
(* remembers no acknowledgement.                                            *)
THEOREM Ready == LinkSpec => []RadioReady
<1>1. RadioPhase => RadioReady
  BY DEF RadioPhase, RadioReady, AckWanted, NoFrame
<1> QED
  BY <1>1, RadioPhaseInit, RadioPhaseNext, PTL DEF LinkSpec, allvars

-----------------------------------------------------------------------------
(* The sequence numbers                                                     *)

(* A packet keeps the seqno it was given, and carries it in the queue.      *)
Numbered ==
  /\ given \in [Packet -> 0..(SeqWrap - 1)]
  /\ \A n \in Neighbor : \A k \in DOMAIN packet_queue[n] :
       packet_queue[n][k].seqno = given[packet_queue[n][k].pk]

(* The frames                                                               *)

\* a data frame of Me carries a packet and the seqno it was given
Mine(f) ==
  f.type = "data" =>
    f.src = Me /\ f.pk \in Packet /\ f.dsn = given[f.pk] /\ given[f.pk] # 0

Arrived(d) == \E pk \in Packet : given[pk] = d /\ given[pk] # 0 /\ delivered[pk] > 0

\* a frame on its way to Peer: one of Me, or one of another node
AtPeer(f) == Mine(f) \/ (f.src # Me /\ f.pk = Own)

\* an acknowledgement on its way to Me stands for a packet that has arrived,
\* or it is the acknowledgement of a frame of another node
Honest(f) == f.type = "ack" => Arrived(f.dsn) \/ f.dsn \in stray

FramesOK ==
  /\ sending \in Frames /\ radio_rx \in Frames
  /\ sock \in [{Me, Peer} -> Seq(Frames)]
  /\ Mine(sending) /\ \A i \in DOMAIN sock[Peer] : AtPeer(sock[Peer][i])
  /\ Honest(radio_rx) /\ \A i \in DOMAIN sock[Me] : Honest(sock[Me][i])
  /\ delivered \in [Packet -> Nat] /\ stray \subseteq 0..(SeqWrap - 1)
  /\ confirmed \subseteq Packet /\ \A pk \in confirmed : given[pk] # 0
  /\ ConfirmedDelivered

(* The seqnos Peer remembers                                                *)

Senders == {Me, Peer} \cup Other
Seqnos == [sender : Senders, seqno : 0..(SeqWrap - 1), old : BOOLEAN]

\* pk's seqno is still in Peer's table, behind senders that were heard later
Remembered(pk) ==
  \E i \in DOMAIN received_seqnos[Peer] :
    /\ received_seqnos[Peer][i].sender = Me /\ received_seqnos[Peer][i].seqno = given[pk]
    /\ \A j \in 1..(i - 1) : received_seqnos[Peer][j].sender \in since[pk]

TableOK ==
  /\ received_seqnos \in [{Me, Peer} -> Seq(Seqnos)]
  /\ \A n \in {Me, Peer} : Len(received_seqnos[n]) <= MAX_SEQNOS
  /\ \A i, j \in DOMAIN received_seqnos[Peer] :
       received_seqnos[Peer][i].sender = received_seqnos[Peer][j].sender => i = j
  /\ \A i \in DOMAIN received_seqnos[Peer] :
       received_seqnos[Peer][i].sender = Me => Arrived(received_seqnos[Peer][i].seqno)

(* A packet Peer has passed up is remembered until other senders push it    *)
(* out or another packet of Me takes its place.                             *)
SinceOK ==
  /\ since \in [Packet -> SUBSET Senders]
  /\ \A pk \in Packet : IsFiniteSet(since[pk])
  /\ \A pk \in Packet : delivered[pk] > 0 => given[pk] # 0
  /\ \A pk \in Packet : delivered[pk] > 0 =>
       Me \in since[pk] \/ Cardinality(since[pk]) >= MAX_SEQNOS \/ Remembered(pk)

LinkInv == RadioPhase /\ Numbered /\ FramesOK /\ TableOK /\ SinceOK

-----------------------------------------------------------------------------
(* How the queues change                                                    *)

\* every queued packet was queued before, in the same queue
NoNewEntry ==
  \A m \in Neighbor : \A k \in DOMAIN packet_queue'[m] :
    \E j \in DOMAIN packet_queue[m] : packet_queue'[m][k] = packet_queue[m][j]

(* transmit_from_queue adds nothing to a queue.                             *)
LEMMA TransmitEntries ==
  ASSUME IInv, NEW n \in Neighbor, NEW ret, transmit_from_queue(n, ret)
  PROVE  NoNewEntry
<1> DEFINE q == packet_queue[n]
           rest == Without(q, 1)
<1>1. /\ packet_queue \in [Neighbor -> Seq(Entry)] /\ q \in Seq(Entry) /\ q # <<>>
  BY DEF IInv, QueueTypes, transmit_from_queue
<1>2. Sought(n) = 1
  BY <1>1, SoughtFirst
<1>3. CASE UNCHANGED packet_queue
  BY <1>3 DEF NoNewEntry
<1>4. CASE packet_queue' = [packet_queue EXCEPT ![n] = rest]
  <2>1. Len(q) \in Nat \ {0} /\ DOMAIN q = 1..Len(q)
    BY <1>1
  <2>2. SubSeq(q, 1, 1 - 1) = <<>>
    BY <1>1, <2>1
  <2>3. rest = SubSeq(q, 2, Len(q))
    <3>1. SubSeq(q, 2, Len(q)) \in Seq(Entry)
      BY <1>1, <2>1
    <3> QED
      BY <2>2, <3>1, ConcatEmptySeq DEF Without
  <2>4. /\ DOMAIN rest = 1..(Len(q) - 1)
        /\ \A k \in 1..(Len(q) - 1) : rest[k] = q[k + 1]
    BY <2>1, <2>3, <1>1
  <2>5. ASSUME NEW k \in DOMAIN rest PROVE \E j \in DOMAIN q : rest[k] = q[j]
    <3>1. k \in 1..(Len(q) - 1) /\ k + 1 \in 1..Len(q)
      BY <2>1, <2>4
    <3> QED
      BY <2>1, <2>4, <3>1
  <2>6. packet_queue'[n] = rest /\ \A m \in Neighbor : m # n => packet_queue'[m] = packet_queue[m]
    BY <1>1, <1>4
  <2> HIDE DEF rest
  <2> QED
    BY <2>5, <2>6 DEF NoNewEntry
<1> QED
  BY <1>2, <1>3, <1>4 DEF transmit_from_queue, tx_done, rexmit

(* csma_output_packet adds the packet it is called with, or nothing.        *)
LEMMA OutputEntries ==
  ASSUME IInv, NEW pk \in Packet, NEW a \in Addr, NEW max \in MaxTransmissions, NEW held \in {0, 1},
         csma_output_packet(pk, a, max, held)
  PROVE  \A m \in Neighbor : \A k \in DOMAIN packet_queue'[m] :
           \/ packet_queue'[m][k].pk = pk /\ packet_queue'[m][k].seqno = NextSeqno
           \/ \E j \in DOMAIN packet_queue[m] : packet_queue'[m][k] = packet_queue[m][j]
<1>1. CASE UNCHANGED packet_queue
  BY <1>1
<1>2. ASSUME NEW n \in Target(a), Accept(n, pk, a, max)
      PROVE  \A m \in Neighbor : \A k \in DOMAIN packet_queue'[m] :
               \/ packet_queue'[m][k].pk = pk /\ packet_queue'[m][k].seqno = NextSeqno
               \/ \E j \in DOMAIN packet_queue[m] : packet_queue'[m][k] = packet_queue[m][j]
  <2> DEFINE e == [pk |-> pk, seqno |-> NextSeqno,
                   max |-> IF max = 0 THEN MAX_FRAME_RETRIES + 1 ELSE max]
             q == packet_queue[n]
  <2>1. n \in Neighbor /\ packet_queue \in [Neighbor -> Seq(Entry)]
    BY DEF IInv, QueueTypes, QueuesServed, Target, Known, Free
  <2>2. Queued(n) = q /\ q \in Seq(Entry)
    BY <2>1 DEF Queued, IInv, QueuesServed
  <2>3. packet_queue' = [packet_queue EXCEPT ![n] = Append(q, e)]
    BY <1>2, <2>2 DEF Accept
  <2>4. e.pk = pk /\ e.seqno = NextSeqno
    OBVIOUS
  <2> HIDE DEF e
  <2>5. \A k \in DOMAIN Append(q, e) : Append(q, e)[k] = e \/ (k \in DOMAIN q /\ Append(q, e)[k] = q[k])
    BY <2>2
  <2>6. /\ packet_queue'[n] = Append(q, e)
        /\ \A m \in Neighbor : m # n => packet_queue'[m] = packet_queue[m]
    BY <2>1, <2>3
  <2> QED
    BY <2>4, <2>5, <2>6
<1> QED
  BY <1>1, <1>2 DEF csma_output_packet, Drop, queuevars

(* A packet gets the next seqno, which is not 0.                            *)
LEMMA FreshSeqno ==
  ASSUME Numbered, seqno \in 0..(SeqWrap - 1), NEW pk \in Packet,
         given' = [given EXCEPT ![pk] = NextSeqno]
  PROVE  /\ given' \in [Packet -> 0..(SeqWrap - 1)]
         /\ given'[pk] = NextSeqno /\ \A q \in Packet : q # pk => given'[q] = given[q]
<1>1. SeqWrap \in Nat /\ SeqWrap >= 2
  BY CsmaAssumption
<1>2. PICK N \in 1..(SeqWrap - 1) : N = NextSeqno
  BY <1>1 DEF NextSeqno
<1>3. given \in [Packet -> 0..(SeqWrap - 1)] /\ given' \in [Packet -> 0..(SeqWrap - 1)]
  BY <1>1, <1>2 DEF Numbered
<1> QED
  BY <1>2, <1>3

LEMMA NumberedInit == LinkInit => Numbered
<1> SUFFICES ASSUME LinkInit PROVE Numbered
  OBVIOUS
<1>1. given = [pk \in Packet |-> 0] /\ packet_queue = [n \in Neighbor |-> <<>>]
  BY DEF LinkInit, Init
<1> QED
  BY <1>1, CsmaAssumption DEF Numbered

(* A queue that gains no packet keeps the numbers it has.                   *)
LEMMA NumberedKept ==
  ASSUME Numbered, UNCHANGED given, NoNewEntry
  PROVE  Numbered'
  BY DEF Numbered, NoNewEntry

(* No step changes the seqno of a queued packet.                            *)
LEMMA NumberedNext == IInv /\ Numbered /\ [LinkNext]_allvars => Numbered'
<1> SUFFICES ASSUME IInv, Numbered, [LinkNext]_allvars PROVE Numbered'
  OBVIOUS
<1>1. ASSUME NEW pk \in Packet, Submit(pk) PROVE Numbered'
  <2>1. PICK a \in Addr, max \in MaxTransmissions : csma_output_packet(pk, a, max, 0)
    BY <1>1 DEF Submit
  <2>2. /\ given[pk] = 0 /\ given' = [given EXCEPT ![pk] = NextSeqno]
        /\ seqno \in 0..(SeqWrap - 1)
    BY <1>1 DEF Submit, IInv, QueueTypes
  <2>3. /\ given' \in [Packet -> 0..(SeqWrap - 1)]
        /\ given'[pk] = NextSeqno /\ \A q \in Packet : q # pk => given'[q] = given[q]
    BY <2>2, FreshSeqno
  <2>4. ASSUME NEW n \in Neighbor, NEW k \in DOMAIN packet_queue'[n]
        PROVE  packet_queue'[n][k].seqno = given'[packet_queue'[n][k].pk]
    <3>1. CASE packet_queue'[n][k].pk = pk /\ packet_queue'[n][k].seqno = NextSeqno
      BY <2>3, <3>1
    <3>2. ASSUME NEW j \in DOMAIN packet_queue[n], packet_queue'[n][k] = packet_queue[n][j]
          PROVE  packet_queue'[n][k].seqno = given'[packet_queue'[n][k].pk]
      <4>1. packet_queue[n] \in Seq(Entry)
        BY DEF IInv, QueueTypes
      <4>2. packet_queue[n][j] \in Entry
        BY <4>1
      <4>3. packet_queue[n][j].seqno \in 1..(SeqWrap - 1) /\ packet_queue[n][j].pk \in Packet
        BY <4>2 DEF Entry
      <4>4. packet_queue[n][j].seqno = given[packet_queue[n][j].pk]
        BY DEF Numbered
      <4>5. packet_queue[n][j].pk # pk
        BY <2>2, <4>3, <4>4, CsmaAssumption
      <4> QED
        BY <2>3, <3>2, <4>3, <4>4, <4>5
    <3> QED
      BY <2>1, <3>1, <3>2, OutputEntries
  <2> QED
    BY <2>3, <2>4 DEF Numbered
<1>2. CASE UNCHANGED <<vars, given>>
  BY <1>2, NumberedKept DEF vars, NoNewEntry
<1>3. ASSUME NEW n \in Neighbor, NEW ret, transmit_from_queue(n, ret), UNCHANGED given PROVE Numbered'
  BY <1>3, NumberedKept, TransmitEntries DEF transmit_from_queue
<1>4. ASSUME NEW n \in Neighbor, send_one_packet(n) \/ SendEnd(n) PROVE Numbered'
  BY <1>2, <1>3, <1>4 DEF send_one_packet, SendEnd
<1>5. CASE \/ RadioThread \/ RadioThreadEnd \/ OtherEvent \/ PeerInput \/ OthersSend
           \/ OthersAck \/ SeqnosAge \/ UNCHANGED allvars
           \/ \E l \in BOOLEAN : unix_process_update(l)
  <2>1. UNCHANGED <<vars, given>>
    BY <1>5 DEF RadioThread, RadioThreadEnd, OtherEvent, PeerInput, OthersSend, OthersAck,
                SeqnosAge, unix_process_update, allvars, linkvars
  <2> QED
    BY <1>2, <2>1
<1> QED
  BY <1>1, <1>4, <1>5 DEF LinkNext

-----------------------------------------------------------------------------
(* What a step keeps of the history                                         *)

Kept ==
  /\ \A pk \in Packet : given[pk] # 0 => given'[pk] = given[pk]
  /\ delivered' \in [Packet -> Nat]
  /\ \A pk \in Packet : delivered[pk] <= delivered'[pk]
  /\ stray \subseteq stray'

(* Handling a frame counts at most the packet it carries.                   *)
LEMMA HandleDelivers ==
  ASSUME delivered \in [Packet -> Nat], NEW f, NEW socks, Handle(f, socks)
  PROVE  /\ delivered' \in [Packet -> Nat]
         /\ \A pk \in Packet : delivered[pk] <= delivered'[pk]
         /\ \A pk \in Packet : delivered'[pk] # delivered[pk] => PassedUp(Peer, f) /\ f.pk = pk
         /\ PassedUp(Peer, f) /\ f.pk \in Packet => delivered'[f.pk] > 0
         /\ stray \subseteq stray'
  BY DEF Handle

(* A packet keeps its seqno, and what was delivered stays delivered.        *)
LEMMA KeptNext ==
  ASSUME IInv, Numbered, delivered \in [Packet -> Nat], [LinkNext]_allvars
  PROVE  Kept
<1>1. ASSUME NEW pk \in Packet, Submit(pk) PROVE Kept
  <2>1. given[pk] = 0 /\ given' = [given EXCEPT ![pk] = NextSeqno] /\ UNCHANGED <<delivered, stray>>
    BY <1>1 DEF Submit, peervars
  <2> QED
    BY <2>1 DEF Kept, Numbered
<1>2. CASE UNCHANGED <<given, delivered>> /\ stray \subseteq stray'
  BY <1>2 DEF Kept
<1>3. ASSUME NEW f, NEW socks, Handle(f, socks), UNCHANGED given PROVE Kept
  BY <1>3, HandleDelivers DEF Kept
<1>4. ASSUME NEW n \in Neighbor, send_one_packet(n) \/ SendEnd(n) PROVE UNCHANGED <<given, delivered, stray>>
  BY <1>4 DEF send_one_packet, SendEnd, peervars
<1>5. CASE PeerInput
  BY <1>3, <1>5 DEF PeerInput
<1>6. CASE \/ RadioThread \/ RadioThreadEnd \/ OtherEvent
           \/ OthersSend \/ SeqnosAge \/ UNCHANGED allvars
           \/ \E l \in BOOLEAN : unix_process_update(l)
  <2>1. UNCHANGED <<given, delivered, stray>>
    BY <1>6 DEF RadioThread, RadioThreadEnd, OtherEvent, OthersSend,
                SeqnosAge, unix_process_update, allvars, linkvars, peervars
  <2> QED
    BY <1>2, <2>1
<1>7. CASE OthersAck
  BY <1>2, <1>7 DEF OthersAck
<1> QED
  BY <1>1, <1>2, <1>4, <1>5, <1>6, <1>7 DEF LinkNext

\* Mine, AtPeer, Arrived and Honest of a given frame after the step
MineAfter(f) ==
  f.type = "data" =>
    f.src = Me /\ f.pk \in Packet /\ f.dsn = given'[f.pk] /\ given'[f.pk] # 0
ArrivedAfter(d) == \E pk \in Packet : given'[pk] = d /\ given'[pk] # 0 /\ delivered'[pk] > 0
HonestAfter(f) == f.type = "ack" => ArrivedAfter(f.dsn) \/ f.dsn \in stray'
AtPeerAfter(f) == MineAfter(f) \/ (f.src # Me /\ f.pk = Own)

LEMMA StaysTrue ==
  ASSUME Kept, delivered \in [Packet -> Nat]
  PROVE  /\ \A f : Mine(f) => MineAfter(f)
         /\ \A d : Arrived(d) => ArrivedAfter(d)
         /\ \A f : Honest(f) => HonestAfter(f)
         /\ \A f : AtPeer(f) => AtPeerAfter(f)
<1>1. \A f : Mine(f) => MineAfter(f)
  BY DEF Kept, Mine, MineAfter
<1>2. \A pk \in Packet : delivered[pk] > 0 => delivered'[pk] > 0
  BY DEF Kept
<1>3. \A d : Arrived(d) => ArrivedAfter(d)
  BY <1>2 DEF Kept, Arrived, ArrivedAfter
<1> QED
  BY <1>1, <1>3 DEF Kept, Honest, HonestAfter, AtPeer, AtPeerAfter

(* A data frame and its fields.                                             *)
LEMMA DataFrame ==
  ASSUME NEW s \in Senders, NEW r \in Addr \cup ForeignDest, NEW d \in 0..(SeqWrap - 1),
         NEW pk \in Packet \cup {Own}
  PROVE  /\ Data(s, r, d, pk) \in Frames /\ Data(s, r, d, pk).type = "data"
         /\ Data(s, r, d, pk).src = s /\ Data(s, r, d, pk).dst = r
         /\ Data(s, r, d, pk).dsn = d /\ Data(s, r, d, pk).pk = pk
<1>1. Data(s, r, d, pk) \in Frames
  BY DEF Frames, Senders
<1> QED
  BY <1>1 DEF Data

(* The other frames, and the fields of any data frame.                      *)
LEMMA FrameFacts ==
  /\ NoFrame \in Frames /\ NoFrame.type = "none"
  /\ \A d \in 0..(SeqWrap - 1) : Ack(d) \in Frames /\ Ack(d).type = "ack" /\ Ack(d).dsn = d
  /\ \A f \in Frames : f.type = "data" =>
       f.src \in Senders /\ f.dsn \in 0..(SeqWrap - 1) /\ f.pk \in Packet \cup {Own}
<1>1. /\ NoFrame \in Frames /\ NoFrame.type = "none"
      /\ \A d \in 0..(SeqWrap - 1) : Ack(d) \in Frames /\ Ack(d).type = "ack" /\ Ack(d).dsn = d
  <2>1. NoFrame \in Frames
    BY DEF Frames
  <2>2. ASSUME NEW d \in 0..(SeqWrap - 1) PROVE Ack(d) \in Frames
    <3>1. Ack(d) \in {Ack(e) : e \in 0..(SeqWrap - 1)}
      OBVIOUS
    <3> QED
      BY <3>1 DEF Frames
  <2>3. NoFrame.type = "none"
    BY DEF NoFrame
  <2>4. \A d \in 0..(SeqWrap - 1) : Ack(d).type = "ack" /\ Ack(d).dsn = d
    BY DEF Ack
  <2> QED
    BY <2>1, <2>2, <2>3, <2>4
<1>2. ASSUME NEW f \in Frames, f.type = "data"
      PROVE  f.src \in Senders /\ f.dsn \in 0..(SeqWrap - 1) /\ f.pk \in Packet \cup {Own}
  <2>1. f # NoFrame /\ \A d \in 0..(SeqWrap - 1) : f # Ack(d)
    BY <1>1, <1>2
  <2>2. PICK s \in Senders, r \in Addr \cup ForeignDest, d \in 0..(SeqWrap - 1),
             pk \in Packet \cup {Own} : f = Data(s, r, d, pk)
    BY <2>1 DEF Frames, Senders
  <2> QED
    BY <2>2, DataFrame
<1> QED
  BY <1>1, <1>2

Sockets == [{Me, Peer} -> Seq(Frames)]

\* the frames in the sockets s were in socks, except that f may be new
OnlyFrom(s, socks) ==
  \A n \in {Me, Peer} : \A i \in DOMAIN s[n] : \E j \in DOMAIN socks[n] : s[n][i] = socks[n][j]
OnlyFromAnd(s, socks, from, f) ==
  \A n \in {Me, Peer} : \A i \in DOMAIN s[n] :
    (\E j \in DOMAIN socks[n] : s[n][i] = socks[n][j]) \/ (n # from /\ s[n][i] = f)
Fits(s) == \A n \in {Me, Peer} : Len(s[n]) <= Medium

(* A frame gets to the sockets of other nodes, or is lost to them.          *)
LEMMA SentTo ==
  ASSUME NEW socks \in Sockets, NEW from, NEW f, NEW s \in Sent(socks, from, f)
  PROVE  /\ DOMAIN s = {Me, Peer}
         /\ \A n \in {Me, Peer} : \/ s[n] = socks[n]
                                  \/ n # from /\ Len(socks[n]) < Medium /\ s[n] = Append(socks[n], f)
<1>1. PICK N \in SUBSET {n \in {Me, Peer} \ {from} : Len(socks[n]) < Medium} :
        s = [n \in {Me, Peer} |-> IF n \in N THEN Append(socks[n], f) ELSE socks[n]]
  BY DEF Sent
<1> QED
  BY <1>1

LEMMA SentFrames ==
  ASSUME NEW socks \in Sockets, NEW from, NEW f \in Frames, NEW s \in Sent(socks, from, f)
  PROVE  s \in Sockets /\ OnlyFromAnd(s, socks, from, f) /\ (Fits(socks) => Fits(s))
<1>1. ASSUME NEW n \in {Me, Peer}
      PROVE  /\ s[n] \in Seq(Frames)
             /\ \A i \in DOMAIN s[n] : \/ \E j \in DOMAIN socks[n] : s[n][i] = socks[n][j]
                                       \/ n # from /\ s[n][i] = f
             /\ Len(socks[n]) <= Medium => Len(s[n]) <= Medium
  <2>1. socks[n] \in Seq(Frames)
    BY DEF Sockets
  <2>2. CASE s[n] = socks[n]
    BY <2>1, <2>2
  <2>3. CASE n # from /\ Len(socks[n]) < Medium /\ s[n] = Append(socks[n], f)
    <3>1. PICK q : q = socks[n] /\ q \in Seq(Frames)
      BY <2>1
    <3>2. /\ Append(q, f) \in Seq(Frames) /\ Len(Append(q, f)) = Len(q) + 1 /\ Len(q) \in Nat
          /\ \A i \in DOMAIN Append(q, f) :
               (i \in DOMAIN q /\ Append(q, f)[i] = q[i]) \/ Append(q, f)[i] = f
      BY <3>1
    <3>3. Len(q) + 1 <= Medium
      BY <2>3, <3>1, <3>2, LinkAssumption
    <3> QED
      BY <2>3, <3>1, <3>2, <3>3
  <2> QED
    BY <2>2, <2>3, SentTo
<1>2. DOMAIN s = {Me, Peer} /\ s = [n \in {Me, Peer} |-> s[n]]
  BY SentTo DEF Sent
<1>3. s \in Sockets
  BY <1>1, <1>2 DEF Sockets
<1> QED
  BY <1>1, <1>3 DEF OnlyFromAnd, Fits

(* The first frame is taken from a socket.                                  *)
LEMMA TakenFrame ==
  ASSUME NEW socks \in Sockets, NEW to \in {Me, Peer}, socks[to] # <<>>,
         NEW s, s = [socks EXCEPT ![to] = Tail(@)]
  PROVE  /\ s \in Sockets /\ OnlyFrom(s, socks) /\ (Fits(socks) => Fits(s))
         /\ Head(socks[to]) \in Frames /\ 1 \in DOMAIN socks[to] /\ Head(socks[to]) = socks[to][1]
<1> USE DEF Sockets, OnlyFrom, Fits
<1>1. socks[to] \in Seq(Frames)
  OBVIOUS
<1>2. /\ Tail(socks[to]) \in Seq(Frames) /\ Len(Tail(socks[to])) = Len(socks[to]) - 1
      /\ Len(socks[to]) \in Nat \ {0} /\ DOMAIN socks[to] = 1..Len(socks[to])
      /\ DOMAIN Tail(socks[to]) = 1..(Len(socks[to]) - 1)
      /\ \A i \in 1..(Len(socks[to]) - 1) : Tail(socks[to])[i] = socks[to][i + 1]
  BY <1>1
<1>3. s[to] = Tail(socks[to]) /\ \A n \in {Me, Peer} : n # to => s[n] = socks[n]
  OBVIOUS
<1>4. s \in [{Me, Peer} -> Seq(Frames)]
  BY <1>2
<1>5. ASSUME NEW i \in DOMAIN s[to] PROVE \E j \in DOMAIN socks[to] : s[to][i] = socks[to][j]
  <2>1. i + 1 \in DOMAIN socks[to] /\ s[to][i] = socks[to][i + 1]
    BY <1>2, <1>3
  <2> QED
    BY <2>1
<1>6. Fits(socks) => Fits(s)
  BY <1>2, <1>3, LinkAssumption
<1> QED
  BY <1>1, <1>2, <1>3, <1>4, <1>5, <1>6

(* What has to be shown of a step for the frames to stay as they should.    *)
LEMMA FramesKept ==
  ASSUME FramesOK, Kept,
         sending' \in Frames, MineAfter(sending'), radio_rx' \in Frames, HonestAfter(radio_rx'),
         sock' \in Sockets, stray' \subseteq 0..(SeqWrap - 1),
         \A i \in DOMAIN sock'[Peer] :
           AtPeerAfter(sock'[Peer][i]) \/ \E j \in DOMAIN sock[Peer] : sock'[Peer][i] = sock[Peer][j],
         \A i \in DOMAIN sock'[Me] :
           HonestAfter(sock'[Me][i]) \/ \E j \in DOMAIN sock[Me] : sock'[Me][i] = sock[Me][j],
         \A pk \in confirmed' :
           pk \in confirmed \/ (pk \in Packet /\ given[pk] # 0 /\ (Arrived(given[pk]) \/ given[pk] \in stray))
  PROVE  FramesOK'
<1>1. delivered \in [Packet -> Nat] /\ confirmed \subseteq Packet
  BY DEF FramesOK
<1>2. \A i \in DOMAIN sock'[Peer] : AtPeerAfter(sock'[Peer][i])
  BY <1>1, StaysTrue DEF FramesOK
<1>3. \A i \in DOMAIN sock'[Me] : HonestAfter(sock'[Me][i])
  BY <1>1, StaysTrue DEF FramesOK
<1>4. ASSUME NEW pk \in confirmed'
      PROVE  /\ pk \in Packet /\ given'[pk] # 0
             /\ given'[pk] \in stray' \/ \E q \in Packet : given'[q] = given'[pk] /\ delivered'[q] > 0
  <2>1. pk \in Packet /\ given[pk] # 0 /\ (Arrived(given[pk]) \/ given[pk] \in stray)
    BY <1>1, <1>4 DEF FramesOK, ConfirmedDelivered, Arrived
  <2>2. given'[pk] = given[pk]
    BY <2>1 DEF Kept
  <2>3. ArrivedAfter(given[pk]) \/ given[pk] \in stray'
    BY <1>1, <2>1, StaysTrue DEF Kept
  <2> QED
    BY <2>1, <2>2, <2>3 DEF ArrivedAfter
<1>5. Mine(sending)' /\ \A i \in DOMAIN sock'[Peer] : AtPeer(sock[Peer][i])'
  BY <1>2 DEF Mine, MineAfter, AtPeer, AtPeerAfter
<1>6. Honest(radio_rx)' /\ \A i \in DOMAIN sock'[Me] : Honest(sock[Me][i])'
  BY <1>3 DEF Honest, Arrived, HonestAfter, ArrivedAfter
<1>7. confirmed' \subseteq Packet /\ (\A pk \in confirmed' : given'[pk] # 0) /\ ConfirmedDelivered'
  BY <1>4 DEF ConfirmedDelivered
<1> QED
  BY <1>5, <1>6, <1>7 DEF FramesOK, Kept, Sockets

(* The frame a neighbor's timer sends carries the first packet of its queue. *)
LEMMA FrameMine ==
  ASSUME IInv, Numbered, NEW n \in Neighbor, packet_queue[n] # <<>>
  PROVE  /\ Frame(n) \in Frames /\ Mine(Frame(n)) /\ Frame(n).type = "data"
         /\ Frame(n).pk \in Packet
<1> DEFINE e == packet_queue[n][1]
<1>1. packet_queue \in [Neighbor -> Seq(Entry)] /\ addr[n] \in Addr
  BY DEF IInv, QueueTypes
<1>2. Sought(n) = 1
  BY <1>1, SoughtFirst
<1>3. e \in Entry /\ 1 \in DOMAIN packet_queue[n]
  BY <1>1
<1>4. e.pk \in Packet /\ e.seqno \in 1..(SeqWrap - 1) /\ e.seqno \in 0..(SeqWrap - 1) /\ e.seqno # 0
  BY <1>3, CsmaAssumption DEF Entry
<1>5. e.seqno = given[e.pk]
  BY <1>3 DEF Numbered
<1>6. Frame(n) = Data(Me, addr[n], e.seqno, e.pk)
  BY <1>2 DEF Frame
<1> HIDE DEF e
<1>7. /\ Frame(n) \in Frames /\ Frame(n).type = "data" /\ Frame(n).src = Me
      /\ Frame(n).dsn = e.seqno /\ Frame(n).pk = e.pk
  <2>1. Me \in Senders /\ addr[n] \in Addr \cup ForeignDest /\ e.pk \in Packet \cup {Own}
    BY <1>1, <1>4 DEF Senders
  <2>2. PICK r, d, pk : r = addr[n] /\ d = e.seqno /\ pk = e.pk
    OBVIOUS
  <2>3. /\ r \in Addr \cup ForeignDest /\ pk \in Packet \cup {Own}
        /\ d \in 0..(SeqWrap - 1)
    BY <1>4, <2>1, <2>2
  <2>4. /\ Data(Me, r, d, pk) \in Frames /\ Data(Me, r, d, pk).type = "data"
        /\ Data(Me, r, d, pk).src = Me /\ Data(Me, r, d, pk).dsn = d /\ Data(Me, r, d, pk).pk = pk
    BY <2>1, <2>3, DataFrame
  <2> QED
    BY <1>6, <2>2, <2>4
<1> QED
  BY <1>4, <1>5, <1>7 DEF Mine

(* An acknowledgement of the seqno in sending stands for a packet with this *)
(* seqno, or for a frame of another node.                                   *)
LEMMA ConfirmsSent ==
  ASSUME FramesOK, sending.type = "data", radio_rx = Ack(sending.dsn)
  PROVE  /\ sending.pk \in Packet /\ given[sending.pk] # 0
         /\ Arrived(given[sending.pk]) \/ given[sending.pk] \in stray
<1>1. sending.pk \in Packet /\ sending.dsn = given[sending.pk] /\ given[sending.pk] # 0
  BY DEF FramesOK, Mine
<1>2. radio_rx.type = "ack" /\ radio_rx.dsn = given[sending.pk]
  BY <1>1 DEF Ack
<1> QED
  BY <1>1, <1>2 DEF FramesOK, Honest

(* What Peer acknowledges it has passed up, now or before.                  *)
LEMMA AcksArrived ==
  ASSUME FramesOK, TableOK, Kept, NEW f, f \in Frames, Mine(f), NEW socks, Handle(f, socks),
         f.type = "data", f.dst = Peer
  PROVE  ArrivedAfter(f.dsn)
<1>1. f.src = Me /\ f.pk \in Packet /\ f.dsn = given[f.pk] /\ given[f.pk] # 0 /\ given'[f.pk] = given[f.pk]
  BY DEF Mine, Kept
<1>2. CASE PassedUp(Peer, f)
  <2>1. delivered'[f.pk] > 0
    BY <1>1, <1>2, HandleDelivers DEF FramesOK
  <2> QED
    BY <1>1, <2>1 DEF ArrivedAfter
<1>3. CASE ~PassedUp(Peer, f)
  <2>1. PICK i \in DOMAIN received_seqnos[Peer] :
          received_seqnos[Peer][i].sender = f.src /\ received_seqnos[Peer][i].seqno = f.dsn
    BY <1>3 DEF PassedUp, ForNode, mac_sequence_is_duplicate
  <2>2. Arrived(f.dsn)
    BY <1>1, <2>1 DEF TableOK
  <2> QED
    BY <2>2, StaysTrue DEF FramesOK
<1> QED
  BY <1>2, <1>3

(* unix_radio_process moves one frame out of the socket and may send one.   *)
LEMMA UpdateFrames ==
  ASSUME FramesOK, Kept, NEW l \in BOOLEAN, unix_process_update(l)
  PROVE  FramesOK'
<1> DEFINE rest == IF sock[Me] # <<>> THEN [sock EXCEPT ![Me] = Tail(@)] ELSE sock
<1>1. /\ radio_rx' = IF sock[Me] # <<>> THEN Head(sock[Me]) ELSE radio_rx
      /\ sock' = rest \/ sock' \in Sent(rest, Me, sending)
      /\ UNCHANGED <<sending, confirmed, stray>>
  BY DEF unix_process_update, unix_radio_process, peervars
<1>2. /\ sock \in Sockets /\ delivered \in [Packet -> Nat]
      /\ sending \in Frames /\ stray \subseteq 0..(SeqWrap - 1)
  BY DEF FramesOK, Sockets
<1>3. /\ rest \in Sockets
      /\ OnlyFrom(rest, sock)
      /\ radio_rx' \in Frames /\ Honest(radio_rx')
  <2>1. CASE sock[Me] = <<>>
    BY <1>1, <1>2, <2>1 DEF FramesOK, OnlyFrom
  <2>2. CASE sock[Me] # <<>>
    <3>1. PICK s : s = [sock EXCEPT ![Me] = Tail(@)]
      OBVIOUS
    <3>2. /\ s \in Sockets
          /\ Head(sock[Me]) \in Frames /\ 1 \in DOMAIN sock[Me] /\ Head(sock[Me]) = sock[Me][1]
          /\ OnlyFrom(s, sock)
      BY <1>2, <2>2, <3>1, TakenFrame
    <3>3. rest = s
      BY <2>2, <3>1
    <3>4. radio_rx' = sock[Me][1]
      BY <1>1, <2>2, <3>2
    <3> QED
      BY <3>2, <3>3, <3>4 DEF FramesOK
  <2> QED
    BY <2>1, <2>2
<1> HIDE DEF rest
<1>4. PICK s : s = sock'
  OBVIOUS
<1>5. /\ s \in Sockets
      /\ OnlyFromAnd(s, rest, Me, sending)
  <2>1. CASE s = rest
    BY <1>3, <2>1 DEF OnlyFromAnd
  <2>2. CASE s \in Sent(rest, Me, sending)
    <3>1. PICK r, f : r = rest /\ f = sending
      OBVIOUS
    <3> QED
      BY <1>2, <1>3, <2>2, <3>1, SentFrames
  <2> QED
    BY <1>1, <1>4, <2>1, <2>2
<1>6. Me # Peer /\ MineAfter(sending') /\ HonestAfter(radio_rx')
  BY <1>1, <1>2, <1>3, StaysTrue, LinkAssumption DEF FramesOK
<1>7. \A i \in DOMAIN sock'[Peer] :
        AtPeerAfter(sock'[Peer][i]) \/ \E j \in DOMAIN sock[Peer] : sock'[Peer][i] = sock[Peer][j]
  BY <1>1, <1>3, <1>4, <1>5, <1>6 DEF OnlyFrom, OnlyFromAnd, AtPeerAfter
<1>8. \A i \in DOMAIN sock'[Me] : \E j \in DOMAIN sock[Me] : sock'[Me][i] = sock[Me][j]
  BY <1>3, <1>4, <1>5, <1>6 DEF OnlyFrom, OnlyFromAnd
<1> QED
  BY <1>1, <1>2, <1>3, <1>4, <1>5, <1>6, <1>7, <1>8, FramesKept

(* Peer handles a frame, and its acknowledgement is sent or lost.           *)
LEMMA HandleFrames ==
  ASSUME FramesOK, TableOK, Kept, NEW f \in Frames, NEW socks \in Sockets,
         AtPeer(f),
         OnlyFrom(socks, sock),
         Handle(f, socks), UNCHANGED <<sending, radio_rx, confirmed>>
  PROVE  FramesOK'
<1>1. /\ delivered \in [Packet -> Nat] /\ sending \in Frames /\ radio_rx \in Frames
      /\ stray \subseteq 0..(SeqWrap - 1)
  BY DEF FramesOK
<1>2. MineAfter(sending') /\ HonestAfter(radio_rx') /\ Me # Peer
  BY <1>1, StaysTrue, LinkAssumption DEF FramesOK
<1>3. PICK s : s = sock'
  OBVIOUS
<1>4. CASE ~SoftAck(Peer, f)
  <2>1. s = socks /\ UNCHANGED stray
    BY <1>3, <1>4 DEF Handle
  <2> QED
    BY <1>1, <1>2, <1>3, <2>1, FramesKept DEF OnlyFrom
<1>5. CASE SoftAck(Peer, f)
  <2>1. f.type = "data" /\ f.dst = Peer /\ f.dsn \in 0..(SeqWrap - 1)
    BY <1>5, FrameFacts DEF SoftAck
  <2>2. ArrivedAfter(f.dsn) \/ f.dsn \in stray'
    <3>1. CASE f.src = Me
      BY <2>1, <3>1, AcksArrived DEF AtPeer
    <3>2. CASE f.src # Me
      BY <1>5, <3>2 DEF Handle
    <3> QED
      BY <3>1, <3>2
  <2>10. stray' \subseteq 0..(SeqWrap - 1)
    BY <1>1, <2>1 DEF Handle
  <2>3. PICK a : a = Ack(f.dsn)
    OBVIOUS
  <2>4. a \in Frames /\ a.type = "ack" /\ a.dsn = f.dsn
    BY <2>1, <2>3, FrameFacts
  <2>5. HonestAfter(a)
    BY <2>2, <2>4 DEF HonestAfter
  <2>6. s \in Sent(socks, Peer, a)
    BY <1>3, <1>5, <2>3 DEF Handle
  <2>7. /\ s \in Sockets
        /\ OnlyFromAnd(s, socks, Peer, a)
    BY <2>4, <2>6, SentFrames
  <2>8. \A i \in DOMAIN sock'[Peer] : \E j \in DOMAIN sock[Peer] : sock'[Peer][i] = sock[Peer][j]
    BY <1>2, <1>3, <2>7 DEF OnlyFrom, OnlyFromAnd
  <2>9. \A i \in DOMAIN sock'[Me] :
          HonestAfter(sock'[Me][i]) \/ \E j \in DOMAIN sock[Me] : sock'[Me][i] = sock[Me][j]
    BY <1>3, <2>5, <2>7 DEF OnlyFrom, OnlyFromAnd
  <2> QED
    BY <1>1, <1>2, <1>3, <2>7, <2>8, <2>9, <2>10, FramesKept
<1> QED
  BY <1>4, <1>5

LEMMA FramesInit == LinkInit => FramesOK
<1> SUFFICES ASSUME LinkInit PROVE FramesOK
  OBVIOUS
<1>1. /\ sending = NoFrame /\ radio_rx = NoFrame /\ confirmed = {} /\ stray = {}
      /\ sock = [n \in {Me, Peer} |-> <<>>] /\ delivered = [pk \in Packet |-> 0]
  BY DEF LinkInit
<1>2. sock \in Sockets /\ sock[Me] = <<>> /\ sock[Peer] = <<>>
  BY <1>1 DEF Sockets
<1> QED
  BY <1>1, <1>2, FrameFacts DEF Sockets, FramesOK, Mine, AtPeer, Honest, ConfirmedDelivered

(* Every step keeps the frames, whatever is lost or overwritten.            *)
LEMMA FramesNext ==
  ASSUME IInv, Numbered, FramesOK, TableOK, [LinkNext]_allvars
  PROVE  FramesOK'
<1>1. /\ delivered \in [Packet -> Nat] /\ sending \in Frames /\ radio_rx \in Frames
      /\ sock \in Sockets /\ stray \subseteq 0..(SeqWrap - 1)
  BY DEF FramesOK, Sockets
<1>2. Kept
  BY <1>1, KeptNext
<1>3. /\ MineAfter(sending) /\ HonestAfter(radio_rx)
      /\ NoFrame \in Frames /\ MineAfter(NoFrame) /\ HonestAfter(NoFrame)
  BY <1>1, <1>2, StaysTrue, FrameFacts DEF FramesOK, MineAfter, HonestAfter
<1>4. ASSUME UNCHANGED <<sock, confirmed, stray>>, sending' \in Frames, MineAfter(sending'),
             radio_rx' \in Frames, HonestAfter(radio_rx')
      PROVE  FramesOK'
  BY <1>1, <1>2, <1>4, FramesKept
<1>5. CASE RadioThread
  <2>1. radio_rx' = NoFrame /\ UNCHANGED <<sock, confirmed, stray>>
    BY <1>5 DEF RadioThread, unix_read, peervars
  <2>2. CASE SoftAck(Me, radio_rx)
    <3>1. sending' = Ack(radio_rx.dsn) /\ radio_rx.dsn \in 0..(SeqWrap - 1)
      BY <1>1, <1>5, <2>2, FrameFacts DEF RadioThread, SoftAck
    <3>2. sending' \in Frames /\ sending'.type = "ack"
      BY <3>1, FrameFacts
    <3> QED
      BY <1>3, <1>4, <2>1, <3>2 DEF MineAfter
  <2>3. CASE ~SoftAck(Me, radio_rx)
    BY <1>1, <1>3, <1>4, <1>5, <2>1, <2>3 DEF RadioThread
  <2> QED
    BY <2>2, <2>3
<1>6. CASE RadioThreadEnd
  BY <1>1, <1>3, <1>4, <1>6 DEF RadioThreadEnd, radiovars, peervars
<1>7. ASSUME NEW n \in Neighbor, send_one_packet(n) PROVE FramesOK'
  <2>1. Frame(n) \in Frames /\ Mine(Frame(n))
    BY <1>7, FrameMine DEF send_one_packet
  <2>2. MineAfter(Frame(n))
    BY <1>1, <1>2, <2>1, StaysTrue
  <2> QED
    BY <1>1, <1>3, <1>4, <1>7, <2>1, <2>2 DEF send_one_packet, peervars
<1>8. ASSUME NEW n \in Neighbor, SendEnd(n) PROVE FramesOK'
  <2>1. /\ sending.type = "data" /\ sending' = NoFrame /\ UNCHANGED <<sock, stray>>
        /\ radio_rx' = NoFrame \/ radio_rx' = radio_rx
        /\ confirmed' = IF TxResult = "OK" /\ sending.dst = Peer
                          THEN confirmed \cup {sending.pk} ELSE confirmed
    BY <1>8 DEF SendEnd, unix_read, peervars
  <2>2. TxResult = "OK" /\ sending.dst = Peer => radio_rx = Ack(sending.dsn)
    BY LinkAssumption DEF TxResult
  <2>3. \A pk \in confirmed' :
          pk \in confirmed \/ (pk \in Packet /\ given[pk] # 0 /\ (Arrived(given[pk]) \/ given[pk] \in stray))
    BY <1>1, <2>1, <2>2, ConfirmsSent
  <2> QED
    BY <1>1, <1>2, <1>3, <2>1, <2>3, FramesKept
<1>9. ASSUME NEW l \in BOOLEAN, unix_process_update(l) PROVE FramesOK'
  BY <1>2, <1>9, UpdateFrames
<1>10. CASE PeerInput
  <2>1. PICK f, socks : f = Head(sock[Peer]) /\ socks = [sock EXCEPT ![Peer] = Tail(@)]
    OBVIOUS
  <2>2. /\ sock[Peer] # <<>> /\ Handle(f, socks) /\ UNCHANGED <<sending, radio_rx, confirmed>>
    BY <1>10, <2>1 DEF PeerInput, radiovars
  <2>3. /\ socks \in Sockets /\ f \in Frames /\ 1 \in DOMAIN sock[Peer]
        /\ f = sock[Peer][1]
        /\ OnlyFrom(socks, sock)
    BY <1>1, <2>1, <2>2, TakenFrame
  <2>4. AtPeer(f)
    BY <2>3 DEF FramesOK
  <2> QED
    BY <1>2, <2>2, <2>3, <2>4, HandleFrames
<1>11. ASSUME NEW from, NEW f \in Frames, NEW s, s = sock', s \in Sent(sock, from, f),
              AtPeer(f), HonestAfter(f), stray' \subseteq 0..(SeqWrap - 1),
              UNCHANGED <<sending, radio_rx, confirmed>>
       PROVE  FramesOK'
  <2>1. s \in Sockets /\ OnlyFromAnd(s, sock, from, f)
    BY <1>1, <1>11, SentFrames
  <2>2. AtPeerAfter(f)
    BY <1>1, <1>2, <1>11, StaysTrue
  <2>3. \A i \in DOMAIN sock'[Peer] :
          AtPeerAfter(sock'[Peer][i]) \/ \E j \in DOMAIN sock[Peer] : sock'[Peer][i] = sock[Peer][j]
    BY <1>11, <2>1, <2>2 DEF OnlyFromAnd
  <2>4. \A i \in DOMAIN sock'[Me] :
          HonestAfter(sock'[Me][i]) \/ \E j \in DOMAIN sock[Me] : sock'[Me][i] = sock[Me][j]
    BY <1>11, <2>1 DEF OnlyFromAnd
  <2> QED
    BY <1>1, <1>2, <1>3, <1>11, <2>1, <2>3, <2>4, FramesKept
<1>12. CASE OthersSend
  <2>1. PICK o \in {Peer} \cup Other, r \in ForeignDest, d \in ForeignSeqno : sock' \in Sent(sock, o, Data(o, r, d, Own))
    BY <1>12 DEF OthersSend
  <2>2. PICK f, s : f = Data(o, r, d, Own) /\ s = sock'
    OBVIOUS
  <2>3. o \in Senders /\ o # Me /\ d \in 0..(SeqWrap - 1)
    BY LinkAssumption DEF Senders
  <2>4. f \in Frames /\ f.type = "data" /\ f.src = o /\ f.pk = Own
    BY <2>2, <2>3, DataFrame
  <2>5. AtPeer(f) /\ HonestAfter(f)
    BY <2>3, <2>4 DEF AtPeer, HonestAfter
  <2>6. UNCHANGED <<sending, radio_rx, confirmed, stray>>
    BY <1>12 DEF OthersSend, radiovars
  <2> QED
    BY <1>1, <1>11, <2>1, <2>2, <2>4, <2>5, <2>6
<1>15. CASE OthersAck
  <2>1. PICK o \in Other, d \in ForeignSeqno : sock' \in Sent(sock, o, Ack(d)) /\ stray' = stray \cup {d}
    BY <1>15 DEF OthersAck
  <2>2. PICK f, s : f = Ack(d) /\ s = sock'
    OBVIOUS
  <2>3. d \in 0..(SeqWrap - 1)
    BY LinkAssumption
  <2>4. f \in Frames /\ f.type = "ack" /\ f.dsn = d
    BY <2>2, <2>3, FrameFacts
  <2>5. AtPeer(f) /\ HonestAfter(f) /\ stray' \subseteq 0..(SeqWrap - 1)
    BY <1>1, <2>1, <2>3, <2>4 DEF AtPeer, Mine, HonestAfter
  <2>6. UNCHANGED <<sending, radio_rx, confirmed>>
    BY <1>15 DEF OthersAck, radiovars
  <2> QED
    BY <1>11, <2>1, <2>2, <2>4, <2>5, <2>6
<1>13. ASSUME NEW pk \in Packet, Submit(pk) PROVE FramesOK'
  BY <1>1, <1>3, <1>4, <1>13 DEF Submit, radiovars, peervars
<1>14. CASE OtherEvent \/ SeqnosAge \/ UNCHANGED allvars
  <2>1. UNCHANGED <<sending, radio_rx, sock, confirmed, stray>>
    BY <1>14 DEF OtherEvent, SeqnosAge, allvars, linkvars, radiovars, peervars
  <2> QED
    BY <1>1, <1>3, <1>4, <2>1
<1> QED
  BY <1>5, <1>6, <1>7, <1>8, <1>9, <1>10, <1>12, <1>13, <1>14, <1>15 DEF LinkNext

-----------------------------------------------------------------------------
(* The seqnos remembered                                                    *)

(* The place overwritten: that of the sender, a free one, or the last.      *)
LEMMA PlaceIs ==
  ASSUME NEW tab \in Seq(Seqnos), Len(tab) <= MAX_SEQNOS, NEW f
  PROVE  /\ Place(tab, f) \in 1..MAX_SEQNOS /\ Place(tab, f) <= Len(tab) + 1
         /\ \/ Place(tab, f) <= Len(tab) /\ tab[Place(tab, f)].sender = f.src
            \/ /\ \A i \in DOMAIN tab : tab[i].sender # f.src
               /\ \/ Place(tab, f) = Len(tab) + 1
                  \/ Place(tab, f) = MAX_SEQNOS /\ Place(tab, f) = Len(tab)
<1>0. PICK n \in Nat : n = Len(tab) /\ n <= MAX_SEQNOS
  OBVIOUS
<1>1. DOMAIN tab = 1..n /\ MAX_SEQNOS \in Nat \ {0}
  BY <1>0, LinkAssumption
<1>2. CASE \E i \in DOMAIN tab : tab[i].sender = f.src
  <2>1. Place(tab, f) \in DOMAIN tab /\ tab[Place(tab, f)].sender = f.src
    <3>1. Place(tab, f) = CHOOSE i \in DOMAIN tab : tab[i].sender = f.src
      BY <1>2 DEF Place
    <3> QED
      BY <1>2, <3>1
  <2> QED
    BY <1>0, <1>1, <2>1
<1>3. CASE ~\E i \in DOMAIN tab : tab[i].sender = f.src
  <2>1. Place(tab, f) = IF n < MAX_SEQNOS THEN n + 1 ELSE MAX_SEQNOS
    BY <1>0, <1>3 DEF Place
  <2>2. \A i \in DOMAIN tab : tab[i].sender # f.src
    BY <1>3
  <2>3. CASE n < MAX_SEQNOS
    BY <1>0, <1>1, <2>1, <2>2, <2>3
  <2>4. CASE n = MAX_SEQNOS
    <3>1. Place(tab, f) = MAX_SEQNOS
      BY <1>1, <2>1, <2>4
    <3> QED
      BY <1>0, <1>1, <2>2, <2>4, <3>1
  <2>5. n < MAX_SEQNOS \/ n = MAX_SEQNOS
    BY <1>0, <1>1
  <2> QED
    BY <2>3, <2>4, <2>5
<1> QED
  BY <1>2, <1>3

\* t is tab after f has been registered at place k
Moved(t, tab, f, k) ==
  /\ t \in Seq(Seqnos)
  /\ Len(t) = IF k <= Len(tab) THEN Len(tab) ELSE k
  /\ Len(t) <= MAX_SEQNOS
  /\ \A i \in 1..Len(t) : t[i] = IF i = 1 THEN Seqno(f) ELSE IF i <= k THEN tab[i - 1] ELSE tab[i]

(* The table keeps its size, and its entries but one.                       *)
LEMMA RegisterMoves ==
  ASSUME NEW tab \in Seq(Seqnos), Len(tab) <= MAX_SEQNOS, NEW f,
         f.src \in Senders, f.dsn \in 0..(SeqWrap - 1)
  PROVE  Moved(mac_sequence_register_seqno(tab, f), tab, f, Place(tab, f))
<1>1. PICK k : k = Place(tab, f)
  OBVIOUS
<1>2. Len(tab) \in Nat /\ MAX_SEQNOS \in Nat \ {0} /\ k \in 1..MAX_SEQNOS /\ k <= Len(tab) + 1
  BY <1>1, PlaceIs, LinkAssumption
<1>3. PICK m \in Nat \ {0} : m = IF k <= Len(tab) THEN Len(tab) ELSE k
  BY <1>2
<1> DEFINE new(i) == IF i = 1 THEN Seqno(f) ELSE IF i <= k THEN tab[i - 1] ELSE tab[i]
           t == [i \in 1..m |-> new(i)]
<1>4. mac_sequence_register_seqno(tab, f) = t
  BY <1>1, <1>3 DEF mac_sequence_register_seqno
<1>5. Seqno(f) \in Seqnos
  BY DEF Seqno, Seqnos
<1>6. ASSUME NEW i \in 1..m PROVE new(i) \in Seqnos
  <2>1. CASE i = 1
    BY <1>5, <2>1
  <2>2. CASE i # 1 /\ i <= k
    <3>1. i - 1 \in 1..Len(tab)
      BY <1>2, <2>2
    <3>2. tab[i - 1] \in Seqnos
      BY <3>1
    <3> QED
      BY <2>2, <3>2
  <2>3. CASE i # 1 /\ ~(i <= k)
    <3>1. i \in 1..Len(tab)
      BY <1>2, <1>3, <2>3
    <3>2. tab[i] \in Seqnos
      BY <3>1
    <3> QED
      BY <2>3, <3>2
  <2> QED
    BY <2>1, <2>2, <2>3
<1> HIDE DEF new
<1>7. t \in Seq(Seqnos) /\ Len(t) = m
  BY <1>6
<1>8. \A i \in 1..m : t[i] = new(i)
  OBVIOUS
<1>9. m <= MAX_SEQNOS
  BY <1>2, <1>3
<1> HIDE DEF t
<1> QED
  BY <1>1, <1>3, <1>4, <1>7, <1>8, <1>9 DEF Moved, new

(* Either node's table keeps its type and its size.                         *)
LEMMA RegisteredTypes ==
  ASSUME TableOK, NEW n \in {Me, Peer}, NEW f \in Frames, received_seqnos' = Registered(n, f)
  PROVE  /\ received_seqnos' \in [{Me, Peer} -> Seq(Seqnos)]
         /\ \A m \in {Me, Peer} : Len(received_seqnos'[m]) <= MAX_SEQNOS
         /\ \A m \in {Me, Peer} : m # n => received_seqnos'[m] = received_seqnos[m]
         /\ ~PassedUp(n, f) => received_seqnos' = received_seqnos
         /\ PassedUp(n, f) => Moved(received_seqnos'[n], received_seqnos[n], f,
                                    Place(received_seqnos[n], f))
<1>1. /\ received_seqnos \in [{Me, Peer} -> Seq(Seqnos)]
      /\ \A m \in {Me, Peer} : Len(received_seqnos[m]) <= MAX_SEQNOS
  BY DEF TableOK
<1>2. CASE ~PassedUp(n, f)
  <2>1. received_seqnos' = received_seqnos
    BY <1>2 DEF Registered, PassedUp
  <2> QED
    BY <1>1, <1>2, <2>1
<1>3. CASE PassedUp(n, f)
  <2>1. PICK tab : tab = received_seqnos[n]
    OBVIOUS
  <2>2. tab \in Seq(Seqnos) /\ Len(tab) <= MAX_SEQNOS
    BY <1>1, <2>1
  <2>3. f.src \in Senders /\ f.dsn \in 0..(SeqWrap - 1)
    BY <1>3, FrameFacts DEF PassedUp, ForNode
  <2>4. PICK t : t = mac_sequence_register_seqno(tab, f)
    OBVIOUS
  <2>5. Moved(t, tab, f, Place(tab, f))
    BY <2>2, <2>3, <2>4, RegisterMoves
  <2>6. received_seqnos' = [received_seqnos EXCEPT ![n] = t]
    BY <1>3, <2>1, <2>4 DEF Registered, PassedUp
  <2>7. received_seqnos'[n] = t /\ \A m \in {Me, Peer} : m # n => received_seqnos'[m] = received_seqnos[m]
    BY <1>1, <2>6
  <2>8. t \in Seq(Seqnos) /\ Len(t) <= MAX_SEQNOS
    BY <2>5 DEF Moved
  <2>9. received_seqnos' \in [{Me, Peer} -> Seq(Seqnos)]
    BY <1>1, <2>6, <2>8
  <2> QED
    BY <1>1, <1>3, <2>1, <2>5, <2>7, <2>8, <2>9
<1> QED
  BY <1>2, <1>3

(* Peer's table after a frame: still one entry per sender, and the entry of *)
(* Me is that of a packet that has arrived.                                 *)
LEMMA HandleTable ==
  ASSUME FramesOK, TableOK, Kept, NEW f \in Frames, AtPeer(f), NEW socks, Handle(f, socks)
  PROVE  TableOK'
<1>1. /\ received_seqnos' \in [{Me, Peer} -> Seq(Seqnos)]
      /\ \A m \in {Me, Peer} : Len(received_seqnos'[m]) <= MAX_SEQNOS
      /\ ~PassedUp(Peer, f) => received_seqnos' = received_seqnos
      /\ PassedUp(Peer, f) => Moved(received_seqnos'[Peer], received_seqnos[Peer], f,
                                    Place(received_seqnos[Peer], f))
  BY RegisteredTypes DEF Handle
<1>2. \A d : Arrived(d) => ArrivedAfter(d)
  BY StaysTrue DEF FramesOK
<1>3. PICK tab, t, k : tab = received_seqnos[Peer] /\ t = received_seqnos'[Peer] /\ k = Place(tab, f)
  OBVIOUS
<1>4. tab \in Seq(Seqnos) /\ Len(tab) <= MAX_SEQNOS
  BY <1>3 DEF TableOK
<1>5. /\ \A i, j \in DOMAIN tab : tab[i].sender = tab[j].sender => i = j
      /\ \A i \in DOMAIN tab : tab[i].sender = Me => Arrived(tab[i].seqno)
  BY <1>3 DEF TableOK
<1>6. /\ \A i, j \in DOMAIN t : t[i].sender = t[j].sender => i = j
      /\ \A i \in DOMAIN t : t[i].sender = Me => ArrivedAfter(t[i].seqno)
  <2>1. CASE ~PassedUp(Peer, f)
    BY <1>1, <1>2, <1>3, <1>5, <2>1
  <2>2. CASE PassedUp(Peer, f)
    <3>1. Moved(t, tab, f, k)
      BY <1>1, <1>3, <2>2
    <3>2. /\ k \in 1..MAX_SEQNOS /\ k <= Len(tab) + 1
          /\ \/ k <= Len(tab) /\ tab[k].sender = f.src
             \/ \A i \in DOMAIN tab : tab[i].sender # f.src
      BY <1>3, <1>4, PlaceIs
    <3>3. /\ Len(tab) \in Nat /\ DOMAIN tab = 1..Len(tab) /\ DOMAIN t = 1..Len(t) /\ Len(t) \in Nat
          /\ MAX_SEQNOS \in Nat \ {0} /\ Len(t) = (IF k <= Len(tab) THEN Len(tab) ELSE k)
      BY <1>4, <3>1, LinkAssumption DEF Moved
    <3> DEFINE from(i) == IF i <= k THEN i - 1 ELSE i
    <3>4. \A i \in 2..Len(t) : from(i) \in DOMAIN tab /\ t[i] = tab[from(i)] /\ from(i) # k
      BY <3>1, <3>2, <3>3 DEF Moved
    <3>5. \A i, j \in 2..Len(t) : from(i) = from(j) => i = j
      BY <3>2, <3>3
    <3> HIDE DEF from
    <3>6. t[1].sender = f.src /\ t[1].seqno = f.dsn /\ 1 \in DOMAIN t
      BY <3>1, <3>2, <3>3 DEF Moved, Seqno
    <3>7. \A i \in 2..Len(t) : t[i].sender # f.src
      BY <1>5, <3>2, <3>3, <3>4
    <3>8. DOMAIN t = {1} \cup 2..Len(t)
      BY <3>3, <3>6
    <3>9. \A i, j \in DOMAIN t : t[i].sender = t[j].sender => i = j
      BY <1>5, <3>4, <3>5, <3>6, <3>7, <3>8
    <3>10. f.src = Me => ArrivedAfter(f.dsn)
      <4> SUFFICES ASSUME f.src = Me PROVE ArrivedAfter(f.dsn)
        OBVIOUS
      <4>1. /\ f.pk \in Packet /\ f.dsn = given[f.pk] /\ given[f.pk] # 0
            /\ given'[f.pk] = given[f.pk]
        BY <2>2 DEF AtPeer, Mine, PassedUp, ForNode, Kept
      <4>2. delivered'[f.pk] > 0
        BY <2>2, <4>1, HandleDelivers DEF FramesOK
      <4> QED
        BY <4>1, <4>2 DEF ArrivedAfter
    <3>11. \A i \in DOMAIN t : t[i].sender = Me => ArrivedAfter(t[i].seqno)
      BY <1>2, <1>5, <3>4, <3>6, <3>8, <3>10
    <3> QED
      BY <3>9, <3>11
  <2> QED
    BY <2>1, <2>2
<1> QED
  BY <1>1, <1>3, <1>6 DEF TableOK, Arrived, ArrivedAfter

(* A packet whose entry is the last of a full table is pushed out by a      *)
(* sender not in it: then MAX_SEQNOS senders have been heard since.         *)
LEMMA PushedOut ==
  ASSUME NEW tab \in Seq(Seqnos), Len(tab) = MAX_SEQNOS, NEW new,
         \A i, j \in DOMAIN tab : tab[i].sender = tab[j].sender => i = j,
         \A i \in DOMAIN tab : tab[i].sender # new,
         NEW S, IsFiniteSet(S), \A j \in 1..(MAX_SEQNOS - 1) : tab[j].sender \in S
  PROVE  Cardinality(S \cup {new}) >= MAX_SEQNOS
<1>1. MAX_SEQNOS \in Nat \ {0} /\ DOMAIN tab = 1..MAX_SEQNOS
  BY LinkAssumption
<1> DEFINE T == S \cup {new}
           g == [j \in 1..MAX_SEQNOS |-> IF j = MAX_SEQNOS THEN new ELSE tab[j].sender]
<1>2. ASSUME NEW j \in 1..MAX_SEQNOS PROVE g[j] \in T
  <2>1. j # MAX_SEQNOS => j \in 1..(MAX_SEQNOS - 1)
    BY <1>1
  <2> QED
    BY <2>1
<1>3. \A i, j \in 1..MAX_SEQNOS : g[i] = g[j] => i = j
  BY <1>1
<1>4. g \in Injection(1..MAX_SEQNOS, T)
  <2>1. g \in [1..MAX_SEQNOS -> T]
    BY <1>2
  <2> HIDE DEF g, T
  <2> QED
    BY <1>3, <2>1 DEF Injection, IsInjective
<1>5. IsFiniteSet(T) /\ Cardinality(T) \in Nat
  BY FS_AddElement, FS_CardinalityType
<1>6. Cardinality(1..MAX_SEQNOS) = MAX_SEQNOS
  BY <1>1, FS_Interval
<1>7. Cardinality(1..MAX_SEQNOS) <= Cardinality(T)
  <2> HIDE DEF g, T
  <2> QED
    BY <1>4, <1>5, FS_Injection
<1> QED
  BY <1>1, <1>5, <1>6, <1>7

(* No sender has two entries; those before the i-th are of senders in S;    *)
(* the entry of Me is such an i-th one and holds seqno d.                   *)
OneEach(tab) == \A i, j \in DOMAIN tab : tab[i].sender = tab[j].sender => i = j
After(tab, i, S) == \A j \in 1..(i - 1) : tab[j].sender \in S
HeldAfter(tab, d, S) ==
  \E m \in DOMAIN tab : tab[m].sender = Me /\ tab[m].seqno = d /\ After(tab, m, S)

(* A frame of another sender moves the entry of Me back or pushes it out.   *)
LEMMA MovedBack ==
  ASSUME NEW tab \in Seq(Seqnos), Len(tab) <= MAX_SEQNOS, NEW t, NEW f, NEW k, k = Place(tab, f),
         Moved(t, tab, f, k), f.src # Me, OneEach(tab),
         NEW S, IsFiniteSet(S), NEW d, NEW i \in DOMAIN tab, tab[i].sender = Me, tab[i].seqno = d,
         After(tab, i, S), NEW R, R = S \cup {f.src}
  PROVE  Cardinality(R) >= MAX_SEQNOS \/ HeldAfter(t, d, R)
<1> USE DEF OneEach, After, HeldAfter
<1>1. /\ k \in 1..MAX_SEQNOS /\ k <= Len(tab) + 1
      /\ \/ k <= Len(tab) /\ tab[k].sender = f.src
         \/ /\ \A j \in DOMAIN tab : tab[j].sender # f.src
            /\ k = Len(tab) + 1 \/ (k = MAX_SEQNOS /\ k = Len(tab))
  BY PlaceIs
<1>2. /\ Len(tab) \in Nat /\ DOMAIN tab = 1..Len(tab) /\ DOMAIN t = 1..Len(t) /\ Len(t) \in Nat
      /\ MAX_SEQNOS \in Nat \ {0} /\ Len(t) = (IF k <= Len(tab) THEN Len(tab) ELSE k)
      /\ t[1] = Seqno(f)
      /\ \A j \in 2..Len(t) : t[j] = IF j <= k THEN tab[j - 1] ELSE tab[j]
  BY <1>1, LinkAssumption DEF Moved
<1>3. t[1].sender = f.src
  BY <1>2 DEF Seqno
<1>4. CASE i < k
  <2>1. i + 1 \in DOMAIN t /\ t[i + 1] = tab[i]
    BY <1>1, <1>2, <1>4
  <2>2. ASSUME NEW j \in 1..((i + 1) - 1) PROVE t[j].sender \in S \cup {f.src}
    <3>1. CASE j = 1
      BY <1>3, <3>1
    <3>2. CASE j # 1
      <4>1. j - 1 \in 1..(i - 1) /\ t[j] = tab[j - 1]
        BY <1>1, <1>2, <1>4, <3>2
      <4> QED
        BY <4>1
    <3> QED
      BY <3>1, <3>2
  <2> QED
    BY <2>1, <2>2
<1>5. CASE i = k
  <2>1. /\ \A j \in DOMAIN tab : tab[j].sender # f.src
        /\ Len(tab) = MAX_SEQNOS /\ i = MAX_SEQNOS
    <3>1. k <= Len(tab) /\ k # Len(tab) + 1
      BY <1>1, <1>2, <1>5
    <3>2. tab[k].sender # f.src
      BY <1>5
    <3> QED
      BY <1>1, <1>5, <3>1, <3>2
  <2>2. PICK new : new = f.src
    OBVIOUS
  <2>3. \A j \in 1..(MAX_SEQNOS - 1) : tab[j].sender \in S
    BY <2>1
  <2>4. Cardinality(S \cup {new}) >= MAX_SEQNOS
    BY <2>1, <2>2, <2>3, PushedOut
  <2> QED
    BY <2>2, <2>4
<1>6. CASE i > k
  <2>1. i \in DOMAIN t /\ t[i] = tab[i]
    BY <1>1, <1>2, <1>6
  <2>2. ASSUME NEW j \in 1..(i - 1) PROVE t[j].sender \in S \cup {f.src}
    <3>1. CASE j = 1
      BY <1>3, <3>1
    <3>2. CASE j # 1 /\ j <= k
      <4>1. j - 1 \in 1..(i - 1) /\ t[j] = tab[j - 1]
        BY <1>1, <1>2, <1>6, <3>2
      <4> QED
        BY <4>1
    <3>3. CASE j # 1 /\ ~(j <= k)
      <4>1. t[j] = tab[j]
        BY <1>1, <1>2, <1>6, <3>3
      <4> QED
        BY <4>1
    <3> QED
      BY <3>1, <3>2, <3>3
  <2> QED
    BY <2>1, <2>2
<1> QED
  BY <1>1, <1>2, <1>4, <1>5, <1>6

(* Peer handles a frame: what it has passed up stays explained.             *)
LEMMA HandleSince ==
  ASSUME FramesOK, TableOK, SinceOK, Kept, NEW f \in Frames, AtPeer(f), NEW socks,
         Handle(f, socks), UNCHANGED given
  PROVE  SinceOK'
<1>1. /\ ~PassedUp(Peer, f) => received_seqnos' = received_seqnos
      /\ PassedUp(Peer, f) => Moved(received_seqnos'[Peer], received_seqnos[Peer], f,
                                    Place(received_seqnos[Peer], f))
  BY RegisteredTypes DEF Handle
<1>2. /\ delivered' \in [Packet -> Nat] /\ delivered \in [Packet -> Nat]
      /\ \A pk \in Packet : delivered'[pk] # delivered[pk] => PassedUp(Peer, f) /\ f.pk = pk
      /\ PassedUp(Peer, f) /\ f.pk \in Packet => delivered'[f.pk] > 0
  BY HandleDelivers DEF FramesOK
<1>3. /\ since \in [Packet -> SUBSET Senders] /\ \A pk \in Packet : IsFiniteSet(since[pk])
  BY DEF SinceOK
<1>4. since' = [pk \in Packet |->
                 IF ~PassedUp(Peer, f) \/ delivered'[pk] = 0 THEN since[pk]
                 ELSE IF f.pk = pk THEN {} ELSE since[pk] \cup {f.src}]
  BY DEF Handle
<1>5. \A pk \in Packet :
        since'[pk] = IF ~PassedUp(Peer, f) \/ delivered'[pk] = 0 THEN since[pk]
                     ELSE IF f.pk = pk THEN {} ELSE since[pk] \cup {f.src}
  BY <1>4
<1>6. PassedUp(Peer, f) => f.type = "data" /\ f.src \in Senders
  BY FrameFacts DEF PassedUp, ForNode
<1>7. ASSUME NEW pk \in Packet PROVE since'[pk] \in SUBSET Senders /\ IsFiniteSet(since'[pk])
  <2>1. IsFiniteSet({}) /\ IsFiniteSet(since[pk] \cup {f.src})
    BY <1>3, FS_EmptySet, FS_AddElement
  <2> QED
    BY <1>3, <1>5, <1>6, <2>1
<1>8. since' \in [Packet -> SUBSET Senders]
  BY <1>4, <1>5, <1>7
<1>9. \A pk \in Packet : PassedUp(Peer, f) /\ f.pk = pk => f.src = Me /\ f.dsn = given[pk] /\ given[pk] # 0
  BY <1>6, LinkAssumption DEF AtPeer, Mine, Own
<1>10. \A pk \in Packet : delivered'[pk] > 0 => given'[pk] # 0
  BY <1>2, <1>9 DEF SinceOK
<1>11. PICK tab, t : tab = received_seqnos[Peer] /\ t = received_seqnos'[Peer]
  OBVIOUS
<1>12. ASSUME NEW pk \in Packet, delivered'[pk] > 0
       PROVE  \/ Me \in since'[pk] \/ Cardinality(since'[pk]) >= MAX_SEQNOS
              \/ \E i \in DOMAIN t : /\ t[i].sender = Me /\ t[i].seqno = given'[pk]
                                     /\ \A j \in 1..(i - 1) : t[j].sender \in since'[pk]
  <2>1. CASE ~PassedUp(Peer, f)
    <3>1. since'[pk] = since[pk] /\ t = tab /\ delivered[pk] > 0
      BY <1>1, <1>2, <1>5, <1>11, <1>12, <2>1
    <3> QED
      BY <1>11, <3>1 DEF SinceOK, Remembered
  <2>2. CASE PassedUp(Peer, f) /\ f.pk = pk
    <3>1. Moved(t, tab, f, Place(tab, f))
      BY <1>1, <1>11, <2>2
    <3>2. tab \in Seq(Seqnos) /\ Len(tab) <= MAX_SEQNOS
      BY <1>11 DEF TableOK
    <3>3. Place(tab, f) \in 1..MAX_SEQNOS /\ MAX_SEQNOS \in Nat /\ Len(tab) \in Nat
      BY <3>2, PlaceIs, LinkAssumption
    <3>4. 1 \in DOMAIN t /\ t[1] = Seqno(f)
      BY <3>1, <3>3 DEF Moved
    <3>5. t[1].sender = Me /\ t[1].seqno = given'[pk]
      BY <1>9, <2>2, <3>4 DEF Seqno
    <3> QED
      BY <3>4, <3>5
  <2>3. CASE PassedUp(Peer, f) /\ f.pk # pk
    <3>1. since'[pk] = since[pk] \cup {f.src} /\ delivered[pk] > 0
      <4>1. delivered'[pk] = delivered[pk] /\ delivered'[pk] # 0
        BY <1>2, <1>12, <2>3
      <4>2. since'[pk] = IF ~PassedUp(Peer, f) \/ delivered'[pk] = 0 THEN since[pk]
                         ELSE IF f.pk = pk THEN {} ELSE since[pk] \cup {f.src}
        BY <1>5
      <4>3. since'[pk] = since[pk] \cup {f.src}
        BY <2>3, <4>1, <4>2
      <4> QED
        BY <1>12, <4>1, <4>3
    <3>2. CASE f.src = Me \/ Me \in since[pk]
      BY <3>1, <3>2
    <3>3. CASE Cardinality(since[pk]) >= MAX_SEQNOS
      <4>1. /\ Cardinality(since[pk]) \in Nat /\ MAX_SEQNOS \in Nat
            /\ Cardinality(since[pk] \cup {f.src}) =
                 IF f.src \in since[pk] THEN Cardinality(since[pk]) ELSE Cardinality(since[pk]) + 1
        BY <1>3, FS_AddElement, FS_CardinalityType, LinkAssumption
      <4> QED
        BY <3>1, <3>3, <4>1
    <3>4. ASSUME Remembered(pk), f.src # Me
          PROVE  \/ Cardinality(since'[pk]) >= MAX_SEQNOS
                 \/ \E i \in DOMAIN t : /\ t[i].sender = Me /\ t[i].seqno = given'[pk]
                                        /\ \A j \in 1..(i - 1) : t[j].sender \in since'[pk]
      <4>1. PICK i \in DOMAIN tab : /\ tab[i].sender = Me /\ tab[i].seqno = given[pk]
                                    /\ \A j \in 1..(i - 1) : tab[j].sender \in since[pk]
        BY <1>11, <3>4 DEF Remembered
      <4>2. PICK k, S, d, R : /\ k = Place(tab, f) /\ S = since[pk] /\ d = given[pk]
                              /\ R = since[pk] \cup {f.src}
        OBVIOUS
      <4>3. Moved(t, tab, f, k)
        BY <1>1, <1>11, <2>3, <4>2
      <4>4. tab \in Seq(Seqnos) /\ Len(tab) <= MAX_SEQNOS /\ OneEach(tab)
        BY <1>11 DEF TableOK, OneEach
      <4>5. /\ IsFiniteSet(S) /\ tab[i].sender = Me /\ tab[i].seqno = d /\ After(tab, i, S)
            /\ k = Place(tab, f) /\ f.src # Me /\ R = S \cup {f.src}
        BY <1>3, <3>4, <4>1, <4>2 DEF After
      <4>6. Cardinality(R) >= MAX_SEQNOS \/ HeldAfter(t, d, R)
        BY <4>3, <4>4, <4>5, MovedBack
      <4>7. since'[pk] = R /\ given'[pk] = d
        BY <3>1, <4>2
      <4> QED
        BY <4>6, <4>7 DEF HeldAfter, After
    <3> QED
      BY <3>1, <3>2, <3>3, <3>4 DEF SinceOK
  <2> QED
    BY <2>1, <2>2, <2>3
<1> QED
  BY <1>7, <1>8, <1>10, <1>11, <1>12 DEF SinceOK, Remembered

LEMMA TableInit == LinkInit => TableOK /\ SinceOK
<1> SUFFICES ASSUME LinkInit PROVE TableOK /\ SinceOK
  OBVIOUS
<1>1. /\ received_seqnos = [n \in {Me, Peer} |-> <<>>]
      /\ delivered = [pk \in Packet |-> 0] /\ since = [pk \in Packet |-> {}]
  BY DEF LinkInit
<1>2. /\ received_seqnos \in [{Me, Peer} -> Seq(Seqnos)]
      /\ \A n \in {Me, Peer} : received_seqnos[n] = <<>>
  BY <1>1
<1>3. TableOK
  BY <1>2, LinkAssumption DEF TableOK
<1>4. SinceOK
  BY <1>1, FS_EmptySet DEF SinceOK
<1> QED
  BY <1>3, <1>4

(* A step that leaves Peer's table as it is, whatever is submitted.         *)
LEMMA TableKept ==
  ASSUME FramesOK, TableOK, SinceOK, Kept, UNCHANGED <<delivered, since>>,
         received_seqnos' \in [{Me, Peer} -> Seq(Seqnos)],
         \A n \in {Me, Peer} : Len(received_seqnos'[n]) <= MAX_SEQNOS,
         DOMAIN received_seqnos'[Peer] = DOMAIN received_seqnos[Peer],
         \A i \in DOMAIN received_seqnos[Peer] :
           /\ received_seqnos'[Peer][i].sender = received_seqnos[Peer][i].sender
           /\ received_seqnos'[Peer][i].seqno = received_seqnos[Peer][i].seqno
  PROVE  TableOK' /\ SinceOK'
<1>1. \A d : Arrived(d) => ArrivedAfter(d)
  BY StaysTrue DEF FramesOK
<1>2. \A i \in DOMAIN received_seqnos'[Peer] :
        received_seqnos'[Peer][i].sender = Me => ArrivedAfter(received_seqnos'[Peer][i].seqno)
  BY <1>1 DEF TableOK
<1>3. TableOK'
  BY <1>2 DEF TableOK, Arrived, ArrivedAfter
<1>4. ASSUME NEW pk \in Packet, delivered[pk] > 0, Remembered(pk) PROVE Remembered(pk)'
  <2>1. given'[pk] = given[pk]
    BY <1>4 DEF SinceOK, Kept
  <2>2. PICK i \in DOMAIN received_seqnos[Peer] :
          /\ received_seqnos[Peer][i].sender = Me /\ received_seqnos[Peer][i].seqno = given[pk]
          /\ \A j \in 1..(i - 1) : received_seqnos[Peer][j].sender \in since[pk]
    BY <1>4 DEF Remembered
  <2>3. \A j \in 1..(i - 1) : j \in DOMAIN received_seqnos[Peer]
    <3>1. received_seqnos[Peer] \in Seq(Seqnos)
      BY DEF TableOK
    <3>2. DOMAIN received_seqnos[Peer] = 1..Len(received_seqnos[Peer]) /\ Len(received_seqnos[Peer]) \in Nat
      BY <3>1
    <3> QED
      BY <3>2
  <2> QED
    BY <2>1, <2>2, <2>3 DEF Remembered
<1>5. SinceOK'
  BY <1>4 DEF SinceOK, Kept
<1> QED
  BY <1>3, <1>5

(* Every step keeps what is known of Peer's table.                          *)
LEMMA TableNext ==
  ASSUME IInv, Numbered, FramesOK, TableOK, SinceOK, [LinkNext]_allvars
  PROVE  TableOK' /\ SinceOK'
<1>1. /\ delivered \in [Packet -> Nat] /\ radio_rx \in Frames
      /\ sock \in Sockets
  BY DEF FramesOK, Sockets
<1>2. Kept
  BY <1>1, KeptNext
<1>3. CASE UNCHANGED <<received_seqnos, delivered, since>>
  BY <1>2, <1>3, TableKept DEF TableOK
<1>4. CASE RadioThread
  <2>1. received_seqnos' = Registered(Me, radio_rx) /\ UNCHANGED <<delivered, since>>
    BY <1>4 DEF RadioThread, peervars
  <2>2. /\ received_seqnos' \in [{Me, Peer} -> Seq(Seqnos)]
        /\ \A m \in {Me, Peer} : Len(received_seqnos'[m]) <= MAX_SEQNOS
        /\ received_seqnos'[Peer] = received_seqnos[Peer]
    BY <1>1, <2>1, RegisteredTypes, LinkAssumption
  <2> QED
    BY <1>2, <2>1, <2>2, TableKept
<1>5. CASE SeqnosAge
  <2>1. PICK tab : tab = received_seqnos[Peer]
    OBVIOUS
  <2>2. PICK k \in DOMAIN tab :
          received_seqnos' = [received_seqnos EXCEPT ![Peer] =
            [i \in DOMAIN tab |-> IF i >= k THEN [tab[i] EXCEPT !.old = TRUE] ELSE tab[i]]]
    BY <1>5, <2>1 DEF SeqnosAge
  <2>3. tab \in Seq(Seqnos) /\ Len(tab) <= MAX_SEQNOS /\ received_seqnos \in [{Me, Peer} -> Seq(Seqnos)]
    BY <2>1 DEF TableOK
  <2>4. Len(tab) \in Nat /\ DOMAIN tab = 1..Len(tab) /\ \A i \in DOMAIN tab : tab[i] \in Seqnos
    BY <2>3
  <2> DEFINE aged(i) == IF i >= k THEN [tab[i] EXCEPT !.old = TRUE] ELSE tab[i]
             t == [i \in DOMAIN tab |-> aged(i)]
  <2>5. ASSUME NEW i \in DOMAIN tab
        PROVE  aged(i) \in Seqnos /\ aged(i).sender = tab[i].sender /\ aged(i).seqno = tab[i].seqno
    BY <2>4 DEF Seqnos
  <2> HIDE DEF aged
  <2>6. t \in Seq(Seqnos) /\ Len(t) = Len(tab) /\ DOMAIN t = DOMAIN tab
    BY <2>4, <2>5
  <2>7. \A i \in DOMAIN tab : t[i].sender = tab[i].sender /\ t[i].seqno = tab[i].seqno
    BY <2>5
  <2>8. received_seqnos' = [received_seqnos EXCEPT ![Peer] = t]
    BY <2>2 DEF aged
  <2> HIDE DEF t
  <2>9. /\ received_seqnos' \in [{Me, Peer} -> Seq(Seqnos)]
        /\ received_seqnos'[Peer] = t /\ received_seqnos'[Me] = received_seqnos[Me]
    BY <2>3, <2>6, <2>8, LinkAssumption
  <2>10. \A n \in {Me, Peer} : Len(received_seqnos'[n]) <= MAX_SEQNOS
    BY <2>3, <2>6, <2>9 DEF TableOK
  <2>11. UNCHANGED <<delivered, since>>
    BY <1>5 DEF SeqnosAge, peervars
  <2> QED
    BY <1>2, <2>1, <2>6, <2>7, <2>9, <2>10, <2>11, TableKept
<1>6. CASE PeerInput
  <2>1. PICK f, socks : f = Head(sock[Peer]) /\ socks = [sock EXCEPT ![Peer] = Tail(@)]
    OBVIOUS
  <2>2. /\ sock[Peer] # <<>> /\ Handle(f, socks) /\ UNCHANGED given
    BY <1>6, <2>1 DEF PeerInput
  <2>3. f \in Frames /\ 1 \in DOMAIN sock[Peer] /\ f = sock[Peer][1]
    BY <1>1, <2>1, <2>2, TakenFrame
  <2>4. AtPeer(f)
    BY <2>3 DEF FramesOK
  <2> QED
    BY <1>2, <2>2, <2>3, <2>4, HandleTable, HandleSince
<1>8. ASSUME NEW n \in Neighbor, send_one_packet(n) \/ SendEnd(n)
      PROVE  UNCHANGED <<received_seqnos, delivered, since>>
  BY <1>8 DEF send_one_packet, SendEnd, peervars
<1>9. ASSUME NEW pk \in Packet, Submit(pk) PROVE UNCHANGED <<received_seqnos, delivered, since>>
  BY <1>9 DEF Submit, peervars
<1>10. CASE RadioThreadEnd \/ OtherEvent \/ OthersSend \/ OthersAck \/ UNCHANGED allvars
            \/ \E l \in BOOLEAN : unix_process_update(l)
  <2>1. UNCHANGED <<received_seqnos, delivered, since>>
    BY <1>10 DEF RadioThreadEnd, OtherEvent, OthersSend, OthersAck, unix_process_update,
                 allvars, linkvars, peervars
  <2> QED
    BY <1>3, <2>1
<1> QED
  BY <1>3, <1>4, <1>5, <1>6, <1>8, <1>9, <1>10 DEF LinkNext
-----------------------------------------------------------------------------
(* The invariant of the link, for every number of packets, every pool and   *)
(* every table size.                                                        *)
THEOREM LinkInvariance == LinkSpec => [](IInv /\ LinkInv)
<1>1. LinkInit => IInv /\ LinkInv
  BY InitIInv, RadioPhaseInit, NumberedInit, FramesInit, TableInit DEF LinkInit, LinkInv
<1>2. IInv /\ LinkInv /\ [LinkNext]_allvars => (IInv /\ LinkInv)'
  BY LinkStep, NextIInv, RadioPhaseNext, NumberedNext, FramesNext, TableNext DEF LinkInv
<1> QED
  BY <1>1, <1>2, PTL DEF LinkSpec, allvars

(* For a unicast reported as MAC_TX_OK the peer has passed up a packet with *)
(* its seqno, unless this seqno has been acknowledged to another node: for  *)
(* any number of packets, of nodes in reach and of frames they send, and    *)
(* although acknowledgements name no node, arrive late, and are taken from  *)
(* a buffer that is overwritten.                                            *)
THEOREM Confirmed == LinkSpec => []ConfirmedDelivered
<1>1. LinkInv => ConfirmedDelivered
  BY DEF LinkInv, FramesOK
<1> QED
  BY <1>1, LinkInvariance, PTL

(* A packet is passed up again only for one of the reasons the size and the *)
(* age of the peer's table leave.                                           *)
THEOREM Explained == LinkSpec => DuplicateExplained
<1> DEFINE Reason(pk) ==
             \/ delivered[pk] = 0
             \/ Me \in since[pk]
             \/ Cardinality(since[pk]) >= MAX_SEQNOS
             \/ \E i \in DOMAIN received_seqnos[Peer] :
                  received_seqnos[Peer][i].sender = Me /\ received_seqnos[Peer][i].old
<1>1. ASSUME IInv, LinkInv, [LinkNext]_allvars, NEW pk \in Packet, delivered'[pk] > delivered[pk]
      PROVE  Reason(pk)
  <2>1. /\ delivered \in [Packet -> Nat] /\ sock \in Sockets
    BY <1>1 DEF LinkInv, FramesOK, Sockets
  <2>2. ASSUME NEW f, NEW socks, Handle(f, socks), AtPeer(f)
        PROVE  Reason(pk)
    <3>1. PassedUp(Peer, f) /\ f.pk = pk
      BY <1>1, <2>1, <2>2, HandleDelivers
    <3>2. f.src = Me /\ f.dsn = given[pk]
      BY <2>2, <3>1, LinkAssumption DEF AtPeer, Mine, PassedUp, ForNode, Own
    <3>3. ASSUME Remembered(pk)
          PROVE  \E i \in DOMAIN received_seqnos[Peer] :
                   received_seqnos[Peer][i].sender = Me /\ received_seqnos[Peer][i].old
      BY <3>1, <3>2, <3>3 DEF Remembered, PassedUp, mac_sequence_is_duplicate
    <3>4. delivered[pk] # 0 => delivered[pk] > 0
      BY <2>1
    <3> QED
      BY <1>1, <3>3, <3>4 DEF LinkInv, SinceOK
  <2>3. CASE PeerInput
    <3>1. PICK f, socks : f = Head(sock[Peer]) /\ socks = [sock EXCEPT ![Peer] = Tail(@)]
      OBVIOUS
    <3>2. sock[Peer] # <<>> /\ Handle(f, socks)
      BY <2>3, <3>1 DEF PeerInput
    <3>3. 1 \in DOMAIN sock[Peer] /\ f = sock[Peer][1]
      BY <2>1, <3>1, <3>2, TakenFrame
    <3>4. AtPeer(f)
      BY <1>1, <3>3 DEF LinkInv, FramesOK
    <3> QED
      BY <2>2, <3>2, <3>4
  <2>5. ASSUME NEW n \in Neighbor, send_one_packet(n) \/ SendEnd(n) PROVE UNCHANGED delivered
    BY <2>5 DEF send_one_packet, SendEnd, peervars
  <2>6. ASSUME NEW p \in Packet, Submit(p) PROVE UNCHANGED delivered
    BY <2>6 DEF Submit, peervars
  <2>7. CASE \/ RadioThread \/ RadioThreadEnd \/ OtherEvent \/ OthersSend \/ OthersAck \/ SeqnosAge
             \/ UNCHANGED allvars \/ \E l \in BOOLEAN : unix_process_update(l)
    <3>1. UNCHANGED delivered
      BY <2>7 DEF RadioThread, RadioThreadEnd, OtherEvent, OthersSend, OthersAck, SeqnosAge,
                  unix_process_update, allvars, linkvars, peervars
    <3> QED
      BY <1>1, <2>1, <3>1
  <2>8. ~UNCHANGED delivered
    BY <1>1, <2>1
  <2> QED
    BY <1>1, <2>3, <2>5, <2>6, <2>7, <2>8 DEF LinkNext
<1>2. IInv /\ LinkInv /\ [LinkNext]_allvars =>
        [\A pk \in Packet : delivered'[pk] > delivered[pk] => Reason(pk)]_allvars
  BY <1>1
<1> QED
  BY <1>2, LinkInvariance, PTL DEF LinkSpec, DuplicateExplained, allvars

-----------------------------------------------------------------------------
(* The counter of unread frames                                             *)

DataAt(s) == {i \in DOMAIN s : s[i].type = "data"}
DataIn(s) == Cardinality(DataAt(s))
IsData(f) == IF f.type = "data" THEN 1 ELSE 0

LEMMA DataFinite ==
  ASSUME NEW s \in Seq(Frames)
  PROVE  IsFiniteSet(DataAt(s)) /\ DataIn(s) \in Nat
<1>1. Len(s) \in Nat /\ DataAt(s) \subseteq 1..Len(s)
  BY DEF DataAt
<1>2. IsFiniteSet(1..Len(s))
  BY <1>1, FS_Interval
<1> QED BY <1>1, <1>2, FS_Subset, FS_CardinalityType DEF DataIn

(* A frame that is taken from a socket, and one that is put into it.        *)
LEMMA DataTail ==
  ASSUME NEW s \in Seq(Frames), s # <<>>
  PROVE  /\ Tail(s) \in Seq(Frames) /\ DataIn(Tail(s)) \in Nat /\ DataIn(s) \in Nat
         /\ DataIn(Tail(s)) + IsData(Head(s)) <= DataIn(s)
<1>1. PICK t : t = Tail(s) /\ t \in Seq(Frames)
  <2>1. Tail(s) \in Seq(Frames)
    OBVIOUS
  <2> QED BY <2>1
<1>2. PICK n \in Nat : n = Len(s) /\ n > 0
  OBVIOUS
<1>3. /\ DOMAIN s = 1..n /\ DOMAIN t = 1..(n - 1) /\ \A i \in 1..(n - 1) : t[i] = s[i + 1]
      /\ Head(s) = s[1]
  BY <1>1, <1>2
<1>4. PICK T, S : T = DataAt(t) /\ S = DataAt(s) \ {1}
  OBVIOUS
<1>5. T \subseteq 1..(n - 1) /\ \A i \in T : i + 1 \in S
  <2>1. \A i \in T : i \in 1..(n - 1) /\ t[i].type = "data"
    BY <1>3, <1>4 DEF DataAt
  <2>2. \A i \in T : i \in Nat \ {0} /\ i + 1 \in 1..n /\ i + 1 # 1 /\ s[i + 1].type = "data"
    BY <1>2, <1>3, <2>1
  <2> QED BY <1>3, <1>4, <2>1, <2>2 DEF DataAt
<1>6. PICK g : g = [i \in T |-> i + 1]
  OBVIOUS
<1>7. g \in Injection(T, S)
  <2>1. g \in [T -> S]
    BY <1>5, <1>6
  <2>2. \A a, b \in T : g[a] = g[b] => a = b
    <3>1. \A a \in T : a \in Nat /\ g[a] = a + 1
      BY <1>2, <1>5, <1>6
    <3> QED BY <3>1
  <2> QED BY <2>1, <2>2 DEF Injection, IsInjective
<1>8. /\ IsFiniteSet(DataAt(s)) /\ DataIn(s) \in Nat /\ IsFiniteSet(T) /\ DataIn(t) = Cardinality(T)
      /\ DataIn(t) \in Nat
  BY <1>1, <1>4, DataFinite DEF DataIn
<1>9. IsFiniteSet(S) /\ Cardinality(S) = DataIn(s) - IsData(Head(s))
  <2>1. 1 \in DataAt(s) <=> Head(s).type = "data"
    BY <1>2, <1>3 DEF DataAt
  <2> QED BY <1>4, <1>8, <2>1, FS_RemoveElement DEF DataIn, IsData
<1>10. Cardinality(T) <= Cardinality(S)
  BY <1>7, <1>8, <1>9, FS_Injection
<1> QED BY <1>1, <1>8, <1>9, <1>10 DEF IsData

LEMMA DataAppend ==
  ASSUME NEW s \in Seq(Frames), NEW f \in Frames
  PROVE  /\ Append(s, f) \in Seq(Frames) /\ DataIn(Append(s, f)) \in Nat /\ DataIn(s) \in Nat
         /\ DataIn(Append(s, f)) <= DataIn(s) + IsData(f)
<1>1. PICK t : t = Append(s, f) /\ t \in Seq(Frames)
  <2>1. Append(s, f) \in Seq(Frames)
    OBVIOUS
  <2> QED BY <2>1
<1>2. PICK n \in Nat : n = Len(s)
  OBVIOUS
<1>3. DOMAIN s = 1..n /\ DOMAIN t = 1..(n + 1) /\ (\A i \in 1..n : t[i] = s[i]) /\ t[n + 1] = f
  BY <1>1, <1>2
<1>4. PICK S, T : S = DataAt(s) /\ T = DataAt(t)
  OBVIOUS
<1>5. /\ IsFiniteSet(S) /\ IsFiniteSet(T) /\ Cardinality(S) = DataIn(s) /\ Cardinality(T) = DataIn(t)
      /\ DataIn(s) \in Nat /\ DataIn(t) \in Nat
  BY <1>1, <1>4, DataFinite DEF DataIn
<1>6. T \subseteq S \cup {n + 1} /\ (f.type # "data" => T \subseteq S)
  <2>1. \A i \in 1..(n + 1) : i \in 1..n \/ i = n + 1
    BY <1>2
  <2> QED BY <1>3, <1>4, <2>1 DEF DataAt
<1>7. CASE f.type = "data"
  <2>1. n + 1 \notin S
    BY <1>2, <1>3, <1>4 DEF DataAt
  <2>2. IsFiniteSet(S \cup {n + 1}) /\ Cardinality(S \cup {n + 1}) = Cardinality(S) + 1
    BY <1>5, <2>1, FS_AddElement
  <2>3. Cardinality(T) <= Cardinality(S \cup {n + 1})
    BY <1>6, <2>2, FS_Subset
  <2> QED BY <1>1, <1>5, <1>7, <2>2, <2>3 DEF IsData
<1>8. CASE f.type # "data"
  <2>1. Cardinality(T) <= Cardinality(S)
    BY <1>5, <1>6, <1>8, FS_Subset
  <2> QED BY <1>1, <1>5, <1>8, <2>1 DEF IsData
<1> QED BY <1>7, <1>8

(* When the thread has been polled: between the main loop's pass and        *)
(* process_run, or at the end of a transmission.                            *)
Polled ==
  /\ loop \in {"run", "event", "update"} /\ needspoll \in BOOLEAN
  /\ sending # NoFrame => loop = "event"
  /\ loop = "event" /\ needspoll => AckWanted /\ radio_state = "RECEIVE"

(* A data frame in the buffer has been counted if the thread has been       *)
(* polled; such a one is read before the next pass.  Every frame is either  *)
(* counted, or in the buffer and not counted, or still in the socket.       *)
Uncounted == IF needspoll THEN 0 ELSE IsData(radio_rx)
UnreadCount ==
  /\ radio_rx_pkt_counter \in Nat /\ (needspoll => radio_rx_pkt_counter > 0)
  /\ loop = "update" /\ needspoll => radio_rx.type # "data"
  /\ radio_rx_pkt_counter + Uncounted + DataIn(sock[Me]) <= noise

UnreadOK ==
  /\ Polled /\ noise \in 0..Noise /\ Fits(sock)
  /\ radio_rx_pkt_counter \in -128..127
  /\ noise < 128 => UnreadCount

LEMMA Int8Range ==
  ASSUME NEW n \in Int
  PROVE  Int8(n) \in -128..127 /\ (n \in -128..127 => Int8(n) = n)
<1>1. PICK m \in Int : m = n + 128
  OBVIOUS
<1>2. m % 256 \in 0..255 /\ (m \in 0..255 => m % 256 = m)
  BY Z3
<1> QED BY <1>1, <1>2 DEF Int8

(* One pass of unix_radio_process, in the main loop or in a transmission.   *)
LEMMA UpdateUnread ==
  ASSUME RadioPhase, FramesOK, UnreadOK, NEW l \in BOOLEAN, unix_process_update(l)
  PROVE  UnreadOK'
<1> DEFINE rx == IF sock[Me] # <<>> THEN Head(sock[Me]) ELSE radio_rx
           acked == radio_is_ack_received \/ (rx.type = "ack" /\ radio_ack_wait)
           done == WaitDone(acked, l)
           data == rx.type = "data" /\ (radio_state = "RECEIVE" \/ done) /\ ~acked
           rest == IF sock[Me] # <<>> THEN [sock EXCEPT ![Me] = Tail(@)] ELSE sock
<1>1. /\ l => radio_ack_wait
      /\ radio_rx' = rx
      /\ radio_rx_pkt_counter' = IF data THEN Int8(radio_rx_pkt_counter + 1) ELSE radio_rx_pkt_counter
      /\ needspoll' = (needspoll \/ data)
      /\ radio_state' = "RECEIVE" \/ ~done
      /\ sock' = rest \/ sock' \in Sent(rest, Me, sending)
      /\ UNCHANGED <<sending, noise>>
      /\ \/ loop = "update" /\ sending = NoFrame /\ loop' = "run"
         \/ sending # NoFrame /\ radio_state = "TRANSMIT" /\ UNCHANGED loop
  BY DEF unix_process_update, unix_radio_process, peervars
<1>2. PICK s, x : s = sock[Me] /\ s \in Seq(Frames) /\ x = rx
  <2>1. sock[Me] \in Seq(Frames)
    BY DEF FramesOK
  <2> QED BY <2>1
<1>3. PICK r : r = rest /\ r \in Sockets /\ Fits(r) /\ r[Me] = IF s # <<>> THEN Tail(s) ELSE s
  <2>1. PICK socks : socks = sock /\ socks \in Sockets /\ Fits(socks)
    BY DEF FramesOK, Sockets, UnreadOK
  <2>2. CASE s = <<>>
    <3>1. rest = socks /\ socks[Me] = s
      BY <1>2, <2>1, <2>2
    <3> QED BY <2>1, <2>2, <3>1
  <2>3. CASE s # <<>>
    <3>1. PICK r : r = rest /\ r = [socks EXCEPT ![Me] = Tail(@)]
      BY <1>2, <2>1, <2>3
    <3>2. socks[Me] # <<>> /\ Me \in DOMAIN socks /\ socks[Me] = s
      BY <1>2, <2>1, <2>3 DEF Sockets
    <3>3. r \in Sockets /\ Fits(r)
      BY <2>1, <3>1, <3>2, TakenFrame
    <3>4. r[Me] = Tail(s)
      BY <3>1, <3>2
    <3> QED BY <2>3, <3>1, <3>3, <3>4
  <2> QED BY <2>2, <2>3
<1>4. PICK t : /\ t = sock'[Me] /\ t = IF s # <<>> THEN Tail(s) ELSE s
               /\ sock' \in Sockets /\ Fits(sock')
  <2>1. PICK f, u : f = sending /\ u = sock' /\ f \in Frames
    BY DEF FramesOK
  <2>2. u = r \/ u \in Sent(r, Me, f)
    BY <1>1, <1>3, <2>1
  <2>3. u \in Sockets /\ Fits(u)
    BY <1>3, <2>1, <2>2, SentFrames
  <2>4. u[Me] = r[Me]
    <3>1. ASSUME u \in Sent(r, Me, f) PROVE u[Me] = r[Me]
      <4>1. r \in Sockets
        BY <1>3
      <4>2. \A n \in {Me, Peer} : u[n] = r[n] \/ n # Me
        BY <3>1, <4>1, SentTo
      <4> QED BY <4>2
    <3> QED BY <2>2, <3>1
  <2> QED BY <1>3, <2>1, <2>3, <2>4
<1> HIDE DEF rest
<1>5. Polled'
  <2>1. loop' = "event" /\ needspoll' => AckWanted' /\ radio_state' = "RECEIVE"
    <3> SUFFICES ASSUME loop' = "event", needspoll' PROVE AckWanted' /\ radio_state' = "RECEIVE"
      OBVIOUS
    <3>1. sending # NoFrame /\ radio_state = "TRANSMIT" /\ loop = "event"
      BY <1>1
    <3>2. ~needspoll
      BY <3>1 DEF UnreadOK, Polled
    <3>3. done
      BY <1>1, <3>1, <3>2
    <3>4. radio_ack_wait
      BY <3>3 DEF WaitDone
    <3>5. AckWanted
      BY <3>4 DEF RadioPhase
    <3> QED BY <1>1, <3>3, <3>5 DEF AckWanted
  <2> QED BY <1>1, <2>1 DEF UnreadOK, Polled
<1>6. radio_rx_pkt_counter' \in -128..127
  <2>1. PICK c : c = radio_rx_pkt_counter /\ c \in -128..127
    BY DEF UnreadOK
  <2>2. c \in -128..127 /\ Int8(c + 1) \in -128..127
    BY <2>1, Int8Range
  <2> QED BY <1>1, <2>1, <2>2
<1>7. ASSUME noise < 128 PROVE UnreadCount'
  <2>1. /\ radio_rx_pkt_counter \in Nat /\ needspoll \in BOOLEAN
        /\ needspoll => radio_rx_pkt_counter > 0
        /\ loop = "update" /\ needspoll => radio_rx.type # "data"
        /\ radio_rx_pkt_counter + Uncounted + DataIn(sock[Me]) <= noise
        /\ noise \in Nat
    BY <1>7, LinkAssumption DEF UnreadOK, UnreadCount, Polled
  <2>2. needspoll => radio_rx.type # "data"
    BY <1>1, <2>1 DEF UnreadOK, Polled
  <2>3. Uncounted = IsData(radio_rx)
    BY <2>1, <2>2 DEF Uncounted, IsData
  <2>4. IsData(radio_rx) \in {0, 1} /\ IsData(x) \in {0, 1} /\ (x.type = "data" => IsData(x) = 1)
        /\ (x.type # "data" => IsData(x) = 0)
    BY DEF IsData
  <2>5. DataIn(s) \in Nat /\ DataIn(t) \in Nat /\ IsData(x) + DataIn(t) <= IsData(radio_rx) + DataIn(s)
    <3>1. CASE s = <<>>
      <4>1. t = s /\ x = radio_rx
        BY <1>2, <1>4, <3>1
      <4> QED BY <1>2, <2>4, <4>1, DataFinite
    <3>2. CASE s # <<>>
      <4>1. t = Tail(s) /\ x = Head(s)
        BY <1>2, <1>4, <3>2
      <4>2. DataIn(t) \in Nat /\ DataIn(s) \in Nat /\ DataIn(t) + IsData(x) <= DataIn(s)
        BY <1>2, <3>2, <4>1, DataTail
      <4> QED BY <2>4, <4>2
    <3> QED BY <3>1, <3>2
  <2>6. radio_rx_pkt_counter + IsData(x) + DataIn(t) <= noise
    BY <1>2, <2>1, <2>3, <2>4, <2>5
  <2>7. PICK c \in Nat : c = radio_rx_pkt_counter
    BY <2>1
  <2>8. CASE data
    <3>1. c + 1 + DataIn(t) <= noise /\ c + 1 \in -128..127
      <4>1. IsData(x) = 1
        BY <1>2, <2>4, <2>8
      <4>2. c + 1 + DataIn(t) <= noise
        BY <2>6, <2>7, <4>1
      <4>3. PICK m, n : m = DataIn(t) /\ n = noise /\ m \in Nat /\ n \in Nat /\ n < 128
        BY <1>7, <2>1, <2>5
      <4> HIDE DEF data, rx
      <4> QED BY <2>7, <4>2, <4>3
    <3>2. radio_rx_pkt_counter' = c + 1 /\ needspoll' = TRUE
      <4>1. Int8(c + 1) = c + 1
        BY <2>7, <3>1, Int8Range
      <4>2. radio_rx_pkt_counter' = Int8(radio_rx_pkt_counter + 1) /\ needspoll' = (needspoll \/ TRUE)
        BY <1>1, <2>8
      <4> QED BY <2>7, <4>1, <4>2
    <3>3. Uncounted' = 0
      BY <3>2 DEF Uncounted
    <3>4. loop' # "update"
      BY <1>1 DEF UnreadOK, Polled
    <3>5. c + 1 + 0 + DataIn(t) <= noise'
      BY <1>1, <2>5, <3>1
    <3>6. DataIn(sock'[Me]) = DataIn(t)
      BY <1>4
    <3>7. radio_rx_pkt_counter' \in Nat /\ radio_rx_pkt_counter' > 0
      BY <2>7, <3>2
    <3> QED BY <3>2, <3>3, <3>4, <3>5, <3>6, <3>7 DEF UnreadCount, DataIn, DataAt
  <2>9. CASE ~data
    <3>1. radio_rx_pkt_counter' = c /\ needspoll' = needspoll
      BY <1>1, <2>1, <2>7, <2>9
    <3>2. Uncounted' \in {0, IsData(x)}
      BY <1>1, <1>2 DEF Uncounted, IsData
    <3>3. loop' # "update"
      BY <1>1 DEF UnreadOK, Polled
    <3>4. c + Uncounted' + DataIn(t) <= noise'
      BY <1>1, <2>1, <2>4, <2>5, <2>6, <2>7, <3>2
    <3>5. DataIn(sock'[Me]) = DataIn(t)
      BY <1>4
    <3> QED BY <2>1, <2>7, <3>1, <3>3, <3>4, <3>5 DEF UnreadCount, DataIn, DataAt
  <2> QED BY <2>8, <2>9
<1>8. noise' = noise
  BY <1>1
<1> QED BY <1>4, <1>5, <1>6, <1>7, <1>8 DEF UnreadOK, Fits

(* Peer handles a frame, and may acknowledge it: no data comes to Me.       *)
LEMMA HandleUnread ==
  ASSUME FramesOK, UnreadOK, NEW f \in Frames, NEW socks, socks \in Sockets, Fits(socks),
         socks[Me] = sock[Me], Handle(f, socks)
  PROVE  /\ Fits(sock') /\ DataIn(sock'[Me]) \in Nat /\ DataIn(sock[Me]) \in Nat
         /\ DataIn(sock'[Me]) <= DataIn(sock[Me])
<1>1. PICK s, u : s = socks[Me] /\ u = sock' /\ s \in Seq(Frames)
  BY DEF FramesOK, Sockets
<1>2. DataIn(s) \in Nat
  BY <1>1, DataFinite
<1>3. CASE ~SoftAck(Peer, f)
  <2>1. u = socks
    BY <1>1, <1>3 DEF Handle
  <2> QED BY <1>1, <1>2, <2>1
<1>4. CASE SoftAck(Peer, f)
  <2>1. f.type = "data" /\ f.dsn \in 0..(SeqWrap - 1)
    BY <1>4, FrameFacts DEF SoftAck
  <2>2. PICK a : a = Ack(f.dsn)
    OBVIOUS
  <2>3. a \in Frames /\ a.type = "ack" /\ IsData(a) = 0
    <3>1. a \in Frames /\ a.type = "ack"
      BY <2>1, <2>2, FrameFacts
    <3> QED BY <3>1 DEF IsData
  <2>4. u \in Sent(socks, Peer, a)
    BY <1>1, <1>4, <2>2 DEF Handle
  <2>5. Fits(u)
    BY <2>3, <2>4, SentFrames
  <2>6. u[Me] = s \/ u[Me] = Append(s, a)
    BY <1>1, <2>4, SentTo
  <2>7. DataIn(Append(s, a)) \in Nat /\ DataIn(Append(s, a)) <= DataIn(s)
    BY <1>1, <2>3, DataAppend
  <2>8. DataIn(u[Me]) \in Nat /\ DataIn(u[Me]) <= DataIn(s)
    <3>1. CASE u[Me] = s
      BY <1>2, <3>1
    <3>2. CASE u[Me] = Append(s, a)
      BY <2>7, <3>2
    <3> QED BY <2>6, <3>1, <3>2
  <2>9. s = sock[Me] /\ u = sock'
    BY <1>1
  <2> QED BY <1>2, <2>5, <2>8, <2>9
<1> QED BY <1>3, <1>4

(* What has to be shown of a step in which nothing is counted.              *)
LEMMA UnreadKept ==
  ASSUME UnreadOK, Polled', Fits(sock'), noise' \in 0..Noise, noise \in Nat,
         DataIn(sock[Me]) \in Nat, DataIn(sock'[Me]) \in Nat,
         needspoll' => needspoll,
         radio_rx' = NoFrame \/ (radio_rx' = radio_rx /\ needspoll' = needspoll),
         radio_rx_pkt_counter' \in {radio_rx_pkt_counter, Decremented},
         needspoll' => radio_rx_pkt_counter' = radio_rx_pkt_counter,
         noise < 128 /\ UnreadCount /\ loop' = "update" /\ needspoll' => radio_rx'.type # "data",
         noise' >= noise, DataIn(sock'[Me]) <= DataIn(sock[Me]) + (noise' - noise)
  PROVE  UnreadOK'
<1>1. PICK c : c = radio_rx_pkt_counter /\ c \in -128..127 /\ c \in Int
  BY DEF UnreadOK
<1>2. radio_rx_pkt_counter' \in -128..127 /\ (c \in Nat => radio_rx_pkt_counter' \in 0..c)
  BY <1>1 DEF Decremented
<1>3. ASSUME noise' < 128 PROVE UnreadCount'
  <2>1. noise < 128 /\ UnreadCount
    <3>1. noise' \in Nat
      BY LinkAssumption
    <3>2. noise < 128
      BY <1>3, <3>1
    <3> QED BY <3>2 DEF UnreadOK
  <2>2. c \in Nat /\ (needspoll => c > 0) /\ c + Uncounted + DataIn(sock[Me]) <= noise
    BY <1>1, <2>1 DEF UnreadCount
  <2>3. Uncounted \in {0, 1} /\ Uncounted' \in {0, 1} /\ Uncounted' <= Uncounted
    <3>1. NoFrame.type # "data"
      BY DEF NoFrame
    <3>2. CASE radio_rx' = NoFrame
      <4>1. Uncounted' = 0
        BY <3>1, <3>2 DEF Uncounted, IsData
      <4>2. Uncounted \in {0, 1}
        BY DEF Uncounted, IsData
      <4> QED BY <4>1, <4>2
    <3>3. CASE radio_rx' = radio_rx /\ needspoll' = needspoll
      <4>1. Uncounted' = Uncounted
        BY <3>3 DEF Uncounted, IsData
      <4>2. Uncounted \in {0, 1}
        BY DEF Uncounted, IsData
      <4> QED BY <4>1, <4>2
    <3> QED BY <3>2, <3>3
  <2>4. PICK d, m, n, e : /\ d = radio_rx_pkt_counter' /\ m = DataIn(sock'[Me]) /\ n = noise'
                          /\ e = Uncounted'
    OBVIOUS
  <2>5. d \in Nat /\ d <= c /\ m \in Nat /\ n \in Nat /\ e \in {0, 1}
    BY <1>2, <2>2, <2>3, <2>4, LinkAssumption
  <2>6. d + e + m <= n
    BY <1>1, <2>2, <2>3, <2>4, <2>5
  <2>7. needspoll' => d > 0
    BY <1>1, <2>2, <2>4
  <2>8. loop' = "update" /\ needspoll' => radio_rx'.type # "data"
    BY <2>1
  <2>9. d + e + DataIn(sock'[Me]) <= n
    BY <2>4, <2>6
  <2> QED BY <2>4, <2>5, <2>7, <2>8, <2>9 DEF UnreadCount, DataIn, DataAt
<1> QED BY <1>2, <1>3 DEF UnreadOK, Fits

LEMMA UnreadInit == LinkInit => UnreadOK
<1> SUFFICES ASSUME LinkInit PROVE UnreadOK
  OBVIOUS
<1>1. /\ loop = "run" /\ sending = NoFrame /\ radio_rx = NoFrame /\ needspoll = FALSE
      /\ radio_rx_pkt_counter = 0 /\ noise = 0 /\ sock = [n \in {Me, Peer} |-> <<>>]
  BY DEF LinkInit
<1>2. sock[Me] = <<>> /\ sock[Peer] = <<>> /\ Len(<<>>) = 0
  BY <1>1
<1>3. DataIn(sock[Me]) = 0
  <2>1. DataAt(<<>>) = {}
    BY DEF DataAt
  <2> QED BY <1>2, <2>1, FS_EmptySet DEF DataIn
<1>4. Uncounted = 0
  BY <1>1 DEF Uncounted, IsData, NoFrame
<1>5. UnreadCount
  BY <1>1, <1>3, <1>4 DEF UnreadCount
<1>6. Fits(sock)
  BY <1>2, LinkAssumption DEF Fits
<1>7. Polled
  BY <1>1, Zenon DEF Polled
<1>8. noise \in 0..Noise /\ radio_rx_pkt_counter \in -128..127
  BY <1>1, LinkAssumption
<1> QED BY <1>5, <1>6, <1>7, <1>8 DEF UnreadOK

(* Every step keeps count of the frames.                                    *)
LEMMA UnreadNext ==
  ASSUME RadioPhase, FramesOK, UnreadOK, FramesOK', [LinkNext]_allvars
  PROVE  UnreadOK'
<1>1. PICK s : s = sock[Me] /\ s \in Seq(Frames) /\ sock \in Sockets
  <2>1. sock \in Sockets /\ sock[Me] \in Seq(Frames)
    BY DEF FramesOK, Sockets
  <2> QED BY <2>1
<1>2. /\ Polled /\ noise \in Nat /\ noise \in 0..Noise /\ Fits(sock) /\ DataIn(sock[Me]) \in Nat
  BY <1>1, DataFinite, LinkAssumption DEF UnreadOK
<1>3. ASSUME UNCHANGED <<sock, noise>>
      PROVE  /\ Fits(sock') /\ noise' \in 0..Noise /\ DataIn(sock'[Me]) \in Nat /\ noise' >= noise
             /\ DataIn(sock'[Me]) <= DataIn(sock[Me]) + (noise' - noise)
  BY <1>2, <1>3
<1>4. AtEvent => ~needspoll
  BY <1>2 DEF AtEvent, Polled, AckWanted, NoFrame
<1>5. ASSUME UNCHANGED <<loop, sending, radio_state, needspoll>> PROVE Polled'
  BY <1>2, <1>5 DEF Polled, AckWanted
<1>6. CASE UNCHANGED allvars
  <2>1. /\ UNCHANGED <<sock, noise>> /\ UNCHANGED <<loop, sending, radio_state, needspoll>>
        /\ UNCHANGED <<radio_rx, radio_rx_pkt_counter>>
    BY <1>6 DEF allvars, linkvars, peervars, radiovars
  <2> QED BY <1>2, <1>3, <1>5, <2>1, UnreadKept DEF UnreadCount
<1>7. CASE RadioThread
  <2>1. /\ UNCHANGED <<sock, noise>> /\ needspoll' = FALSE /\ radio_rx' = NoFrame /\ loop' = "event"
        /\ radio_rx_pkt_counter' \in {radio_rx_pkt_counter, Decremented}
    BY <1>7 DEF RadioThread, unix_read, peervars
  <2>2. Polled'
    BY <2>1 DEF Polled
  <2> QED BY <1>2, <1>3, <2>1, <2>2, UnreadKept
<1>8. CASE RadioThreadEnd
  <2>1. /\ UNCHANGED <<sock, noise>> /\ UNCHANGED <<loop, needspoll, radio_rx>> /\ sending' = NoFrame
        /\ radio_rx_pkt_counter' = Decremented /\ sending.type = "ack"
    BY <1>8 DEF RadioThreadEnd, peervars, radiovars
  <2>2. loop = "event" /\ ~needspoll
    BY <1>2, <2>1 DEF Polled, AckWanted, NoFrame
  <2>3. Polled'
    BY <1>2, <2>1, <2>2 DEF Polled
  <2> QED BY <1>2, <1>3, <2>1, <2>2, <2>3, UnreadKept
<1>9. CASE OtherEvent \/ \E pk \in Packet : Submit(pk)
  <2>1. /\ UNCHANGED <<sock, noise>> /\ UNCHANGED <<sending, needspoll, radio_rx, radio_rx_pkt_counter>>
        /\ sending = NoFrame /\ loop' = "update" /\ AtEvent
    BY <1>9 DEF OtherEvent, Submit, peervars, radiovars, AtEvent
  <2>2. Polled' /\ ~needspoll'
    BY <1>2, <1>4, <2>1 DEF Polled
  <2> QED BY <1>2, <1>3, <2>1, <2>2, UnreadKept
<1>10. ASSUME NEW n \in Neighbor, send_one_packet(n) PROVE UnreadOK'
  <2>1. /\ UNCHANGED <<sock, noise>> /\ UNCHANGED <<needspoll, radio_rx, radio_rx_pkt_counter>>
        /\ AtEvent /\ sending = NoFrame
        /\ (loop' = "update" /\ sending' = sending) \/ loop' = "event"
    BY <1>10 DEF send_one_packet, peervars, AtEvent
  <2>2. Polled' /\ ~needspoll'
    BY <1>2, <1>4, <2>1 DEF Polled
  <2> QED BY <1>2, <1>3, <2>1, <2>2, UnreadKept
<1>11. ASSUME NEW n \in Neighbor, SendEnd(n) PROVE UnreadOK'
  <2>1. /\ UNCHANGED <<sock, noise>> /\ UNCHANGED <<needspoll, radio_rx_pkt_counter>>
        /\ sending' = NoFrame /\ loop' = "update" /\ sending.type = "data"
        /\ IF sending.dst # Broadcast /\ unix_pending_packet
             THEN radio_rx' = NoFrame ELSE radio_rx' = radio_rx
    BY <1>11 DEF SendEnd, peervars, unix_read
  <2>2. Polled'
    BY <1>2, <2>1 DEF Polled
  <2>3. UnreadCount /\ needspoll => radio_rx' = NoFrame
    <3> SUFFICES ASSUME UnreadCount, needspoll PROVE radio_rx' = NoFrame
      OBVIOUS
    <3>1. sending # NoFrame
      BY <2>1 DEF NoFrame
    <3>2. AckWanted
      BY <1>2, <3>1 DEF Polled
    <3>3. unix_pending_packet
      BY DEF UnreadCount, unix_pending_packet
    <3> QED BY <2>1, <3>2, <3>3 DEF AckWanted
  <2>4. NoFrame.type # "data"
    BY DEF NoFrame
  <2>5. noise < 128 /\ UnreadCount /\ loop' = "update" /\ needspoll' => radio_rx'.type # "data"
    BY <2>1, <2>3, <2>4
  <2>6. radio_rx' = NoFrame \/ (radio_rx' = radio_rx /\ needspoll' = needspoll)
    BY <2>1
  <2> QED BY <1>2, <1>3, <2>1, <2>2, <2>5, <2>6, UnreadKept
<1>12. ASSUME NEW l \in BOOLEAN, unix_process_update(l) PROVE UnreadOK'
  BY <1>12, UpdateUnread
<1>13. ASSUME NEW f \in Frames, NEW socks, socks \in Sockets, Fits(socks), socks[Me] = sock[Me],
              Handle(f, socks), noise' \in 0..Noise, noise' >= noise,
              UNCHANGED <<loop, sending, radiovars, radio_rx_pkt_counter, needspoll>>
       PROVE  UnreadOK'
  <2>1. /\ Fits(sock') /\ DataIn(sock'[Me]) \in Nat
        /\ DataIn(sock'[Me]) <= DataIn(sock[Me])
    BY <1>13, HandleUnread
  <2>2. DataIn(sock'[Me]) <= DataIn(sock[Me]) + (noise' - noise)
    <3>1. noise' \in Nat
      BY <1>13, LinkAssumption
    <3> QED BY <1>2, <1>13, <2>1, <3>1
  <2>3. UNCHANGED <<loop, sending, radio_state, needspoll>> /\ UNCHANGED <<radio_rx, radio_rx_pkt_counter>>
    BY <1>13 DEF radiovars
  <2> QED BY <1>2, <1>5, <1>13, <2>1, <2>2, <2>3, UnreadKept DEF UnreadCount
<1>14. CASE PeerInput
  <2>1. PICK q, f, socks : /\ q = sock /\ f = Head(q[Peer]) /\ socks = [q EXCEPT ![Peer] = Tail(@)]
    OBVIOUS
  <2>2. q[Peer] # <<>> /\ Handle(f, socks) /\ noise' = noise
        /\ UNCHANGED <<loop, sending, radiovars, radio_rx_pkt_counter, needspoll>>
    BY <1>14, <2>1 DEF PeerInput
  <2>3. q \in Sockets /\ Fits(q)
    BY <1>1, <1>2, <2>1
  <2>4. f \in Frames /\ socks \in Sockets /\ Fits(socks)
    <3>1. Peer \in {Me, Peer} /\ q[Peer] # <<>> /\ socks = [q EXCEPT ![Peer] = Tail(@)]
      BY <2>1, <2>2
    <3>2. socks \in Sockets /\ (Fits(q) => Fits(socks)) /\ Head(q[Peer]) \in Frames
      BY <2>3, <3>1, TakenFrame
    <3> QED BY <2>1, <2>3, <3>2
  <2>5. socks[Me] = sock[Me]
    <3>1. Me \in DOMAIN q /\ Me # Peer
      BY <2>3, LinkAssumption DEF Sockets
    <3> QED BY <2>1, <3>1
  <2> QED BY <1>2, <1>13, <2>2, <2>4, <2>5
<1>15. noise < Noise => noise + 1 \in 0..Noise
  BY <1>2, LinkAssumption
<1>16. ASSUME NEW from, NEW f \in Frames, NEW u, u = sock', u \in Sent(sock, from, f),
              noise < Noise, noise' = noise + 1,
              UNCHANGED <<loop, sending, radiovars, radio_rx_pkt_counter, needspoll>>
       PROVE  UnreadOK'
  <2>1. Fits(u) /\ (u[Me] = s \/ u[Me] = Append(s, f))
    BY <1>1, <1>2, <1>16, SentFrames, SentTo
  <2>2. /\ DataIn(Append(s, f)) \in Nat /\ DataIn(Append(s, f)) <= DataIn(s) + IsData(f)
        /\ DataIn(s) \in Nat /\ IsData(f) \in {0, 1}
    BY <1>1, DataAppend, DataFinite DEF IsData
  <2>3. DataIn(u[Me]) \in Nat /\ DataIn(u[Me]) <= DataIn(s) + 1
    <3>1. CASE u[Me] = s
      BY <2>2, <3>1
    <3>2. CASE u[Me] = Append(s, f)
      BY <2>2, <3>2
    <3> QED BY <2>1, <3>1, <3>2
  <2>4. /\ DataIn(sock'[Me]) \in Nat /\ noise' >= noise /\ noise' \in 0..Noise
        /\ DataIn(sock'[Me]) <= DataIn(sock[Me]) + (noise' - noise)
    BY <1>1, <1>2, <1>15, <1>16, <2>2, <2>3
  <2>5. UNCHANGED <<loop, sending, radio_state, needspoll>> /\ UNCHANGED <<radio_rx, radio_rx_pkt_counter>>
    BY <1>16 DEF radiovars
  <2>6. Fits(sock')
    BY <1>16, <2>1
  <2> QED BY <1>2, <1>5, <2>4, <2>5, <2>6, UnreadKept DEF UnreadCount
<1>17. CASE OthersSend \/ OthersAck
  <2>1. /\ noise < Noise /\ noise' = noise + 1
        /\ UNCHANGED <<loop, sending, radiovars, radio_rx_pkt_counter, needspoll>>
    BY <1>17 DEF OthersSend, OthersAck
  <2>2. CASE OthersSend
    <3>1. PICK o \in {Peer} \cup Other, r \in ForeignDest, d \in ForeignSeqno : sock' \in Sent(sock, o, Data(o, r, d, Own))
      BY <2>2 DEF OthersSend
    <3>2. PICK f, u : f = Data(o, r, d, Own) /\ u = sock'
      OBVIOUS
    <3>3. o \in Senders /\ d \in 0..(SeqWrap - 1)
      BY LinkAssumption DEF Senders
    <3>4. f \in Frames
      BY <3>2, <3>3, DataFrame
    <3> QED BY <1>16, <2>1, <3>1, <3>2, <3>4
  <2>3. CASE OthersAck
    <3>1. PICK o \in Other, d \in ForeignSeqno : sock' \in Sent(sock, o, Ack(d))
      BY <2>3 DEF OthersAck
    <3>2. PICK f, u : f = Ack(d) /\ u = sock'
      OBVIOUS
    <3>3. d \in 0..(SeqWrap - 1)
      BY LinkAssumption
    <3>4. f \in Frames
      BY <3>2, <3>3, FrameFacts
    <3> QED BY <1>16, <2>1, <3>1, <3>2, <3>4
  <2> QED BY <1>17, <2>2, <2>3
<1>18. CASE SeqnosAge
  <2>1. /\ UNCHANGED <<sock, noise>> /\ UNCHANGED <<loop, sending, radio_state, needspoll>>
        /\ UNCHANGED <<radio_rx, radio_rx_pkt_counter>>
    BY <1>18 DEF SeqnosAge, peervars, radiovars
  <2> QED BY <1>2, <1>3, <1>5, <2>1, UnreadKept DEF UnreadCount
<1> QED
  BY <1>6, <1>7, <1>8, <1>9, <1>10, <1>11, <1>12, <1>14, <1>17, <1>18 DEF LinkNext

LEMMA UnreadInvariance == LinkSpec => []UnreadOK
<1>1. LinkInit => UnreadOK
  BY UnreadInit
<1>2. IInv /\ LinkInv /\ (IInv /\ LinkInv)' /\ UnreadOK /\ [LinkNext]_allvars => UnreadOK'
  BY UnreadNext DEF LinkInv
<1> QED
  BY <1>1, <1>2, LinkInvariance, PTL DEF LinkSpec, allvars

(* A frame is counted once at most: the counter of unread frames does not   *)
(* exceed the frames that others have sent, and cannot overflow before 128  *)
(* of them.                                                                 *)
THEOREM FramesCounted == LinkSpec => []CountedOnce
<1>1. IInv /\ LinkInv /\ UnreadOK => CountedOnce
  <2> SUFFICES ASSUME LinkInv, UnreadOK, noise < 128 PROVE radio_rx_pkt_counter \in 0..noise
    BY DEF CountedOnce
  <2>1. DataIn(sock[Me]) \in Nat /\ noise \in Nat
    <3>1. PICK s : s = sock[Me] /\ s \in Seq(Frames)
      <4>1. sock[Me] \in Seq(Frames)
        BY DEF LinkInv, FramesOK
      <4> QED BY <4>1
    <3> QED BY <3>1, DataFinite, LinkAssumption DEF UnreadOK
  <2>2. Uncounted \in {0, 1}
    BY DEF Uncounted, IsData
  <2>3. radio_rx_pkt_counter \in Nat /\ radio_rx_pkt_counter + Uncounted + DataIn(sock[Me]) <= noise
    BY DEF UnreadOK, UnreadCount
  <2> QED BY <2>1, <2>2, <2>3
<1> QED
  BY <1>1, LinkInvariance, UnreadInvariance, PTL

(* The types of the link, for every table size, every bound on the medium   *)
(* and any number of frames of other nodes.                                 *)
THEOREM LinkTyped == LinkSpec => []LinkTypeOK
<1>1. LinkInv /\ UnreadOK => LinkTypeOK
  <2> SUFFICES ASSUME LinkInv, UnreadOK PROVE LinkTypeOK
    OBVIOUS
  <2>1. loop \in {"run", "event", "update"} /\ needspoll \in BOOLEAN
    BY DEF UnreadOK, Polled
  <2>2. /\ sending \in Frames /\ radio_rx \in Frames /\ sock \in [{Me, Peer} -> Seq(Frames)]
        /\ confirmed \subseteq Packet /\ delivered \in [Packet -> Nat] /\ stray \subseteq 0..(SeqWrap - 1)
    BY DEF LinkInv, FramesOK
  <2>3. /\ radio_state \in {"RECEIVE", "TRANSMIT"} /\ radio_ack_wait \in BOOLEAN
        /\ radio_is_ack_received \in BOOLEAN /\ late \in BOOLEAN
    BY DEF LinkInv, RadioPhase
  <2>4. radio_rx_pkt_counter \in -128..127 /\ noise \in 0..Noise
    BY DEF UnreadOK
  <2>5. \A n \in {Me, Peer} : Len(sock[n]) <= Medium /\ Len(received_seqnos[n]) <= MAX_SEQNOS
    BY DEF LinkInv, UnreadOK, Fits, TableOK
  <2>6. given \in [Packet -> 0..(SeqWrap - 1)] /\ since \in [Packet -> SUBSET ({Me, Peer} \cup Other)]
    BY DEF LinkInv, Numbered, SinceOK, Senders
  <2> QED BY <2>1, <2>2, <2>3, <2>4, <2>5, <2>6 DEF LinkTypeOK
<1> QED
  BY <1>1, LinkInvariance, UnreadInvariance, PTL
=============================================================================
