--------------------------- MODULE RingBufProofs ---------------------------
(***************************************************************************)
(* Proofs about RingBuf, for every size: the pointers stay in range, the   *)
(* producer never stores into a slot still to be read, and the ring        *)
(* implements the bounded FIFO.                                            *)
(***************************************************************************)
EXTENDS RingBuf, LibTheorems

(* The number of elements without the remainder.                           *)
LEMMA Elements ==
  ASSUME NEW put \in 0..mask, NEW get \in 0..mask
  PROVE  (put - get) % Size = IF put >= get THEN put - get ELSE put - get + Size
<1> USE SizeAssumption DEF mask
<1>1. CASE put >= get
  BY <1>1, put - get \in 0..(Size - 1), ModSmall
<1>2. CASE put < get
  <2>1. put - get \in (1 - Size)..(-1)
    BY <1>2
  <2>2. (put - get) % Size = put - get + Size
    BY <2>1, ModNeg
  <2> QED BY <1>2, <2>2
<1> QED BY <1>1, <1>2

(* A pointer moved one slot on, without the remainder.                     *)
LEMMA Advance ==
  ASSUME NEW ptr \in 0..mask
  PROVE  /\ (ptr + 1) % Size = IF ptr = mask THEN 0 ELSE ptr + 1
         /\ (ptr + 1) % Size \in 0..mask
<1> USE SizeAssumption DEF mask
<1>1. (ptr + 1) % Size = IF ptr + 1 < Size THEN ptr + 1 ELSE ptr + 1 - Size
  BY 1 \in 0..Size, ModPlus
<1> QED BY <1>1

LEMMA InitIInv == Init => IInv
<1> SUFFICES ASSUME Init PROVE IInv
  OBVIOUS
<1> QED BY SizeAssumption DEF Init, IInv, TypeOK, mask

(* The inductive step: one case per action of RingBuf.                     *)
LEMMA NextIInv == IInv /\ [Next]_vars => IInv'
<1> SUFFICES ASSUME IInv, [Next]_vars PROVE IInv'
  OBVIOUS
<1> USE SizeAssumption
<1>0. /\ mask \in Nat /\ mask = Size - 1
      /\ put_ptr \in 0..mask /\ get_ptr \in 0..mask /\ gidx \in 0..mask
  BY DEF IInv, TypeOK, mask
<1>e. ringbuf_elements = IF put_ptr >= get_ptr THEN put_ptr - get_ptr ELSE put_ptr - get_ptr + Size
  BY <1>0, Elements DEF ringbuf_elements
<1>1. ASSUME NEW v \in Value, PutTest(v) PROVE IInv'
  BY <1>1 DEF PutTest, IInv, TypeOK, consumer, ringbuf_elements, mask
<1>2. CASE PutStore
  <2>1. TypeOK'
    BY <1>2 DEF PutStore, IInv, TypeOK, consumer, mask
  <2>2. ringbuf_elements' = ringbuf_elements
    BY <1>2 DEF PutStore, ringbuf_elements
  <2>3. cpc' = "advance" => cval' = data'[get_ptr']
    BY <1>2, <1>0, <1>e DEF PutStore, IInv, TypeOK, consumer
  <2> QED BY <1>2, <2>1, <2>2, <2>3 DEF PutStore, IInv, consumer, mask
<1>3. CASE PutAdvance
  <2>1. put_ptr' = IF put_ptr = mask THEN 0 ELSE put_ptr + 1
    BY <1>3, <1>0, Advance DEF PutAdvance
  <2>2. put_ptr' \in 0..mask
    BY <1>0, <2>1
  <2>3. TypeOK'
    BY <1>3, <2>2 DEF PutAdvance, IInv, TypeOK, consumer, mask
  <2>4. ringbuf_elements' = IF put_ptr' >= get_ptr THEN put_ptr' - get_ptr ELSE put_ptr' - get_ptr + Size
    BY <1>3, <1>0, <2>2, Elements DEF ringbuf_elements, PutAdvance
  <2>5. ringbuf_elements' = ringbuf_elements + 1
    BY <1>3, <1>0, <1>e, <2>1, <2>4 DEF IInv, PutAdvance
  <2>6. ringbuf_elements \in Nat
    BY <1>0, <1>e
  <2> QED BY <1>3, <2>3, <2>5, <2>6 DEF PutAdvance, IInv, consumer
<1>4. CASE GetEmpty
  BY <1>4 DEF GetEmpty, IInv, TypeOK, producer, ringbuf_elements, mask
<1>5. CASE GetTest
  BY <1>5 DEF GetTest, IInv, TypeOK, producer, ringbuf_elements, mask
<1>6. CASE GetLoad
  BY <1>6 DEF GetLoad, IInv, TypeOK, producer, ringbuf_elements, mask
<1>7. ASSUME GetAdvance \/ IndexGet, ringbuf_elements > 0 PROVE IInv'
  <2>0. /\ get_ptr' = (get_ptr + 1) % Size
        /\ UNCHANGED <<put_ptr, data, ppc, pval, cval>>
    BY <1>7 DEF GetAdvance, IndexGet, producer
  <2>1. get_ptr' = IF get_ptr = mask THEN 0 ELSE get_ptr + 1
    BY <2>0, <1>0, Advance
  <2>2. get_ptr' \in 0..mask
    BY <1>0, <2>1
  <2>3. TypeOK'
    BY <1>7, <2>0, <2>2 DEF GetAdvance, IndexGet, IInv, TypeOK, mask
  <2>4. ringbuf_elements' = IF put_ptr >= get_ptr' THEN put_ptr - get_ptr' ELSE put_ptr - get_ptr' + Size
    BY <2>0, <1>0, <2>2, Elements DEF ringbuf_elements
  <2>5. ringbuf_elements' = ringbuf_elements - 1
    BY <1>7, <1>0, <1>e, <2>1, <2>4
  <2>6. ringbuf_elements \in 0..mask
    BY <1>0, <1>e
  <2>7. cpc' = "late" => get_ptr' = (gidx' + 1) % Size
    BY <1>7 DEF GetAdvance, IndexGet
  <2>8. cpc' \in {"idle", "late"}
    BY <1>7 DEF GetAdvance, IndexGet
  <2>9. ppc' \in {"store", "advance"} => ringbuf_elements' # mask'
    BY <1>0, <2>5, <2>6 DEF mask
  <2> QED BY <2>3, <2>7, <2>8, <2>9 DEF IInv
<1>8. CASE LateLoad
  BY <1>8 DEF LateLoad, IInv, TypeOK, producer, ringbuf_elements, mask
<1>9. CASE UNCHANGED vars
  BY <1>9 DEF vars, IInv, TypeOK, ringbuf_elements, mask
<1>10. GetAdvance => ringbuf_elements > 0
  BY DEF GetAdvance, IInv
<1>11. IndexGet => ringbuf_elements > 0
  BY DEF IndexGet
<1> QED BY <1>1, <1>2, <1>3, <1>4, <1>5, <1>6, <1>7, <1>8, <1>9, <1>10, <1>11 DEF Next

(* The invariant holds in every reachable state of the ring.               *)
THEOREM Invariance == Spec => []IInv
BY InitIInv, NextIInv, PTL DEF Spec

(* The pointers never leave the array, for every size and any interleaving *)
(* of ringbuf_put and ringbuf_get.                                         *)
THEOREM TypeCorrect == Spec => []TypeOK
<1>1. IInv => TypeOK
  BY DEF IInv
<1> QED BY Invariance, <1>1, PTL

(* The producer never stores into the slot the consumer is about to read.  *)
THEOREM ReadSafe == Spec => []NoOverwrite
<1>1. ASSUME IInv PROVE NoOverwrite
  <2> USE SizeAssumption
  <2>0. /\ mask \in Nat /\ mask = Size - 1
        /\ put_ptr \in 0..mask /\ get_ptr \in 0..mask /\ gidx \in 0..mask
    BY <1>1 DEF IInv, TypeOK, mask
  <2>1. ringbuf_elements = IF put_ptr >= get_ptr THEN put_ptr - get_ptr ELSE put_ptr - get_ptr + Size
    BY <2>0, Elements DEF ringbuf_elements
  <2>2. (gidx + 1) % Size = IF gidx = mask THEN 0 ELSE gidx + 1
    BY <2>0, Advance
  <2> QED BY <1>1, <2>0, <2>1, <2>2 DEF IInv, NoOverwrite, ReadSlot
<1> QED BY Invariance, <1>1, PTL

-----------------------------------------------------------------------------
(* The initial state of the ring is an empty FIFO.                         *)
LEMMA InitFifo == Init => Fifo!Init
<1> SUFFICES ASSUME Init PROVE Contents = <<>> /\ Obtained = None
  BY DEF Fifo!Init
<1>1. ringbuf_elements = 0
  BY SizeAssumption, ModSmall, 0 \in 0..(Size - 1) DEF Init, ringbuf_elements
<1>2. Contents = <<>>
  BY <1>1 DEF Contents, RingSeq
<1> QED BY <1>2 DEF Init, Obtained

(* Every step of the ring is a step of the FIFO or leaves it unchanged:    *)
(* a put takes effect when put_ptr advances, a get when get_ptr does.      *)
LEMMA NextFifo ==
  ASSUME IInv, IInv', [Next]_vars
  PROVE  [Fifo!Next]_<<Contents, Obtained>>
<1> USE SizeAssumption
<1>0. /\ mask \in Nat /\ mask = Size - 1
      /\ put_ptr \in 0..mask /\ get_ptr \in 0..mask /\ gidx \in 0..mask
      /\ data \in [0..(Size - 1) -> Value]
  BY DEF IInv, TypeOK, mask
<1>e. ringbuf_elements = IF put_ptr >= get_ptr THEN put_ptr - get_ptr ELSE put_ptr - get_ptr + Size
  BY <1>0, Elements DEF ringbuf_elements
<1>n. ringbuf_elements \in 0..mask
  BY <1>0, <1>e
<1>p. (get_ptr + ringbuf_elements) % Size = put_ptr
  <2>1. (get_ptr + ringbuf_elements) % Size =
          IF get_ptr + ringbuf_elements < Size THEN get_ptr + ringbuf_elements
                                               ELSE get_ptr + ringbuf_elements - Size
    BY <1>0, <1>n, Size \in Nat \ {0}, get_ptr \in 0..(Size - 1), ringbuf_elements \in 0..Size, ModPlus
  <2> QED BY <1>0, <1>e, <2>1
<1>1. ASSUME NEW v \in Value, PutTest(v) PROVE UNCHANGED <<Contents, Obtained>>
  BY <1>1 DEF PutTest, consumer, Contents, Obtained, ringbuf_elements
<1>2. CASE PutStore
  <2>1. /\ UNCHANGED <<put_ptr, get_ptr, cpc, gidx, ret, ringbuf_elements>>
        /\ data' = [data EXCEPT ![put_ptr] = pval]
        /\ pval \in Value
    BY <1>2 DEF PutStore, consumer, ringbuf_elements, IInv, TypeOK
  <2>2. UNCHANGED Contents
    <3>1. /\ Size \in Nat \ {0} /\ DOMAIN data = 0..(Size - 1)
          /\ get_ptr \in 0..(Size - 1) /\ ringbuf_elements \in 0..(Size - 1)
      BY <1>0, <1>n
    <3>2. RingSeq([data EXCEPT ![(get_ptr + ringbuf_elements) % Size] = pval],
                  get_ptr, ringbuf_elements, Size)
            = RingSeq(data, get_ptr, ringbuf_elements, Size)
      BY <3>1, RingSeqStore, ZenonT(30)
    <3> QED BY <1>p, <2>1, <3>2 DEF Contents
  <2>3. cpc = "late" => put_ptr # gidx
    <3>1. (gidx + 1) % Size = IF gidx = mask THEN 0 ELSE gidx + 1
      BY <1>0, Advance
    <3> QED BY <1>0, <1>2, <1>e, <3>1 DEF IInv, PutStore
  <2> QED BY <1>0, <2>1, <2>2, <2>3 DEF Obtained
<1>3. CASE PutAdvance
  <2>1. /\ UNCHANGED <<get_ptr, data, cpc, gidx, ret>>
        /\ put_ptr' = (put_ptr + 1) % Size
        /\ ringbuf_elements # mask
    BY <1>3 DEF PutAdvance, consumer, IInv
  <2>2. put_ptr' = IF put_ptr = mask THEN 0 ELSE put_ptr + 1
    BY <1>0, <2>1, Advance
  <2>3. ringbuf_elements' = IF put_ptr' >= get_ptr THEN put_ptr' - get_ptr ELSE put_ptr' - get_ptr + Size
    BY <1>0, <2>1, <2>2, Elements DEF ringbuf_elements
  <2>4. ringbuf_elements' = ringbuf_elements + 1
    BY <1>0, <1>e, <2>1, <2>2, <2>3
  <2>5. Contents' = Append(Contents, data[put_ptr])
    BY <1>0, <1>n, <1>p, <2>1, <2>4, RingSeqAppend DEF Contents
  <2>6. Len(Contents) = ringbuf_elements
    BY <1>n, <1>0, RingSeqLen DEF Contents
  <2>7. Fifo!Put(data[put_ptr])
    BY <1>0, <1>n, <2>1, <2>5, <2>6 DEF Fifo!Put, Obtained
  <2> QED BY <1>0, <2>7 DEF Fifo!Next
<1>4. CASE GetEmpty
  <2>1. Contents = <<>>
    BY <1>4 DEF GetEmpty, Contents, RingSeq
  <2>2. UNCHANGED Contents
    BY <1>4 DEF GetEmpty, Contents, ringbuf_elements
  <2>3. Obtained' = None
    BY <1>4 DEF GetEmpty, Obtained
  <2> QED BY <2>1, <2>2, <2>3 DEF Fifo!Next, Fifo!GetNothing
<1>5. CASE GetTest
  BY <1>5 DEF GetTest, Contents, Obtained, ringbuf_elements
<1>6. CASE GetLoad
  BY <1>6 DEF GetLoad, Contents, Obtained, ringbuf_elements
<1>7. ASSUME GetAdvance \/ IndexGet, ringbuf_elements > 0 PROVE Fifo!Get
  <2>1. /\ UNCHANGED <<put_ptr, data>>
        /\ get_ptr' = (get_ptr + 1) % Size
    BY <1>7 DEF GetAdvance, IndexGet
  <2>2. get_ptr' = IF get_ptr = mask THEN 0 ELSE get_ptr + 1
    BY <1>0, <2>1, Advance
  <2>3. ringbuf_elements' = IF put_ptr >= get_ptr' THEN put_ptr - get_ptr' ELSE put_ptr - get_ptr' + Size
    BY <1>0, <2>1, <2>2, Elements DEF ringbuf_elements
  <2>4. ringbuf_elements' = ringbuf_elements - 1
    BY <1>7, <1>0, <1>e, <2>2, <2>3
  <2>5. /\ Contents # <<>>
        /\ Head(Contents) = data[get_ptr]
        /\ Contents' = Tail(Contents)
    <3>1. ringbuf_elements \in 1..Size
      BY <1>7, <1>0, <1>n
    <3> QED BY <1>0, <3>1, <2>1, <2>4, RingSeqTail DEF Contents
  <2>6. Obtained' = data[get_ptr]
    <3>1. CASE GetAdvance
      BY <3>1, <2>1 DEF GetAdvance, IInv, Obtained
    <3>2. CASE IndexGet
      BY <3>2, <2>1 DEF IndexGet, Obtained
    <3> QED BY <1>7, <3>1, <3>2
  <2> QED BY <2>5, <2>6 DEF Fifo!Get
<1>8. CASE LateLoad
  BY <1>8 DEF LateLoad, Contents, Obtained, ringbuf_elements
<1>9. CASE UNCHANGED vars
  BY <1>9 DEF vars, Contents, Obtained, ringbuf_elements
<1>10. GetAdvance => ringbuf_elements > 0
  BY DEF GetAdvance, IInv
<1>11. IndexGet => ringbuf_elements > 0
  BY DEF IndexGet
<1> QED BY <1>1, <1>2, <1>3, <1>4, <1>5, <1>6, <1>7, <1>8, <1>9, <1>10, <1>11 DEF Next, Fifo!Next

(* The ring buffer implements a FIFO of Size - 1 places under every        *)
(* interleaving of its producer and its consumer.                          *)
THEOREM Refinement == Spec => FifoSpec
<1>1. Init => Fifo!Init
  BY InitFifo
<1>2. IInv /\ IInv' /\ [Next]_vars => [Fifo!Next]_<<Contents, Obtained>>
  BY NextFifo
<1> QED BY Invariance, <1>1, <1>2, PTL DEF Spec, FifoSpec, Fifo!Spec
=============================================================================
