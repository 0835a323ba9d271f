------------------------------ MODULE RingBuf ------------------------------
(***************************************************************************)
(* The single-producer single-consumer ring buffers of ns/lib: ringbuf.c   *)
(* (bytes) and ringbufindex.c (the same arithmetic on the indices of an    *)
(* array the caller owns).  Neither takes a lock: the producer may be an   *)
(* interrupt handler that runs between any two steps of the consumer, and  *)
(* the other way round.  Each operation is therefore split where the code  *)
(* separates its accesses: the test of the pointers, the access to the     *)
(* slot, the advance of the pointer.                                       *)
(*                                                                         *)
(* `x & r->mask' is written x % Size: the size is a power of two, as       *)
(* ringbuf.h and ringbufindex.c require.                                   *)
(***************************************************************************)
EXTENDS Ring

CONSTANTS Size,     \* number of slots
          Value,    \* what a slot may hold
          None      \* the -1 that get returns when the buffer is empty

ASSUME SizeAssumption == /\ Size \in Nat \ {0}
                         /\ \E k \in 0..8 : Size = 2^k
ASSUME NoneAssumption == None \notin Value

VARIABLES
  put_ptr, get_ptr,  \* struct ringbuf / struct ringbufindex
  data,              \* the slots: r->data, or the caller's array
  ppc, pval,         \* producer: where it is, the value it is putting
  cpc, cval,         \* consumer: where it is, the local c of ringbuf_get
  gidx,              \* the index ringbufindex_get has returned
  ret                \* what the consumer last obtained

producer == <<ppc, pval>>
consumer == <<cpc, cval, gidx, ret>>
vars == <<put_ptr, get_ptr, data, ppc, pval, cpc, cval, gidx, ret>>

mask == Size - 1
ringbuf_elements == (put_ptr - get_ptr) % Size

(***************************************************************************)
(* ringbuf_init / ringbufindex_init.  The slots are whatever the memory    *)
(* held.                                                                   *)
(***************************************************************************)
Init ==
  /\ put_ptr = 0 /\ get_ptr = 0
  /\ data \in [0..mask -> Value]
  /\ ppc = "idle" /\ pval \in Value
  /\ cpc = "idle" /\ cval \in Value
  /\ gidx = 0
  /\ ret = None

-----------------------------------------------------------------------------
(* Producer: ringbuf_put, or ringbufindex_peek_put, a store into the       *)
(* caller's array and ringbufindex_put.                                    *)

\* mutant: the full test is dropped
PutTestUnchecked(v) ==
  /\ ppc = "idle"
  /\ ppc' = "store"
  /\ pval' = v
  /\ UNCHANGED <<put_ptr, get_ptr, data, consumer>>

PutTest(v) ==      \* not full; a full buffer returns 0 and changes nothing
  /\ ppc = "idle"
  /\ ringbuf_elements # mask
  /\ ppc' = "store"
  /\ pval' = v
  /\ UNCHANGED <<put_ptr, get_ptr, data, consumer>>

PutStore ==
  /\ ppc = "store"
  /\ data' = [data EXCEPT ![put_ptr] = pval]
  /\ ppc' = "advance"
  /\ UNCHANGED <<put_ptr, get_ptr, pval, consumer>>

\* mutant: the pointer is not masked
PutAdvanceUnmasked ==
  /\ ppc = "advance"
  /\ put_ptr' = put_ptr + 1
  /\ ppc' = "idle"
  /\ UNCHANGED <<get_ptr, data, pval, consumer>>

PutAdvance ==
  /\ ppc = "advance"
  /\ put_ptr' = (put_ptr + 1) % Size
  /\ ppc' = "idle"
  /\ UNCHANGED <<get_ptr, data, pval, consumer>>

-----------------------------------------------------------------------------
(* Consumer, reading before it advances: ringbuf_get, or                   *)
(* ringbufindex_peek_get, a load and ringbufindex_get.                     *)

GetEmpty ==        \* either kind of get returns -1
  /\ cpc = "idle"
  /\ ringbuf_elements = 0
  /\ ret' = None
  /\ UNCHANGED <<put_ptr, get_ptr, data, producer, cpc, cval, gidx>>

GetTest ==
  /\ cpc = "idle"
  /\ ringbuf_elements > 0
  /\ cpc' = "load"
  /\ UNCHANGED <<put_ptr, get_ptr, data, producer, cval, gidx, ret>>

GetLoad ==
  /\ cpc = "load"
  /\ cval' = data[get_ptr]
  /\ cpc' = "advance"
  /\ UNCHANGED <<put_ptr, get_ptr, data, producer, gidx, ret>>

GetAdvance ==
  /\ cpc = "advance"
  /\ get_ptr' = (get_ptr + 1) % Size
  /\ ret' = cval
  /\ cpc' = "idle"
  /\ UNCHANGED <<put_ptr, data, producer, cval, gidx>>

(* Consumer, advancing before it reads: ringbufindex_get returns the index *)
(* of the removed element and the caller loads the slot afterwards         *)
(* (tsch-queue.c, tsch_queue_remove_packet_from_queue).                    *)

\* mutant: the index is read after the pointer has moved
IndexGetSwapped ==
  /\ cpc = "idle"
  /\ ringbuf_elements > 0
  /\ get_ptr' = (get_ptr + 1) % Size
  /\ gidx' = get_ptr'
  /\ cpc' = "late"
  /\ UNCHANGED <<put_ptr, data, producer, cval, ret>>

IndexGet ==
  /\ cpc = "idle"
  /\ ringbuf_elements > 0
  /\ gidx' = get_ptr
  /\ get_ptr' = (get_ptr + 1) % Size
  /\ cpc' = "late"
  /\ UNCHANGED <<put_ptr, data, producer, cval, ret>>

LateLoad ==
  /\ cpc = "late"
  /\ ret' = data[gidx]
  /\ cpc' = "idle"
  /\ UNCHANGED <<put_ptr, get_ptr, data, producer, cval, gidx>>

-----------------------------------------------------------------------------
Next ==
  \/ \E v \in Value : PutTest(v)
  \/ PutStore
  \/ PutAdvance
  \/ GetEmpty
  \/ GetTest
  \/ GetLoad
  \/ GetAdvance
  \/ IndexGet
  \/ LateLoad

Spec == Init /\ [][Next]_vars

-----------------------------------------------------------------------------
(* Type correctness: the pointers stay inside the array whatever the order *)
(* of the steps.                                                           *)
TypeOK ==
  /\ put_ptr \in 0..mask /\ get_ptr \in 0..mask
  /\ data \in [0..mask -> Value]
  /\ ppc \in {"idle", "store", "advance"} /\ pval \in Value
  /\ cpc \in {"idle", "load", "advance", "late"} /\ cval \in Value
  /\ gidx \in 0..mask
  /\ ret \in Value \cup {None}

(* The slot the consumer is about to read.                                 *)
ReadSlot == IF cpc = "late" THEN gidx ELSE get_ptr

(* The producer never stores into the slot that the consumer has tested    *)
(* for or been handed and not yet read, although the producer's test of    *)
(* get_ptr may be stale by then.  For ringbufindex_get, which frees the    *)
(* slot before the caller reads it, this rests on the one slot the         *)
(* full test (elements == mask) keeps empty.                               *)
NoOverwrite ==
  (cpc \in {"load", "late"} /\ ppc \in {"store", "advance"}) => put_ptr # ReadSlot

(* The invariant the proofs use (RingBufProofs): what each side's test     *)
(* established still holds at its later steps, although the other side     *)
(* moved in between; and a slot handed out by ringbufindex_get is the one  *)
(* just behind get_ptr.                                                    *)
IInv ==
  /\ TypeOK
  /\ ppc \in {"store", "advance"} => ringbuf_elements # mask
  /\ cpc \in {"load", "advance"} => ringbuf_elements > 0
  /\ cpc = "advance" => cval = data[get_ptr]
  /\ cpc = "late" => get_ptr = (gidx + 1) % Size

(* The waiting values, oldest first.                                       *)
Contents == RingSeq(data, get_ptr, ringbuf_elements, Size)

(* A get through ringbufindex_get has taken effect when the index is       *)
(* handed out, so its result is what the slot holds from then on.          *)
Obtained == IF cpc = "late" THEN data[gidx] ELSE ret

(* The ring implements a FIFO of Size - 1 places: nothing is lost,         *)
(* duplicated, reordered or corrupted by any interleaving of               *)
(* ringbuf_put's and ringbuf_get's steps.                                  *)
Fifo == INSTANCE BoundedFifo WITH
          queue <- Contents, got <- Obtained, Item <- Value, Capacity <- Size - 1
FifoSpec == Fifo!Spec
=============================================================================
