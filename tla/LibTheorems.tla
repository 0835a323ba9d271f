---------------------------- MODULE LibTheorems ----------------------------
(***************************************************************************)
(* Facts about the data structures of ns/lib that the proofs share.        *)
(* Rings: indices modulo the size of a ring and the sequence a ring holds, *)
(* for the ring buffers (RingBuf) and the kernel's event queue (Process).  *)
(* Linked lists: what a walk along the next pointers finds and what        *)
(* pushing and unlinking nodes does to it, for the lists of processes and  *)
(* of event timers.                                                        *)
(***************************************************************************)
EXTENDS Ring, Links, SequenceTheorems, FiniteSetTheorems, WellFoundedInduction, TLAPS

(* A remainder is an index of the ring.                                    *)
LEMMA ModRange ==
  ASSUME NEW n \in Nat \ {0}, NEW a \in Int
  PROVE  a % n \in 0..(n - 1)
BY Z3

(* An index inside the ring is its own remainder.                          *)
LEMMA ModSmall ==
  ASSUME NEW n \in Nat \ {0}, NEW a \in 0..(n - 1)
  PROVE  a % n = a
BY Z3

(* An index at most one turn too far wraps around by one turn.             *)
LEMMA ModWrap ==
  ASSUME NEW n \in Nat \ {0}, NEW a \in n..(2 * n - 1)
  PROVE  a % n = a - n
BY Z3

(* A negative distance within one turn becomes positive by one turn.       *)
LEMMA ModNeg ==
  ASSUME NEW n \in Nat \ {0}, NEW a \in (1 - n)..(-1)
  PROVE  a % n = a + n
BY Z3

(* The index i places after `first', without the remainder.                *)
LEMMA ModPlus ==
  ASSUME NEW n \in Nat \ {0}, NEW first \in 0..(n - 1), NEW i \in 0..n
  PROVE  (first + i) % n = IF first + i < n THEN first + i ELSE first + i - n
<1>1. CASE first + i < n
  BY <1>1, first + i \in 0..(n - 1), ModSmall
<1>2. CASE first + i >= n
  <2>1. first + i \in n..(2 * n - 1)
    BY <1>2
  <2>2. (first + i) % n = first + i - n
    BY <2>1, ModWrap
  <2> QED BY <1>2, <2>2
<1> QED BY <1>1, <1>2

(* The distance from b up to a on the ring, without the remainder.         *)
LEMMA ModMinus ==
  ASSUME NEW n \in Nat \ {0}, NEW a \in 0..(n - 1), NEW b \in 0..(n - 1)
  PROVE  (a - b) % n = IF b <= a THEN a - b ELSE a - b + n
<1>1. CASE b <= a
  BY <1>1, a - b \in 0..(n - 1), ModSmall
<1>2. CASE b > a
  <2>1. a - b \in (1 - n)..(-1)
    BY <1>2
  <2>2. (a - b) % n = a - b + n
    BY <2>1, ModNeg
  <2> QED BY <1>2, <2>2
<1> QED BY <1>1, <1>2

(* A remainder differs from its number by whole turns.                     *)
LEMMA ModTurns ==
  ASSUME NEW n \in Nat \ {0}, NEW a \in Int
  PROVE  \E k \in Int : a % n = a - n * k
<1>1. a = n * (a \div n) + (a % n) /\ a \div n \in Int /\ a % n \in Int
  OBVIOUS
<1>2. PICK k \in Int : k = a \div n
  BY <1>1
<1>3. n * k \in Int
  OBVIOUS
<1> QED BY <1>1, <1>2, <1>3

(* A number that is whole turns from r has the remainder r.                *)
LEMMA ModIs ==
  ASSUME NEW n \in Nat \ {0}, NEW a \in Int, NEW r \in 0..(n - 1), NEW k \in Int, a = r + n * k
  PROVE  a % n = r
<1>1. a = n * k + r
  BY n * k \in Int
<1> QED BY <1>1

(* Whole turns add up.                                                     *)
LEMMA TurnsAdd ==
  ASSUME NEW n \in Int, NEW k \in Int, NEW m \in Int
  PROVE  /\ n * k \in Int /\ n * m \in Int /\ k + m \in Int /\ k - m \in Int
         /\ n * k + n * m = n * (k + m) /\ n * k - n * m = n * (k - m)
OBVIOUS

(* What a ring holds is a sequence of its items, as long as its count.     *)
LEMMA RingSeqType ==
  ASSUME NEW n \in Nat \ {0}, NEW S, NEW data \in [0..(n - 1) -> S],
         NEW first \in 0..(n - 1), NEW count \in Nat
  PROVE  RingSeq(data, first, count, n) \in Seq(S)
<1>1. \A i \in 1..count : data[(first + i - 1) % n] \in S
  BY ModRange
<1>2. RingSeq(data, first, count, n) \in [1..count -> S]
  BY <1>1 DEF RingSeq
<1> QED BY <1>2, SeqDef

LEMMA RingSeqLen ==
  ASSUME NEW n, NEW data, NEW first, NEW count \in Nat
  PROVE  /\ Len(RingSeq(data, first, count, n)) = count
         /\ \A i \in 1..count : RingSeq(data, first, count, n)[i] = data[(first + i - 1) % n]
BY DEF RingSeq

(* A store into the slot behind the last item leaves the contents alone.   *)
LEMMA RingSeqStore ==
  ASSUME NEW n \in Nat \ {0}, NEW data, DOMAIN data = 0..(n - 1),
         NEW first \in 0..(n - 1), NEW count \in 0..(n - 1), NEW v
  PROVE  RingSeq([data EXCEPT ![(first + count) % n] = v], first, count, n)
           = RingSeq(data, first, count, n)
<1>1. ASSUME NEW i \in 1..count
      PROVE  (first + i - 1) % n # (first + count) % n
  <2>1. (first + (i - 1)) % n = IF first + (i - 1) < n THEN first + (i - 1) ELSE first + (i - 1) - n
    BY i - 1 \in 0..n, ModPlus
  <2>2. (first + count) % n = IF first + count < n THEN first + count ELSE first + count - n
    BY count \in 0..n, ModPlus
  <2>3. first + i - 1 = first + (i - 1)
    OBVIOUS
  <2> QED BY <2>1, <2>2, <2>3
<1>2. \A i \in 1..count : (first + i - 1) % n \in 0..(n - 1)
  BY ModRange, SMTT(30)
<1> QED BY <1>1, <1>2 DEF RingSeq

(* Counting the slot behind the last item appends what it holds.           *)
LEMMA RingSeqAppend ==
  ASSUME NEW n \in Nat \ {0}, NEW S, NEW data \in [0..(n - 1) -> S],
         NEW first \in 0..(n - 1), NEW count \in 0..(n - 1)
  PROVE  RingSeq(data, first, count + 1, n)
           = Append(RingSeq(data, first, count, n), data[(first + count) % n])
<1> DEFINE s == RingSeq(data, first, count, n)
           t == RingSeq(data, first, count + 1, n)
           v == data[(first + count) % n]
<1>1. v \in S
  BY ModRange
<1>2. /\ s \in Seq(S) /\ Len(s) = count
      /\ \A i \in 1..count : s[i] = data[(first + i - 1) % n]
  <2>1. s \in Seq(S)
    BY RingSeqType
  <2> QED BY <2>1, RingSeqLen, SMTT(30)
<1>3. /\ t \in Seq(S) /\ Len(t) = count + 1
      /\ \A i \in 1..(count + 1) : t[i] = data[(first + i - 1) % n]
  <2>1. t \in Seq(S)
    BY count + 1 \in Nat, RingSeqType
  <2> QED BY <2>1, count + 1 \in Nat DEF RingSeq
<1>4. /\ Append(s, v) \in Seq(S)
      /\ Len(Append(s, v)) = count + 1
      /\ \A i \in 1..count : Append(s, v)[i] = s[i]
      /\ Append(s, v)[count + 1] = v
  <2> HIDE DEF s, v
  <2> QED BY <1>1, <1>2, AppendProperties
<1>5. \A i \in 1..(count + 1) : t[i] = Append(s, v)[i]
  <2> SUFFICES ASSUME NEW i \in 1..(count + 1) PROVE t[i] = Append(s, v)[i]
    OBVIOUS
  <2> HIDE DEF s, t, v
  <2>1. CASE i = count + 1
    <3>1. t[i] = v
      BY <2>1, <1>3, first + (count + 1) - 1 = first + count DEF v
    <3> QED BY <2>1, <3>1, <1>4
  <2>2. CASE i \in 1..count
    BY <2>2, <1>2, <1>3, <1>4
  <2>3. i = count + 1 \/ i \in 1..count
    OBVIOUS
  <2> QED BY <2>1, <2>2, <2>3
<1> HIDE DEF s, t, v
<1>6. t = Append(s, v)
  BY <1>3, <1>4, <1>5, SeqEqual
<1> QED BY <1>6 DEF s, t, v

(* Moving `first' one slot on removes the oldest item.                     *)
LEMMA RingSeqTail ==
  ASSUME NEW n \in Nat \ {0}, NEW S, NEW data \in [0..(n - 1) -> S],
         NEW first \in 0..(n - 1), NEW count \in 1..n
  PROVE  /\ RingSeq(data, first, count, n) # <<>>
         /\ Head(RingSeq(data, first, count, n)) = data[first]
         /\ RingSeq(data, (first + 1) % n, count - 1, n)
              = Tail(RingSeq(data, first, count, n))
<1> DEFINE next == (first + 1) % n
           s == RingSeq(data, first, count, n)
           t == RingSeq(data, next, count - 1, n)
<1>0. next \in 0..(n - 1)
  BY ModRange
<1>1. /\ s \in Seq(S) /\ Len(s) = count
      /\ \A i \in 1..count : s[i] = data[(first + i - 1) % n]
  <2>1. s \in Seq(S)
    BY RingSeqType
  <2> QED BY <2>1, RingSeqLen
<1>2. /\ t \in Seq(S) /\ Len(t) = count - 1
      /\ \A i \in 1..(count - 1) : t[i] = data[(next + i - 1) % n]
  <2> HIDE DEF next
  <2>1. t \in Seq(S)
    BY <1>0, count - 1 \in Nat, RingSeqType
  <2> QED BY <2>1, count - 1 \in Nat, RingSeqLen
<1>3. s # <<>>
  <2> HIDE DEF s
  <2> QED BY <1>1, EmptySeq
<1>4. Head(s) = data[first]
  <2>1. (first + 1 - 1) % n = first
    BY ModSmall, first + 1 - 1 = first
  <2>2. s[1] = data[first]
    BY <1>1, <2>1, 1 \in 1..count
  <2> HIDE DEF s
  <2> QED BY <2>2, <1>1, <1>3
<1>5. /\ Tail(s) \in Seq(S) /\ Len(Tail(s)) = count - 1
      /\ \A i \in 1..(count - 1) : Tail(s)[i] = s[i + 1]
  <2> HIDE DEF s
  <2> QED BY <1>1, <1>3, HeadTailProperties
<1>6. ASSUME NEW i \in 1..(count - 1) PROVE t[i] = Tail(s)[i]
  <2>1. (next + (i - 1)) % n = IF next + (i - 1) < n THEN next + (i - 1) ELSE next + (i - 1) - n
    <3> HIDE DEF next
    <3> QED BY <1>0, i - 1 \in 0..n, ModPlus
  <2>2. next = IF first + 1 < n THEN first + 1 ELSE first + 1 - n
    BY 1 \in 0..n, ModPlus
  <2>3. (first + i) % n = IF first + i < n THEN first + i ELSE first + i - n
    BY i \in 0..n, ModPlus
  <2>4. (next + i - 1) % n = (first + (i + 1) - 1) % n
    <3> HIDE DEF next
    <3>1. next + i - 1 = next + (i - 1) /\ first + (i + 1) - 1 = first + i
      BY <1>0
    <3> QED BY <2>1, <2>2, <2>3, <3>1, <1>0
  <2> HIDE DEF s, t, next
  <2>5. t[i] = data[(next + i - 1) % n]
    BY <1>2
  <2>6. s[i + 1] = data[(first + (i + 1) - 1) % n]
    BY <1>1, i + 1 \in 1..count
  <2>7. Tail(s)[i] = s[i + 1]
    BY <1>5
  <2> QED BY <2>4, <2>5, <2>6, <2>7
<1>7. t = Tail(s)
  <2> HIDE DEF s, t
  <2> QED BY <1>2, <1>5, <1>6, SeqEqual
<1> QED BY <1>3, <1>4, <1>7

-----------------------------------------------------------------------------
(* Every nonempty set of naturals has a least element: induction, as the    *)
(* proofs below use it.                                                     *)
LEMMA Least ==
  ASSUME NEW T, T \subseteq Nat, T # {}
  PROVE  \E x \in T : \A y \in T : x <= y
<1>1. \E x \in T : \A y \in T : <<y, x>> \notin OpToRel(<, Nat)
  BY NatLessThanWellFounded, WFMin
<1>2. ASSUME NEW x \in Nat, NEW y \in Nat, y < x PROVE <<y, x>> \in OpToRel(<, Nat)
  BY <1>2 DEF OpToRel
<1>3. \E x \in T : \A y \in T : ~(y < x)
  BY <1>1, <1>2, Zenon
<1> QED BY <1>3

(* s is the list that starts at `head': its nodes are different and each    *)
(* points to the one after it, the last to nil.                             *)
Chain(head, nxt, nil, s) ==
  /\ s \in Seq(DOMAIN nxt)
  /\ \A i, j \in 1..Len(s) : s[i] = s[j] => i = j
  /\ head = IF s = <<>> THEN nil ELSE s[1]
  /\ \A i \in 1..Len(s) : nxt[s[i]] = IF i = Len(s) THEN nil ELSE s[i + 1]

(* The nodes a walk of n steps along s meets.                               *)
WalkOf(s, nil, n) == [i \in 0..n |-> IF i < Len(s) THEN s[i + 1] ELSE nil]

(* Walking along the next pointers of a list meets its nodes in turn.       *)
LEMMA WalkChain ==
  ASSUME NEW head, NEW nxt, NEW nil, NEW s, nil \notin DOMAIN nxt,
         IsFiniteSet(DOMAIN nxt), Chain(head, nxt, nil, s)
  PROVE  Walk(head, nxt, nil) = WalkOf(s, nil, Cardinality(DOMAIN nxt))
<1> DEFINE N == Cardinality(DOMAIN nxt)
           Step(at) == [i \in 0..N |-> IF i = 0 THEN head
                         ELSE IF at[i - 1] = nil THEN nil ELSE nxt[at[i - 1]]]
           w == WalkOf(s, nil, N)
           at == Walk(head, nxt, nil)
<1>1. N \in Nat
  BY FS_CardinalityType
<1>2. /\ Len(s) \in Nat /\ \A i \in 1..Len(s) : s[i] \in DOMAIN nxt
      /\ s = <<>> <=> Len(s) = 0
  BY DEF Chain
<1>3. w = Step(w)
  <2>1. ASSUME NEW i \in 0..N PROVE w[i] = Step(w)[i]
    BY <1>1, <1>2, <2>1 DEF WalkOf, Chain
  <2> QED BY <2>1 DEF WalkOf
<1>4. at = CHOOSE f : f = Step(f)
  BY DEF Walk
<1> HIDE DEF Step, w, at
<1>5. at = Step(at)
  BY <1>3, <1>4
<1>6. \A i \in 0..N : at[i] = w[i]
  <2> SUFFICES ASSUME {i \in 0..N : at[i] # w[i]} # {} PROVE FALSE
    OBVIOUS
  <2> DEFINE T == {i \in 0..N : at[i] # w[i]}
  <2>1. T \subseteq Nat /\ T # {}
    BY <1>1
  <2> HIDE DEF T
  <2>2. PICK x \in T : \A y \in T : x <= y
    BY <2>1, Least
  <2>3. x \in 0..N /\ at[x] # w[x]
    BY DEF T
  <2>4. x # 0 => at[x - 1] = w[x - 1] /\ x - 1 \in 0..N
    BY <2>2, <2>3, <1>1 DEF T
  <2>5. at[x] = Step(at)[x] /\ w[x] = Step(w)[x]
    BY <1>3, <1>5
  <2>6. Step(at)[x] = Step(w)[x]
    BY <2>3, <2>4 DEF Step
  <2> QED BY <2>3, <2>5, <2>6
<1>7. at = w
  BY <1>3, <1>5, <1>6 DEF Step
<1> QED BY <1>7 DEF at, w

(* The elements of a sequence.                                              *)
Elems(s) == {s[i] : i \in 1..Len(s)}

(* A list is not longer than the set of nodes it is made of.                *)
LEMMA ChainLen ==
  ASSUME NEW head, NEW nxt, NEW nil, NEW s,
         IsFiniteSet(DOMAIN nxt), Chain(head, nxt, nil, s)
  PROVE  Len(s) \in 0..Cardinality(DOMAIN nxt)
<1>1. Len(s) \in Nat /\ s \in [1..Len(s) -> DOMAIN nxt]
  BY DEF Chain
<1>2. s \in Injection(1..Len(s), DOMAIN nxt)
  BY <1>1 DEF Chain, Injection, IsInjective
<1>3. Cardinality(1..Len(s)) <= Cardinality(DOMAIN nxt)
  BY <1>2, FS_Injection DEF ExistsInjection
<1> QED BY <1>1, <1>3, FS_Interval, FS_CardinalityType

(* A walk finds exactly the nodes of the list, and comes to its end.        *)
LEMMA ChainNodes ==
  ASSUME NEW head, NEW nxt, NEW nil, NEW s, nil \notin DOMAIN nxt,
         IsFiniteSet(DOMAIN nxt), Chain(head, nxt, nil, s)
  PROVE  /\ Nodes(head, nxt, nil) = Elems(s)
         /\ Ends(head, nxt, nil)
<1> DEFINE N == Cardinality(DOMAIN nxt)
<1>1. N \in Nat /\ Len(s) \in 0..N
  BY ChainLen, FS_CardinalityType
<1>2. Walk(head, nxt, nil) = WalkOf(s, nil, N)
  BY WalkChain
<1>3. \A i \in 1..Len(s) : s[i] \in DOMAIN nxt
  BY <1>1 DEF Chain
<1> HIDE DEF N
<1>4. Nodes(head, nxt, nil) = {WalkOf(s, nil, N)[i] : i \in 0..N} \ {nil}
  BY <1>2 DEF Nodes, WalkOf
<1>5. ASSUME NEW i \in 1..Len(s) PROVE s[i] \in Nodes(head, nxt, nil)
  <2>1. i - 1 \in 0..N /\ WalkOf(s, nil, N)[i - 1] = s[i]
    BY <1>1 DEF WalkOf
  <2> QED BY <1>3, <1>4, <2>1
<1>6. ASSUME NEW i \in 0..N, WalkOf(s, nil, N)[i] # nil
      PROVE  WalkOf(s, nil, N)[i] \in Elems(s)
  BY <1>1, <1>6 DEF WalkOf, Elems
<1>7. Ends(head, nxt, nil)
  BY <1>1, <1>2 DEF Ends, WalkOf, N
<1> QED BY <1>4, <1>5, <1>6, <1>7 DEF Elems


(* x is put before the nodes of s.                                          *)
Prepends(head, nxt, s, x, nx, r) == nx = [nxt EXCEPT ![x] = head] /\ r = <<x>> \o s

(* A node that is not on the list becomes its head.                         *)
LEMMA ChainPush ==
  ASSUME NEW head, NEW nxt, NEW nil, NEW s, NEW x \in DOMAIN nxt,
         Chain(head, nxt, nil, s), x \notin Elems(s), nil \notin DOMAIN nxt,
         NEW nx, NEW r, Prepends(head, nxt, s, x, nx, r)
  PROVE  Chain(x, nx, nil, r) /\ Elems(r) = Elems(s) \cup {x}
<1> USE DEF Prepends
<1>1. Len(s) \in Nat /\ (s = <<>> <=> Len(s) = 0)
      /\ \A i \in 1..Len(s) : s[i] \in DOMAIN nxt /\ s[i] # x
  BY DEF Chain, Elems
<1>2. r \in Seq(DOMAIN nxt) /\ Len(r) = Len(s) + 1 /\ r[1] = x /\ r # <<>>
      /\ \A i \in 2..Len(r) : i - 1 \in 1..Len(s) /\ r[i] = s[i - 1]
  BY <1>1 DEF Chain
<1>3. \A i, j \in 1..Len(r) : r[i] = r[j] => i = j
  <2> SUFFICES ASSUME NEW i \in 1..Len(r), NEW j \in 1..Len(r), r[i] = r[j], i # j
               PROVE  FALSE
    OBVIOUS
  <2>1. CASE i = 1
    BY <1>1, <1>2, <2>1
  <2>2. CASE j = 1
    BY <1>1, <1>2, <2>2
  <2>3. CASE i # 1 /\ j # 1
    <3>1. i \in 2..Len(r) /\ j \in 2..Len(r)
      BY <1>1, <1>2, <2>3
    <3>2. i - 1 \in 1..Len(s) /\ j - 1 \in 1..Len(s) /\ s[i - 1] = s[j - 1]
      BY <1>2, <3>1
    <3>3. i - 1 = j - 1
      BY <3>2 DEF Chain
    <3> QED BY <1>1, <1>2, <3>1, <3>3
  <2> QED BY <2>1, <2>2, <2>3
<1>4. \A i \in 1..Len(r) : nx[r[i]] = IF i = Len(r) THEN nil ELSE r[i + 1]
  <2> SUFFICES ASSUME NEW i \in 1..Len(r)
               PROVE  nx[r[i]] = IF i = Len(r) THEN nil ELSE r[i + 1]
    OBVIOUS
  <2>1. CASE i = 1
    <3>1. nx[r[i]] = head
      BY <1>2, <2>1
    <3>2. CASE Len(s) = 0
      BY <1>1, <1>2, <2>1, <3>1, <3>2 DEF Chain
    <3>3. CASE Len(s) # 0
      BY <1>1, <1>2, <2>1, <3>1, <3>3 DEF Chain
    <3> QED BY <3>2, <3>3
  <2>2. CASE i # 1
    <3>1. i \in 2..Len(r) /\ i - 1 \in 1..Len(s) /\ r[i] = s[i - 1]
      BY <1>1, <1>2, <2>2
    <3>2. nx[r[i]] = nxt[s[i - 1]]
      BY <1>1, <3>1
    <3>3. nxt[s[i - 1]] = IF i - 1 = Len(s) THEN nil ELSE s[i]
      BY <3>1, <1>1 DEF Chain
    <3>4. i # Len(r) => i + 1 \in 2..Len(r) /\ r[i + 1] = s[i]
      BY <1>1, <1>2, <3>1
    <3> QED BY <1>1, <1>2, <3>1, <3>2, <3>3, <3>4
  <2> QED BY <2>1, <2>2
<1>5. Chain(x, nx, nil, r)
  BY <1>2, <1>3, <1>4 DEF Chain
<1>6. Elems(r) = Elems(s) \cup {x}
  <2>1. ASSUME NEW i \in 1..Len(s) PROVE s[i] \in Elems(r)
    <3>1. i + 1 \in 2..Len(r) /\ r[i + 1] = s[i]
      BY <1>1, <1>2
    <3> QED BY <1>1, <1>2, <3>1 DEF Elems
  <2>2. x \in Elems(r)
    BY <1>1, <1>2 DEF Elems
  <2>3. ASSUME NEW i \in 1..Len(r) PROVE r[i] \in Elems(s) \cup {x}
    <3>1. CASE i = 1
      BY <1>2, <3>1
    <3>2. CASE i # 1
      BY <1>1, <1>2, <3>2 DEF Elems
    <3> QED BY <3>1, <3>2
  <2> QED BY <2>1, <2>2, <2>3 DEF Elems
<1> QED BY <1>5, <1>6

(* s without its k-th element.                                              *)
Cut(s, k) == [i \in 1..(Len(s) - 1) |-> IF i < k THEN s[i] ELSE s[i + 1]]

(* The pointer to the k-th node, of its predecessor or the head, takes the  *)
(* value of its own next pointer.                                           *)
Skips(head, nxt, s, k, head2, nxt2) ==
  /\ DOMAIN nxt2 = DOMAIN nxt
  /\ head2 = IF k = 1 THEN nxt[s[1]] ELSE head
  /\ \A i \in 1..Len(s) :
       i # k => nxt2[s[i]] = IF i = k - 1 THEN nxt[s[k]] ELSE nxt[s[i]]

(* The k-th node is unlinked.                                               *)
LEMMA ChainCut ==
  ASSUME NEW head, NEW nxt, NEW nil, NEW s, NEW k \in 1..Len(s), NEW head2, NEW nxt2,
         Chain(head, nxt, nil, s), Skips(head, nxt, s, k, head2, nxt2)
  PROVE  /\ Chain(head2, nxt2, nil, Cut(s, k))
         /\ Elems(Cut(s, k)) = Elems(s) \ {s[k]}
<1> USE DEF Skips
<1> DEFINE r == Cut(s, k)
           At(i) == IF i < k THEN i ELSE i + 1
<1>1. PICK n \in Nat : n = Len(s)
  BY DEF Chain
<1>2. /\ k \in 1..n
      /\ \A i \in 1..n : s[i] \in DOMAIN nxt
      /\ \A i, j \in 1..n : s[i] = s[j] => i = j
      /\ head = s[1]
      /\ \A i \in 1..n : nxt[s[i]] = IF i = n THEN nil ELSE s[i + 1]
      /\ \A i \in 1..n : i # k => nxt2[s[i]] = IF i = k - 1 THEN nxt[s[k]] ELSE nxt[s[i]]
  BY <1>1 DEF Chain
<1>3. \A i \in 1..(n - 1) : At(i) \in 1..n /\ At(i) # k /\ r[i] = s[At(i)]
  BY <1>1, <1>2 DEF Cut
<1>4. r \in Seq(DOMAIN nxt) /\ Len(r) = n - 1
  <2>1. n - 1 \in Nat /\ r \in [1..(n - 1) -> DOMAIN nxt]
    BY <1>1, <1>2, <1>3 DEF Cut
  <2> QED BY <2>1
<1> HIDE DEF r
<1>5. \A i, j \in 1..(n - 1) : r[i] = r[j] => i = j
  BY <1>2, <1>3
<1>6. ASSUME NEW i \in 1..(n - 1)
      PROVE  nxt2[r[i]] = IF i = n - 1 THEN nil ELSE r[i + 1]
  <2>1. nxt2[r[i]] = IF At(i) = k - 1 THEN nxt[s[k]] ELSE nxt[s[At(i)]]
    BY <1>2, <1>3
  <2>2. i # n - 1 => i + 1 \in 1..(n - 1)
    BY <1>1
  <2>3. CASE i = k - 1
    BY <1>1, <1>2, <1>3, <2>1, <2>2, <2>3
  <2>4. CASE i # k - 1
    BY <1>1, <1>2, <1>3, <2>1, <2>2, <2>4
  <2> QED BY <2>3, <2>4
<1>7. head2 = IF r = <<>> THEN nil ELSE r[1]
  <2>1. CASE n = 1
    <3>1. r = <<>> /\ k = 1 /\ head2 = nxt[s[1]]
      BY <1>1, <1>2, <1>4, <2>1
    <3> QED BY <1>2, <2>1, <3>1
  <2>2. CASE n # 1
    <3>1. r # <<>> /\ 1 \in 1..(n - 1) /\ r[1] = s[At(1)]
      BY <1>1, <1>2, <1>3, <1>4, <2>2
    <3> QED BY <1>1, <1>2, <2>2, <3>1
  <2> QED BY <2>1, <2>2
<1>8. Chain(head2, nxt2, nil, r)
  BY <1>1, <1>4, <1>5, <1>6, <1>7 DEF Chain
<1>9. Elems(r) = Elems(s) \ {s[k]}
  <2>1. ASSUME NEW i \in 1..n, i # k PROVE s[i] \in Elems(r)
    <3> DEFINE j == IF i < k THEN i ELSE i - 1
    <3>1. j \in 1..(n - 1) /\ At(j) = i
      BY <1>1, <1>2, <2>1
    <3>2. r[j] = s[i]
      BY <1>3, <3>1
    <3> QED BY <1>4, <3>1, <3>2 DEF Elems
  <2>2. ASSUME NEW i \in 1..(n - 1) PROVE r[i] \in Elems(s) \ {s[k]}
    BY <1>1, <1>2, <1>3 DEF Elems
  <2>3. ASSUME NEW x \in Elems(s) \ {s[k]} PROVE x \in Elems(r)
    BY <1>1, <2>1 DEF Elems
  <2>4. ASSUME NEW x \in Elems(r) PROVE x \in Elems(s) \ {s[k]}
    BY <1>4, <2>2, SMTT(30) DEF Elems
  <2> QED BY <2>3, <2>4
<1> QED BY <1>8, <1>9 DEF r


(* A list without its head.                                                 *)
LEMMA ChainTail ==
  ASSUME NEW head, NEW nxt, NEW nil, NEW s, Chain(head, nxt, nil, s), s # <<>>
  PROVE  /\ head = s[1] /\ head \in DOMAIN nxt /\ Len(Tail(s)) = Len(s) - 1
         /\ Chain(nxt[head], nxt, nil, Tail(s))
         /\ Elems(s) = Elems(Tail(s)) \cup {head} /\ head \notin Elems(Tail(s))
<1> DEFINE r == Tail(s)
<1>1. PICK n \in Nat : n = Len(s)
  BY DEF Chain
<1>2. /\ n > 0 /\ head = s[1] /\ s \in Seq(DOMAIN nxt)
      /\ \A i \in 1..n : s[i] \in DOMAIN nxt
      /\ \A i, j \in 1..n : s[i] = s[j] => i = j
      /\ \A i \in 1..n : nxt[s[i]] = IF i = n THEN nil ELSE s[i + 1]
  BY <1>1 DEF Chain
<1>3. /\ r \in Seq(DOMAIN nxt) /\ Len(r) = n - 1
      /\ \A i \in 1..(n - 1) : r[i] = s[i + 1] /\ i + 1 \in 1..n
  BY <1>1, <1>2
<1> HIDE DEF r
<1>4. \A i, j \in 1..(n - 1) : r[i] = r[j] => i = j
  BY <1>1, <1>2, <1>3
<1>5. nxt[head] = IF r = <<>> THEN nil ELSE r[1]
  <2>1. 1 \in 1..n /\ (r = <<>> <=> n = 1) /\ (n # 1 => 1 \in 1..(n - 1))
    BY <1>1, <1>2, <1>3
  <2> QED BY <1>2, <1>3, <2>1
<1>6. \A i \in 1..(n - 1) : nxt[r[i]] = IF i = n - 1 THEN nil ELSE r[i + 1]
  <2> SUFFICES ASSUME NEW i \in 1..(n - 1)
               PROVE  nxt[r[i]] = IF i = n - 1 THEN nil ELSE r[i + 1]
    OBVIOUS
  <2>1. i # n - 1 => i + 1 \in 1..(n - 1)
    BY <1>1
  <2>2. nxt[s[i + 1]] = IF i + 1 = n THEN nil ELSE s[(i + 1) + 1]
    BY <1>2, <1>3
  <2>3. i + 1 = n <=> i = n - 1
    BY <1>1
  <2> QED BY <1>3, <2>1, <2>2, <2>3
<1>7. Chain(nxt[head], nxt, nil, r)
  BY <1>3, <1>4, <1>5, <1>6 DEF Chain
<1>8. Elems(s) = Elems(r) \cup {head}
  <2>1. ASSUME NEW i \in 1..n PROVE s[i] \in Elems(r) \cup {head}
    <3>1. CASE i = 1
      BY <1>2, <3>1
    <3>2. CASE i # 1
      <4>1. i - 1 \in 1..(n - 1) /\ (i - 1) + 1 = i
        BY <1>1, <3>2
      <4>2. r[i - 1] = s[i]
        BY <1>3, <4>1
      <4> QED BY <1>3, <4>1, <4>2 DEF Elems
    <3> QED BY <3>1, <3>2
  <2>2. 1 \in 1..n
    BY <1>1, <1>2
  <2>3. head \in Elems(s)
    BY <1>1, <1>2, <2>2 DEF Elems
  <2> QED BY <1>1, <1>3, <2>1, <2>3 DEF Elems
<1>9. head \notin Elems(r)
  <2> SUFFICES ASSUME NEW i \in 1..(n - 1), r[i] = s[1] PROVE FALSE
    BY <1>2, <1>3 DEF Elems
  <2>1. i + 1 = 1
    BY <1>1, <1>2, <1>3
  <2> QED BY <1>1, <2>1
<1> QED BY <1>1, <1>2, <1>3, <1>7, <1>8, <1>9 DEF r

(* x is the first element of s that is in K, nil if there is none.          *)
IsFirst(K, s, nil, x) ==
  \/ x = nil /\ \A i \in 1..Len(s) : s[i] \notin K
  \/ \E i \in 1..Len(s) : x = s[i] /\ x \in K /\ \A j \in 1..Len(s) : j < i => s[j] \notin K

(* FirstIn walks to the first node of the list that is in K.                *)
LEMMA FirstInChain ==
  ASSUME NEW head, NEW nxt, NEW nil, NEW s, NEW K, nil \notin DOMAIN nxt, nil \notin K,
         IsFiniteSet(DOMAIN nxt), Chain(head, nxt, nil, s)
  PROVE  IsFirst(K, s, nil, FirstIn(K, head, nxt, nil))
<1> DEFINE at == Walk(head, nxt, nil)
           N == Cardinality(DOMAIN nxt)
           hits == {i \in DOMAIN at : at[i] \in K}
           x == FirstIn(K, head, nxt, nil)
<1>1. PICK n \in Nat : n = Len(s)
  BY DEF Chain
<1>2. N \in Nat /\ n \in 0..N
  BY <1>1, FS_CardinalityType, ChainLen
<1>3. /\ DOMAIN at = 0..N
      /\ \A i \in 0..N : at[i] = IF i < n THEN s[i + 1] ELSE nil
  <2>1. at = WalkOf(s, nil, N)
    BY WalkChain
  <2> QED BY <1>1, <2>1 DEF WalkOf
<1>4. x = IF hits = {} THEN nil ELSE at[CHOOSE i \in hits : \A j \in hits : i <= j]
  BY DEF FirstIn
<1> HIDE DEF at, N, x
<1>5. \A i \in 1..n : i - 1 \in 0..N /\ at[i - 1] = s[i]
  BY <1>1, <1>2, <1>3
<1>6. CASE hits = {}
  <2>1. ASSUME NEW i \in 1..n PROVE s[i] \notin K
    BY <1>3, <1>5, <1>6
  <2> QED BY <1>1, <1>4, <1>6, <2>1 DEF IsFirst, x
<1>7. CASE hits # {}
  <2>1. hits \subseteq Nat
    BY <1>2, <1>3
  <2>2. PICK k \in hits : k = CHOOSE i \in hits : \A j \in hits : i <= j
    BY <1>7, <2>1, Least
  <2>3. \A j \in hits : k <= j
    BY <1>7, <2>1, <2>2, Least
  <2>4. k \in 0..N /\ at[k] \in K /\ x = at[k]
    BY <1>3, <1>4, <1>7, <2>2
  <2>5. k < n /\ at[k] = s[k + 1] /\ k + 1 \in 1..n
    BY <1>1, <1>2, <1>3, <2>4
  <2>6. ASSUME NEW j \in 1..n, j < k + 1 PROVE s[j] \notin K
    <3>1. j - 1 \in 0..N /\ at[j - 1] = s[j] /\ ~(k <= j - 1)
      BY <1>1, <1>2, <1>5, <2>4, <2>6
    <3> QED BY <1>3, <2>3, <3>1
  <2> QED BY <1>1, <2>4, <2>5, <2>6 DEF IsFirst, x
<1> QED BY <1>6, <1>7

(* There is one first element in K.                                         *)
LEMMA FirstUnique ==
  ASSUME NEW K, NEW s, NEW nil, NEW x, NEW y, Len(s) \in Nat,
         nil \notin K, IsFirst(K, s, nil, x), IsFirst(K, s, nil, y)
  PROVE  x = y
<1>1. CASE \A i \in 1..Len(s) : s[i] \notin K
  BY <1>1 DEF IsFirst
<1>2. CASE ~ \A i \in 1..Len(s) : s[i] \notin K
  <2>1. PICK i \in 1..Len(s) : x = s[i] /\ x \in K /\ \A j \in 1..Len(s) : j < i => s[j] \notin K
    BY <1>2 DEF IsFirst
  <2>2. PICK k \in 1..Len(s) : y = s[k] /\ y \in K /\ \A j \in 1..Len(s) : j < k => s[j] \notin K
    BY <1>2 DEF IsFirst
  <2>3. ~(i < k) /\ ~(k < i)
    BY <2>1, <2>2
  <2>4. i = k
    BY <2>3
  <2> QED BY <2>1, <2>2, <2>4
<1> QED BY <1>1, <1>2

(* FirstIn, one node at a time.                                             *)
LEMMA FirstInStep ==
  ASSUME NEW head, NEW nxt, NEW nil, NEW s, NEW K, nil \notin DOMAIN nxt, nil \notin K,
         IsFiniteSet(DOMAIN nxt), Chain(head, nxt, nil, s)
  PROVE  /\ s = <<>> => FirstIn(K, head, nxt, nil) = nil
         /\ s # <<>> /\ head \in K => FirstIn(K, head, nxt, nil) = head
         /\ s # <<>> /\ head \notin K =>
              FirstIn(K, head, nxt, nil) = FirstIn(K, nxt[head], nxt, nil)
<1> DEFINE x == FirstIn(K, head, nxt, nil)
           y == FirstIn(K, nxt[head], nxt, nil)
<1>1. IsFirst(K, s, nil, x)
  BY FirstInChain
<1> HIDE DEF x, y
<1>2. PICK n \in Nat : n = Len(s)
  BY DEF Chain
<1>3. CASE s = <<>>
  <2>1. n = 0
    BY <1>2, <1>3
  <2>2. x = nil
    BY <1>1, <1>2, <2>1 DEF IsFirst
  <2> QED BY <1>3, <2>2 DEF x
<1>4. CASE s # <<>>
  <2>1. /\ head = s[1] /\ Len(Tail(s)) = n - 1 /\ Chain(nxt[head], nxt, nil, Tail(s))
    BY <1>2, <1>4, ChainTail
  <2>2. /\ 1 \in 1..n
        /\ \A i \in 1..(n - 1) : Tail(s)[i] = s[i + 1] /\ i + 1 \in 1..n
    BY <1>2, <1>4, <2>1 DEF Chain
  <2>3. CASE head \in K
    <3>1. IsFirst(K, s, nil, head)
      <4>1. \A j \in 1..n : ~(j < 1)
        OBVIOUS
      <4> QED BY <1>2, <2>1, <2>2, <2>3, <4>1 DEF IsFirst
    <3>2. x = head
      BY <1>1, <1>2, <3>1, FirstUnique
    <3> QED BY <1>4, <2>3, <3>2 DEF x
  <2>4. CASE head \notin K
    <3>1. IsFirst(K, Tail(s), nil, y)
      BY <2>1, FirstInChain DEF y
    <3>2. PICK r : r = Tail(s)
      OBVIOUS
    <3>3. IsFirst(K, r, nil, y) /\ Len(r) = n - 1 /\ \A i \in 1..(n - 1) : r[i] = s[i + 1]
      BY <2>1, <2>2, <3>1, <3>2
    <3>4. ASSUME NEW i \in 1..n, i # 1 PROVE i - 1 \in 1..(n - 1) /\ r[i - 1] = s[i]
      <4>1. i - 1 \in 1..(n - 1) /\ (i - 1) + 1 = i
        BY <1>2, <3>4
      <4> QED BY <3>3, <4>1
    <3>5. ASSUME y = nil, \A i \in 1..(n - 1) : r[i] \notin K
          PROVE  IsFirst(K, s, nil, y)
      <4>1. \A i \in 1..n : s[i] \notin K
        BY <2>1, <2>4, <3>4, <3>5
      <4> QED BY <1>2, <3>5, <4>1 DEF IsFirst
    <3>6. ASSUME \E i \in 1..(n - 1) :
                    y = r[i] /\ y \in K /\ \A j \in 1..(n - 1) : j < i => r[j] \notin K
          PROVE  IsFirst(K, s, nil, y)
      <4>1. PICK i \in 1..(n - 1) : y = r[i] /\ y \in K /\ \A j \in 1..(n - 1) : j < i => r[j] \notin K
        BY <3>6
      <4>2. i + 1 \in 1..n /\ y = s[i + 1]
        BY <2>2, <3>3, <4>1
      <4>3. ASSUME NEW j \in 1..n, j < i + 1 PROVE s[j] \notin K
        <5>1. CASE j = 1
          BY <2>1, <2>4, <5>1
        <5>2. CASE j # 1
          <6>1. j - 1 < i
            BY <1>2, <4>3
          <6> QED BY <3>4, <4>1, <5>2, <6>1
        <5> QED BY <5>1, <5>2
      <4> QED BY <1>2, <4>1, <4>2, <4>3 DEF IsFirst
    <3>7. IsFirst(K, s, nil, y)
      <4>1. \/ y = nil /\ \A i \in 1..(n - 1) : r[i] \notin K
            \/ \E i \in 1..(n - 1) :
                 y = r[i] /\ y \in K /\ \A j \in 1..(n - 1) : j < i => r[j] \notin K
        BY <3>3 DEF IsFirst
      <4> QED BY <3>5, <3>6, <4>1
    <3>8. x = y
      BY <1>1, <1>2, <3>7, FirstUnique
    <3> QED BY <1>4, <2>4, <3>8 DEF x, y
  <2> QED BY <2>3, <2>4
<1> QED BY <1>3, <1>4

(* The nodes of s that are in K get the next one in K as their next one.    *)
Filters(K, nxt, nil, s, nxt2) ==
  /\ DOMAIN nxt2 = DOMAIN nxt /\ nxt2 = [y \in DOMAIN nxt2 |-> nxt2[y]]
  /\ \A x \in Elems(s) : x \in K => nxt2[x] = FirstIn(K, nxt[x], nxt, nil)
Filtered(K, head, nxt, nil, s, nxt2) ==
  \E r : Chain(FirstIn(K, head, nxt, nil), nxt2, nil, r) /\ Elems(r) = Elems(s) \cap K

(* The nodes that are not in K are unlinked.                                *)
LEMMA ChainFilter ==
  ASSUME NEW head, NEW nxt, NEW nil, NEW s, NEW K, NEW nxt2, nil \notin DOMAIN nxt, nil \notin K,
         IsFiniteSet(DOMAIN nxt), Chain(head, nxt, nil, s), Filters(K, nxt, nil, s, nxt2)
  PROVE  Filtered(K, head, nxt, nil, s, nxt2)
<1> DEFINE Bad(h, u) == /\ Chain(h, nxt, nil, u) /\ Filters(K, nxt, nil, u, nxt2)
                        /\ ~Filtered(K, h, nxt, nil, u, nxt2)
           T == {n \in Nat : \E h, u : n = Len(u) /\ Bad(h, u)}
<1>1. SUFFICES ASSUME T # {} PROVE FALSE
  <2>1. Len(s) \in Nat
    BY DEF Chain
  <2> QED BY <1>1, <2>1
<1>2. T \subseteq Nat
  OBVIOUS
<1>3. PICK n \in T : \A m \in T : n <= m
  <2> HIDE DEF T
  <2> QED BY <1>1, <1>2, Least
<1>4. PICK h, u : n = Len(u) /\ Bad(h, u)
  BY <1>3
<1>5. n \in Nat
  BY <1>3
<1>6. CASE u = <<>>
  <2>1. FirstIn(K, h, nxt, nil) = nil
    BY <1>4, <1>6, FirstInStep
  <2>2. Chain(nil, nxt2, nil, <<>>) /\ Elems(<<>>) = {}
    BY DEF Chain, Elems
  <2> QED BY <1>4, <1>6, <2>1, <2>2 DEF Filtered
<1>7. CASE u # <<>>
  <2>1. PICK t : t = Tail(u)
    OBVIOUS
  <2>2. /\ h \in DOMAIN nxt /\ Len(t) = n - 1 /\ Chain(nxt[h], nxt, nil, t)
        /\ Elems(u) = Elems(t) \cup {h} /\ h \notin Elems(t)
    BY <1>4, <1>7, <2>1, ChainTail
  <2>3. Filters(K, nxt, nil, t, nxt2)
    BY <1>4, <2>2 DEF Filters
  <2>4. Filtered(K, nxt[h], nxt, nil, t, nxt2)
    <3> SUFFICES ASSUME ~Filtered(K, nxt[h], nxt, nil, t, nxt2) PROVE FALSE
      OBVIOUS
    <3>1. Len(t) \in Nat
      BY <2>2 DEF Chain
    <3>2. n - 1 \in T
      BY <2>2, <2>3, <3>1
    <3>3. n <= n - 1
      BY <1>3, <3>2
    <3> QED BY <1>5, <3>3
  <2>5. PICK r : /\ Chain(FirstIn(K, nxt[h], nxt, nil), nxt2, nil, r)
                 /\ Elems(r) = Elems(t) \cap K
    BY <2>4 DEF Filtered
  <2>6. CASE h \notin K
    <3>1. FirstIn(K, h, nxt, nil) = FirstIn(K, nxt[h], nxt, nil)
      BY <1>4, <1>7, <2>6, FirstInStep
    <3>2. Elems(r) = Elems(u) \cap K
      BY <2>2, <2>5, <2>6
    <3> QED BY <1>4, <2>5, <3>1, <3>2 DEF Filtered
  <2>7. CASE h \in K
    <3>1. FirstIn(K, h, nxt, nil) = h
      BY <1>4, <1>7, <2>7, FirstInStep
    <3>2. h \in Elems(u) /\ h \in DOMAIN nxt2 /\ nil \notin DOMAIN nxt2
      BY <2>2, <2>3 DEF Filters
    <3>3. nxt2[h] = FirstIn(K, nxt[h], nxt, nil)
      BY <1>4, <2>7, <3>2 DEF Filters
    <3>4. nxt2 = [nxt2 EXCEPT ![h] = nxt2[h]]
      BY <2>3, <3>2 DEF Filters
    <3>5. PICK q, g : q = <<h>> \o r /\ g = nxt2[h]
      OBVIOUS
    <3>6. Prepends(g, nxt2, r, h, nxt2, q) /\ Chain(g, nxt2, nil, r)
      BY <2>5, <3>3, <3>4, <3>5 DEF Prepends
    <3>7. h \notin Elems(r)
      BY <2>2, <2>5
    <3>8. Chain(h, nxt2, nil, q) /\ Elems(q) = Elems(r) \cup {h}
      BY <3>2, <3>6, <3>7, ChainPush
    <3>9. Elems(q) = Elems(u) \cap K
      BY <2>2, <2>5, <2>7, <3>8
    <3> QED BY <1>4, <3>1, <3>8, <3>9 DEF Filtered
  <2> QED BY <2>6, <2>7
<1> QED BY <1>6, <1>7

-----------------------------------------------------------------------------
(* Lists as sequences.                                                     *)

Members(s) == {s[k] : k \in DOMAIN s}
Distinct(s) == \A i, j \in DOMAIN s : s[i] = s[j] => i = j

(* list_remove takes one element off a list without duplicates.            *)
LEMMA ListRemove ==
  ASSUME NEW s, NEW T, s \in Seq(T), Distinct(s), NEW c
  PROVE  /\ list_remove(s, c) \in Seq(T) /\ Distinct(list_remove(s, c))
         /\ Members(list_remove(s, c)) = Members(s) \ {c}
<1> DEFINE r == list_remove(s, c)
<1>1. CASE ~ \E k \in DOMAIN s : s[k] = c
  <2>1. r = s /\ c \notin Members(s)
    BY <1>1 DEF list_remove, Members
  <2> QED BY <2>1
<1>2. CASE \E k \in DOMAIN s : s[k] = c
  <2>1. PICK k \in DOMAIN s : k = CHOOSE j \in DOMAIN s : s[j] = c
    BY <1>2
  <2>2. s[k] = c
    BY <1>2, <2>1
  <2>3. PICK n \in Nat : n = Len(s)
    OBVIOUS
  <2>4. r = SubSeq(s, 1, k - 1) \o SubSeq(s, k + 1, n)
    BY <1>2, <2>1, <2>3 DEF list_remove
  <2>5. k \in 1..n /\ DOMAIN s = 1..n
    BY <2>3
  <2>6. /\ r \in Seq(T) /\ Len(r) = n - 1 /\ DOMAIN r = 1..(n - 1)
        /\ \A i \in 1..(n - 1) : r[i] = IF i < k THEN s[i] ELSE s[i + 1]
    <3>1. /\ SubSeq(s, 1, k - 1) \in Seq(T) /\ SubSeq(s, k + 1, n) \in Seq(T)
          /\ Len(SubSeq(s, 1, k - 1)) = k - 1 /\ Len(SubSeq(s, k + 1, n)) = n - k
          /\ \A i \in 1..(k - 1) : SubSeq(s, 1, k - 1)[i] = s[i]
          /\ \A i \in 1..(n - k) : SubSeq(s, k + 1, n)[i] = s[k + i]
      <4>1. PICK a \in Int, b \in Int : a = k - 1 /\ b = k + 1
        BY <2>5
      <4>2. (\A i \in 1..n : s[i] \in T) /\ 1 \in Int /\ n \in Int
        BY <2>3, <2>5
      <4>3. (\A i \in 1..a : s[i] \in T) /\ (\A i \in b..n : s[i] \in T)
        BY <2>5, <4>1, <4>2
      <4>4. /\ SubSeq(s, 1, a) \in Seq(T)
            /\ Len(SubSeq(s, 1, a)) = IF 1 <= a THEN a - 1 + 1 ELSE 0
            /\ \A i \in 1..(a - 1 + 1) : SubSeq(s, 1, a)[i] = s[1 + i - 1]
        BY <4>2, <4>3, SubSeqProperties
      <4>5. /\ SubSeq(s, b, n) \in Seq(T)
            /\ Len(SubSeq(s, b, n)) = IF b <= n THEN n - b + 1 ELSE 0
            /\ \A i \in 1..(n - b + 1) : SubSeq(s, b, n)[i] = s[b + i - 1]
        BY <4>2, <4>3, SubSeqProperties
      <4>6. SubSeq(s, 1, a) = SubSeq(s, 1, k - 1) /\ SubSeq(s, b, n) = SubSeq(s, k + 1, n)
        BY <4>1
      <4>7. /\ (IF 1 <= a THEN a - 1 + 1 ELSE 0) = k - 1 /\ (IF b <= n THEN n - b + 1 ELSE 0) = n - k
            /\ 1..(a - 1 + 1) = 1..(k - 1) /\ 1..(n - b + 1) = 1..(n - k)
            /\ \A i \in 1..(k - 1) : 1 + i - 1 = i
            /\ \A i \in 1..(n - k) : b + i - 1 = k + i
        BY <2>5, <4>1
      <4> QED BY <4>4, <4>5, <4>6, <4>7
    <3>2. PICK u, v : u = SubSeq(s, 1, k - 1) /\ v = SubSeq(s, k + 1, n)
      OBVIOUS
    <3>3. u \in Seq(T) /\ v \in Seq(T) /\ Len(u) = k - 1 /\ Len(v) = n - k /\ r = u \o v
      BY <2>4, <3>1, <3>2
    <3>4. u \o v \in Seq(T) /\ Len(u \o v) = Len(u) + Len(v)
      BY <3>3, ConcatProperties
    <3>5. (k - 1) + (n - k) = n - 1
      BY <2>5
    <3>6. r \in Seq(T) /\ Len(r) = n - 1
      BY <3>3, <3>4, <3>5
    <3>7. ASSUME NEW i \in 1..(n - 1) PROVE r[i] = IF i < k THEN s[i] ELSE s[i + 1]
      <4>1. CASE i < k
        <5>1. i \in 1..(k - 1) /\ i \in 1..Len(u)
          BY <2>5, <3>3, <4>1
        <5>2. (u \o v)[i] = u[i]
          BY <3>3, <5>1
        <5>3. u[i] = s[i]
          BY <3>1, <3>2, <5>1
        <5> QED BY <3>3, <4>1, <5>2, <5>3
      <4>2. CASE ~(i < k)
        <5>1. i - (k - 1) \in 1..(n - k) /\ k + (i - (k - 1)) = i + 1
          BY <2>5, <4>2
        <5>2. r[i] = v[i - (k - 1)]
          BY <2>5, <3>3, <4>2, <5>1, SMTT(30)
        <5>3. v[i - (k - 1)] = s[k + (i - (k - 1))]
          BY <3>1, <3>2, <5>1
        <5> QED BY <4>2, <5>1, <5>2, <5>3
      <4> QED BY <4>1, <4>2
    <3> QED BY <2>3, <3>6, <3>7
  <2> HIDE DEF r
  <2>7. Distinct(r)
    <3> DEFINE At(i) == IF i < k THEN i ELSE i + 1
    <3>1. \A i \in 1..(n - 1) : At(i) \in 1..n /\ r[i] = s[At(i)]
      BY <2>3, <2>5, <2>6
    <3>2. \A i, j \in 1..(n - 1) : At(i) = At(j) => i = j
      BY <2>3, <2>5
    <3> HIDE DEF At
    <3> QED BY <2>5, <2>6, <3>1, <3>2 DEF Distinct
  <2>8. ASSUME NEW i \in 1..(n - 1) PROVE r[i] \in Members(s) \ {c}
    <3>1. CASE i < k
      <4>1. i \in 1..n /\ i # k /\ r[i] = s[i]
        BY <2>5, <2>6, <3>1
      <4> QED BY <2>2, <2>5, <4>1 DEF Members, Distinct
    <3>2. CASE ~(i < k)
      <4>1. i + 1 \in 1..n /\ i + 1 # k /\ r[i] = s[i + 1]
        BY <2>5, <2>6, <3>2
      <4> QED BY <2>2, <2>5, <4>1 DEF Members, Distinct
    <3> QED BY <3>1, <3>2
  <2>9. ASSUME NEW i \in 1..n, i # k PROVE s[i] \in Members(r)
    <3>1. CASE i < k
      <4>1. i \in 1..(n - 1) /\ r[i] = s[i]
        BY <2>5, <2>6, <3>1
      <4> QED BY <2>6, <4>1 DEF Members
    <3>2. CASE ~(i < k)
      <4>1. i - 1 \in 1..(n - 1) /\ ~(i - 1 < k) /\ (i - 1) + 1 = i
        BY <2>5, <2>9, <3>2
      <4>2. r[i - 1] = s[i]
        BY <2>6, <4>1
      <4> QED BY <2>6, <4>1, <4>2 DEF Members
    <3> QED BY <3>1, <3>2
  <2>10. Members(r) = Members(s) \ {c}
    <3>1. Members(r) \subseteq Members(s) \ {c}
      BY <2>6, <2>8 DEF Members
    <3>2. Members(s) \ {c} \subseteq Members(r)
      BY <2>2, <2>5, <2>9 DEF Members
    <3> QED BY <3>1, <3>2
  <2> QED BY <2>6, <2>7, <2>10 DEF r
<1> QED BY <1>1, <1>2

(* list_add puts it at the end.                                            *)
LEMMA ListAdd ==
  ASSUME NEW s, NEW T, s \in Seq(T), Distinct(s), NEW c \in T
  PROVE  /\ list_add(s, c) \in Seq(T) /\ Distinct(list_add(s, c))
         /\ Members(list_add(s, c)) = Members(s) \cup {c}
<1>1. PICK r : r = list_remove(s, c)
  OBVIOUS
<1>2. r \in Seq(T) /\ Distinct(r) /\ Members(r) = Members(s) \ {c}
  BY <1>1, ListRemove
<1>3. PICK n \in Nat : n = Len(r)
  BY <1>2
<1>4. PICK q : q = Append(r, c)
  OBVIOUS
<1>5. /\ q \in Seq(T) /\ DOMAIN q = 1..(n + 1) /\ DOMAIN r = 1..n /\ q[n + 1] = c
      /\ \A i \in 1..n : q[i] = r[i] /\ r[i] \in Members(r) /\ r[i] # c
  <2>1. /\ q \in Seq(T) /\ DOMAIN q = 1..(n + 1) /\ DOMAIN r = 1..n /\ q[n + 1] = c
        /\ \A i \in 1..n : q[i] = r[i]
    BY <1>2, <1>3, <1>4
  <2>2. \A i \in 1..n : r[i] \in Members(r)
    BY <2>1 DEF Members
  <2> QED BY <1>2, <2>1, <2>2
<1>6. Distinct(q)
  <2> SUFFICES ASSUME NEW i \in 1..(n + 1), NEW j \in 1..(n + 1), q[i] = q[j] PROVE i = j
    BY <1>5 DEF Distinct
  <2>1. i = n + 1 \/ i \in 1..n
    OBVIOUS
  <2>2. j = n + 1 \/ j \in 1..n
    OBVIOUS
  <2> QED BY <1>2, <1>5, <2>1, <2>2 DEF Distinct
<1>7. Members(q) = Members(r) \cup {c}
  <2>1. \A i \in 1..(n + 1) : i = n + 1 \/ i \in 1..n
    OBVIOUS
  <2>2. n + 1 \in 1..(n + 1) /\ \A i \in 1..n : i \in 1..(n + 1)
    OBVIOUS
  <2>3. Members(q) \subseteq Members(r) \cup {c}
    BY <1>5, <2>1 DEF Members
  <2>4. Members(r) \cup {c} \subseteq Members(q)
    BY <1>5, <2>2 DEF Members
  <2> QED BY <2>3, <2>4
<1>8. list_add(s, c) = q
  BY <1>1, <1>4 DEF list_add
<1> QED BY <1>2, <1>5, <1>6, <1>7, <1>8
=============================================================================
