-------------------------- MODULE SicslowpanProofs --------------------------
(***************************************************************************)
(* Proofs about Sicslowpan: a packet's fragments are queued all or none,    *)
(* reassembly contexts count the bytes they hold, and what is delivered is  *)
(* one whole packet.                                                        *)
(***************************************************************************)
EXTENDS Sicslowpan, UnixLinkProofs

-----------------------------------------------------------------------------
(* How a packet is cut                                                      *)

(* The fragments a packet is cut into, by number.                           *)
Count(d) == fragment_count(Size[d])
Bytes(d, k) == Payload(Size[d], Offset(k))

LEMMA Down8Range ==
  ASSUME NEW n \in Int
  PROVE  /\ Down8(n) \in Int /\ Down8(n) <= n /\ Down8(n) > n - 8
         /\ n >= 0 => Down8(n) >= 0 /\ \E m \in Nat : Down8(n) = 8 * m
         /\ n < 0 => Down8(n) < 0
<1>1. n \div 8 \in Int /\ 8 * (n \div 8) <= n /\ 8 * (n \div 8) > n - 8
  BY Z3
<1>2. n >= 0 => n \div 8 >= 0
  BY Z3
<1> QED BY <1>1, <1>2 DEF Down8

LEMMA SizeType ==
  ASSUME NEW d \in Datagram \cup {Foreign}
  PROVE  Size[d] \in Nat /\ Size[d] > 0 /\ Size[d] <= UIP_BUFSIZE
<1>1. Size \in [Datagram \cup {Foreign} -> 1..UIP_BUFSIZE]
  BY SicslowpanAssumption
<1>2. Size[d] \in 1..UIP_BUFSIZE
  BY <1>1
<1>3. UIP_BUFSIZE \in Nat
  BY DEF UIP_BUFSIZE
<1> QED BY <1>2, <1>3

(* The room in a frame, for a first, a middle and a last fragment.          *)
LEMMA Payloads ==
  /\ frag1_payload \in Int /\ last_fragn_max_payload \in Nat
  /\ fragn_max_payload \in Nat \ {0} /\ fragn_max_payload <= last_fragn_max_payload
  /\ \E m \in Nat : fragn_max_payload = 8 * m
  /\ frag1_payload >= 0 => \E m \in Nat : frag1_payload = 8 * m
  /\ frag1_payload >= 0 => frag1_payload + FRAG1_HDR_LEN + packetbuf_hdr_len <= max_payload
<1> USE SicslowpanAssumption DEF FRAG1_HDR_LEN, FRAGN_HDR_LEN
<1>1. PICK a \in Int : a = max_payload - packetbuf_hdr_len - FRAG1_HDR_LEN
  OBVIOUS
<1>2. PICK b \in Nat : b = max_payload - FRAGN_HDR_LEN
  OBVIOUS
<1>3. frag1_payload = Down8(a) /\ fragn_max_payload = Down8(b) /\ last_fragn_max_payload = b
  BY <1>1, <1>2 DEF frag1_payload, fragn_max_payload, last_fragn_max_payload
<1>4. /\ Down8(a) \in Int /\ Down8(a) <= a
      /\ a >= 0 => \E m \in Nat : Down8(a) = 8 * m
      /\ a < 0 => Down8(a) < 0
  BY Down8Range
<1>5. /\ Down8(b) \in Int /\ Down8(b) <= b /\ Down8(b) > b - 8
      /\ \E m \in Nat : Down8(b) = 8 * m
  BY Down8Range
<1>6. b >= 8
  BY <1>2
<1> QED BY <1>1, <1>3, <1>4, <1>5, <1>6

LEMMA Mul ==
  ASSUME NEW a \in Nat, NEW b \in Nat, NEW c \in Nat, a <= b
  PROVE  /\ a * c \in Nat /\ a * c <= b * c /\ (a + 1) * c = a * c + c
         /\ (a + 2) * c = a * c + 2 * c
  BY Z3

LEMMA Quotient ==
  ASSUME NEW a \in Nat, NEW c \in Nat \ {0}
  PROVE  /\ a \div c \in Nat /\ (a \div c) * c <= a /\ a < (a \div c) * c + c
  BY Z3

(* The estimate counts the fragments right: as long as k is less than it,   *)
(* more is left than a last fragment carries, and then not more.            *)
LEMMA Left ==
  ASSUME NEW len \in Nat, frag_needed(len), frag1_payload >= 0, NEW k \in 2..fragment_count(len)
  PROVE  /\ fragment_count(len) \in Nat
         /\ len - Offset(k) \in Nat \ {0}
         /\ k < fragment_count(len) <=> len - Offset(k) > last_fragn_max_payload
<1> USE SicslowpanAssumption
<1> DEFINE H == uncomp_hdr_len
           F == fragn_max_payload
           L == last_fragn_max_payload
           middle == len - H - frag1_payload - L
<1>1. /\ frag1_payload \in Nat /\ L \in Nat /\ F \in Nat \ {0} /\ F <= L
      /\ frag1_payload + FRAG1_HDR_LEN + packetbuf_hdr_len <= max_payload
  BY Payloads
<1>2. middle \in Int /\ len > H + frag1_payload
  BY <1>1 DEF frag_needed, FRAG1_HDR_LEN
<1>3. CASE middle <= 0
  <2>1. fragment_count(len) = 2 /\ k = 2
    BY <1>2, <1>3 DEF fragment_count
  <2>2. Offset(k) = H + frag1_payload
    BY <1>1, <2>1 DEF Offset
  <2> QED BY <1>1, <1>2, <1>3, <2>1, <2>2
<1>4. CASE middle > 0
  <2>1. PICK q \in Nat : q = (middle - 1) \div F /\ q * F <= middle - 1 /\ middle - 1 < q * F + F
    <3>1. middle - 1 \in Nat
      BY <1>2, <1>4
    <3> HIDE DEF middle, F
    <3> QED BY <1>1, <3>1, Quotient
  <2>2. fragment_count(len) = 3 + q
    BY <1>4, <2>1 DEF fragment_count
  <2>3. PICK j \in Nat : j = k - 2 /\ j <= q + 1
    BY <2>2
  <2>4. Offset(k) = H + frag1_payload + j * F
    BY <1>1, <2>3 DEF Offset
  <2>5. j * F \in Nat /\ q * F \in Nat /\ (q + 1) * F = q * F + F
    BY <1>1, Mul
  <2>6. len - Offset(k) = middle + L - j * F
    BY <1>1, <1>2, <2>4, <2>5
  <2>7. CASE j <= q
    <3>1. j * F <= q * F
      BY <1>1, <2>7, Mul
    <3>2. j * F <= middle - 1
      BY <1>2, <2>1, <2>5, <3>1
    <3> QED BY <1>1, <1>2, <2>2, <2>3, <2>5, <2>6, <2>7, <3>2
  <2>8. CASE j = q + 1
    <3>1. j * F = q * F + F
      BY <2>5, <2>8
    <3> QED BY <1>1, <1>2, <2>1, <2>2, <2>3, <2>5, <2>6, <2>8, <3>1
  <2> QED BY <2>3, <2>7, <2>8
<1> QED BY <1>2, <1>3, <1>4

LEMMA CountType ==
  ASSUME NEW len \in Nat
  PROVE  fragment_count(len) \in Nat /\ fragment_count(len) >= 2
<1> USE SicslowpanAssumption
<1> DEFINE middle == len - uncomp_hdr_len - frag1_payload - last_fragn_max_payload
<1>1. middle \in Int
  BY Payloads
<1>2. CASE middle > 0
  <2>1. middle - 1 \in Nat
    BY <1>1, <1>2
  <2>2. (middle - 1) \div fragn_max_payload \in Nat
    <3> HIDE DEF middle
    <3> QED BY <2>1, Payloads, Quotient
  <2> QED BY <1>2, <2>2 DEF fragment_count
<1>3. CASE ~(middle > 0)
  BY <1>3 DEF fragment_count
<1> QED BY <1>2, <1>3

(* An offset can be sent in units of eight bytes.                           *)
LEMMA OffsetType ==
  ASSUME NEW k \in Nat \ {0}, frag1_payload >= 0
  PROVE  /\ Offset(k) \in Nat /\ Offset(k) % 8 = 0 /\ (Offset(k) = 0 <=> k = 1)
<1> USE SicslowpanAssumption
<1>1. PICK h, f, m : /\ h \in Nat /\ f \in Nat /\ m \in Nat
                     /\ uncomp_hdr_len = 8 * h /\ frag1_payload = 8 * f
                     /\ fragn_max_payload = 8 * m
  <2>1. \E h \in Nat : uncomp_hdr_len = 8 * h
    <3>1. uncomp_hdr_len = 8 * (uncomp_hdr_len \div 8) /\ uncomp_hdr_len \div 8 \in Nat
      BY Z3
    <3> QED BY <3>1
  <2> QED BY <2>1, Payloads
<1>2. CASE k = 1
  BY <1>2 DEF Offset
<1>3. CASE k # 1
  <2>1. PICK j \in Nat : j = k - 2
    BY <1>3
  <2>2. Offset(k) = 8 * h + 8 * f + j * (8 * m)
    BY <1>1, <1>3, <2>1 DEF Offset
  <2>3. j * (8 * m) = 8 * (j * m) /\ j * m \in Nat
    BY <1>1, <2>1, Z3
  <2>4. PICK r \in Nat : r = j * m
    BY <2>3
  <2>5. Offset(k) = 8 * (h + f + r)
    BY <1>1, <2>2, <2>3, <2>4
  <2>6. PICK t \in Nat : t = h + f + r
    BY <1>1
  <2>7. (8 * t) % 8 = 0
    BY Z3
  <2>8. h > 0
    BY <1>1
  <2> QED BY <1>1, <1>3, <2>5, <2>6, <2>7, <2>8
<1> QED BY <1>2, <1>3

(* The fragments of a packet follow each other without a gap, the last one  *)
(* ends where the packet ends, and each fits into a frame.                  *)
LEMMA Pieces ==
  ASSUME NEW d \in Datagram \cup {Foreign}, frag_needed(Size[d]), frag1_payload >= 0
  PROVE  /\ Count(d) \in Nat /\ Count(d) >= 2
         /\ Bytes(d, 1) < Size[d]
         /\ \A k \in 1..Count(d) :
              /\ Offset(k) \in Nat /\ Bytes(d, k) \in Nat \ {0}
              /\ k > 1 => Bytes(d, k) <= last_fragn_max_payload
              /\ k < Count(d) => Offset(k) + Bytes(d, k) = Offset(k + 1)
              /\ k = Count(d) => Offset(k) + Bytes(d, k) = Size[d]
<1> USE SicslowpanAssumption
<1>1. PICK len \in Nat : len = Size[d] /\ frag_needed(len)
  BY SizeType
<1>2. PICK N \in Nat : N = Count(d) /\ N = fragment_count(len) /\ N >= 2
  BY <1>1, CountType DEF Count
<1>3. /\ frag1_payload \in Nat /\ last_fragn_max_payload \in Nat
      /\ fragn_max_payload \in Nat \ {0} /\ fragn_max_payload <= last_fragn_max_payload
      /\ frag1_payload + FRAG1_HDR_LEN + packetbuf_hdr_len <= max_payload
  BY Payloads
<1>4. Offset(1) = 0 /\ Bytes(d, 1) = uncomp_hdr_len + frag1_payload /\ Bytes(d, 1) < len
  <2>1. Offset(1) = 0
    BY DEF Offset
  <2>2. Bytes(d, 1) = uncomp_hdr_len + frag1_payload
    BY <2>1 DEF Bytes, Payload
  <2> QED BY <1>1, <1>3, <2>1, <2>2 DEF frag_needed, FRAG1_HDR_LEN
<1>5. Offset(2) = uncomp_hdr_len + frag1_payload
  <2>1. Offset(2) = uncomp_hdr_len + frag1_payload + (2 - 2) * fragn_max_payload
    BY DEF Offset
  <2> QED BY <1>3, <2>1
<1>6. ASSUME NEW k \in 2..N
      PROVE  /\ Offset(k) \in Nat /\ Bytes(d, k) \in Nat \ {0}
             /\ Bytes(d, k) <= last_fragn_max_payload
             /\ k < N => Offset(k) + Bytes(d, k) = Offset(k + 1)
             /\ k = N => Offset(k) + Bytes(d, k) = len
  <2>1. Offset(k) \in Nat /\ Offset(k) # 0
    <3>1. k \in Nat \ {0} /\ k # 1
      BY <1>2
    <3> QED BY <3>1, OffsetType
  <2>2. /\ len - Offset(k) \in Nat \ {0}
        /\ k < N <=> len - Offset(k) > last_fragn_max_payload
    BY <1>1, <1>2, Left
  <2>3. CASE k < N
    <3>1. Bytes(d, k) = fragn_max_payload
      BY <1>1, <2>1, <2>2, <2>3 DEF Bytes, Payload
    <3>2. Offset(k + 1) = Offset(k) + fragn_max_payload
      <4>1. PICK j \in Nat : j = k - 2
        BY <1>2
      <4>2. (j + 1) * fragn_max_payload = j * fragn_max_payload + fragn_max_payload
            /\ j * fragn_max_payload \in Nat
        BY <1>3, Mul
      <4>3. Offset(k) = uncomp_hdr_len + frag1_payload + j * fragn_max_payload
        BY <4>1 DEF Offset
      <4>4. Offset(k + 1) = uncomp_hdr_len + frag1_payload + (j + 1) * fragn_max_payload
        <5>1. k + 1 # 1 /\ (k + 1) - 2 = j + 1
          BY <4>1
        <5> QED BY <5>1 DEF Offset
      <4> QED BY <1>3, <4>2, <4>3, <4>4
    <3> QED BY <1>3, <2>1, <2>3, <3>1, <3>2
  <2>4. CASE k = N
    <3>1. Bytes(d, k) = len - Offset(k)
      BY <1>1, <2>1, <2>2, <2>4 DEF Bytes, Payload
    <3> QED BY <1>3, <2>1, <2>2, <2>4, <3>1
  <2> QED BY <1>2, <2>3, <2>4
<1>7. ASSUME NEW k \in 1..N
      PROVE  /\ Offset(k) \in Nat /\ Bytes(d, k) \in Nat \ {0}
             /\ k > 1 => Bytes(d, k) <= last_fragn_max_payload
             /\ k < N => Offset(k) + Bytes(d, k) = Offset(k + 1)
             /\ k = N => Offset(k) + Bytes(d, k) = len
  <2>1. CASE k = 1
    BY <1>2, <1>3, <1>4, <1>5, <2>1
  <2>2. CASE k # 1
    BY <1>2, <1>6, <2>2
  <2> QED BY <2>1, <2>2
<1> QED BY <1>1, <1>2, <1>4, <1>7
-----------------------------------------------------------------------------
(* Sums                                                                     *)

(* t[i] is the sum of the first i values of f.                              *)
Adds(t, f, n) == t = [i \in 0..n |-> IF i = 0 THEN 0 ELSE t[i - 1] + f[i]]

(* There is such a t for every n: a least n without one would have a        *)
(* predecessor with one.                                                    *)
LEMMA AddsDefined ==
  ASSUME NEW f, NEW N \in Nat
  PROVE  \E t : Adds(t, f, N)
<1> DEFINE Bad == {n \in Nat : ~ \E t : Adds(t, f, n)}
<1> SUFFICES ASSUME Bad # {} PROVE FALSE
  OBVIOUS
<1>1. PICK n \in Bad : \A k \in Bad : n <= k
  <2>1. PICK B : B = Bad
    OBVIOUS
  <2>2. B \subseteq Nat /\ B # {}
    BY <2>1
  <2> QED BY <2>1, <2>2, Least
<1>2. n \in Nat /\ ~ \E t : Adds(t, f, n)
  BY <1>1
<1>3. CASE n = 0
  <2> DEFINE g == [i \in 0..0 |-> 0]
  <2>1. Adds(g, f, 0)
    BY DEF Adds
  <2> QED BY <1>2, <1>3, <2>1
<1>4. CASE n # 0
  <2>1. n - 1 \in Nat /\ n - 1 \notin Bad
    BY <1>1, <1>2, <1>4
  <2>2. PICK t : Adds(t, f, n - 1)
    BY <2>1
  <2>3. PICK h : h = [i \in 0..n |-> IF i = n THEN t[n - 1] + f[n] ELSE t[i]]
    OBVIOUS
  <2>4. \A i \in 0..(n - 1) : h[i] = t[i]
    BY <1>2, <2>3
  <2>5. ASSUME NEW i \in 0..n
        PROVE  h[i] = IF i = 0 THEN 0 ELSE h[i - 1] + f[i]
    <3>1. CASE i = n
      <4>1. h[i] = t[n - 1] + f[n] /\ n - 1 \in 0..(n - 1)
        BY <1>2, <1>4, <2>3, <3>1
      <4>2. h[n - 1] = t[n - 1]
        BY <2>4, <4>1
      <4> QED BY <1>4, <3>1, <4>1, <4>2
    <3>2. CASE i # n
      <4>1. i \in 0..(n - 1) /\ (i # 0 => i - 1 \in 0..(n - 1))
        BY <1>2, <3>2
      <4>2. t[i] = IF i = 0 THEN 0 ELSE t[i - 1] + f[i]
        BY <2>2, <4>1 DEF Adds
      <4>3. h[i] = t[i] /\ (i # 0 => h[i - 1] = t[i - 1])
        BY <2>4, <4>1
      <4> QED BY <4>2, <4>3
    <3> QED BY <3>1, <3>2
  <2>6. h = [i \in 0..n |-> h[i]]
    BY <2>3
  <2>7. h = [i \in 0..n |-> IF i = 0 THEN 0 ELSE h[i - 1] + f[i]]
    BY <2>5, <2>6
  <2>8. Adds(h, f, n)
    BY <2>7 DEF Adds
  <2> QED BY <1>2, <2>8
<1> QED BY <1>3, <1>4

(* So a total is the last of the partial sums.                              *)
LEMMA TotalAdds ==
  ASSUME NEW f, NEW N \in Nat
  PROVE  \E t : /\ Total(f, N) = t[N] /\ t[0] = 0
                /\ \A i \in 1..N : t[i] = t[i - 1] + f[i]
<1>1. PICK t : t = CHOOSE g : Adds(g, f, N)
  OBVIOUS
<1>2. Adds(t, f, N)
  BY <1>1, AddsDefined
<1>3. Total(f, N) = t[N]
  BY <1>1 DEF Total, Adds
<1>4. \A i \in 0..N : t[i] = IF i = 0 THEN 0 ELSE t[i - 1] + f[i]
  BY <1>2 DEF Adds
<1>5. t[0] = 0 /\ \A i \in 1..N : t[i] = t[i - 1] + f[i]
  BY <1>4
<1> QED BY <1>3, <1>5

(* The arithmetic of one term more on each of two partial sums.             *)
LEMMA SumsShift ==
  ASSUME NEW x \in Nat, NEW y \in Nat, NEW m \in Nat, NEW n \in Nat, NEW d \in Int
  PROVE  /\ x + m \in Nat /\ y + n \in Nat
         /\ y = x /\ n = m => y + n = x + m
         /\ y = x /\ d = n - m => y + n = (x + m) + d
         /\ y = x + d /\ n = m => y + n = (x + m) + d
  OBVIOUS

LEMMA SumsLess ==
  ASSUME NEW x \in Nat, NEW y \in Nat, NEW m \in Nat, NEW n \in Nat, x <= y, m <= n
  PROVE  /\ x + m \in Nat /\ y + n \in Nat /\ x + m <= y + n
         /\ x < y \/ m < n => x + m < y + n
  OBVIOUS

(* The partial sums of two functions that differ in one place differ, from  *)
(* there on, by the difference.                                             *)
LEMMA TotalChange ==
  ASSUME NEW N \in Nat, NEW f \in [1..N -> Nat], NEW g \in [1..N -> Nat], NEW b \in 1..N,
         \A i \in 1..N : i # b => g[i] = f[i]
  PROVE  /\ Total(f, N) \in Nat /\ Total(g, N) \in Nat
         /\ Total(g, N) = Total(f, N) + g[b] - f[b]
<1>1. PICK t : /\ Total(f, N) = t[N] /\ t[0] = 0
               /\ \A i \in 1..N : t[i] = t[i - 1] + f[i]
  BY TotalAdds
<1>2. PICK u : /\ Total(g, N) = u[N] /\ u[0] = 0
               /\ \A i \in 1..N : u[i] = u[i - 1] + g[i]
  BY TotalAdds
<1>3. PICK d \in Int : d = g[b] - f[b]
  OBVIOUS
<1> DEFINE Bad == {i \in 0..N : ~(/\ t[i] \in Nat /\ u[i] \in Nat
                                  /\ i < b => u[i] = t[i]
                                  /\ i >= b => u[i] = t[i] + d)}
<1>4. CASE Bad # {}
  <2>1. PICK B : B = Bad
    OBVIOUS
  <2>2. B \subseteq Nat /\ B # {}
    BY <1>4, <2>1
  <2>3. PICK i \in Bad : \A k \in Bad : i <= k
    BY <2>1, <2>2, Least
  <2>4. i # 0
    BY <1>1, <1>2, <2>3
  <2>5. i \in 1..N /\ i - 1 \in 0..N /\ i - 1 \notin Bad
    BY <2>3, <2>4
  <2>6. PICK x, y : /\ x = t[i - 1] /\ y = u[i - 1] /\ x \in Nat /\ y \in Nat
                    /\ i - 1 < b => y = x
                    /\ i - 1 >= b => y = x + d
    BY <2>5
  <2>7. PICK m, n : m = f[i] /\ n = g[i] /\ m \in Nat /\ n \in Nat /\ (i # b => m = n)
    BY <2>5
  <2>8. t[i] = x + m /\ u[i] = y + n
    BY <1>1, <1>2, <2>5, <2>6, <2>7
  <2> HIDE DEF Bad
  <2>9. x + m \in Nat /\ y + n \in Nat
    BY <2>6, <2>7, SumsShift
  <2>10. i < b => y = x /\ n = m
    BY <2>5, <2>6, <2>7
  <2>11. i < b => y + n = x + m
    BY <1>3, <2>6, <2>7, <2>10, SumsShift
  <2>12. i >= b => (y = x /\ d = n - m) \/ (y = x + d /\ n = m)
    BY <1>3, <2>5, <2>6, <2>7
  <2>13. i >= b => y + n = (x + m) + d
    <3>1. x \in Nat /\ y \in Nat /\ m \in Nat /\ n \in Nat /\ d \in Int
      BY <1>3, <2>6, <2>7
    <3>2. ASSUME y = x, d = n - m PROVE y + n = (x + m) + d
      BY <3>1, <3>2, SumsShift
    <3>3. ASSUME y = x + d, n = m PROVE y + n = (x + m) + d
      BY <3>1, <3>3, SumsShift
    <3> QED BY <2>12, <3>2, <3>3, Zenon
  <2>14. /\ t[i] \in Nat /\ u[i] \in Nat /\ (i < b => u[i] = t[i])
         /\ (i >= b => u[i] = t[i] + d)
    BY <2>8, <2>9, <2>11, <2>13
  <2>15. i \notin Bad
    BY <2>14 DEF Bad
  <2> QED BY <2>3, <2>15
<1>5. CASE Bad = {}
  <2>1. N \in 0..N /\ N \notin Bad /\ N >= b
    BY <1>5
  <2>2. t[N] \in Nat /\ u[N] \in Nat /\ u[N] = t[N] + d
    BY <2>1
  <2>3. f[b] \in Nat /\ g[b] \in Nat
    OBVIOUS
  <2>4. t[N] + (g[b] - f[b]) = t[N] + g[b] - f[b]
    <3> HIDE DEF Bad
    <3> QED BY <2>2, <2>3
  <2> QED BY <1>1, <1>2, <1>3, <2>2, <2>4
<1> QED BY <1>4, <1>5

(* A function that is nowhere greater and once less has a smaller total.    *)
LEMMA TotalLess ==
  ASSUME NEW N \in Nat, NEW f \in [1..N -> Nat], NEW g \in [1..N -> Nat], NEW b \in 1..N,
         \A i \in 1..N : f[i] <= g[i], f[b] < g[b]
  PROVE  Total(f, N) < Total(g, N)
<1>1. PICK t : /\ Total(f, N) = t[N] /\ t[0] = 0
               /\ \A i \in 1..N : t[i] = t[i - 1] + f[i]
  BY TotalAdds
<1>2. PICK u : /\ Total(g, N) = u[N] /\ u[0] = 0
               /\ \A i \in 1..N : u[i] = u[i - 1] + g[i]
  BY TotalAdds
<1> DEFINE Bad == {i \in 0..N : ~(/\ t[i] \in Nat /\ u[i] \in Nat
                                  /\ t[i] <= u[i] /\ (i >= b => t[i] < u[i]))}
<1>3. CASE Bad # {}
  <2>1. PICK B : B = Bad
    OBVIOUS
  <2>2. B \subseteq Nat /\ B # {}
    BY <1>3, <2>1
  <2>3. PICK i \in Bad : \A k \in Bad : i <= k
    BY <2>1, <2>2, Least
  <2>4. i # 0
    BY <1>1, <1>2, <2>3
  <2>5. i \in 1..N /\ i - 1 \in 0..N /\ i - 1 \notin Bad
    BY <2>3, <2>4
  <2>6. PICK x, y : /\ x = t[i - 1] /\ y = u[i - 1] /\ x \in Nat /\ y \in Nat
                    /\ x <= y /\ (i - 1 >= b => x < y)
    BY <2>5
  <2>7. PICK m, n : m = f[i] /\ n = g[i] /\ m \in Nat /\ n \in Nat /\ m <= n /\ (i = b => m < n)
    BY <2>5
  <2>8. t[i] = x + m /\ u[i] = y + n
    BY <1>1, <1>2, <2>5, <2>6, <2>7
  <2> HIDE DEF Bad
  <2>9. x + m \in Nat /\ y + n \in Nat /\ x + m <= y + n
    BY <2>6, <2>7, SumsLess
  <2>10. i >= b => x < y \/ m < n
    BY <2>5, <2>6, <2>7
  <2>11. i >= b => x + m < y + n
    BY <2>6, <2>7, <2>10, SumsLess
  <2>12. t[i] \in Nat /\ u[i] \in Nat /\ t[i] <= u[i] /\ (i >= b => t[i] < u[i])
    BY <2>8, <2>9, <2>11
  <2>13. i \notin Bad
    BY <2>12 DEF Bad
  <2> QED BY <2>3, <2>13
<1>4. CASE Bad = {}
  <2>1. N \in 0..N /\ N >= b
    OBVIOUS
  <2>2. N \notin Bad
    BY <1>4
  <2>3. t[N] < u[N]
    BY <2>1, <2>2
  <2> QED BY <1>1, <1>2, <2>3
<1> QED BY <1>3, <1>4

LEMMA TotalZero ==
  ASSUME NEW N \in Nat, NEW f, \A i \in 1..N : f[i] = 0
  PROVE  Total(f, N) = 0
<1>1. PICK t : /\ Total(f, N) = t[N] /\ t[0] = 0
               /\ \A i \in 1..N : t[i] = t[i - 1] + f[i]
  BY TotalAdds
<1> DEFINE Bad == {i \in 0..N : t[i] # 0}
<1>2. CASE Bad # {}
  <2>1. PICK B : B = Bad
    OBVIOUS
  <2>2. B \subseteq Nat /\ B # {}
    BY <1>2, <2>1
  <2>3. PICK i \in Bad : \A k \in Bad : i <= k
    BY <2>1, <2>2, Least
  <2>4. i \in 1..N /\ i - 1 \in 0..N /\ i - 1 \notin Bad
    BY <1>1, <2>3
  <2> QED BY <1>1, <2>3, <2>4
<1>3. CASE Bad = {}
  BY <1>1, <1>3
<1> QED BY <1>2, <1>3

(* The bytes of the fragments of packet d whose numbers are in K.           *)
BytesOf(d, K) == Total([k \in 1..Count(d) |-> IF k \in K THEN Bytes(d, k) ELSE 0], Count(d))

LEMMA BytesFun ==
  ASSUME NEW d \in Datagram \cup {Foreign}, frag_needed(Size[d]), frag1_payload >= 0, NEW K
  PROVE  [k \in 1..Count(d) |-> IF k \in K THEN Bytes(d, k) ELSE 0] \in [1..Count(d) -> Nat]
<1>1. \A k \in 1..Count(d) : Bytes(d, k) \in Nat
  BY Pieces
<1> QED BY <1>1

LEMMA BytesAdd ==
  ASSUME NEW d \in Datagram \cup {Foreign}, frag_needed(Size[d]), frag1_payload >= 0,
         NEW K, NEW b \in 1..Count(d), b \notin K
  PROVE  BytesOf(d, K \cup {b}) = BytesOf(d, K) + Bytes(d, b)
<1>1. PICK N \in Nat : N = Count(d)
  BY Pieces
<1>2. PICK f, g : /\ f = [k \in 1..N |-> IF k \in K THEN Bytes(d, k) ELSE 0]
                  /\ g = [k \in 1..N |-> IF k \in K \cup {b} THEN Bytes(d, k) ELSE 0]
  OBVIOUS
<1>3. f \in [1..N -> Nat] /\ g \in [1..N -> Nat]
  BY <1>1, <1>2, BytesFun
<1>4. b \in 1..N /\ f[b] = 0 /\ g[b] = Bytes(d, b)
  BY <1>1, <1>2
<1>5. /\ Total(f, N) \in Nat /\ Total(g, N) \in Nat
      /\ Total(g, N) = Total(f, N) + g[b] - f[b]
  <2>1. \A i \in 1..N : i # b => g[i] = f[i]
    BY <1>1, <1>2
  <2>2. b \in 1..N
    BY <1>4
  <2> QED BY <1>3, <2>1, <2>2, TotalChange, Zenon
<1>6. g[b] \in Nat
  BY <1>1, <1>3
<1>7. Total(g, N) = Total(f, N) + g[b]
  BY <1>4, <1>5, <1>6
<1> QED BY <1>1, <1>2, <1>4, <1>7 DEF BytesOf

LEMMA BytesFirst ==
  ASSUME NEW d \in Datagram \cup {Foreign}, frag_needed(Size[d]), frag1_payload >= 0
  PROVE  BytesOf(d, {1}) = Bytes(d, 1)
<1>1. Count(d) \in Nat /\ 1 \in 1..Count(d) /\ Bytes(d, 1) \in Nat
  <2>1. Count(d) \in Nat /\ 1 \in 1..Count(d)
    BY Pieces
  <2> QED BY <2>1, Pieces
<1>2. BytesOf(d, {}) = 0
  <2>1. PICK f : f = [k \in 1..Count(d) |-> IF k \in {} THEN Bytes(d, k) ELSE 0]
    OBVIOUS
  <2>2. \A k \in 1..Count(d) : f[k] = 0
    BY <2>1
  <2>3. Total(f, Count(d)) = 0
    BY <1>1, <2>2, TotalZero
  <2> QED BY <2>1, <2>3 DEF BytesOf
<1>3. BytesOf(d, {} \cup {1}) = BytesOf(d, {}) + Bytes(d, 1)
  BY <1>1, BytesAdd
<1>4. {} \cup {1} = {1}
  OBVIOUS
<1> QED BY <1>1, <1>2, <1>3, <1>4

(* All of them are the packet.                                              *)
LEMMA BytesAll ==
  ASSUME NEW d \in Datagram \cup {Foreign}, frag_needed(Size[d]), frag1_payload >= 0
  PROVE  BytesOf(d, 1..Count(d)) = Size[d]
<1>1. PICK N \in Nat : N = Count(d) /\ N >= 2
  BY Pieces
<1>2. PICK f : f = [k \in 1..N |-> IF k \in 1..N THEN Bytes(d, k) ELSE 0]
  OBVIOUS
<1>3. PICK t : /\ Total(f, N) = t[N] /\ t[0] = 0
               /\ \A i \in 1..N : t[i] = t[i - 1] + f[i]
  BY TotalAdds
<1>4. \A i \in 1..N : t[i] = t[i - 1] + Bytes(d, i)
  BY <1>2, <1>3
<1> DEFINE Bad == {i \in 0..(N - 1) : t[i] # Offset(i + 1)}
<1>5. Bad = {}
  <2> SUFFICES ASSUME Bad # {} PROVE FALSE
    OBVIOUS
  <2>1. PICK B : B = Bad
    OBVIOUS
  <2>2. B \subseteq Nat /\ B # {}
    BY <2>1
  <2>3. PICK i \in Bad : \A k \in Bad : i <= k
    BY <2>1, <2>2, Least
  <2>4. i # 0
    <3>1. Offset(0 + 1) = 0
      BY DEF Offset
    <3> QED BY <1>3, <2>3, <3>1
  <2>5. i \in 1..(N - 1) /\ i - 1 \in 0..(N - 1) /\ i - 1 \notin Bad
    BY <1>1, <2>3, <2>4
  <2>6. t[i - 1] = Offset((i - 1) + 1) /\ (i - 1) + 1 = i
    BY <2>5
  <2>7. Offset(i) + Bytes(d, i) = Offset(i + 1)
    BY <1>1, <2>5, Pieces
  <2>8. t[i] = t[i - 1] + Bytes(d, i)
    BY <1>1, <1>4, <2>5
  <2>9. t[i] = Offset(i + 1)
    BY <2>6, <2>7, <2>8
  <2> QED BY <2>3, <2>9
<1>6. t[N - 1] = Offset(N)
  <2>1. N - 1 \in 0..(N - 1) /\ (N - 1) + 1 = N
    BY <1>1
  <2> QED BY <1>5, <2>1
<1>7. t[N] = t[N - 1] + Bytes(d, N)
  BY <1>1, <1>4
<1>8. Offset(N) + Bytes(d, N) = Size[d]
  BY <1>1, Pieces
<1> QED BY <1>1, <1>2, <1>3, <1>6, <1>7, <1>8 DEF BytesOf

(* If one is missing, bytes are missing.                                    *)
LEMMA BytesMissing ==
  ASSUME NEW d \in Datagram \cup {Foreign}, frag_needed(Size[d]), frag1_payload >= 0,
         NEW K, NEW b \in 1..Count(d), b \notin K
  PROVE  BytesOf(d, K) < Size[d]
<1>1. PICK N \in Nat : N = Count(d)
  BY Pieces
<1>2. PICK f, g : /\ f = [k \in 1..N |-> IF k \in K THEN Bytes(d, k) ELSE 0]
                  /\ g = [k \in 1..N |-> IF k \in 1..N THEN Bytes(d, k) ELSE 0]
  OBVIOUS
<1>3. f \in [1..N -> Nat] /\ g \in [1..N -> Nat]
  BY <1>1, <1>2, BytesFun
<1>4. \A k \in 1..N : Bytes(d, k) \in Nat /\ Bytes(d, k) > 0
  BY <1>1, Pieces
<1>5. \A i \in 1..N : f[i] <= g[i]
  BY <1>2, <1>4
<1>6. b \in 1..N /\ f[b] < g[b]
  BY <1>1, <1>2, <1>4
<1>7. Total(f, N) < Total(g, N)
  BY <1>3, <1>5, <1>6, TotalLess
<1> QED BY <1>1, <1>2, <1>7, BytesAll DEF BytesOf
-----------------------------------------------------------------------------
(* The inductive invariant                                                  *)

IsCut(d) == frag_needed(Size[d]) /\ cut[d] # <<>>
Tag(d) == cut[d][1].tag

(* What has been cut of each packet is a prefix of its fragments, all with  *)
(* one tag; one frame carries a packet that fits.                           *)
CutOK ==
  /\ DOMAIN cut = Datagram
  /\ \A d \in Datagram :
       /\ Len(cut[d]) \in Nat /\ DOMAIN cut[d] = 1..Len(cut[d])
       /\ epoch[d] = NotSent => cut[d] = <<>>
       /\ ~frag_needed(Size[d]) =>
            cut[d] = <<>> \/ cut[d] = <<Fragment(d, 1, 0, 0, Size[d])>>
       /\ frag_needed(Size[d]) =>
            /\ cut[d] # <<>> => frag1_payload >= 0
            /\ Len(cut[d]) <= Count(d)
            /\ \A k \in 1..Len(cut[d]) : cut[d][k] = Fragment(d, k, Tag(d), Offset(k), Bytes(d, k))

(* Two packets that were cut between the same two starts have different     *)
(* tags: fewer tags are used than there are.                                *)
TagsOK ==
  /\ restarts \in 0..MaxRestarts
  /\ DOMAIN epoch = Datagram
  /\ \A d \in Datagram : epoch[d] \in {NotSent} \cup 0..restarts
  /\ my_tag \in Nat /\ my_tag <= Cardinality({d \in Datagram : epoch[d] = restarts})
  /\ \A d \in Datagram : IsCut(d) =>
       /\ Tag(d) \in 0..(TagWrap - 1)
       /\ epoch[d] = restarts => Tag(d) < my_tag
       /\ \A e \in Datagram : IsCut(e) /\ epoch[e] = epoch[d] /\ Tag(e) = Tag(d) => e = d

(* While a packet is cut: the next fragment begins where the last one has   *)
(* ended, there are queuebufs for all that is left and one more, and after  *)
(* the first fragment the neighbor is there.                                *)
Cutting(d, tag) ==
  /\ epoch[d] = restarts /\ frag_needed(Size[d]) /\ frag1_payload >= 0
  /\ Len(cut[d]) < Count(d)
  /\ bufmem + 1 + Count(d) - Len(cut[d]) <= QUEUEBUF_NUM
  /\ cut[d] # <<>> => Tag(d) = tag /\ Known(Dest[d]) # {}
  /\ tag < my_tag
  /\ \A e \in Datagram : IsCut(e) /\ epoch[e] = restarts /\ Tag(e) = tag => e = d

OutOK ==
  out # Idle =>
    \E d \in Datagram, tag \in Nat :
      out = [d |-> d, done |-> Offset(Len(cut[d]) + 1), tag |-> tag] /\ Cutting(d, tag)

(* What CSMA has queued are fragments that were cut.                        *)
QueueOK ==
  /\ heard \subseteq neighbor_list
  /\ \A n \in Neighbor : \A i \in DOMAIN packet_queue[n] :
       \E d \in Datagram : \E k \in 1..Len(cut[d]) : packet_queue[n][i].pk = <<d, k>>

Fragments == [src : {"node", "foreign"}, d : Datagram \cup {Foreign}, k : Nat \ {0}, tag : 0..(TagWrap - 1),
              off : Nat, len : Nat \ {0}, again : BOOLEAN]

(* The foreign fragments still to come.                                     *)
ForeignOK ==
  /\ foreign \in Seq(Fragments) /\ Len(foreign) <= Count(Foreign)
  /\ foreign # <<>> => frag1_payload >= 0
  /\ \A i \in 1..Len(foreign) :
       LET k == Count(Foreign) - Len(foreign) + i
       IN  foreign[i] = Fragment(Foreign, k, 0, Offset(k), Bytes(Foreign, k))

(* A fragment that can be received: one that was cut, passed up now or      *)
(* again.                                                                   *)
Genuine(p) ==
  /\ p \in Fragments /\ frag_needed(Size[p.d]) /\ frag1_payload >= 0
  /\ p.k \in 1..Count(p.d) /\ p.off = Offset(p.k) /\ p.len = Bytes(p.d, p.k)
  /\ \/ p.src = "foreign" /\ p.d = Foreign /\ p.tag = 0
     \/ p.src = "node" /\ p.d \in Datagram /\ p.k <= Len(cut[p.d]) /\ p.tag = Tag(p.d)

(* One that has been passed up is the first of its queue, and CSMA's        *)
(* repetitions of it are known as such, or it is not queued any more.       *)
Passed(p) ==
  /\ p.d = Foreign => p.k <= Count(Foreign) - Len(foreign)
  /\ p.d # Foreign =>
       \A n \in Neighbor : \A i \in DOMAIN packet_queue[n] :
         packet_queue[n][i].pk = <<p.d, p.k>> => i = 1 /\ n \in heard

(* The receiver's contexts and buffers, also in the middle of a handler.    *)
Info == [len : 1..UIP_BUFSIZE, tag : 0..(TagWrap - 1), sender : {"node", "foreign"},
         expired : BOOLEAN, reassembled_len : 1..UIP_BUFSIZE, first : Fragments]
Buf == [len : Nat \ {0}, index : Context, part : Fragments]

(* The numbers of the fragments in P.                                       *)
Numbers(P) == {p.k : p \in P}

(* What a context holds.                                                    *)
HoldsIn(buf, b, c) == buf[b].len > 0 /\ buf[b].index = c
BytesIn(buf, c) ==
  Total([b \in Buffer |-> IF HoldsIn(buf, b, c) THEN buf[b].len ELSE 0], FRAGMENT_BUFFERS)
Held(info, buf, c) ==
  {info[c].first} \cup {buf[b].part : b \in {b \in Buffer : HoldsIn(buf, b, c)}}
OnePacket(info, buf, c) == \A p \in Held(info, buf, c) : p.d = info[c].first.d
NoneAgain(info, buf, c) == \A p \in Held(info, buf, c) : ~p.again

ContextsOK(info) ==
  /\ info \in [Context -> {NoInfo} \cup Info]
  /\ \A c \in Context : info[c].len > 0 =>
       /\ Genuine(info[c].first) /\ info[c].first.k = 1
       /\ info[c].tag = info[c].first.tag /\ info[c].sender = info[c].first.src
       /\ info[c].len = Size[info[c].first.d]

BuffersOK(info, buf) ==
  /\ buf \in [Buffer -> {NoBuf} \cup Buf]
  /\ \A b \in Buffer : buf[b].len > 0 =>
       /\ Genuine(buf[b].part) /\ buf[b].part.k > 1 /\ buf[b].part.len = buf[b].len
       /\ info[buf[b].index].len > 0
       /\ buf[b].part.tag = info[buf[b].index].tag
       /\ buf[b].part.src = info[buf[b].index].sender

(* A context counts the bytes of its buffers; if what it holds is of one    *)
(* packet, it is less than the packet, and if nothing has come twice, these *)
(* are the bytes of different fragments.                                    *)
CountOK(info, buf, c) ==
  /\ info[c].reassembled_len = info[c].first.len + BytesIn(buf, c)
  /\ OnePacket(info, buf, c) => info[c].reassembled_len < info[c].len
  /\ OnePacket(info, buf, c) /\ NoneAgain(info, buf, c) =>
       info[c].reassembled_len = BytesOf(info[c].first.d, Numbers(Held(info, buf, c)))

CountsOK(info, buf) == \A c \in Context : info[c].len > 0 => CountOK(info, buf, c)

RecvOK(info, buf) == ContextsOK(info) /\ BuffersOK(info, buf) /\ CountsOK(info, buf)

InHand(info, buf) ==
  {info[c].first : c \in {c \in Context : info[c].len > 0}}
  \cup {buf[b].part : b \in {b \in Buffer : buf[b].len > 0}}

PassedOK == \A p \in InHand(frag_info, frag_buf) : Passed(p)

LowpanInv ==
  /\ IInv /\ Books
  /\ CutOK /\ TagsOK /\ OutOK /\ QueueOK /\ ForeignOK
  /\ RecvOK(frag_info, frag_buf) /\ PassedOK
-----------------------------------------------------------------------------
(* What the receiver's handlers are put together from                       *)

LEMMA InUse ==
  ASSUME NEW info, NEW buf, RecvOK(info, buf)
  PROVE  /\ \A c \in Context : /\ info[c] = NoInfo \/ info[c] \in Info
                               /\ info[c].len > 0 <=> info[c] \in Info
                               /\ info[c].len \in Nat
         /\ \A b \in Buffer : /\ buf[b] = NoBuf \/ buf[b] \in Buf
                              /\ buf[b].len > 0 <=> buf[b] \in Buf
                              /\ buf[b].len \in Nat
<1>1. NoInfo.len = 0 /\ NoBuf.len = 0
  BY DEF NoInfo, NoBuf
<1>2. UIP_BUFSIZE \in Nat
  BY DEF UIP_BUFSIZE
<1>3. \A x \in Info : x.len \in Nat /\ x.len > 0
  BY <1>2 DEF Info
<1>4. \A x \in Buf : x.len \in Nat /\ x.len > 0
  BY DEF Buf
<1>5. \A c \in Context : info[c] \in {NoInfo} \cup Info
  BY DEF RecvOK, ContextsOK
<1>6. \A b \in Buffer : buf[b] \in {NoBuf} \cup Buf
  BY DEF RecvOK, BuffersOK
<1> QED BY <1>1, <1>3, <1>4, <1>5, <1>6

(* clear_fragments, of any state of the receiver.                           *)
Cleared(info, buf, S) ==
  [info |-> [c \in Context |-> IF c \in S THEN NoInfo ELSE info[c]],
   buf |-> [b \in Buffer |-> IF buf[b].len > 0 /\ buf[b].index \in S THEN NoBuf ELSE buf[b]]]

(* Counts of a context depend only on its own fields and buffers.           *)
LEMMA SameCount ==
  ASSUME NEW info, NEW buf, NEW info2, NEW buf2, NEW c \in Context,
         CountOK(info, buf, c), info2[c] = info[c],
         \A b \in Buffer : /\ HoldsIn(buf2, b, c) <=> HoldsIn(buf, b, c)
                           /\ HoldsIn(buf, b, c) => buf2[b] = buf[b]
  PROVE  CountOK(info2, buf2, c) /\ Held(info2, buf2, c) = Held(info, buf, c)
<1>1. Held(info2, buf2, c) = Held(info, buf, c)
  <2>1. {b \in Buffer : HoldsIn(buf2, b, c)} = {b \in Buffer : HoldsIn(buf, b, c)}
    OBVIOUS
  <2>2. {buf2[b].part : b \in {b \in Buffer : HoldsIn(buf2, b, c)}}
          = {buf[b].part : b \in {b \in Buffer : HoldsIn(buf, b, c)}}
    BY <2>1
  <2> QED BY <2>2 DEF Held
<1>2. BytesIn(buf2, c) = BytesIn(buf, c)
  <2>1. [b \in Buffer |-> IF HoldsIn(buf2, b, c) THEN buf2[b].len ELSE 0]
          = [b \in Buffer |-> IF HoldsIn(buf, b, c) THEN buf[b].len ELSE 0]
    OBVIOUS
  <2> QED BY <2>1 DEF BytesIn
<1> QED BY <1>1, <1>2 DEF CountOK, OnePacket, NoneAgain

LEMMA ClearOK ==
  ASSUME NEW info, NEW buf, RecvOK(info, buf), NEW S,
         NEW info2, NEW buf2, info2 = Cleared(info, buf, S).info, buf2 = Cleared(info, buf, S).buf
  PROVE  /\ RecvOK(info2, buf2)
         /\ InHand(info2, buf2) \subseteq InHand(info, buf)
         /\ \A c \in Context \ S : info2[c] = info[c] /\ Held(info2, buf2, c) = Held(info, buf, c)
<1>1. /\ info2 = [c \in Context |-> IF c \in S THEN NoInfo ELSE info[c]]
      /\ buf2 = [b \in Buffer |-> IF buf[b].len > 0 /\ buf[b].index \in S THEN NoBuf ELSE buf[b]]
  BY DEF Cleared
<1>2. /\ \A c \in Context : info[c] = NoInfo \/ info[c] \in Info
      /\ \A b \in Buffer : buf[b] = NoBuf \/ buf[b] \in Buf
      /\ \A b \in Buffer : buf[b].len > 0 => buf[b] \in Buf
  BY InUse
<1>3. NoInfo.len = 0 /\ NoBuf.len = 0
  BY DEF NoInfo, NoBuf
<1>4. \A c \in Context : info2[c].len > 0 => c \notin S /\ info2[c] = info[c]
  BY <1>1, <1>3
<1>5. \A b \in Buffer : buf2[b].len > 0 => buf[b].index \notin S /\ buf2[b] = buf[b]
  BY <1>1, <1>3
<1>6. ContextsOK(info2)
  <2>1. info2 \in [Context -> {NoInfo} \cup Info]
    BY <1>1, <1>2
  <2> QED BY <1>4, <2>1 DEF RecvOK, ContextsOK
<1>7. BuffersOK(info2, buf2)
  <2>1. buf2 \in [Buffer -> {NoBuf} \cup Buf]
    BY <1>1, <1>2
  <2>2. ASSUME NEW b \in Buffer, buf2[b].len > 0
        PROVE  /\ buf2[b] = buf[b] /\ buf[b].len > 0
               /\ info2[buf[b].index] = info[buf[b].index]
    <3>1. buf2[b] = buf[b] /\ buf[b].index \notin S /\ buf[b].len > 0
      BY <1>5, <2>2
    <3>2. buf[b].index \in Context
      BY <1>2, <3>1 DEF Buf
    <3> QED BY <1>1, <3>1, <3>2
  <2> QED BY <2>1, <2>2 DEF RecvOK, BuffersOK
<1>8. ASSUME NEW c \in Context \ S, NEW b \in Buffer
      PROVE  /\ HoldsIn(buf2, b, c) <=> HoldsIn(buf, b, c)
             /\ HoldsIn(buf, b, c) => buf2[b] = buf[b]
  BY <1>1, <1>3 DEF HoldsIn
<1>9. ASSUME NEW c \in Context \ S, info[c].len > 0
      PROVE  CountOK(info2, buf2, c) /\ Held(info2, buf2, c) = Held(info, buf, c)
  <2>1. CountOK(info, buf, c) /\ info2[c] = info[c]
    BY <1>1, <1>9 DEF RecvOK, CountsOK
  <2> QED BY <1>8, <2>1, SameCount
<1>10. CountsOK(info2, buf2)
  BY <1>4, <1>9 DEF CountsOK
<1>11. InHand(info2, buf2) \subseteq InHand(info, buf)
  BY <1>4, <1>5 DEF InHand
<1>12. ASSUME NEW c \in Context \ S
       PROVE  info2[c] = info[c] /\ Held(info2, buf2, c) = Held(info, buf, c)
  <2>1. info2[c] = info[c]
    BY <1>1
  <2> QED BY <1>8, <2>1 DEF Held
<1> QED BY <1>6, <1>7, <1>10, <1>11, <1>12 DEF RecvOK

(* What a genuine fragment is.                                              *)
LEMMA GenuineFacts ==
  ASSUME NEW p, Genuine(p)
  PROVE  /\ p \in Fragments /\ p.d \in Datagram \cup {Foreign}
         /\ frag_needed(Size[p.d]) /\ frag1_payload >= 0
         /\ p.k \in 1..Count(p.d) /\ p.k \in Nat /\ p.off = Offset(p.k)
         /\ p.len = Bytes(p.d, p.k) /\ p.len \in Nat /\ p.len > 0
         /\ p.again \in BOOLEAN /\ p.tag \in 0..(TagWrap - 1) /\ p.src \in {"node", "foreign"}
  BY DEF Genuine, Fragments

(* A first fragment takes a free context.                                   *)
Begun(f) == [len |-> Size[f.d], tag |-> f.tag, sender |-> f.src,
             expired |-> FALSE, reassembled_len |-> f.len, first |-> f]

LEMMA BeginOK ==
  ASSUME NEW info, NEW buf, RecvOK(info, buf), NEW c \in Context, info[c].len = 0,
         NEW f, Genuine(f), f.k = 1, NEW info2, info2 = [info EXCEPT ![c] = Begun(f)]
  PROVE  RecvOK(info2, buf) /\ InHand(info2, buf) \subseteq InHand(info, buf) \cup {f}
<1>1. /\ f \in Fragments /\ f.d \in Datagram \cup {Foreign} /\ f.len = Bytes(f.d, 1)
      /\ frag_needed(Size[f.d]) /\ frag1_payload >= 0
      /\ f.len \in Nat /\ f.len > 0 /\ f.tag \in 0..(TagWrap - 1) /\ f.src \in {"node", "foreign"}
  BY GenuineFacts
<1>2. f.len < Size[f.d]
  BY <1>1, Pieces
<1>3. UIP_BUFSIZE \in Nat /\ Size[f.d] \in Nat /\ Size[f.d] > 0 /\ Size[f.d] <= UIP_BUFSIZE
  <2>1. UIP_BUFSIZE \in Nat
    BY DEF UIP_BUFSIZE
  <2> QED BY <1>1, <2>1, SizeType
<1>4. Size[f.d] \in 1..UIP_BUFSIZE /\ f.len \in 1..UIP_BUFSIZE
  BY <1>1, <1>2, <1>3
<1>5. Begun(f) \in Info
  BY <1>1, <1>4 DEF Begun, Info
<1>6. info \in [Context -> {NoInfo} \cup Info]
  BY DEF RecvOK, ContextsOK
<1>7. info2[c] = Begun(f) /\ \A e \in Context : e # c => info2[e] = info[e]
  BY <1>6
<1>8. /\ Begun(f).len = Size[f.d] /\ Begun(f).tag = f.tag /\ Begun(f).sender = f.src
      /\ Begun(f).reassembled_len = f.len /\ Begun(f).first = f
  BY DEF Begun
<1>9. ContextsOK(info2)
  <2>1. info2 \in [Context -> {NoInfo} \cup Info]
    BY <1>5, <1>6
  <2>2. ASSUME NEW e \in Context, info2[e].len > 0
        PROVE  /\ Genuine(info2[e].first) /\ info2[e].first.k = 1
               /\ info2[e].tag = info2[e].first.tag /\ info2[e].sender = info2[e].first.src
               /\ info2[e].len = Size[info2[e].first.d]
    <3>1. CASE e = c
      BY <1>7, <1>8, <3>1
    <3>2. CASE e # c
      BY <1>7, <2>2, <3>2 DEF RecvOK, ContextsOK
    <3> QED BY <3>1, <3>2
  <2> QED BY <2>1, <2>2 DEF ContextsOK
<1>10. \A b \in Buffer : ~HoldsIn(buf, b, c)
  BY DEF RecvOK, BuffersOK, HoldsIn
<1>11. BuffersOK(info2, buf)
  <2>1. ASSUME NEW b \in Buffer, buf[b].len > 0
        PROVE  info2[buf[b].index] = info[buf[b].index]
    <3>1. buf[b] \in Buf /\ buf[b].index # c
      BY <1>10, <2>1, InUse DEF HoldsIn
    <3> QED BY <1>7, <3>1 DEF Buf
  <2> QED BY <2>1 DEF RecvOK, BuffersOK
<1>12. ASSUME NEW e \in Context, e # c, info[e].len > 0 PROVE CountOK(info2, buf, e)
  <2>1. CountOK(info, buf, e) /\ info2[e] = info[e]
    BY <1>7, <1>12 DEF RecvOK, CountsOK
  <2> QED BY <2>1, SameCount
<1>13. CountOK(info2, buf, c)
  <2>1. Held(info2, buf, c) = {f}
    BY <1>7, <1>8, <1>10 DEF Held
  <2>2. BytesIn(buf, c) = 0
    <3>1. PICK g : g = [b \in Buffer |-> IF HoldsIn(buf, b, c) THEN buf[b].len ELSE 0]
      OBVIOUS
    <3>2. \A b \in 1..FRAGMENT_BUFFERS : g[b] = 0
      BY <1>10, <3>1 DEF Buffer
    <3>3. Total(g, FRAGMENT_BUFFERS) = 0
      BY <3>2, TotalZero, SicslowpanAssumption
    <3> QED BY <3>1, <3>3 DEF BytesIn
  <2>3. Numbers(Held(info2, buf, c)) = {1}
    BY <2>1 DEF Numbers
  <2>4. BytesOf(f.d, {1}) = f.len
    BY <1>1, BytesFirst
  <2>5. /\ info2[c].reassembled_len = f.len /\ info2[c].first = f /\ info2[c].len = Size[f.d]
    BY <1>7, <1>8
  <2>6. info2[c].reassembled_len = info2[c].first.len + BytesIn(buf, c)
    BY <1>1, <2>2, <2>5
  <2>7. info2[c].reassembled_len < info2[c].len
    BY <1>2, <2>5
  <2>8. info2[c].reassembled_len = BytesOf(info2[c].first.d, Numbers(Held(info2, buf, c)))
    BY <2>3, <2>4, <2>5
  <2> QED BY <2>6, <2>7, <2>8 DEF CountOK
<1>14. CountsOK(info2, buf)
  BY <1>7, <1>12, <1>13 DEF CountsOK
<1>15. InHand(info2, buf) \subseteq InHand(info, buf) \cup {f}
  BY <1>7, <1>8 DEF InHand
<1> QED BY <1>9, <1>11, <1>14, <1>15 DEF RecvOK

(* Fragment f is not yet in context c, or it is marked as passed up again.  *)
NewTo(info, buf, c, f) ==
  ~f.again => \A p \in Held(info, buf, c) : ~(p.d = f.d /\ p.k = f.k)

LEMMA HeldGenuine ==
  ASSUME NEW info, NEW buf, RecvOK(info, buf), NEW c \in Context, info[c].len > 0,
         NEW p \in Held(info, buf, c)
  PROVE  Genuine(p) /\ p.tag = info[c].tag /\ p.src = info[c].sender
<1>1. CASE p = info[c].first
  BY <1>1 DEF RecvOK, ContextsOK
<1>2. CASE p # info[c].first
  <2>1. PICK b \in Buffer : HoldsIn(buf, b, c) /\ p = buf[b].part
    BY <1>2 DEF Held
  <2> QED BY <2>1 DEF HoldsIn, RecvOK, BuffersOK
<1> QED BY <1>1, <1>2

(* With fragment f, which is new, the bytes counted are those of different  *)
(* fragments as before.                                                     *)
LEMMA CountsNew ==
  ASSUME NEW info, NEW buf, RecvOK(info, buf), NEW c \in Context, info[c].len > 0,
         NEW f, Genuine(f), NewTo(info, buf, c, f),
         \A p \in Held(info, buf, c) \cup {f} : p.d = info[c].first.d /\ ~p.again
  PROVE  info[c].reassembled_len + f.len
           = BytesOf(f.d, Numbers(Held(info, buf, c) \cup {f}))
<1>1. f.d = info[c].first.d /\ ~f.again
  OBVIOUS
<1>2. info[c].reassembled_len = BytesOf(f.d, Numbers(Held(info, buf, c)))
  BY <1>1 DEF RecvOK, CountsOK, CountOK, OnePacket, NoneAgain
<1>3. PICK K : K = Numbers(Held(info, buf, c))
  OBVIOUS
<1>4. f.k \notin K
  BY <1>1, <1>3 DEF NewTo, Numbers
<1>5. Numbers(Held(info, buf, c) \cup {f}) = K \cup {f.k}
  BY <1>3 DEF Numbers
<1>6. /\ f.d \in Datagram \cup {Foreign} /\ frag_needed(Size[f.d]) /\ frag1_payload >= 0
      /\ f.k \in 1..Count(f.d) /\ f.len = Bytes(f.d, f.k)
  BY GenuineFacts
<1>7. BytesOf(f.d, K \cup {f.k}) = BytesOf(f.d, K) + Bytes(f.d, f.k)
  BY <1>4, <1>6, BytesAdd
<1> QED BY <1>2, <1>3, <1>5, <1>6, <1>7

(* One more buffer in use adds its bytes to its context's.                  *)
LEMMA BytesStored ==
  ASSUME NEW buf, NEW b \in Buffer, NEW c, NEW buf2,
         \A i \in Buffer : buf[i].len \in Nat, buf[b].len = 0,
         buf2[b].len \in Nat \ {0}, buf2[b].index = c,
         \A i \in Buffer : i # b => buf2[i] = buf[i]
  PROVE  BytesIn(buf, c) \in Nat /\ BytesIn(buf2, c) = BytesIn(buf, c) + buf2[b].len
<1>1. PICK N \in Nat : N = FRAGMENT_BUFFERS
  BY SicslowpanAssumption
<1>2. PICK g, h : /\ g = [i \in 1..N |-> IF HoldsIn(buf, i, c) THEN buf[i].len ELSE 0]
                  /\ h = [i \in 1..N |-> IF HoldsIn(buf2, i, c) THEN buf2[i].len ELSE 0]
  OBVIOUS
<1>3. Buffer = 1..N
  BY <1>1 DEF Buffer
<1>4. g \in [1..N -> Nat] /\ h \in [1..N -> Nat]
  <2>1. \A i \in 1..N : buf[i].len \in Nat /\ buf2[i].len \in Nat
    BY <1>3
  <2> QED BY <1>2, <2>1
<1>5. g[b] = 0 /\ h[b] = buf2[b].len /\ b \in 1..N
  BY <1>2, <1>3 DEF HoldsIn
<1>6. \A i \in 1..N : i # b => h[i] = g[i]
  BY <1>2, <1>3 DEF HoldsIn
<1>7. /\ Total(g, N) \in Nat /\ Total(h, N) \in Nat
      /\ Total(h, N) = Total(g, N) + h[b] - g[b]
  BY <1>4, <1>5, <1>6, TotalChange, Zenon
<1>8. Total(g, N) = BytesIn(buf, c) /\ Total(h, N) = BytesIn(buf2, c)
  BY <1>1, <1>2, <1>3 DEF BytesIn
<1> QED BY <1>5, <1>7, <1>8

(* A context that has counted one fragment more, and a buffer that holds it. *)
LEMMA StoredOK ==
  ASSUME NEW info, NEW buf, RecvOK(info, buf), NEW c \in Context, info[c].len > 0,
         NEW b \in Buffer, buf[b].len = 0,
         NEW f, Genuine(f), f.k > 1, f.tag = info[c].tag, f.src = info[c].sender,
         NewTo(info, buf, c, f),
         NEW len, len = info[c].reassembled_len + f.len, len < Size[f.d],
         NEW info2 \in [Context -> {NoInfo} \cup Info],
         info2[c].reassembled_len = len, info2[c].first = info[c].first,
         info2[c].len = info[c].len, info2[c].tag = info[c].tag, info2[c].sender = info[c].sender,
         \A e \in Context : e # c => info2[e] = info[e],
         NEW buf2 \in [Buffer -> {NoBuf} \cup Buf],
         buf2[b].len = f.len, buf2[b].index = c, buf2[b].part = f,
         \A i \in Buffer : i # b => buf2[i] = buf[i]
  PROVE  RecvOK(info2, buf2) /\ InHand(info2, buf2) \subseteq InHand(info, buf) \cup {f}
<1>1. /\ f.len \in Nat /\ f.len > 0 /\ f.again \in BOOLEAN
  BY GenuineFacts
<1>3. /\ \A i \in Buffer : buf[i].len \in Nat
      /\ \A i \in Buffer : buf[i].len > 0 => buf[i] \in Buf
  BY InUse
<1>4. ContextsOK(info2)
  <2>1. ASSUME NEW e \in Context, info2[e].len > 0
        PROVE  /\ Genuine(info2[e].first) /\ info2[e].first.k = 1
               /\ info2[e].tag = info2[e].first.tag /\ info2[e].sender = info2[e].first.src
               /\ info2[e].len = Size[info2[e].first.d]
    <3>1. /\ info2[e].len = info[e].len /\ info2[e].tag = info[e].tag
          /\ info2[e].sender = info[e].sender /\ info2[e].first = info[e].first
      OBVIOUS
    <3> QED BY <2>1, <3>1 DEF RecvOK, ContextsOK
  <2> QED BY <2>1 DEF ContextsOK
<1>5. BuffersOK(info2, buf2)
  <2>1. ASSUME NEW i \in Buffer, buf2[i].len > 0
        PROVE  /\ Genuine(buf2[i].part) /\ buf2[i].part.k > 1 /\ buf2[i].part.len = buf2[i].len
               /\ info2[buf2[i].index].len > 0
               /\ buf2[i].part.tag = info2[buf2[i].index].tag
               /\ buf2[i].part.src = info2[buf2[i].index].sender
    <3>1. CASE i = b
      BY <3>1
    <3>2. CASE i # b
      <4>1. buf2[i] = buf[i] /\ buf[i].index \in Context /\ buf[i].len > 0
        BY <1>3, <2>1, <3>2 DEF Buf
      <4>2. /\ info2[buf[i].index].len = info[buf[i].index].len
            /\ info2[buf[i].index].tag = info[buf[i].index].tag
            /\ info2[buf[i].index].sender = info[buf[i].index].sender
        BY <4>1
      <4> QED BY <4>1, <4>2 DEF RecvOK, BuffersOK
    <3> QED BY <3>1, <3>2
  <2> QED BY <2>1 DEF BuffersOK
<1>6. ASSUME NEW e \in Context, e # c, info[e].len > 0 PROVE CountOK(info2, buf2, e)
  <2>1. CountOK(info, buf, e) /\ info2[e] = info[e]
    BY <1>6 DEF RecvOK, CountsOK
  <2>2. ASSUME NEW i \in Buffer
        PROVE  /\ HoldsIn(buf2, i, e) <=> HoldsIn(buf, i, e)
               /\ HoldsIn(buf, i, e) => buf2[i] = buf[i]
    <3>1. CASE i = b
      BY <1>6, <3>1 DEF HoldsIn
    <3>2. CASE i # b
      BY <3>2 DEF HoldsIn
    <3> QED BY <3>1, <3>2
  <2>3. \A i \in Buffer : /\ HoldsIn(buf2, i, e) <=> HoldsIn(buf, i, e)
                          /\ HoldsIn(buf, i, e) => buf2[i] = buf[i]
    BY <2>2
  <2> QED BY <2>1, <2>3, SameCount, Zenon
<1>7. Held(info2, buf2, c) = Held(info, buf, c) \cup {f}
  <2>1. {i \in Buffer : HoldsIn(buf2, i, c)} = {i \in Buffer : HoldsIn(buf, i, c)} \cup {b}
    BY <1>1 DEF HoldsIn
  <2>2. b \notin {i \in Buffer : HoldsIn(buf, i, c)}
    BY DEF HoldsIn
  <2>3. {buf2[i].part : i \in {i \in Buffer : HoldsIn(buf2, i, c)}}
          = {buf[i].part : i \in {i \in Buffer : HoldsIn(buf, i, c)}} \cup {f}
    <3>1. \A i \in {i \in Buffer : HoldsIn(buf, i, c)} : buf2[i].part = buf[i].part
      BY <2>2
    <3>2. buf2[b].part = f
      OBVIOUS
    <3> QED BY <2>1, <3>1, <3>2
  <2> QED BY <2>3 DEF Held
<1>8. CountOK(info2, buf2, c)
  <2>1. info[c].reassembled_len = info[c].first.len + BytesIn(buf, c)
    BY DEF RecvOK, CountsOK, CountOK
  <2>2. BytesIn(buf, c) \in Nat /\ BytesIn(buf2, c) = BytesIn(buf, c) + f.len
    <3>1. buf2[b].len \in Nat \ {0} /\ buf2[b].index = c /\ buf2[b].len = f.len
      BY <1>1
    <3>2. \A i \in Buffer : i # b => buf2[i] = buf[i]
      OBVIOUS
    <3>3. \A i \in Buffer : buf[i].len \in Nat
      BY <1>3
    <3>4. BytesIn(buf, c) \in Nat /\ BytesIn(buf2, c) = BytesIn(buf, c) + buf2[b].len
      BY <3>1, <3>2, <3>3, BytesStored
    <3> QED BY <3>4
  <2>3. info[c].first.len \in Nat
    <3>1. Genuine(info[c].first)
      BY DEF RecvOK, ContextsOK
    <3> QED BY <3>1, GenuineFacts
  <2>4. info2[c].reassembled_len = len /\ info2[c].first = info[c].first /\ info2[c].len = info[c].len
    OBVIOUS
  <2>5. len = info[c].first.len + BytesIn(buf2, c)
    BY <1>1, <2>1, <2>2, <2>3
  <2>6. OnePacket(info2, buf2, c) => len < info[c].len
    <3>1. OnePacket(info2, buf2, c) => f.d = info[c].first.d
      BY <1>7, <2>4 DEF OnePacket
    <3>2. info[c].len = Size[info[c].first.d]
      BY DEF RecvOK, ContextsOK
    <3> QED BY <3>1, <3>2
  <2>7. ASSUME OnePacket(info2, buf2, c), NoneAgain(info2, buf2, c)
        PROVE  len = BytesOf(info[c].first.d, Numbers(Held(info2, buf2, c)))
    <3>1. \A p \in Held(info, buf, c) \cup {f} : p.d = info[c].first.d /\ ~p.again
      BY <1>7, <2>4, <2>7 DEF OnePacket, NoneAgain
    <3>2. info[c].reassembled_len + f.len = BytesOf(f.d, Numbers(Held(info, buf, c) \cup {f}))
      BY <3>1, CountsNew
    <3> QED BY <1>7, <3>1, <3>2
  <2> QED BY <2>4, <2>5, <2>6, <2>7 DEF CountOK
<1>9. CountsOK(info2, buf2)
  <2>1. \A e \in Context : info2[e].len = info[e].len
    OBVIOUS
  <2> QED BY <1>6, <1>8, <2>1 DEF CountsOK
<1>10. InHand(info2, buf2) \subseteq InHand(info, buf) \cup {f}
  <2>1. \A e \in Context : info2[e].len = info[e].len /\ info2[e].first = info[e].first
    OBVIOUS
  <2>2. \A i \in Buffer : i # b => buf2[i] = buf[i]
    OBVIOUS
  <2>3. buf2[b].part = f
    OBVIOUS
  <2> QED BY <2>1, <2>2, <2>3 DEF InHand
<1> QED BY <1>4, <1>5, <1>9, <1>10 DEF RecvOK

(* A further fragment that does not complete its packet takes a buffer.     *)
Grown(info, c, len) == [info EXCEPT ![c].reassembled_len = len]
Filled(buf, b, c, f) == [buf EXCEPT ![b] = [len |-> f.len, index |-> c, part |-> f]]

LEMMA Stores ==
  ASSUME NEW info, NEW buf, RecvOK(info, buf), NEW c \in Context, info[c].len > 0,
         NEW b \in Buffer, buf[b].len = 0,
         NEW f, Genuine(f), f.k > 1, f.tag = info[c].tag, f.src = info[c].sender,
         NEW len, len = info[c].reassembled_len + f.len, len < Size[f.d],
         NEW info2, info2 = Grown(info, c, len), NEW buf2, buf2 = Filled(buf, b, c, f)
  PROVE  /\ info2 \in [Context -> {NoInfo} \cup Info]
         /\ info2[c].reassembled_len = len /\ info2[c].first = info[c].first
         /\ info2[c].len = info[c].len /\ info2[c].tag = info[c].tag
         /\ info2[c].sender = info[c].sender
         /\ \A e \in Context : e # c => info2[e] = info[e]
         /\ buf2 \in [Buffer -> {NoBuf} \cup Buf]
         /\ buf2[b].len = f.len /\ buf2[b].index = c /\ buf2[b].part = f
         /\ \A i \in Buffer : i # b => buf2[i] = buf[i]
<1>1. /\ f \in Fragments /\ f.d \in Datagram \cup {Foreign} /\ f.len \in Nat /\ f.len > 0
      /\ f.again \in BOOLEAN
  BY GenuineFacts
<1>2. UIP_BUFSIZE \in Nat /\ Size[f.d] \in Nat /\ Size[f.d] <= UIP_BUFSIZE
  <2>1. UIP_BUFSIZE \in Nat
    BY DEF UIP_BUFSIZE
  <2> QED BY <1>1, <2>1, SizeType
<1>3. /\ info \in [Context -> {NoInfo} \cup Info] /\ info[c] \in Info
      /\ buf \in [Buffer -> {NoBuf} \cup Buf]
      /\ \A i \in Buffer : buf[i].len \in Nat
      /\ \A i \in Buffer : buf[i].len > 0 => buf[i] \in Buf
  BY InUse DEF RecvOK, ContextsOK, BuffersOK
<1>4. info[c].reassembled_len \in Nat /\ len \in 1..UIP_BUFSIZE
  <2>1. info[c].reassembled_len \in 1..UIP_BUFSIZE
    BY <1>3 DEF Info
  <2> QED BY <1>1, <1>2, <2>1
<1>5. PICK new : new = [info[c] EXCEPT !.reassembled_len = len]
  OBVIOUS
<1>6. /\ new \in Info /\ new.reassembled_len = len
      /\ new.len = info[c].len /\ new.tag = info[c].tag
      /\ new.sender = info[c].sender /\ new.first = info[c].first
  BY <1>3, <1>4, <1>5 DEF Info
<1>7. info2 \in [Context -> {NoInfo} \cup Info] /\ info2[c] = new
      /\ \A e \in Context : e # c => info2[e] = info[e]
  BY <1>3, <1>5, <1>6 DEF Grown
<1>8. PICK x : x = [len |-> f.len, index |-> c, part |-> f]
  OBVIOUS
<1>9. x \in Buf /\ x.len = f.len /\ x.index = c /\ x.part = f
  BY <1>1, <1>8 DEF Buf
<1>10. buf2 \in [Buffer -> {NoBuf} \cup Buf] /\ buf2[b] = x
       /\ \A i \in Buffer : i # b => buf2[i] = buf[i]
  BY <1>3, <1>8, <1>9 DEF Filled
<1> QED BY <1>6, <1>7, <1>9, <1>10

(* Fragments with one tag of one sender, which has not restarted in between, *)
(* are of one packet.                                                       *)
LEMMA SamePacket ==
  ASSUME TagsOK, NEW p, NEW q, Genuine(p), Genuine(q), p.tag = q.tag, p.src = q.src,
         {p.d, q.d} \subseteq Datagram => epoch[p.d] = epoch[q.d]
  PROVE  p.d = q.d
<1>1. "foreign" # "node"
  OBVIOUS
<1>2. CASE p.src = "foreign"
  BY <1>1, <1>2 DEF Genuine
<1>3. CASE p.src # "foreign"
  <2>1. /\ p.d \in Datagram /\ p.k \in Nat \ {0} /\ p.k <= Len(cut[p.d]) /\ p.tag = Tag(p.d)
        /\ frag_needed(Size[p.d])
    BY <1>3 DEF Genuine, Fragments
  <2>2. /\ q.d \in Datagram /\ q.k \in Nat \ {0} /\ q.k <= Len(cut[q.d]) /\ q.tag = Tag(q.d)
        /\ frag_needed(Size[q.d])
    BY <1>3 DEF Genuine, Fragments
  <2>3. Len(<<>>) = 0
    OBVIOUS
  <2>4. IsCut(p.d)
    BY <2>1, <2>3 DEF IsCut
  <2>5. IsCut(q.d)
    BY <2>2, <2>3 DEF IsCut
  <2>6. epoch[q.d] = epoch[p.d] /\ Tag(q.d) = Tag(p.d)
    BY <2>1, <2>2
  <2> QED BY <2>1, <2>2, <2>4, <2>5, <2>6 DEF TagsOK
<1> QED BY <1>2, <1>3

(* All the fragments of a packet cover it.                                  *)
LEMMA CoverWhole ==
  ASSUME NEW d \in Datagram \cup {Foreign}, frag_needed(Size[d]), frag1_payload >= 0, NEW del,
         \A p \in del.parts : Genuine(p) /\ p.d = d,
         \A k \in 1..Count(d) : \E p \in del.parts : p.k = k,
         del.size = Size[d]
  PROVE  Whole(del)
<1>1. /\ Count(d) \in Nat /\ Count(d) >= 2
      /\ \A k \in 1..Count(d) : /\ k < Count(d) => Offset(k) + Bytes(d, k) = Offset(k + 1)
                                /\ k = Count(d) => Offset(k) + Bytes(d, k) = Size[d]
  BY Pieces
<1>2. \A p \in del.parts : p.d = d /\ p.k \in 1..Count(d) /\ p.off = Offset(p.k) /\ p.len = Bytes(d, p.k)
  BY GenuineFacts
<1>3. \E p \in del.parts : p.off = 0
  <2>1. 1 \in 1..Count(d)
    BY <1>1
  <2>2. PICK p \in del.parts : p.k = 1
    BY <2>1
  <2>3. p.off = Offset(1)
    BY <1>2, <2>2
  <2> QED BY <2>3 DEF Offset
<1>4. \A p, q \in del.parts : p.d = q.d /\ (p.off = q.off => p.len = q.len)
  <2>1. \A p \in del.parts : p.len = Payload(Size[d], p.off)
    BY <1>2 DEF Bytes
  <2> QED BY <1>2, <2>1
<1>5. ASSUME NEW p \in del.parts
      PROVE  p.off + p.len \in {q.off : q \in del.parts} \cup {del.size}
  <2>1. p.k \in 1..Count(d) /\ p.off + p.len = Offset(p.k) + Bytes(d, p.k)
    BY <1>2
  <2>2. CASE p.k = Count(d)
    BY <1>1, <2>1, <2>2
  <2>3. CASE p.k # Count(d)
    <3>1. p.k < Count(d) /\ p.k + 1 \in 1..Count(d)
      BY <1>1, <2>1, <2>3
    <3>2. PICK q \in del.parts : q.k = p.k + 1
      BY <3>1
    <3>3. q.off = Offset(p.k + 1)
      BY <1>2, <3>2
    <3>4. p.off + p.len = Offset(p.k + 1)
      BY <1>1, <2>1, <3>1
    <3> QED BY <3>3, <3>4
  <2> QED BY <2>2, <2>3
<1> QED BY <1>3, <1>4, <1>5 DEF Whole

(* What is delivered when as many bytes have come as the packet has.        *)
LEMMA DeliverWhole ==
  ASSUME TagsOK, NEW info, NEW buf, RecvOK(info, buf), NEW c \in Context, info[c].len > 0,
         NEW f, Genuine(f), f.tag = info[c].tag, f.src = info[c].sender,
         NewTo(info, buf, c, f), info[c].reassembled_len + f.len >= Size[f.d],
         NEW del, del.parts = Held(info, buf, c) \cup {f}, del.size = Size[f.d]
  PROVE  \/ Whole(del)
         \/ \E p \in del.parts : p.again
         \/ \E p, q \in del.parts : {p.d, q.d} \subseteq Datagram /\ epoch[p.d] # epoch[q.d]
<1> SUFFICES ASSUME \A p \in del.parts : ~p.again,
                    \A p, q \in del.parts : {p.d, q.d} \subseteq Datagram => epoch[p.d] = epoch[q.d]
             PROVE  Whole(del)
  OBVIOUS
<1>1. \A p \in del.parts : Genuine(p) /\ p.tag = f.tag /\ p.src = f.src
  BY HeldGenuine
<1>2. f \in del.parts /\ info[c].first \in del.parts
  BY DEF Held
<1>3. ASSUME NEW p \in del.parts PROVE p.d = f.d
  <2>1. Genuine(p) /\ p.tag = f.tag /\ p.src = f.src
    BY <1>1
  <2>2. {p.d, f.d} \subseteq Datagram => epoch[p.d] = epoch[f.d]
    BY <1>2
  <2> QED BY <2>1, <2>2, SamePacket
<1>4. /\ f.d \in Datagram \cup {Foreign} /\ frag_needed(Size[f.d]) /\ frag1_payload >= 0
  BY GenuineFacts
<1>5. info[c].reassembled_len + f.len = BytesOf(f.d, Numbers(del.parts))
  <2>1. \A p \in Held(info, buf, c) \cup {f} : p.d = info[c].first.d /\ ~p.again
    BY <1>2, <1>3
  <2>2. info[c].reassembled_len + f.len = BytesOf(f.d, Numbers(Held(info, buf, c) \cup {f}))
    BY <2>1, CountsNew
  <2> QED BY <2>2
<1>6. Size[f.d] \in Nat
  BY <1>4, SizeType
<1>7. ASSUME NEW k \in 1..Count(f.d) PROVE \E p \in del.parts : p.k = k
  <2> SUFFICES ASSUME k \notin Numbers(del.parts) PROVE FALSE
    BY DEF Numbers
  <2>1. BytesOf(f.d, Numbers(del.parts)) < Size[f.d]
    BY <1>4, BytesMissing
  <2>2. info[c].reassembled_len \in Nat /\ f.len \in Nat
    <3>1. info[c] \in Info
      BY InUse
    <3>2. info[c].reassembled_len \in 1..UIP_BUFSIZE
      BY <3>1 DEF Info
    <3>3. UIP_BUFSIZE \in Nat
      BY DEF UIP_BUFSIZE
    <3> QED BY <3>2, <3>3, GenuineFacts
  <2> QED BY <1>5, <1>6, <2>1, <2>2
<1>8. \A p \in del.parts : Genuine(p) /\ p.d = f.d
  BY <1>1, <1>3
<1>9. \A k \in 1..Count(f.d) : \E p \in del.parts : p.k = k
  BY <1>7
<1> QED BY <1>4, <1>8, <1>9, CoverWhole

-----------------------------------------------------------------------------
(* The receiver's handlers                                                  *)

LEMMA MinIn ==
  ASSUME NEW S \in SUBSET Nat, S # {}
  PROVE  Min(S) \in S
<1>1. \E x \in S : \A y \in S : x <= y
  BY Least
<1> QED BY <1>1 DEF Min

(* A fragment that is not marked as passed up again is not in the receiver. *)
Fresh(info, buf, f) == ~f.again => \A p \in InHand(info, buf) : ~(p.d = f.d /\ p.k = f.k)

LEMMA FreshNew ==
  ASSUME NEW info, NEW buf, NEW f, Fresh(info, buf, f), NEW c \in Context, info[c].len > 0
  PROVE  NewTo(info, buf, c, f)
  BY DEF Fresh, NewTo, Held, InHand, HoldsIn

(* What a delivery may be.                                                  *)
Sound(del) ==
  \/ Whole(del)
  \/ \E p \in del.parts : p.again
  \/ \E p, q \in del.parts : {p.d, q.d} \subseteq Datagram /\ epoch[p.d] # epoch[q.d]

LEMMA ContextNat == Context \subseteq Nat /\ Buffer \subseteq Nat
  BY SicslowpanAssumption DEF Context, Buffer

LEMMA FirstOK ==
  ASSUME RecvOK(frag_info, frag_buf), NEW f, Genuine(f), f.k = 1, First(f)
  PROVE  /\ RecvOK(frag_info', frag_buf')
         /\ InHand(frag_info', frag_buf') \subseteq InHand(frag_info, frag_buf) \cup {f}
         /\ ip_input' = NoDelivery
<1>1. PICK info, buf, info2, buf2, S :
        info = frag_info /\ buf = frag_buf /\ info2 = frag_info' /\ buf2 = frag_buf' /\ S = Timed
  OBVIOUS
<1>2. PICK i1, b1 : i1 = Cleared(info, buf, S).info /\ b1 = Cleared(info, buf, S).buf
  OBVIOUS
<1>3. i1 = clear_fragments(S).info /\ b1 = clear_fragments(S).buf
  BY <1>1, <1>2 DEF clear_fragments, Cleared
<1>4. RecvOK(info, buf)
  BY <1>1
<1>5. RecvOK(i1, b1) /\ InHand(i1, b1) \subseteq InHand(info, buf)
  BY <1>2, <1>4, ClearOK
<1>6. buf2 = b1 /\ ip_input' = NoDelivery
  BY <1>1, <1>3 DEF First
<1>7. CASE FreeSlots(i1) = {}
  <2>1. info2 = i1
    BY <1>1, <1>3, <1>7 DEF First
  <2> QED BY <1>1, <1>5, <1>6, <2>1
<1>8. CASE FreeSlots(i1) # {}
  <2>1. PICK c : c = Min(FreeSlots(i1))
    OBVIOUS
  <2>2. info2 = [i1 EXCEPT ![c] = Begun(f)]
    BY <1>1, <1>3, <1>8, <2>1 DEF First, Begun
  <2>3. DOMAIN i1 = Context
    BY <1>2 DEF Cleared
  <2>4. c \in FreeSlots(i1)
    <3>1. FreeSlots(i1) \in SUBSET Nat
      BY <2>3, ContextNat DEF FreeSlots
    <3> QED BY <1>8, <2>1, <3>1, MinIn
  <2>5. c \in Context /\ i1[c].len = 0
    BY <2>3, <2>4 DEF FreeSlots
  <2>6. RecvOK(info2, b1) /\ InHand(info2, b1) \subseteq InHand(i1, b1) \cup {f}
    BY <1>5, <2>2, <2>5, BeginOK
  <2> QED BY <1>1, <1>5, <1>6, <2>6
<1> QED BY <1>7, <1>8

LEMMA FurtherOK ==
  ASSUME TagsOK, RecvOK(frag_info, frag_buf), NEW f, Genuine(f), f.k > 1,
         Fresh(frag_info, frag_buf, f), Further(f)
  PROVE  /\ RecvOK(frag_info', frag_buf')
         /\ InHand(frag_info', frag_buf') \subseteq InHand(frag_info, frag_buf) \cup {f}
         /\ ip_input' # NoDelivery => Sound(ip_input')
<1>1. PICK info, buf, info2, buf2, del, M :
        /\ info = frag_info /\ buf = frag_buf /\ info2 = frag_info' /\ buf2 = frag_buf'
        /\ del = ip_input' /\ M = Matching(f)
  OBVIOUS
<1>2. RecvOK(info, buf) /\ Fresh(info, buf, f)
  BY <1>1
<1> SUFFICES /\ RecvOK(info2, buf2) /\ InHand(info2, buf2) \subseteq InHand(info, buf) \cup {f}
             /\ del # NoDelivery => Sound(del)
  BY <1>1
<1>3. CASE M = {}
  <2>1. info2 = info /\ buf2 = buf /\ del = NoDelivery
    BY <1>1, <1>3 DEF Further, invars
  <2> QED BY <1>2, <2>1
<1>4. CASE M # {}
  <2>1. PICK c : c = Min(M)
    OBVIOUS
  <2>2. c \in Context /\ info[c].len > 0 /\ f.tag = info[c].tag /\ f.src = info[c].sender
    <3>1. M \in SUBSET Nat
      BY <1>1, ContextNat DEF Matching
    <3>2. c \in M
      BY <1>4, <2>1, <3>1, MinIn
    <3> QED BY <1>1, <3>2 DEF Matching
  <2>3. PICK S : S = IF FreeSlots(frag_buf) # {} THEN {} ELSE Timed \ {c}
    OBVIOUS
  <2>4. PICK i1, b1 : i1 = Cleared(info, buf, S).info /\ b1 = Cleared(info, buf, S).buf
    OBVIOUS
  <2>5. i1 = clear_fragments(S).info /\ b1 = clear_fragments(S).buf
    BY <1>1, <2>4 DEF clear_fragments, Cleared
  <2>6. c \notin S
    BY <2>3
  <2>7. /\ RecvOK(i1, b1) /\ InHand(i1, b1) \subseteq InHand(info, buf)
        /\ \A e \in Context \ S : i1[e] = info[e] /\ Held(i1, b1, e) = Held(info, buf, e)
    BY <1>2, <2>4, ClearOK
  <2>8. i1[c] = info[c] /\ Held(i1, b1, c) = Held(info, buf, c)
    BY <2>2, <2>6, <2>7
  <2>9. DOMAIN b1 = Buffer /\ DOMAIN i1 = Context
    BY <2>4 DEF Cleared
  <2>10. NewTo(info, buf, c, f)
    BY <1>2, <2>2, FreshNew
  <2>11. NewTo(i1, b1, c, f)
    BY <2>8, <2>10 DEF NewTo
  <2>12. PICK len : len = info[c].reassembled_len + f.len
    OBVIOUS
  <2>13. PICK b : b = Min(FreeSlots(b1))
    OBVIOUS
  <2>14. CASE FreeSlots(b1) = {}
    <3>1. info2 = i1 /\ buf2 = b1 /\ del = NoDelivery
      BY <1>1, <1>4, <2>1, <2>3, <2>5, <2>14 DEF Further
    <3> QED BY <2>7, <3>1
  <2>15. CASE FreeSlots(b1) # {} /\ ~last_fragment(f, len)
    <3>1. /\ info2 = Grown(i1, c, len) /\ buf2 = Filled(b1, b, c, f)
          /\ del = NoDelivery
      BY <1>1, <1>4, <2>1, <2>3, <2>5, <2>12, <2>13, <2>15 DEF Further, Grown, Filled
    <3>2. b \in Buffer /\ b1[b].len = 0
      <4>1. FreeSlots(b1) \in SUBSET Nat
        BY <2>9, ContextNat DEF FreeSlots
      <4>2. b \in FreeSlots(b1)
        BY <2>13, <2>15, <4>1, MinIn
      <4> QED BY <2>9, <4>2 DEF FreeSlots
    <3>3. len < Size[f.d]
      <4>1. Size[f.d] \in Nat /\ f.len \in Nat
        BY GenuineFacts, SizeType
      <4>2. info[c].reassembled_len \in Nat
        <5>1. info[c] \in Info
          BY <1>2, <2>2, InUse
        <5>2. info[c].reassembled_len \in 1..UIP_BUFSIZE
          BY <5>1 DEF Info
        <5>3. UIP_BUFSIZE \in Nat
          BY DEF UIP_BUFSIZE
        <5> QED BY <5>2, <5>3
      <4> QED BY <2>12, <2>15, <4>1, <4>2 DEF last_fragment
    <3>4. len = i1[c].reassembled_len + f.len /\ i1[c].len > 0 /\ f.tag = i1[c].tag /\ f.src = i1[c].sender
      BY <2>2, <2>8, <2>12
    <3>5. /\ info2 \in [Context -> {NoInfo} \cup Info]
          /\ info2[c].reassembled_len = len /\ info2[c].first = i1[c].first
          /\ info2[c].len = i1[c].len /\ info2[c].tag = i1[c].tag
          /\ info2[c].sender = i1[c].sender
          /\ \A e \in Context : e # c => info2[e] = i1[e]
          /\ buf2 \in [Buffer -> {NoBuf} \cup Buf]
          /\ buf2[b].len = f.len /\ buf2[b].index = c /\ buf2[b].part = f
          /\ \A i \in Buffer : i # b => buf2[i] = b1[i]
      BY <2>2, <2>7, <3>1, <3>2, <3>3, <3>4, Stores
    <3>6. RecvOK(info2, buf2) /\ InHand(info2, buf2) \subseteq InHand(i1, b1) \cup {f}
      BY <2>2, <2>7, <2>11, <3>2, <3>3, <3>4, <3>5, StoredOK
    <3> QED BY <2>7, <3>1, <3>6
  <2>16. CASE FreeSlots(b1) # {} /\ last_fragment(f, len)
    <3>1. /\ del = [parts |-> Parts(c, f), size |-> Size[f.d]]
          /\ info2 = [i1 EXCEPT ![c] = NoInfo]
          /\ buf2 = [i \in Buffer |-> IF b1[i].len > 0 /\ b1[i].index = c THEN NoBuf ELSE b1[i]]
      BY <1>1, <1>4, <2>1, <2>3, <2>5, <2>12, <2>16 DEF Further
    <3>2. PICK T : T = {c}
      OBVIOUS
    <3>3. info2 = Cleared(i1, b1, T).info /\ buf2 = Cleared(i1, b1, T).buf
      BY <2>2, <2>9, <3>1, <3>2 DEF Cleared
    <3>4. RecvOK(info2, buf2) /\ InHand(info2, buf2) \subseteq InHand(i1, b1)
      BY <2>7, <3>3, ClearOK
    <3>5. del.parts = Held(info, buf, c) \cup {f} /\ del.size = Size[f.d]
      BY <1>1, <3>1 DEF Parts, Held, HoldsIn
    <3>6. info[c].reassembled_len + f.len >= Size[f.d]
      BY <2>12, <2>16 DEF last_fragment
    <3>7. Sound(del)
      BY <1>2, <2>2, <2>10, <3>5, <3>6, DeliverWhole DEF Sound
    <3> QED BY <2>7, <3>4, <3>7
  <2> QED BY <2>14, <2>15, <2>16
<1> QED BY <1>3, <1>4

(* input, for a fragment.                                                   *)
LEMMA InputFragment ==
  ASSUME TagsOK, RecvOK(frag_info, frag_buf), NEW f, Genuine(f),
         Fresh(frag_info, frag_buf, f), input(f)
  PROVE  /\ RecvOK(frag_info', frag_buf')
         /\ InHand(frag_info', frag_buf') \subseteq InHand(frag_info, frag_buf) \cup {f}
         /\ ip_input' # NoDelivery => Sound(ip_input')
<1>1. frag_needed(Size[f.d]) /\ frag1_payload >= 0 /\ f.k \in Nat \ {0} /\ f.off = Offset(f.k)
  BY DEF Genuine, Fragments
<1>2. f.off = 0 <=> f.k = 1
  BY <1>1, OffsetType
<1>3. CASE f.k = 1
  <2>1. First(f)
    BY <1>1, <1>2, <1>3 DEF input
  <2> QED BY <1>3, <2>1, FirstOK
<1>4. CASE f.k # 1
  <2>1. Further(f) /\ f.k > 1
    BY <1>1, <1>2, <1>4 DEF input
  <2> QED BY <2>1, FurtherOK
<1> QED BY <1>3, <1>4

(* input, for a packet that came in one frame.                              *)
LEMMA InputWhole ==
  ASSUME NEW f, ~frag_needed(Size[f.d]), f.off = 0, f.len = Size[f.d], Size[f.d] \in Nat, input(f)
  PROVE  UNCHANGED invars /\ Sound(ip_input')
<1>1. ip_input' = [parts |-> {f}, size |-> Size[f.d]] /\ UNCHANGED invars
  BY DEF input
<1>2. PICK del : del = ip_input'
  OBVIOUS
<1>3. del.parts = {f} /\ del.size = Size[f.d]
  BY <1>1, <1>2
<1>4. Whole(del)
  BY <1>3 DEF Whole
<1> QED BY <1>1, <1>2, <1>4 DEF Sound
-----------------------------------------------------------------------------
(* The sender                                                               *)

(* What a step of the receiver leaves alone.                                *)
LEMMA GenuineKept ==
  ASSUME \A d \in Datagram : Len(cut[d]) \in Nat /\ Len(cut'[d]) \in Nat,
         \A d \in Datagram : Len(cut[d]) <= Len(cut'[d]),
         \A d \in Datagram : cut[d] # <<>> => cut'[d][1] = cut[d][1],
         NEW p, Genuine(p)
  PROVE  Genuine(p)'
<1>1. p.d \in Datagram /\ p.k <= Len(cut[p.d]) => p.k <= Len(cut'[p.d]) /\ Tag(p.d)' = Tag(p.d)
  <2> SUFFICES ASSUME p.d \in Datagram, p.k <= Len(cut[p.d])
               PROVE  p.k <= Len(cut'[p.d]) /\ Tag(p.d)' = Tag(p.d)
    OBVIOUS
  <2>1. p.k \in Nat \ {0}
    BY DEF Genuine, Fragments
  <2>2. Len(<<>>) = 0
    OBVIOUS
  <2>3. cut[p.d] # <<>>
    BY <2>1, <2>2
  <2> QED BY <2>1, <2>3 DEF Tag
<1> QED BY <1>1 DEF Genuine, Fragments

LEMMA RecvKept ==
  ASSUME NEW info, NEW buf, RecvOK(info, buf), \A p : Genuine(p) => Genuine(p)'
  PROVE  RecvOK(info, buf)'
<1>1. ContextsOK(info)'
  BY DEF RecvOK, ContextsOK, Info, Fragments, NoInfo, Context
<1>2. BuffersOK(info, buf)'
  BY DEF RecvOK, BuffersOK, Buf, Fragments, NoBuf, Context, Buffer
<1>3. CountsOK(info, buf)'
  BY DEF RecvOK, CountsOK, CountOK, OnePacket, NoneAgain, Held, HoldsIn, BytesIn, BytesOf, Numbers, Total
<1> QED BY <1>1, <1>2, <1>3 DEF RecvOK

(* What csma_output_packet does with a frame: it is the last of one queue,  *)
(* or nothing has changed but the seqno.                                    *)
Taken(pk, a) ==
  \E n \in Neighbor : \E e :
    /\ e.pk = pk /\ packet_queue' = [packet_queue EXCEPT ![n] = Append(packet_queue[n], e)]
    /\ neighbor_list' = neighbor_list \cup {n}
    /\ addr'[n] = a /\ \A m \in neighbor_list : addr'[m] = addr[m]
    /\ bufmem' = bufmem + 1 /\ open'[pk] = 1

Refused(pk) ==
  /\ UNCHANGED <<packet_queue, neighbor_list, addr, bufmem>> /\ open'[pk] = 0

LEMMA OutputEffect ==
  ASSUME IInv, NEW pk \in Packet, NEW a \in Addr, NEW held \in {0, 1},
         csma_output_packet(pk, a, 0, held)
  PROVE  Taken(pk, a) \/ Refused(pk)
<1>0. open[pk] = 0 /\ open \in [Packet -> Int]
  BY DEF csma_output_packet, IInv, QueueTypes
<1>1. ASSUME NEW n \in Target(a), Accept(n, pk, a, 0)
      PROVE  Taken(pk, a)
  <2>1. n \in Neighbor /\ Queued(n) = packet_queue[n] /\ addr \in [Neighbor -> Addr]
        /\ neighbor_list \subseteq Neighbor
    BY DEF Target, Known, Free, Queued, IInv, QueueTypes, QueuesServed
  <2>2. n \in neighbor_list => addr[n] = a
    BY DEF Target, Known, Free, IInv, QueuesServed
  <2>3. PICK e : /\ e = [pk |-> pk, seqno |-> NextSeqno,
                         max |-> IF 0 = 0 THEN MAX_FRAME_RETRIES + 1 ELSE 0]
                 /\ packet_queue' = [packet_queue EXCEPT ![n] = Append(packet_queue[n], e)]
    BY <1>1, <2>1 DEF Accept
  <2>4. e.pk = pk
    BY <2>3
  <2>5. neighbor_list' = neighbor_list \cup {n} /\ bufmem' = bufmem + 1
    BY <1>1 DEF Accept
  <2>6. open'[pk] = 1
    BY <1>0, <1>1 DEF Accept
  <2>7. addr'[n] = a /\ \A m \in neighbor_list : addr'[m] = addr[m]
    BY <1>1, <2>1, <2>2 DEF Accept
  <2> QED BY <2>1, <2>3, <2>4, <2>5, <2>6, <2>7 DEF Taken
<1>2. ASSUME NEW n \in Target(a), Drop(n)
      PROVE  Refused(pk)
  <2>1. neighbor_list' = neighbor_list
    BY <1>2 DEF Drop, Queued, Target, Known, Free, IInv, QueueTypes, QueuesServed
  <2> QED BY <1>0, <1>2, <2>1 DEF Drop, Refused
<1>3. CASE UNCHANGED <<queuevars, poolvars, open, attempts>>
  BY <1>0, <1>3 DEF queuevars, poolvars, Refused
<1> QED BY <1>1, <1>2, <1>3 DEF csma_output_packet

(* A queue has no more packets than all queues together.                    *)
LEMMA QueueLen ==
  ASSUME IInv, Books, NEW n \in Neighbor
  PROVE  Len(packet_queue[n]) \in Nat /\ Len(packet_queue[n]) <= bufmem
<1>1. PICK q, len : q = packet_queue[n] /\ len = Len(q) /\ len \in Nat /\ DOMAIN q = 1..len
  <2>1. packet_queue[n] \in Seq(Entry)
    BY DEF IInv, QueueTypes
  <2> QED BY <2>1
<1>2. PICK S : S = Slots /\ IsFiniteSet(S) /\ bufmem = Cardinality(S)
  BY DEF Books
<1>3. PICK g : g = [i \in 1..len |-> <<n, i>>]
  OBVIOUS
<1>4. g \in Injection(1..len, S)
  <2>1. \A i \in 1..len : <<n, i>> \in S
    BY <1>1, <1>2, SlotsDef
  <2>2. g \in [1..len -> S]
    BY <1>3, <2>1
  <2>3. \A i, j \in 1..len : g[i] = g[j] => i = j
    BY <1>3
  <2> QED BY <2>2, <2>3 DEF Injection, IsInjective
<1>5. Cardinality(1..len) <= Cardinality(S)
  BY <1>2, <1>4, FS_Injection
<1>6. Cardinality(1..len) = len
  <2>1. 1 \in Int /\ len \in Int
    BY <1>1
  <2>2. Cardinality(1..len) = IF 1 > len THEN 0 ELSE len - 1 + 1
    BY <2>1, FS_Interval
  <2> QED BY <1>1, <2>2
<1> QED BY <1>1, <1>2, <1>5, <1>6

(* A neighbor that is there has room for a further fragment.                *)
LEMMA NotRefused ==
  ASSUME IInv, Books, NEW pk \in Packet, NEW a \in Addr, Known(a) # {},
         bufmem + 1 < QUEUEBUF_NUM, csma_output_packet(pk, a, 0, 1)
  PROVE  open'[pk] = 1
<1>1. Target(a) = Known(a)
  BY DEF Target
<1>2. ASSUME NEW n \in Target(a) PROVE Room(n, 1)
  <2>1. n \in Neighbor /\ Queued(n) = packet_queue[n]
    BY <1>1 DEF Known, Queued, IInv, QueueTypes
  <2>2. Len(Queued(n)) \in Nat /\ Len(Queued(n)) <= bufmem
    BY <2>1, QueueLen
  <2>3. packet_memb = bufmem /\ metadata_memb = bufmem /\ bufmem \in Nat
    BY FS_CardinalityType DEF Books
  <2>4. MAX_PACKET_PER_NEIGHBOR >= QUEUEBUF_NUM /\ MAX_PACKET_PER_NEIGHBOR \in Nat /\ QUEUEBUF_NUM \in Nat
    BY SicslowpanAssumption, CsmaAssumption
  <2> QED BY <2>2, <2>3, <2>4 DEF Room
<1>3. PICK n \in Target(a) : Accept(n, pk, a, 0)
  BY <1>1, <1>2 DEF csma_output_packet
<1> QED BY <1>3 DEF Accept, csma_output_packet, IInv, QueueTypes

(* What a transmission does: the first frame of the queue is done with, or  *)
(* it stays.                                                                *)
Finished(n) ==
  /\ open'[packet_queue[n][1].pk] = 0
  /\ \A i \in DOMAIN packet_queue'[n] :
       i \in Nat \ {0} /\ i + 1 \in DOMAIN packet_queue[n] /\ packet_queue'[n][i] = packet_queue[n][i + 1]
  /\ \A m \in Neighbor : m # n => packet_queue'[m] = packet_queue[m]
  /\ neighbor_list \ {n} \subseteq neighbor_list'

Repeated(n) ==
  open'[packet_queue[n][1].pk] = 1 /\ UNCHANGED <<packet_queue, neighbor_list>>

LEMMA TransmitEffect ==
  ASSUME IInv, Books, NEW n \in Neighbor, NEW ret, transmit_from_queue(n, ret)
  PROVE  /\ n \in neighbor_list /\ 1 \in DOMAIN packet_queue[n]
         /\ Head(packet_queue[n]) = packet_queue[n][1]
         /\ packet_queue[n][1].pk \in Packet
         /\ Finished(n) \/ Repeated(n)
<1>1. /\ n \in armed /\ n \in neighbor_list /\ packet_queue \in [Neighbor -> Seq(Entry)]
      /\ packet_queue[n] \in Seq(Entry) /\ packet_queue[n] # <<>>
  BY DEF transmit_from_queue, IInv, QueueTypes, QueuesServed
<1>2. Sought(n) = 1
  BY <1>1, SoughtFirst
<1>3. PICK q, len : q = packet_queue[n] /\ len = Len(q) /\ len \in Nat \ {0} /\ DOMAIN q = 1..len /\ q \in Seq(Entry)
  BY <1>1
<1>4. 1 \in DOMAIN q /\ Head(q) = q[1] /\ q[1] \in Entry
  BY <1>3
<1>5. q[1].pk \in Packet
  BY <1>4 DEF Entry
<1>6. open[q[1].pk] = 1 /\ open \in [Packet -> Int]
  <2>1. <<n, 1>> \in Slots
    BY <1>3, <1>4, SlotsDef
  <2>2. PacketAt(<<n, 1>>) = q[1].pk
    BY <1>3 DEF PacketAt
  <2> QED BY <1>5, <2>1, <2>2 DEF Books, IInv, QueueTypes
<1>7. CASE tx_done(n, 1)
  <2>1. PICK rest : rest = Without(q, 1)
    OBVIOUS
  <2>2. DOMAIN rest = 1..(len - 1) /\ \A k \in 1..(len - 1) : rest[k] = q[k + 1]
    <3>1. SubSeq(q, 1, 1 - 1) = <<>>
      BY <1>3
    <3>2. SubSeq(q, 2, len) \in Seq(Entry)
      BY <1>3
    <3>3. rest = SubSeq(q, 2, len)
      BY <1>3, <2>1, <3>1, <3>2, ConcatEmptySeq DEF Without
    <3> QED BY <1>3, <3>3
  <2>3. packet_queue' = [packet_queue EXCEPT ![n] = rest]
    BY <1>3, <1>7, <2>1 DEF tx_done
  <2>4. packet_queue'[n] = rest /\ \A m \in Neighbor : m # n => packet_queue'[m] = packet_queue[m]
    BY <1>1, <2>3
  <2>5. open'[q[1].pk] = 0
    BY <1>3, <1>5, <1>6, <1>7 DEF tx_done
  <2>6. neighbor_list \ {n} \subseteq neighbor_list'
    BY <1>7 DEF tx_done
  <2>7. \A i \in DOMAIN rest : i \in Nat \ {0} /\ i + 1 \in DOMAIN q /\ rest[i] = q[i + 1]
    BY <1>3, <2>2
  <2>8. Finished(n)
    BY <1>3, <2>4, <2>5, <2>6, <2>7 DEF Finished
  <2> QED BY <1>1, <1>3, <1>4, <1>5, <2>8
<1>8. CASE ~tx_done(n, 1)
  <2>1. rexmit(n)
    BY <1>2, <1>8 DEF transmit_from_queue
  <2>2. Repeated(n)
    BY <1>3, <1>6, <2>1 DEF rexmit, Repeated
  <2> QED BY <1>1, <1>3, <1>4, <1>5, <2>2
<1> QED BY <1>7, <1>8

(* The CSMA part of the invariant.                                          *)
LEMMA CsmaKept == IInv /\ Books /\ [Next]_vars => IInv' /\ Books'
  BY NextIInv, NextBooks

LEMMA PacketOf ==
  ASSUME NEW d \in Datagram
  PROVE  /\ ~frag_needed(Size[d]) => <<d, 1>> \in Packet
         /\ frag_needed(Size[d]) => \A k \in 1..Count(d) : <<d, k>> \in Packet
         /\ Dest[d] \in Addr /\ 0 \in MaxTransmissions
<1>1. \A k \in 1..(IF frag_needed(Size[d]) THEN fragment_count(Size[d]) ELSE 1) : <<d, k>> \in Packet
  BY SicslowpanAssumption
<1>2. ~frag_needed(Size[d]) => <<d, 1>> \in Packet
  BY <1>1
<1>3. frag_needed(Size[d]) => \A k \in 1..Count(d) : <<d, k>> \in Packet
  BY <1>1 DEF Count
<1> QED BY <1>2, <1>3, SicslowpanAssumption

LEMMA CsmaOutputKept ==
  ASSUME IInv, Books, NEW pk \in Packet, NEW a \in Addr, NEW held \in {0, 1},
         csma_output_packet(pk, a, 0, held)
  PROVE  IInv' /\ Books'
<1>1. 0 \in MaxTransmissions
  BY SicslowpanAssumption
<1>2. Next
  BY <1>1 DEF Next
<1> QED BY <1>2, CsmaKept

(* The receiver's part of the invariant after a step, from the same for its *)
(* new contexts and buffers and what had been cut before.                   *)
LEMMA RecvNext ==
  ASSUME RecvOK(frag_info', frag_buf'), \A p : Genuine(p) => Genuine(p)'
  PROVE  RecvOK(frag_info, frag_buf)'
<1>1. PICK info, buf : info = frag_info' /\ buf = frag_buf'
  OBVIOUS
<1>2. RecvOK(info, buf)
  BY <1>1
<1>3. RecvOK(info, buf)'
  BY <1>2, RecvKept
<1> QED BY <1>1, <1>3

LEMMA PassedNext ==
  ASSUME NEW X, InHand(frag_info', frag_buf') \subseteq X, \A p \in X : Passed(p)'
  PROVE  PassedOK'
  BY DEF PassedOK, InHand

LEMMA Untouched ==
  ASSUME LowpanInv, UNCHANGED <<packet_queue, neighbor_list, cut, heard, foreign, frag_info, frag_buf>>
  PROVE  QueueOK' /\ ForeignOK' /\ RecvOK(frag_info, frag_buf)' /\ PassedOK'
<1>1. QueueOK'
  BY DEF LowpanInv, QueueOK
<1>2. ForeignOK'
  BY DEF LowpanInv, ForeignOK
<1>3. \A p : Genuine(p) => Genuine(p)'
  BY DEF Genuine, Fragments, Tag
<1>4. RecvOK(frag_info, frag_buf)'
  <2>1. RecvOK(frag_info', frag_buf')
    BY DEF LowpanInv
  <2> QED BY <1>3, <2>1, RecvNext
<1>5. PassedOK'
  BY DEF LowpanInv, PassedOK, InHand, Passed
<1> QED BY <1>1, <1>2, <1>4, <1>5

(* The tags that were used since the last start are fewer than the packets. *)
LEMMA TagsUsed ==
  ASSUME NEW S \in SUBSET Datagram
  PROVE  /\ IsFiniteSet(S) /\ Cardinality(S) \in Nat /\ Cardinality(S) < TagWrap
         /\ TagWrap \in Nat
         /\ \A d \in Datagram \ S : /\ IsFiniteSet(S \cup {d})
                                    /\ Cardinality(S \cup {d}) = Cardinality(S) + 1
                                    /\ Cardinality(S \cup {d}) < TagWrap
<1>1. IsFiniteSet(Datagram) /\ TagWrap \in Nat /\ Cardinality(Datagram) < TagWrap
  BY SicslowpanAssumption
<1>2. \A T \in SUBSET Datagram : /\ IsFiniteSet(T) /\ Cardinality(T) <= Cardinality(Datagram)
                                 /\ Cardinality(T) \in Nat
  BY <1>1, FS_Subset, FS_CardinalityType
<1>3. Cardinality(Datagram) \in Nat
  BY <1>2
<1>4. \A T \in SUBSET Datagram : Cardinality(T) < TagWrap
  BY <1>1, <1>2, <1>3
<1>5. \A d \in Datagram \ S : Cardinality(S \cup {d}) = Cardinality(S) + 1
  BY <1>2, FS_AddElement
<1> QED BY <1>1, <1>2, <1>4, <1>5

LEMMA OutputOK ==
  ASSUME LowpanInv, NEW d \in Datagram, output(d)
  PROVE  LowpanInv'
<1>1. /\ epoch[d] = NotSent /\ frag_needed(Size[d]) /\ frag1_payload >= 0
      /\ freebuf >= Count(d)
      /\ out' = [d |-> d, done |-> 0, tag |-> my_tag] /\ my_tag' = (my_tag + 1) % TagWrap
      /\ epoch' = [epoch EXCEPT ![d] = restarts]
      /\ UNCHANGED <<vars, cut, invars, heard, foreign, restarts>>
  BY DEF output, Count
<1>2. IInv' /\ Books'
  BY <1>1, CsmaKept DEF LowpanInv
<1>3. QueueOK' /\ ForeignOK' /\ RecvOK(frag_info, frag_buf)' /\ PassedOK'
  BY <1>1, Untouched DEF vars, invars
<1>4. /\ restarts \in 0..MaxRestarts /\ restarts \in Nat /\ restarts # NotSent /\ MaxRestarts \in Nat
      /\ DOMAIN epoch = Datagram /\ my_tag \in Nat
  BY SicslowpanAssumption DEF LowpanInv, TagsOK, NotSent
<1>5. epoch'[d] = restarts /\ \A e \in Datagram : e # d => epoch'[e] = epoch[e]
  BY <1>1, <1>4
<1>6. cut[d] = <<>> /\ ~IsCut(d)
  BY <1>1 DEF LowpanInv, CutOK, IsCut
<1>7. CutOK'
  <2>1. \A e \in Datagram : epoch'[e] = NotSent => cut[e] = <<>>
    BY <1>4, <1>5 DEF LowpanInv, CutOK
  <2> QED BY <1>1, <2>1 DEF LowpanInv, CutOK, Tag
<1>8. my_tag' = my_tag + 1 /\ my_tag + 1 <= Cardinality({e \in Datagram : epoch'[e] = restarts})
  <2>1. PICK S : S = {e \in Datagram : epoch[e] = restarts}
    OBVIOUS
  <2>2. my_tag <= Cardinality(S)
    BY <2>1 DEF LowpanInv, TagsOK
  <2>3. d \notin S
    BY <1>1, <1>4, <2>1
  <2>4. {e \in Datagram : epoch'[e] = restarts} = S \cup {d}
    BY <1>5, <2>1
  <2>6. S \in SUBSET Datagram
    BY <2>1
  <2>7. /\ Cardinality(S) \in Nat /\ TagWrap \in Nat
        /\ Cardinality(S \cup {d}) = Cardinality(S) + 1 /\ Cardinality(S \cup {d}) < TagWrap
    BY <2>3, <2>6, TagsUsed
  <2>8. my_tag + 1 < TagWrap
    BY <1>4, <2>2, <2>7
  <2>9. (my_tag + 1) % TagWrap = my_tag + 1
    BY <1>4, <2>7, <2>8, ModSmall
  <2>10. my_tag + 1 <= Cardinality(S \cup {d})
    BY <1>4, <2>2, <2>7
  <2> QED BY <1>1, <2>4, <2>9, <2>10
<1>9. \A e : IsCut(e)' = IsCut(e) /\ Tag(e)' = Tag(e)
  BY <1>1 DEF IsCut, Tag
<1>10. TagsOK'
  <2>1. \A e \in Datagram : epoch'[e] \in {NotSent} \cup 0..restarts
    BY <1>4, <1>5 DEF LowpanInv, TagsOK
  <2>2. ASSUME NEW e \in Datagram, IsCut(e)
        PROVE  /\ Tag(e) \in 0..(TagWrap - 1)
               /\ epoch'[e] = restarts => Tag(e) < my_tag + 1
               /\ \A g \in Datagram : IsCut(g) /\ epoch'[g] = epoch'[e] /\ Tag(g) = Tag(e) => g = e
    <3>1. e # d /\ epoch'[e] = epoch[e]
      BY <1>5, <1>6, <2>2
    <3>2. Tag(e) \in Nat
      BY <2>2, SicslowpanAssumption DEF LowpanInv, TagsOK
    <3>3. \A g \in Datagram : IsCut(g) => epoch'[g] = epoch[g]
      BY <1>5, <1>6
    <3> QED BY <1>4, <2>2, <3>1, <3>2, <3>3 DEF LowpanInv, TagsOK
  <2>3. DOMAIN epoch' = Datagram
    BY <1>1, <1>4
  <2> QED BY <1>1, <1>4, <1>8, <1>9, <2>1, <2>2, <2>3 DEF TagsOK
<1>11. OutOK'
  <2>1. Len(cut[d]) = 0 /\ Offset(0 + 1) = 0
    BY <1>6 DEF Offset
  <2>2. PICK t : t = my_tag /\ t \in Nat
    BY <1>4
  <2>7. out' = [d |-> d, done |-> Offset(Len(cut'[d]) + 1), tag |-> t]
    BY <1>1, <2>1, <2>2
  <2>3. Count(d) \in Nat /\ Count(d) >= 2
    BY <1>1, Pieces
  <2>4. bufmem + 1 + Count(d) <= QUEUEBUF_NUM /\ bufmem \in Nat
    <3>1. bufmem \in Nat /\ QUEUEBUF_NUM \in Nat
      BY FS_CardinalityType, CsmaAssumption DEF LowpanInv, Books
    <3> QED BY <1>1, <2>3, <3>1 DEF freebuf
  <2>5. \A e \in Datagram : ~(IsCut(e) /\ epoch'[e] = restarts /\ Tag(e) = t)
    <3>1. \A e \in Datagram : IsCut(e) /\ epoch[e] = restarts => Tag(e) < my_tag /\ Tag(e) \in Nat
      BY SicslowpanAssumption DEF LowpanInv, TagsOK
    <3> QED BY <1>4, <1>5, <1>6, <2>2, <3>1
  <2>6. Cutting(d, t)'
    <3>1. epoch'[d] = restarts' /\ bufmem' = bufmem /\ cut' = cut
      BY <1>1, <1>5 DEF vars
    <3>2. bufmem' + 1 + Count(d) - Len(cut'[d]) <= QUEUEBUF_NUM /\ Len(cut'[d]) < Count(d)
      BY <2>1, <2>3, <2>4, <3>1
    <3>3. t < my_tag'
      BY <1>4, <1>8, <2>2
    <3>4. \A e \in Datagram : ~(IsCut(e)' /\ epoch'[e] = restarts' /\ Tag(e)' = t)
      BY <1>1, <1>9, <2>5
    <3> QED BY <1>1, <1>6, <3>1, <3>2, <3>3, <3>4 DEF Cutting
  <2> QED BY <2>2, <2>6, <2>7 DEF OutOK
<1> QED BY <1>2, <1>3, <1>7, <1>10, <1>11 DEF LowpanInv

(* A frame that CSMA takes is behind the others in its queue.               *)
LEMMA TakenSlots ==
  ASSUME IInv, NEW pk, NEW a, Taken(pk, a), NEW m \in Neighbor, NEW i \in DOMAIN packet_queue'[m]
  PROVE  \/ packet_queue'[m][i].pk = pk
         \/ i \in DOMAIN packet_queue[m] /\ packet_queue'[m][i] = packet_queue[m][i]
<1>1. PICK n \in Neighbor : \E e :
        e.pk = pk /\ packet_queue' = [packet_queue EXCEPT ![n] = Append(packet_queue[n], e)]
  BY DEF Taken
<1>2. PICK e : e.pk = pk /\ packet_queue' = [packet_queue EXCEPT ![n] = Append(packet_queue[n], e)]
  BY <1>1
<1>3. packet_queue \in [Neighbor -> Seq(Entry)]
  BY DEF IInv, QueueTypes
<1>4. CASE m = n
  <2>1. PICK q, len : q = packet_queue[n] /\ len = Len(q) /\ len \in Nat /\ DOMAIN q = 1..len
    BY <1>3
  <2>2. packet_queue'[m] = Append(q, e)
    BY <1>2, <1>3, <1>4, <2>1
  <2>3. Append(q, e) = [j \in 1..(len + 1) |-> IF j = len + 1 THEN e ELSE q[j]]
    BY <2>1
  <2>4. i \in 1..(len + 1)
    BY <2>2, <2>3
  <2>5. CASE i = len + 1
    BY <1>2, <2>2, <2>3, <2>4, <2>5
  <2>6. CASE i # len + 1
    <3>1. i \in 1..len
      BY <2>1, <2>4, <2>6
    <3> QED BY <1>4, <2>1, <2>2, <2>3, <2>4, <2>6, <3>1
  <2> QED BY <2>5, <2>6
<1>5. CASE m # n
  <2>1. packet_queue'[m] = packet_queue[m]
    BY <1>2, <1>3, <1>5
  <2> QED BY <2>1
<1> QED BY <1>4, <1>5

LEMMA QueueGrows ==
  ASSUME LowpanInv, NEW d \in Datagram, NEW k, NEW a, Taken(<<d, k>>, a) \/ Refused(<<d, k>>),
         UNCHANGED <<heard, foreign, frag_info, frag_buf>>,
         \A e \in Datagram : Len(cut[e]) \in Nat /\ Len(cut'[e]) \in Nat /\ Len(cut[e]) <= Len(cut'[e]),
         Taken(<<d, k>>, a) => k \in 1..Len(cut'[d]),
         \A p \in InHand(frag_info, frag_buf) : p.d = d => p.k # k
  PROVE  QueueOK' /\ PassedOK'
<1>1. ASSUME NEW m \in Neighbor, NEW i \in DOMAIN packet_queue'[m]
      PROVE  \/ Taken(<<d, k>>, a) /\ packet_queue'[m][i].pk = <<d, k>>
             \/ i \in DOMAIN packet_queue[m] /\ packet_queue'[m][i] = packet_queue[m][i]
  <2>1. CASE Taken(<<d, k>>, a)
    BY <2>1, TakenSlots DEF LowpanInv
  <2>2. CASE Refused(<<d, k>>)
    BY <2>2 DEF Refused
  <2> QED BY <2>1, <2>2
<1>2. QueueOK'
  <2>1. heard' \subseteq neighbor_list'
    <3>1. neighbor_list \subseteq neighbor_list'
      BY DEF Taken, Refused
    <3> QED BY <3>1 DEF LowpanInv, QueueOK
  <2>2. ASSUME NEW m \in Neighbor, NEW i \in DOMAIN packet_queue'[m]
        PROVE  \E e \in Datagram : \E j \in 1..Len(cut'[e]) : packet_queue'[m][i].pk = <<e, j>>
    <3>1. CASE Taken(<<d, k>>, a) /\ packet_queue'[m][i].pk = <<d, k>>
      BY <3>1
    <3>2. CASE i \in DOMAIN packet_queue[m] /\ packet_queue'[m][i] = packet_queue[m][i]
      <4>1. PICK e \in Datagram : \E j \in 1..Len(cut[e]) : packet_queue[m][i].pk = <<e, j>>
        BY <3>2 DEF LowpanInv, QueueOK
      <4>2. PICK j \in 1..Len(cut[e]) : packet_queue[m][i].pk = <<e, j>>
        BY <4>1
      <4>3. j \in 1..Len(cut'[e])
        <5>1. Len(cut[e]) \in Nat /\ Len(cut'[e]) \in Nat /\ Len(cut[e]) <= Len(cut'[e])
          OBVIOUS
        <5> QED BY <5>1
      <4> QED BY <3>2, <4>2, <4>3
    <3> QED BY <1>1, <2>2, <3>1, <3>2
  <2> QED BY <2>1, <2>2 DEF QueueOK
<1>3. PassedOK'
  <2>1. PICK X : X = InHand(frag_info, frag_buf)
    OBVIOUS
  <2>2. InHand(frag_info', frag_buf') \subseteq X
    BY <2>1
  <2>3. ASSUME NEW p \in X PROVE Passed(p)'
    <3>1. Passed(p)
      BY <2>1, <2>3 DEF LowpanInv, PassedOK
    <3>2. ASSUME NEW m \in Neighbor, NEW i \in DOMAIN packet_queue'[m], p.d # Foreign,
                 packet_queue'[m][i].pk = <<p.d, p.k>>
          PROVE  i = 1 /\ m \in heard'
      <4>1. packet_queue'[m][i].pk # <<d, k>>
        BY <2>1, <3>2
      <4>2. i \in DOMAIN packet_queue[m] /\ packet_queue[m][i].pk = <<p.d, p.k>>
        BY <1>1, <3>2, <4>1
      <4> QED BY <3>1, <3>2, <4>2 DEF Passed
    <3> QED BY <3>1, <3>2 DEF Passed
  <2> QED BY <2>2, <2>3, PassedNext
<1> QED BY <1>2, <1>3

(* What the receiver has comes from what was cut.                           *)
LEMMA HandGenuine ==
  ASSUME NEW info, NEW buf, RecvOK(info, buf), NEW p \in InHand(info, buf)
  PROVE  Genuine(p)
<1>1. CASE \E c \in Context : info[c].len > 0 /\ p = info[c].first
  BY <1>1 DEF RecvOK, ContextsOK
<1>2. CASE \E b \in Buffer : buf[b].len > 0 /\ p = buf[b].part
  BY <1>2 DEF RecvOK, BuffersOK
<1> QED BY <1>1, <1>2 DEF InHand

LEMMA OutputWholeOK ==
  ASSUME LowpanInv, NEW d \in Datagram, OutputWhole(d)
  PROVE  LowpanInv'
<1>1. /\ out = Idle /\ epoch[d] = NotSent /\ ~frag_needed(Size[d])
      /\ csma_output_packet(<<d, 1>>, Dest[d], 0, 0)
      /\ cut' = [cut EXCEPT ![d] = <<Fragment(d, 1, 0, 0, Size[d])>>]
      /\ epoch' = [epoch EXCEPT ![d] = restarts]
      /\ UNCHANGED <<my_tag, out, invars, heard, foreign, restarts>>
  BY DEF OutputWhole
<1>2. PICK a \in Addr : a = Dest[d] /\ <<d, 1>> \in Packet
  BY <1>1, PacketOf
<1>3. IInv' /\ Books'
  BY <1>1, <1>2, CsmaOutputKept DEF LowpanInv
<1>4. Taken(<<d, 1>>, a) \/ Refused(<<d, 1>>)
  BY <1>1, <1>2, OutputEffect DEF LowpanInv
<1>5. DOMAIN cut = Datagram /\ DOMAIN epoch = Datagram /\ restarts \in Nat /\ restarts # NotSent
  BY SicslowpanAssumption DEF LowpanInv, CutOK, TagsOK, NotSent
<1>6. /\ cut'[d] = <<Fragment(d, 1, 0, 0, Size[d])>> /\ Len(cut'[d]) = 1 /\ DOMAIN cut'[d] = 1..1
      /\ \A e \in Datagram : e # d => cut'[e] = cut[e]
      /\ epoch'[d] = restarts /\ \A e \in Datagram : e # d => epoch'[e] = epoch[e]
      /\ DOMAIN cut' = Datagram /\ DOMAIN epoch' = Datagram
  BY <1>1, <1>5
<1>7. cut[d] = <<>> /\ Len(cut[d]) = 0
  BY <1>1 DEF LowpanInv, CutOK
<1>8. CutOK'
  <2>1. ASSUME NEW e \in Datagram
        PROVE  /\ Len(cut'[e]) \in Nat /\ DOMAIN cut'[e] = 1..Len(cut'[e])
               /\ epoch'[e] = NotSent => cut'[e] = <<>>
               /\ ~frag_needed(Size[e]) =>
                    cut'[e] = <<>> \/ cut'[e] = <<Fragment(e, 1, 0, 0, Size[e])>>
               /\ frag_needed(Size[e]) =>
                    /\ cut'[e] # <<>> => frag1_payload >= 0
                    /\ Len(cut'[e]) <= Count(e)
                    /\ \A k \in 1..Len(cut'[e]) :
                         cut'[e][k] = Fragment(e, k, cut'[e][1].tag, Offset(k), Bytes(e, k))
    <3>1. CASE e = d
      BY <1>1, <1>5, <1>6, <3>1
    <3>2. CASE e # d
      <4>1. cut'[e] = cut[e] /\ epoch'[e] = epoch[e]
        BY <1>6, <3>2
      <4> QED BY <4>1 DEF LowpanInv, CutOK, Tag
    <3> QED BY <3>1, <3>2
  <2> QED BY <1>6, <2>1 DEF CutOK, Tag
<1>9. \A e \in Datagram : IsCut(e)' = IsCut(e) /\ (IsCut(e) => Tag(e)' = Tag(e) /\ epoch'[e] = epoch[e])
  BY <1>1, <1>6 DEF IsCut, Tag
<1>10. my_tag' <= Cardinality({e \in Datagram : epoch'[e] = restarts'})
  <2>1. PICK S : S = {e \in Datagram : epoch[e] = restarts}
    OBVIOUS
  <2>2. my_tag <= Cardinality(S) /\ my_tag \in Nat
    BY <2>1 DEF LowpanInv, TagsOK
  <2>3. d \in Datagram \ S
    BY <1>1, <1>5, <2>1
  <2>4. {e \in Datagram : epoch'[e] = restarts'} = S \cup {d}
    BY <1>1, <1>6, <2>1
  <2>5. S \in SUBSET Datagram
    BY <2>1
  <2>6. Cardinality(S) \in Nat /\ Cardinality(S \cup {d}) = Cardinality(S) + 1
    BY <2>3, <2>5, TagsUsed
  <2>7. my_tag <= Cardinality(S \cup {d})
    BY <2>2, <2>6
  <2> QED BY <1>1, <2>4, <2>7
<1>11. TagsOK'
  <2>1. \A e \in Datagram : epoch'[e] \in {NotSent} \cup 0..restarts
    BY <1>5, <1>6 DEF LowpanInv, TagsOK
  <2> QED BY <1>1, <1>6, <1>9, <1>10, <2>1 DEF LowpanInv, TagsOK
<1>12. OutOK'
  BY <1>1 DEF OutOK, Idle
<1>13. \A e \in Datagram : Len(cut[e]) \in Nat /\ Len(cut'[e]) \in Nat /\ Len(cut[e]) <= Len(cut'[e])
  <2>1. \A e \in Datagram : Len(cut[e]) \in Nat
    BY DEF LowpanInv, CutOK
  <2> QED BY <1>6, <1>7, <2>1
<1>14. \A p \in InHand(frag_info, frag_buf) : p.d = d => p.k # 1
  <2>1. PICK info, buf : info = frag_info /\ buf = frag_buf /\ RecvOK(info, buf)
    BY DEF LowpanInv
  <2>2. \A p \in InHand(info, buf) : frag_needed(Size[p.d])
    BY <2>1, HandGenuine, GenuineFacts
  <2> QED BY <1>1, <2>1, <2>2
<1>15. QueueOK' /\ PassedOK'
  <2>1. 1 \in 1..Len(cut'[d])
    BY <1>6
  <2> QED BY <1>1, <1>4, <1>13, <1>14, <2>1, QueueGrows DEF invars
<1>16. ForeignOK'
  BY <1>1 DEF LowpanInv, ForeignOK
<1>17. RecvOK(frag_info, frag_buf)'
  <2>1. \A e \in Datagram : cut[e] # <<>> => cut'[e][1] = cut[e][1]
    BY <1>6, <1>7
  <2>2. \A p : Genuine(p) => Genuine(p)'
    BY <1>13, <2>1, GenuineKept
  <2>3. RecvOK(frag_info', frag_buf')
    BY <1>1 DEF LowpanInv, invars
  <2> QED BY <2>2, <2>3, RecvNext
<1> QED BY <1>3, <1>8, <1>11, <1>12, <1>15, <1>16, <1>17 DEF LowpanInv

(* A fragment is sent: the first one may be refused, no other is; after the *)
(* last one the packet is cut.                                              *)
Sends(d, tag, k) ==
  /\ out = [d |-> d, done |-> Offset(k), tag |-> tag] /\ Cutting(d, tag)
  /\ k = Len(cut[d]) + 1 /\ k \in 1..Count(d)
  /\ csma_output_packet(<<d, k>>, Dest[d], 0, 1)
  /\ \/ Refused(<<d, k>>) /\ k = 1 /\ out' = Idle /\ cut' = cut
     \/ /\ Taken(<<d, k>>, Dest[d])
        /\ cut' = [cut EXCEPT ![d] = Append(cut[d], Fragment(d, k, tag, Offset(k), Bytes(d, k)))]
        /\ out' = IF k < Count(d) THEN [d |-> d, done |-> Offset(k + 1), tag |-> tag] ELSE Idle

LEMMA FragmentStep ==
  ASSUME LowpanInv, fragment_copy_payload_and_send
  PROVE  \E d \in Datagram : \E tag \in Nat : \E k \in Nat : Sends(d, tag, k)
<1>1. PICK d \in Datagram : \E tag \in Nat :
        out = [d |-> d, done |-> Offset(Len(cut[d]) + 1), tag |-> tag] /\ Cutting(d, tag)
  BY DEF fragment_copy_payload_and_send, LowpanInv, OutOK
<1>2. PICK tag \in Nat : out = [d |-> d, done |-> Offset(Len(cut[d]) + 1), tag |-> tag] /\ Cutting(d, tag)
  BY <1>1
<1>3. Len(cut[d]) \in Nat /\ frag_needed(Size[d]) /\ frag1_payload >= 0
  BY <1>2 DEF LowpanInv, CutOK, Cutting
<1>4. Count(d) \in Nat /\ Len(cut[d]) < Count(d)
  BY <1>2, <1>3, Pieces DEF Cutting
<1>5. PICK k \in Nat : k = Len(cut[d]) + 1 /\ k \in 1..Count(d)
  BY <1>3, <1>4
<1>6. out.d = d /\ out.done = Offset(k) /\ out.tag = tag
  BY <1>2, <1>5
<1>7. Payload(Size[out.d], out.done) = Bytes(d, k)
  BY <1>6 DEF Bytes
<1>8. bufmem \in Nat /\ QUEUEBUF_NUM \in Nat /\ bufmem + 1 < QUEUEBUF_NUM
  <2>1. bufmem \in Nat /\ QUEUEBUF_NUM \in Nat
    BY FS_CardinalityType, CsmaAssumption DEF LowpanInv, Books
  <2>2. bufmem + 1 + Count(d) - Len(cut[d]) <= QUEUEBUF_NUM
    BY <1>2 DEF Cutting
  <2> QED BY <1>3, <1>4, <2>1, <2>2
<1>9. csma_output_packet(<<d, k>>, Dest[d], 0, 1)
  BY <1>5, <1>6, <1>8 DEF fragment_copy_payload_and_send
<1>10. IF open'[<<d, k>>] = 0
         THEN out' = Idle /\ cut' = cut
         ELSE /\ cut' = [cut EXCEPT ![d] = Append(cut[d], Fragment(d, k, tag, Offset(k), Bytes(d, k)))]
              /\ out' = IF Offset(k) + Bytes(d, k) < Size[d]
                          THEN [out EXCEPT !.done = Offset(k) + Bytes(d, k)] ELSE Idle
  BY <1>5, <1>6, <1>7, <1>8 DEF fragment_copy_payload_and_send
<1>11. PICK a \in Addr : a = Dest[d] /\ <<d, k>> \in Packet
  BY <1>3, <1>5, PacketOf
<1>12. Taken(<<d, k>>, a) \/ Refused(<<d, k>>)
  BY <1>9, <1>11, OutputEffect DEF LowpanInv
<1>13. CASE open'[<<d, k>>] = 0
  <2>1. Refused(<<d, k>>)
    BY <1>12, <1>13 DEF Taken
  <2>2. k = 1
    <3> SUFFICES ASSUME k # 1 PROVE FALSE
      OBVIOUS
    <3>1. Len(<<>>) = 0
      OBVIOUS
    <3>2. cut[d] # <<>>
      BY <1>5, <3>1
    <3>3. Known(a) # {}
      BY <1>2, <1>11, <3>2 DEF Cutting
    <3>4. open'[<<d, k>>] = 1
      BY <1>8, <1>9, <1>11, <3>3, NotRefused DEF LowpanInv
    <3> QED BY <1>13, <3>4
  <2> QED BY <1>2, <1>5, <1>9, <1>10, <1>13, <2>1, <2>2 DEF Sends
<1>14. CASE open'[<<d, k>>] # 0
  <2>1. Taken(<<d, k>>, Dest[d])
    BY <1>11, <1>12, <1>14 DEF Refused
  <2>2. Size[d] \in Nat
    BY SizeType
  <2>3. CASE k < Count(d)
    <3>1. Offset(k) + Bytes(d, k) = Offset(k + 1)
      BY <1>3, <1>5, <2>3, Pieces
    <3>2. PICK len \in Nat : len = Size[d]
      BY <2>2
    <3>3. k + 1 \in 2..fragment_count(len) /\ k + 1 \in Nat \ {0}
      BY <1>4, <1>5, <2>3, <3>2 DEF Count
    <3>4. len - Offset(k + 1) \in Nat \ {0}
      BY <1>3, <3>2, <3>3, Left
    <3>5. Offset(k + 1) \in Nat
      BY <1>3, <3>3, OffsetType
    <3>6. Offset(k) + Bytes(d, k) < Size[d]
      BY <3>1, <3>2, <3>4, <3>5
    <3>7. out' = [d |-> d, done |-> Offset(k + 1), tag |-> tag]
      BY <1>2, <1>10, <1>14, <3>1, <3>6
    <3> QED BY <1>2, <1>5, <1>9, <1>10, <1>14, <2>1, <2>3, <3>7 DEF Sends
  <2>4. CASE ~(k < Count(d))
    <3>1. k = Count(d)
      BY <1>4, <1>5, <2>4
    <3>2. Offset(k) + Bytes(d, k) = Size[d]
      BY <1>3, <1>5, <3>1, Pieces
    <3>3. ~(Offset(k) + Bytes(d, k) < Size[d])
      BY <2>2, <3>2
    <3>4. out' = Idle
      BY <1>10, <1>14, <3>3
    <3> QED BY <1>2, <1>5, <1>9, <1>10, <1>14, <2>1, <2>4, <3>4 DEF Sends
  <2> QED BY <2>3, <2>4
<1> QED BY <1>13, <1>14

LEMMA FragmentOK ==
  ASSUME LowpanInv, fragment_copy_payload_and_send
  PROVE  LowpanInv'
<1>1. PICK d \in Datagram, tag \in Nat, k \in Nat : Sends(d, tag, k)
  BY FragmentStep
<1>2. UNCHANGED <<my_tag, epoch, invars, heard, foreign, restarts>>
  BY DEF fragment_copy_payload_and_send
<1>3. /\ Cutting(d, tag) /\ k = Len(cut[d]) + 1 /\ k \in 1..Count(d)
      /\ frag_needed(Size[d]) /\ frag1_payload >= 0
  BY <1>1 DEF Sends, Cutting
<1>4. Count(d) \in Nat /\ Len(cut[d]) \in Nat /\ DOMAIN cut = Datagram /\ DOMAIN epoch = Datagram
  BY <1>3, Pieces DEF LowpanInv, CutOK, TagsOK
<1>5. PICK a \in Addr : a = Dest[d] /\ <<d, k>> \in Packet
  BY <1>3, PacketOf
<1>6. csma_output_packet(<<d, k>>, a, 0, 1)
  BY <1>1, <1>5 DEF Sends
<1>7. IInv' /\ Books'
  BY <1>5, <1>6, CsmaOutputKept DEF LowpanInv
<1>8. Taken(<<d, k>>, a) \/ Refused(<<d, k>>)
  BY <1>1, <1>5 DEF Sends
<1>9. \A p \in InHand(frag_info, frag_buf) : p.d = d => p.k # k
  <2>1. PICK info, buf : info = frag_info /\ buf = frag_buf /\ RecvOK(info, buf)
    BY DEF LowpanInv
  <2>2. ASSUME NEW p \in InHand(info, buf), p.d = d PROVE p.k # k
    <3>1. Genuine(p) /\ d # Foreign
      BY <2>1, HandGenuine, SicslowpanAssumption
    <3>2. p.k <= Len(cut[d]) /\ p.k \in Nat
      BY <2>2, <3>1 DEF Genuine, Fragments
    <3> QED BY <1>3, <1>4, <3>2
  <2> QED BY <2>1, <2>2
<1>10. ForeignOK'
  BY <1>2 DEF LowpanInv, ForeignOK
<1>11. RecvOK(frag_info', frag_buf')
  BY <1>2 DEF LowpanInv, invars
<1>12. my_tag \in Nat /\ my_tag < TagWrap /\ TagWrap \in Nat
  <2>1. PICK S : S = {e \in Datagram : epoch[e] = restarts}
    OBVIOUS
  <2>2. my_tag <= Cardinality(S) /\ my_tag \in Nat
    BY <2>1 DEF LowpanInv, TagsOK
  <2>3. S \in SUBSET Datagram
    BY <2>1
  <2>4. Cardinality(S) \in Nat /\ Cardinality(S) < TagWrap /\ TagWrap \in Nat
    BY <2>3, TagsUsed
  <2> QED BY <2>2, <2>4
<1>13. CASE Refused(<<d, k>>) /\ out' = Idle /\ cut' = cut
  <2>1. CutOK' /\ TagsOK' /\ OutOK'
    BY <1>2, <1>13 DEF LowpanInv, CutOK, TagsOK, OutOK, IsCut, Tag
  <2>2. UNCHANGED <<packet_queue, neighbor_list, cut, heard, foreign, frag_info, frag_buf>>
    BY <1>2, <1>13 DEF Refused, invars
  <2>3. QueueOK' /\ ForeignOK' /\ RecvOK(frag_info, frag_buf)' /\ PassedOK'
    BY <2>2, Untouched
  <2> QED BY <1>7, <2>1, <2>3 DEF LowpanInv
<1>14. CASE /\ Taken(<<d, k>>, a)
            /\ cut' = [cut EXCEPT ![d] = Append(cut[d], Fragment(d, k, tag, Offset(k), Bytes(d, k)))]
            /\ out' = IF k < Count(d) THEN [d |-> d, done |-> Offset(k + 1), tag |-> tag] ELSE Idle
  <2>1. PICK f : f = Fragment(d, k, tag, Offset(k), Bytes(d, k))
    OBVIOUS
  <2>2. f.tag = tag
    BY <2>1 DEF Fragment
  <2>3. cut'[d] = Append(cut[d], f) /\ DOMAIN cut' = Datagram
        /\ \A e \in Datagram : e # d => cut'[e] = cut[e]
    BY <1>4, <1>14, <2>1
  <2>4. PICK q, len : q = cut[d] /\ len = Len(q) /\ len \in Nat /\ DOMAIN q = 1..len /\ k = len + 1
    BY <1>3 DEF LowpanInv, CutOK
  <2>5. PICK r : r = Append(q, f)
    OBVIOUS
  <2>6. /\ r = [i \in 1..(len + 1) |-> IF i = len + 1 THEN f ELSE q[i]]
        /\ Len(r) = k /\ DOMAIN r = 1..k /\ r[k] = f /\ \A i \in 1..len : r[i] = q[i]
    <3>1. r = [i \in 1..(len + 1) |-> IF i = len + 1 THEN f ELSE q[i]] /\ Len(r) = len + 1
      BY <2>4, <2>5
    <3> QED BY <2>4, <3>1
  <2>7. cut'[d] = r
    BY <2>3, <2>4, <2>5
  <2>8. r[1].tag = tag /\ r # <<>>
    <3>1. CASE len = 0
      BY <2>2, <2>4, <2>6, <3>1
    <3>2. CASE len # 0
      <4>1. Len(<<>>) = 0
        OBVIOUS
      <4>2. q # <<>> /\ 1 \in 1..len
        BY <2>4, <3>2, <4>1
      <4>3. q[1].tag = tag
        BY <1>3, <2>4, <4>2 DEF Cutting, Tag
      <4> QED BY <2>4, <2>6, <4>1, <4>2, <4>3
    <3> QED BY <3>1, <3>2
  <2>9. CutOK'
    <3>1. ASSUME NEW e \in Datagram
          PROVE  /\ Len(cut'[e]) \in Nat /\ DOMAIN cut'[e] = 1..Len(cut'[e])
                 /\ epoch'[e] = NotSent => cut'[e] = <<>>
                 /\ ~frag_needed(Size[e]) =>
                      cut'[e] = <<>> \/ cut'[e] = <<Fragment(e, 1, 0, 0, Size[e])>>
                 /\ frag_needed(Size[e]) =>
                      /\ cut'[e] # <<>> => frag1_payload >= 0
                      /\ Len(cut'[e]) <= Count(e)
                      /\ \A i \in 1..Len(cut'[e]) :
                           cut'[e][i] = Fragment(e, i, cut'[e][1].tag, Offset(i), Bytes(e, i))
      <4>1. CASE e = d
        <5>1. epoch'[d] # NotSent
          BY <1>2, <1>3, SicslowpanAssumption DEF Cutting, LowpanInv, TagsOK, NotSent
        <5>2. ASSUME NEW i \in 1..k
              PROVE  r[i] = Fragment(d, i, tag, Offset(i), Bytes(d, i))
          <6>1. CASE i = k
            BY <2>1, <2>6, <6>1
          <6>2. CASE i # k
            <7>1. i \in 1..len
              BY <2>4, <6>2
            <7>2. cut[d][i] = Fragment(d, i, Tag(d), Offset(i), Bytes(d, i))
              BY <1>3, <2>4, <7>1 DEF LowpanInv, CutOK
            <7>3. Tag(d) = tag
              <8>1. cut[d] # <<>>
                BY <2>4, <7>1
              <8> QED BY <1>3, <8>1 DEF Cutting
            <7> QED BY <2>4, <2>6, <7>1, <7>2, <7>3
          <6> QED BY <6>1, <6>2
        <5> QED BY <1>3, <1>4, <2>4, <2>6, <2>7, <2>8, <4>1, <5>1, <5>2
      <4>2. CASE e # d
        <5>1. cut'[e] = cut[e] /\ epoch'[e] = epoch[e]
          BY <1>2, <2>3, <4>2
        <5> QED BY <5>1 DEF LowpanInv, CutOK, Tag
      <4> QED BY <4>1, <4>2
    <3> QED BY <2>3, <3>1 DEF CutOK, Tag
  <2>10. /\ IsCut(d)' /\ Tag(d)' = tag
         /\ \A e \in Datagram : e # d => IsCut(e)' = IsCut(e) /\ Tag(e)' = Tag(e)
    BY <1>3, <2>3, <2>7, <2>8 DEF IsCut, Tag
  <2>11. epoch[d] = restarts /\ tag < my_tag
         /\ \A e \in Datagram : IsCut(e) /\ epoch[e] = restarts /\ Tag(e) = tag => e = d
    BY <1>3 DEF Cutting
  <2>12. TagsOK'
    <3>1. ASSUME NEW e \in Datagram, IsCut(e)'
          PROVE  /\ Tag(e)' \in 0..(TagWrap - 1)
                 /\ epoch'[e] = restarts' => Tag(e)' < my_tag'
                 /\ \A g \in Datagram : IsCut(g)' /\ epoch'[g] = epoch'[e] /\ Tag(g)' = Tag(e)' => g = e
      <4>1. CASE e = d
        BY <1>2, <1>12, <2>10, <2>11, <4>1
      <4>2. CASE e # d
        <5>1. IsCut(e) /\ Tag(e)' = Tag(e)
          BY <2>10, <3>1, <4>2
        <5>2. Tag(e) \in 0..(TagWrap - 1) /\ (epoch[e] = restarts => Tag(e) < my_tag)
          BY <5>1 DEF LowpanInv, TagsOK
        <5>3. ASSUME NEW g \in Datagram, IsCut(g)', epoch[g] = epoch[e], Tag(g)' = Tag(e)'
              PROVE  g = e
          <6>1. CASE g = d
            BY <2>10, <2>11, <4>2, <5>1, <5>3, <6>1
          <6>2. CASE g # d
            BY <2>10, <5>1, <5>3, <6>2 DEF LowpanInv, TagsOK
          <6> QED BY <6>1, <6>2
        <5> QED BY <1>2, <5>1, <5>2, <5>3
      <4> QED BY <4>1, <4>2
    <3> QED BY <1>2, <3>1 DEF LowpanInv, TagsOK
  <2>13. OutOK'
    <3> SUFFICES ASSUME k < Count(d)
                 PROVE  /\ out' = [d |-> d, done |-> Offset(Len(cut'[d]) + 1), tag |-> tag]
                        /\ Cutting(d, tag)'
      BY <1>14 DEF OutOK, Idle
    <3>1. out' = [d |-> d, done |-> Offset(Len(cut'[d]) + 1), tag |-> tag] /\ Len(cut'[d]) = k
      BY <1>14, <2>6, <2>7
    <3>2. bufmem' + 1 + Count(d) - k <= QUEUEBUF_NUM
      <4>1. bufmem' = bufmem + 1
        BY <1>14 DEF Taken
      <4>2. bufmem + 1 + Count(d) - Len(cut[d]) <= QUEUEBUF_NUM
        BY <1>3 DEF Cutting
      <4>3. bufmem \in Nat /\ QUEUEBUF_NUM \in Nat
        BY FS_CardinalityType, CsmaAssumption DEF LowpanInv, Books
      <4> QED BY <1>3, <1>4, <4>1, <4>2, <4>3
    <3>3. Known(Dest[d])' # {}
      <4>1. PICK n \in Neighbor : n \in neighbor_list' /\ addr'[n] = a
        BY <1>14 DEF Taken
      <4> QED BY <1>5, <4>1 DEF Known
    <3>4. \A e \in Datagram : IsCut(e)' /\ epoch'[e] = restarts' /\ Tag(e)' = tag => e = d
      BY <1>2, <2>10, <2>11
    <3> QED BY <1>2, <1>3, <2>10, <2>11, <3>1, <3>2, <3>3, <3>4 DEF Cutting
  <2>14. \A e \in Datagram : Len(cut[e]) \in Nat /\ Len(cut'[e]) \in Nat /\ Len(cut[e]) <= Len(cut'[e])
    <3>1. \A e \in Datagram : Len(cut[e]) \in Nat
      BY DEF LowpanInv, CutOK
    <3>2. Len(cut'[d]) = k /\ Len(cut[d]) <= k
      BY <1>4, <2>4, <2>6, <2>7
    <3> QED BY <2>3, <3>1, <3>2
  <2>15. QueueOK' /\ PassedOK'
    <3>1. k \in 1..Len(cut'[d])
      <4>1. k \in 1..k
        BY <1>3, <1>4
      <4>2. Len(cut'[d]) = k
        BY <2>6, <2>7
      <4> QED BY <4>1, <4>2
    <3> QED BY <1>2, <1>8, <1>9, <2>14, <3>1, QueueGrows DEF invars
  <2>16. RecvOK(frag_info, frag_buf)'
    <3>1. \A e \in Datagram : cut[e] # <<>> => cut'[e][1] = cut[e][1]
      <4>1. cut[d] # <<>> => r[1] = q[1]
        BY <2>4, <2>6
      <4> QED BY <2>3, <2>4, <2>7, <4>1
    <3>2. \A p : Genuine(p) => Genuine(p)'
      BY <2>14, <3>1, GenuineKept
    <3> QED BY <1>11, <3>2, RecvNext
  <2> QED BY <1>7, <1>10, <2>9, <2>12, <2>13, <2>15, <2>16 DEF LowpanInv
<1> QED BY <1>1, <1>5, <1>13, <1>14 DEF Sends

(* A step of the receiver, or none, and what it may deliver.                *)
LEMMA Received ==
  ASSUME TagsOK, RecvOK(frag_info, frag_buf), NEW f, f.d \in Datagram \cup {Foreign},
         \/ Genuine(f) /\ Fresh(frag_info, frag_buf, f)
         \/ ~frag_needed(Size[f.d]) /\ f.off = 0 /\ f.len = Size[f.d],
         input(f) \/ Lost
  PROVE  /\ RecvOK(frag_info', frag_buf')
         /\ \A p \in InHand(frag_info', frag_buf') :
              p \in InHand(frag_info, frag_buf) \/ (p = f /\ Genuine(f) /\ ~Lost)
         /\ ip_input' # NoDelivery => Sound(ip_input')
<1>1. CASE Lost
  BY <1>1 DEF Lost, invars
<1>2. CASE ~Lost /\ input(f) /\ Genuine(f) /\ Fresh(frag_info, frag_buf, f)
  <2>1. /\ RecvOK(frag_info', frag_buf')
        /\ InHand(frag_info', frag_buf') \subseteq InHand(frag_info, frag_buf) \cup {f}
        /\ ip_input' # NoDelivery => Sound(ip_input')
    BY <1>2, InputFragment
  <2> QED BY <1>2, <2>1
<1>3. CASE input(f) /\ ~frag_needed(Size[f.d]) /\ f.off = 0 /\ f.len = Size[f.d]
  <2>1. Size[f.d] \in Nat
    BY SizeType
  <2>2. UNCHANGED invars /\ Sound(ip_input')
    BY <1>3, <2>1, InputWhole
  <2> QED BY <2>2 DEF invars
<1> QED BY <1>1, <1>2, <1>3

(* The frame that is on the air is a fragment that was cut, and new to the  *)
(* receiver unless it is marked as a repetition.                            *)
AiredFrame(pk, x) == [cut[pk[1]][pk[2]] EXCEPT !.again = x]

LEMMA OnAir ==
  ASSUME LowpanInv, NEW n \in Neighbor, 1 \in DOMAIN packet_queue[n], NEW pk, pk = packet_queue[n][1].pk,
         NEW x \in BOOLEAN, x <=> n \in heard,
         NEW f, f = AiredFrame(pk, x)
  PROVE  /\ f.d \in Datagram /\ pk = <<f.d, f.k>>
         /\ \/ Genuine(f) /\ Fresh(frag_info, frag_buf, f)
            \/ ~frag_needed(Size[f.d]) /\ f.off = 0 /\ f.len = Size[f.d]
<1>1. PICK d \in Datagram : \E k \in 1..Len(cut[d]) : pk = <<d, k>>
  BY DEF LowpanInv, QueueOK
<1>2. PICK k \in 1..Len(cut[d]) : pk = <<d, k>>
  BY <1>1
<1>3. PICK g : g = cut[d][k]
  OBVIOUS
<1>5. f = [g EXCEPT !.again = x]
  BY <1>2, <1>3 DEF AiredFrame
<1>6. Len(cut[d]) \in Nat /\ d # Foreign /\ k \in Nat \ {0} /\ k <= Len(cut[d]) /\ cut[d] # <<>>
  <2>1. Len(cut[d]) \in Nat /\ d # Foreign
    BY SicslowpanAssumption DEF LowpanInv, CutOK
  <2>2. Len(<<>>) = 0
    OBVIOUS
  <2>3. k \in Nat \ {0} /\ k <= Len(cut[d])
    BY <1>2, <2>1
  <2> QED BY <2>1, <2>2, <2>3
<1>7. CASE frag_needed(Size[d])
  <2>1. PICK tag : tag = Tag(d)
    OBVIOUS
  <2>2. g = Fragment(d, k, tag, Offset(k), Bytes(d, k)) /\ Len(cut[d]) <= Count(d) /\ frag1_payload >= 0
    BY <1>2, <1>3, <1>6, <1>7, <2>1 DEF LowpanInv, CutOK
  <2>3. f = [src |-> "node", d |-> d, k |-> k, tag |-> tag, off |-> Offset(k), len |-> Bytes(d, k), again |-> x]
    <3>1. g = [src |-> "node", d |-> d, k |-> k, tag |-> tag, off |-> Offset(k), len |-> Bytes(d, k),
               again |-> FALSE]
      BY <1>6, <2>2 DEF Fragment
    <3> QED BY <1>5, <3>1
  <2>4. /\ f.src = "node" /\ f.d = d /\ f.k = k /\ f.tag = tag /\ f.off = Offset(k)
        /\ f.len = Bytes(d, k) /\ f.again = x
    BY <2>3
  <2>5. k \in Nat \ {0} /\ k \in 1..Count(d) /\ k <= Len(cut[d])
    <3>1. Count(d) \in Nat /\ Len(cut[d]) <= Count(d)
      BY <1>7, <2>2, Pieces
    <3> QED BY <1>6, <3>1
  <2>6. Offset(k) \in Nat /\ Bytes(d, k) \in Nat \ {0}
    BY <1>7, <2>2, <2>5, Pieces
  <2>7. tag \in 0..(TagWrap - 1)
    <3>2. IsCut(d)
      BY <1>6, <1>7 DEF IsCut
    <3> QED BY <2>1, <3>2 DEF LowpanInv, TagsOK
  <2>8. f \in Fragments
    BY <2>3, <2>5, <2>6, <2>7 DEF Fragments
  <2>9. Genuine(f)
    BY <1>7, <2>1, <2>2, <2>4, <2>5, <2>8 DEF Genuine
  <2>10. Fresh(frag_info, frag_buf, f)
    <3> SUFFICES ASSUME n \notin heard, NEW p \in InHand(frag_info, frag_buf), p.d = d, p.k = k
                 PROVE  FALSE
      BY <2>4 DEF Fresh
    <3>1. Passed(p)
      BY DEF LowpanInv, PassedOK
    <3>2. packet_queue[n][1].pk = <<p.d, p.k>>
      BY <1>2
    <3> QED BY <1>6, <3>1, <3>2 DEF Passed
  <2> QED BY <1>2, <2>4, <2>9, <2>10
<1>8. CASE ~frag_needed(Size[d])
  <2>1. cut[d] = <<Fragment(d, 1, 0, 0, Size[d])>>
    BY <1>2, <1>6, <1>8 DEF LowpanInv, CutOK
  <2>2. k = 1
    BY <1>2, <2>1
  <2>3. g = Fragment(d, 1, 0, 0, Size[d])
    BY <1>3, <2>1, <2>2
  <2>4. f = [src |-> "node", d |-> d, k |-> 1, tag |-> 0, off |-> 0, len |-> Size[d], again |-> x]
    <3>1. g = [src |-> "node", d |-> d, k |-> 1, tag |-> 0, off |-> 0, len |-> Size[d], again |-> FALSE]
      BY <1>6, <2>3 DEF Fragment
    <3> QED BY <1>5, <3>1
  <2> QED BY <1>2, <1>8, <2>2, <2>4
<1> QED BY <1>7, <1>8

LEMMA AirFrame ==
  ASSUME NEW n, NEW ret, NEW up \in BOOLEAN, Air(n, ret, up), NEW pk, pk = Head(packet_queue[n]).pk
  PROVE  \E x \in BOOLEAN : (x <=> n \in heard) /\ (up => input(AiredFrame(pk, x))) /\ (~up => Lost)
<1>1. up => input([cut[pk[1]][pk[2]] EXCEPT !.again = n \in heard])
  BY DEF Air
<1>2. ~up => Lost
  BY DEF Air
<1>3. CASE n \in heard
  <2>1. (n \in heard) = TRUE
    BY <1>3
  <2>2. up => input(AiredFrame(pk, TRUE))
    BY <1>1, <2>1 DEF AiredFrame
  <2> QED BY <1>2, <1>3, <2>2
<1>4. CASE n \notin heard
  <2>1. (n \in heard) = FALSE
    BY <1>4
  <2>2. up => input(AiredFrame(pk, FALSE))
    BY <1>1, <2>1 DEF AiredFrame
  <2> QED BY <1>2, <1>4, <2>2
<1> QED BY <1>3, <1>4

LEMMA AirOK ==
  ASSUME LowpanInv, NEW n \in Neighbor, NEW ret, NEW up \in BOOLEAN, Air(n, ret, up)
  PROVE  LowpanInv' /\ (ip_input' # NoDelivery => Sound(ip_input'))
<1>1. out = Idle /\ transmit_from_queue(n, ret) /\ UNCHANGED <<outvars, foreign, restarts>>
  BY DEF Air
<1>2. PICK pk : pk = Head(packet_queue[n]).pk
  OBVIOUS
<1>3. heard' = IF open'[pk] = 0 THEN heard \ {n} ELSE IF up THEN heard \cup {n} ELSE heard
  BY <1>2 DEF Air
<1>4. /\ n \in neighbor_list /\ 1 \in DOMAIN packet_queue[n] /\ pk = packet_queue[n][1].pk
      /\ Finished(n) \/ Repeated(n)
  BY <1>1, <1>2, TransmitEffect DEF LowpanInv
<1>5. PICK x \in BOOLEAN : (x <=> n \in heard) /\ (up => input(AiredFrame(pk, x))) /\ (~up => Lost)
  BY <1>2, AirFrame
<1>6. PICK f : f = AiredFrame(pk, x)
  OBVIOUS
<1>7. /\ f.d \in Datagram /\ pk = <<f.d, f.k>>
      /\ \/ Genuine(f) /\ Fresh(frag_info, frag_buf, f)
         \/ ~frag_needed(Size[f.d]) /\ f.off = 0 /\ f.len = Size[f.d]
  BY <1>4, <1>5, <1>6, OnAir
<1>8. /\ RecvOK(frag_info', frag_buf')
      /\ \A p \in InHand(frag_info', frag_buf') :
           p \in InHand(frag_info, frag_buf) \/ (p = f /\ up)
      /\ ip_input' # NoDelivery => Sound(ip_input')
  <2>1. input(f) \/ Lost
    BY <1>5, <1>6
  <2>2. f.d \in Datagram \cup {Foreign}
    BY <1>7
  <2>3. /\ RecvOK(frag_info', frag_buf')
        /\ \A p \in InHand(frag_info', frag_buf') :
             p \in InHand(frag_info, frag_buf) \/ (p = f /\ Genuine(f) /\ ~Lost)
        /\ ip_input' # NoDelivery => Sound(ip_input')
    BY <1>7, <2>1, <2>2, Received DEF LowpanInv
  <2> QED BY <1>5, <2>3
<1>9. IInv' /\ Books'
  <2>1. ret \in Result(addr[n])
    BY <1>1 DEF transmit_from_queue
  <2>2. Next
    BY <1>1, <2>1 DEF Next, Transmit
  <2> QED BY <2>2, CsmaKept DEF LowpanInv
<1>10. CutOK' /\ TagsOK' /\ OutOK' /\ ForeignOK'
  BY <1>1 DEF outvars, LowpanInv, CutOK, TagsOK, OutOK, ForeignOK, IsCut, Tag, Idle
<1>11. RecvOK(frag_info, frag_buf)'
  <2>1. \A p : Genuine(p) => Genuine(p)'
    BY <1>1 DEF outvars, Genuine, Fragments, Tag
  <2> QED BY <1>8, <2>1, RecvNext
<1>12. ASSUME NEW m \in Neighbor, NEW i \in DOMAIN packet_queue[m], packet_queue[m][i].pk = pk
       PROVE  m = n /\ i = 1
  <2>1. <<m, i>> \in Slots /\ <<n, 1>> \in Slots
    BY <1>4, SlotsDef
  <2>2. PacketAt(<<m, i>>) = PacketAt(<<n, 1>>)
    BY <1>4, <1>12 DEF PacketAt
  <2>3. <<m, i>> = <<n, 1>>
    BY <2>1, <2>2 DEF LowpanInv, Books
  <2> QED BY <2>3
<1>13. QueueOK'
  <2>1. heard' \subseteq neighbor_list'
    BY <1>3, <1>4 DEF Finished, Repeated, LowpanInv, QueueOK
  <2>2. ASSUME NEW m \in Neighbor, NEW i \in DOMAIN packet_queue'[m]
        PROVE  \E e \in Datagram : \E j \in 1..Len(cut'[e]) : packet_queue'[m][i].pk = <<e, j>>
    <3>1. \E j \in DOMAIN packet_queue[m] : packet_queue'[m][i] = packet_queue[m][j]
      BY <1>4 DEF Finished, Repeated
    <3> QED BY <1>1, <3>1 DEF LowpanInv, QueueOK, outvars
  <2> QED BY <2>1, <2>2 DEF QueueOK
<1>14. PassedOK'
  <2>1. PICK X : X = InHand(frag_info', frag_buf')
    OBVIOUS
  <2>2. ASSUME NEW p \in X PROVE Passed(p)'
    <3>1. \/ Passed(p)
          \/ p = f /\ up
      BY <1>8, <2>1 DEF LowpanInv, PassedOK
    <3>2. f.d # Foreign
      BY <1>7, SicslowpanAssumption
    <3>3. p.d = Foreign => p.k <= Count(Foreign) - Len(foreign')
      BY <1>1, <3>1, <3>2 DEF Passed
    <3>4. ASSUME p.d # Foreign, NEW m \in Neighbor, NEW i \in DOMAIN packet_queue'[m],
                 packet_queue'[m][i].pk = <<p.d, p.k>>
          PROVE  i = 1 /\ m \in heard'
      <4>1. CASE Finished(n)
        <5>1. open'[pk] = 0
          BY <1>4, <4>1 DEF Finished
        <5>2. heard' = heard \ {n}
          BY <1>3, <5>1
        <5>3. m # n
          <6> SUFFICES ASSUME m = n PROVE FALSE
            OBVIOUS
          <6>1. i \in Nat \ {0} /\ i + 1 \in DOMAIN packet_queue[n] /\ packet_queue[n][i + 1].pk = <<p.d, p.k>>
            BY <3>4, <4>1 DEF Finished
          <6>2. i + 1 # 1
            BY <6>1
          <6>3. CASE Passed(p)
            BY <3>4, <6>1, <6>2, <6>3 DEF Passed
          <6>4. CASE p = f
            BY <1>4, <1>7, <1>12, <6>1, <6>2, <6>4
          <6> QED BY <3>1, <6>3, <6>4
        <5>4. i \in DOMAIN packet_queue[m] /\ packet_queue[m][i].pk = <<p.d, p.k>>
          BY <3>4, <4>1, <5>3 DEF Finished
        <5>5. CASE Passed(p)
          BY <3>4, <5>2, <5>3, <5>4, <5>5 DEF Passed
        <5>6. CASE p = f
          BY <1>4, <1>7, <1>12, <5>3, <5>4, <5>6
        <5> QED BY <3>1, <5>5, <5>6
      <4>2. CASE Repeated(n)
        <5>1. open'[pk] = 1
          BY <1>4, <4>2 DEF Repeated
        <5>2. heard' = IF up THEN heard \cup {n} ELSE heard
          BY <1>3, <5>1
        <5>3. i \in DOMAIN packet_queue[m] /\ packet_queue[m][i].pk = <<p.d, p.k>>
          BY <3>4, <4>2 DEF Repeated
        <5>4. CASE Passed(p)
          BY <3>4, <5>2, <5>3, <5>4 DEF Passed
        <5>5. CASE p = f /\ up
          BY <1>4, <1>7, <1>12, <5>2, <5>3, <5>5
        <5> QED BY <3>1, <5>4, <5>5
      <4> QED BY <1>4, <4>1, <4>2
    <3> QED BY <3>3, <3>4 DEF Passed
  <2>3. InHand(frag_info', frag_buf') \subseteq X
    BY <2>1
  <2> QED BY <2>2, <2>3, PassedNext
<1> QED BY <1>8, <1>9, <1>10, <1>11, <1>13, <1>14 DEF LowpanInv

LEMMA ForeignFragmentOK ==
  ASSUME LowpanInv, ForeignFragment
  PROVE  LowpanInv' /\ (ip_input' # NoDelivery => Sound(ip_input'))
<1>1. /\ foreign # <<>> /\ foreign' = Tail(foreign) 
      /\ input(Head(foreign)) \/ Lost
      /\ UNCHANGED <<vars, outvars, heard, restarts>>
  BY DEF ForeignFragment
<1>2. PICK q, len : q = foreign /\ q \in Seq(Fragments) /\ len = Len(q) /\ len \in Nat /\ DOMAIN q = 1..len
  BY DEF LowpanInv, ForeignOK
<1>3. PICK N : N = Count(Foreign)
  OBVIOUS
<1>4. /\ frag1_payload >= 0 /\ frag_needed(Size[Foreign]) /\ N \in Nat /\ len <= N
      /\ \A i \in 1..len : q[i] = Fragment(Foreign, N - len + i, 0, Offset(N - len + i), Bytes(Foreign, N - len + i))
  <2>1. frag1_payload >= 0 /\ frag_needed(Size[Foreign])
    BY <1>1, SicslowpanAssumption DEF LowpanInv, ForeignOK
  <2>2. N \in Nat
    <3>1. PICK d \in Datagram \cup {Foreign} : d = Foreign
      OBVIOUS
    <3> QED BY <1>3, <2>1, <3>1, Pieces
  <2> QED BY <1>2, <1>3, <2>1, <2>2 DEF LowpanInv, ForeignOK
<1>5. /\ len # 0 /\ Head(q) = q[1] /\ Tail(q) \in Seq(Fragments)
      /\ Len(Tail(q)) = len - 1 /\ DOMAIN Tail(q) = 1..(len - 1)
      /\ \A i \in 1..(len - 1) : Tail(q)[i] = q[i + 1]
  <2>1. q # <<>> /\ q \in Seq(Fragments)
    BY <1>1, <1>2
  <2>2. len # 0
    BY <1>2, <2>1
  <2>3. Head(q) = q[1] /\ Tail(q) \in Seq(Fragments) /\ Len(Tail(q)) = len - 1
    BY <1>2, <2>1, <2>2
  <2>4. \A i \in 1..(len - 1) : Tail(q)[i] = q[i + 1]
    BY <1>2, <2>1, <2>2
  <2> QED BY <1>2, <2>2, <2>3, <2>4
<1>6. PICK k : k = N - len + 1 /\ k \in 1..N /\ k \in Nat \ {0}
  BY <1>2, <1>4, <1>5
<1>7. PICK f : f = q[1]
  OBVIOUS
<1>8. f \in Fragments /\ f = Fragment(Foreign, k, 0, Offset(k), Bytes(Foreign, k))
  <2>1. 1 \in 1..len
    BY <1>2, <1>5
  <2> QED BY <1>2, <1>4, <1>6, <1>7, <2>1
<1>9. /\ f.src = "foreign" /\ f.d = Foreign /\ f.k = k /\ f.tag = 0 /\ f.off = Offset(k)
      /\ f.len = Bytes(Foreign, k) /\ f.again = FALSE
  BY <1>8 DEF Fragment
<1>10. Genuine(f)
  BY <1>3, <1>4, <1>6, <1>8, <1>9 DEF Genuine
<1>11. Fresh(frag_info, frag_buf, f)
  <2> SUFFICES ASSUME NEW p \in InHand(frag_info, frag_buf), p.d = Foreign, p.k = k
               PROVE  FALSE
    BY <1>9 DEF Fresh
  <2>1. p.k <= N - len
    BY <1>2, <1>3 DEF LowpanInv, PassedOK, Passed
  <2> QED BY <1>2, <1>4, <1>6, <2>1
<1>12. /\ RecvOK(frag_info', frag_buf')
       /\ \A p \in InHand(frag_info', frag_buf') : p \in InHand(frag_info, frag_buf) \/ p = f
       /\ ip_input' # NoDelivery => Sound(ip_input')
  <2>1. input(f) \/ Lost
    BY <1>1, <1>2, <1>5, <1>7
  <2>2. f.d \in Datagram \cup {Foreign}
    BY <1>9
  <2>3. RecvOK(frag_info, frag_buf) /\ TagsOK
    BY <1>2 DEF LowpanInv
  <2> QED BY <1>10, <1>11, <2>1, <2>2, <2>3, Received
<1>13. IInv' /\ Books'
  BY <1>1, CsmaKept DEF LowpanInv
<1>14. CutOK' /\ TagsOK' /\ OutOK' /\ QueueOK'
  <2>1. CutOK /\ TagsOK /\ OutOK /\ QueueOK
    BY DEF LowpanInv
  <2>2. UNCHANGED <<my_tag, out, cut, epoch, restarts, bufmem, neighbor_list, addr, packet_queue, heard>>
    BY <1>1 DEF vars, outvars
  <2>3. CutOK'
    BY <2>1, <2>2 DEF CutOK, Tag
  <2>4. TagsOK'
    BY <2>1, <2>2 DEF TagsOK, IsCut, Tag
  <2>5. OutOK'
    BY <2>1, <2>2 DEF OutOK, Cutting, IsCut, Tag, Idle, Known
  <2>6. QueueOK'
    BY <2>1, <2>2 DEF QueueOK
  <2> QED BY <2>3, <2>4, <2>5, <2>6
<1>15. RecvOK(frag_info, frag_buf)'
  <2>1. \A p : Genuine(p) => Genuine(p)'
    BY <1>1 DEF outvars, Genuine, Fragments, Tag
  <2>2. RecvOK(frag_info', frag_buf')
    BY <1>12
  <2> QED BY <2>1, <2>2, RecvNext
<1>16. ForeignOK'
  <2>1. foreign' = Tail(q)
    BY <1>1, <1>2
  <2>2. ASSUME NEW i \in 1..(len - 1)
        PROVE  LET j == N - (len - 1) + i
               IN  Tail(q)[i] = Fragment(Foreign, j, 0, Offset(j), Bytes(Foreign, j))
    <3>1. i + 1 \in 1..len /\ N - len + (i + 1) = N - (len - 1) + i
      BY <1>2, <1>4, <1>5
    <3> QED BY <1>4, <1>5, <3>1
  <2>3. len - 1 <= N
    BY <1>2, <1>4
  <2> QED BY <1>3, <1>4, <1>5, <2>1, <2>2, <2>3 DEF ForeignOK
<1>17. PassedOK'
  <2>1. PICK X : X = InHand(frag_info', frag_buf')
    OBVIOUS
  <2>2. ASSUME NEW p \in X PROVE Passed(p)'
    <3>1. Len(foreign') = len - 1 /\ packet_queue' = packet_queue /\ heard' = heard
      BY <1>1, <1>2, <1>5 DEF vars
    <3>2. CASE p = f
      <4>1. p.d = Foreign /\ p.k = k /\ k <= N - (len - 1)
        BY <1>2, <1>4, <1>6, <1>9, <3>2
      <4> QED BY <1>3, <3>1, <4>1 DEF Passed
    <3>3. CASE p \in InHand(frag_info, frag_buf)
      <4>1. Passed(p)
        BY <3>3 DEF LowpanInv, PassedOK
      <4>2. p.k \in Nat
        <5>1. PICK info, buf : info = frag_info /\ buf = frag_buf /\ RecvOK(info, buf)
          BY DEF LowpanInv
        <5> QED BY <3>3, <5>1, HandGenuine, GenuineFacts
      <4>3. p.d = Foreign => p.k <= N - (len - 1)
        <5>1. p.d = Foreign => p.k <= N - len
          BY <1>2, <1>3, <4>1 DEF Passed
        <5> QED BY <1>2, <1>4, <4>2, <5>1
      <4> QED BY <1>3, <3>1, <4>1, <4>3 DEF Passed
    <3> QED BY <1>12, <2>1, <3>2, <3>3
  <2>3. InHand(frag_info', frag_buf') \subseteq X
    BY <2>1
  <2> QED BY <2>2, <2>3, PassedNext
<1> QED BY <1>12, <1>13, <1>14, <1>15, <1>16, <1>17 DEF LowpanInv

(* A context whose timer has run out has changed nothing else.              *)
LEMMA ExpiredOK ==
  ASSUME NEW info, NEW buf, RecvOK(info, buf), NEW info2 \in [Context -> {NoInfo} \cup Info],
         \A e \in Context : /\ info2[e].len = info[e].len
                            /\ info[e].len > 0 =>
                                 /\ info2[e].first = info[e].first /\ info2[e].tag = info[e].tag
                                 /\ info2[e].sender = info[e].sender
                                 /\ info2[e].reassembled_len = info[e].reassembled_len
  PROVE  RecvOK(info2, buf) /\ InHand(info2, buf) \subseteq InHand(info, buf)
<1>1. ContextsOK(info2)
  BY DEF RecvOK, ContextsOK
<1>2. BuffersOK(info2, buf)
  <2>1. \A b \in Buffer : buf[b].len > 0 => buf[b].index \in Context
    <3>1. \A b \in Buffer : buf[b].len > 0 => buf[b] \in Buf
      BY InUse
    <3> QED BY <3>1 DEF Buf
  <2> QED BY <2>1 DEF RecvOK, BuffersOK
<1>3. ASSUME NEW e \in Context, info[e].len > 0 PROVE CountOK(info2, buf, e)
  <2>1. Held(info2, buf, e) = Held(info, buf, e)
    BY <1>3 DEF Held
  <2>2. CountOK(info, buf, e)
    BY <1>3 DEF RecvOK, CountsOK
  <2> QED BY <1>3, <2>1, <2>2 DEF CountOK, OnePacket, NoneAgain
<1>4. CountsOK(info2, buf)
  BY <1>3 DEF CountsOK
<1>5. InHand(info2, buf) \subseteq InHand(info, buf)
  BY DEF InHand
<1> QED BY <1>1, <1>2, <1>4, <1>5 DEF RecvOK

LEMMA ExpireOK ==
  ASSUME LowpanInv, NEW c \in Context, Expire(c)
  PROVE  LowpanInv'
<1>1. /\ frag_info[c].len > 0 /\ frag_info' = [frag_info EXCEPT ![c].expired = TRUE]
      /\ UNCHANGED <<vars, outvars, frag_buf, heard, foreign, restarts>>
  BY DEF Expire
<1>2. PICK info, buf : info = frag_info /\ buf = frag_buf /\ RecvOK(info, buf)
  BY DEF LowpanInv
<1>3. info \in [Context -> {NoInfo} \cup Info] /\ info[c] \in Info
  BY <1>1, <1>2, InUse DEF RecvOK, ContextsOK
<1>4. PICK x : x = [info[c] EXCEPT !.expired = TRUE]
  OBVIOUS
<1>5. /\ x \in Info /\ x.len = info[c].len /\ x.first = info[c].first /\ x.tag = info[c].tag
      /\ x.sender = info[c].sender /\ x.reassembled_len = info[c].reassembled_len
  BY <1>3, <1>4 DEF Info
<1>6. PICK info2 : info2 = frag_info' /\ info2 = [info EXCEPT ![c] = x]
  BY <1>1, <1>2, <1>4
<1>7. /\ info2 \in [Context -> {NoInfo} \cup Info] /\ info2[c] = x
      /\ \A e \in Context : e # c => info2[e] = info[e]
  BY <1>3, <1>5, <1>6
<1>8. \A e \in Context : /\ info2[e].len = info[e].len
                         /\ info[e].len > 0 =>
                              /\ info2[e].first = info[e].first /\ info2[e].tag = info[e].tag
                              /\ info2[e].sender = info[e].sender
                              /\ info2[e].reassembled_len = info[e].reassembled_len
  BY <1>5, <1>7
<1>9. RecvOK(info2, buf) /\ InHand(info2, buf) \subseteq InHand(info, buf)
  <2>1. info2 \in [Context -> {NoInfo} \cup Info]
    BY <1>7
  <2>2. RecvOK(info, buf)
    BY <1>2
  <2> HIDE <1>6
  <2> QED BY <1>8, <2>1, <2>2, ExpiredOK
<1>10. IInv' /\ Books'
  BY <1>1, CsmaKept DEF LowpanInv
<1>11. CutOK' /\ TagsOK' /\ OutOK' /\ QueueOK' /\ ForeignOK'
  BY <1>1 DEF vars, outvars, LowpanInv, CutOK, TagsOK, OutOK, QueueOK, ForeignOK, IsCut, Tag,
              Idle, Cutting, Known
<1>12. RecvOK(frag_info, frag_buf)'
  <2>1. \A p : Genuine(p) => Genuine(p)'
    BY <1>1 DEF outvars, Genuine, Fragments, Tag
  <2>2. RecvOK(frag_info', frag_buf')
    BY <1>1, <1>2, <1>6, <1>9
  <2> QED BY <2>1, <2>2, RecvNext
<1>13. PassedOK'
  <2>1. PICK X : X = InHand(info, buf)
    OBVIOUS
  <2>2. InHand(frag_info', frag_buf') \subseteq X
    BY <1>1, <1>2, <1>6, <1>9, <2>1
  <2>3. \A p \in X : Passed(p)'
    BY <1>1, <1>2, <2>1 DEF LowpanInv, PassedOK, Passed, vars
  <2> QED BY <2>2, <2>3, PassedNext
<1> QED BY <1>10, <1>11, <1>12, <1>13 DEF LowpanInv

(* After a restart the sender is as at the start; what the receiver has got *)
(* is from before.                                                          *)
LEMMA RestartOK ==
  ASSUME LowpanInv, Restart
  PROVE  LowpanInv'
<1>1. /\ restarts < MaxRestarts /\ restarts' = restarts + 1
      /\ packet_queue' = [n \in Neighbor |-> <<>>] /\ neighbor_list' = {}
      /\ my_tag' = 0 /\ out' = Idle /\ heard' = {}
      /\ UNCHANGED <<cut, epoch, invars, foreign>>
  BY DEF Restart
<1>2. IInv'
  <2>1. QueueTypes'
    BY CsmaAssumption DEF Restart, QueueTypes, LowpanInv, IInv
  <2>2. QueuesServed' /\ Paced'
    BY CsmaAssumption DEF Restart, QueuesServed, Paced, Neighbor
  <2> QED BY <2>1, <2>2 DEF IInv
<1>3. Books'
  <2>1. Slots' = {}
    BY <1>1 DEF Slots
  <2>2. IsFiniteSet({}) /\ Cardinality({}) = 0
    BY FS_EmptySet
  <2>3. /\ packet_memb' = 0 /\ metadata_memb' = 0 /\ bufmem' = 0
        /\ open' = [pk \in Packet |-> 0]
    BY DEF Restart
  <2> QED BY <2>1, <2>2, <2>3, CsmaAssumption DEF Books
<1>4. CutOK'
  BY <1>1 DEF LowpanInv, CutOK, Tag
<1>5. TagsOK'
  <2>1. restarts \in Nat /\ MaxRestarts \in Nat
    BY SicslowpanAssumption DEF LowpanInv, TagsOK
  <2>2. restarts' \in 0..MaxRestarts
    BY <1>1, <2>1
  <2>3. \A d \in Datagram : epoch'[d] \in {NotSent} \cup 0..restarts' /\ epoch'[d] # restarts'
    <3>1. \A d \in Datagram : epoch[d] \in {NotSent} \cup 0..restarts
      BY DEF LowpanInv, TagsOK
    <3> QED BY <1>1, <2>1, <3>1 DEF NotSent
  <2>4. my_tag' \in Nat /\ my_tag' <= Cardinality({d \in Datagram : epoch'[d] = restarts'})
    <3>1. {d \in Datagram : epoch'[d] = restarts'} = {}
      BY <2>3
    <3>2. Cardinality({}) = 0
      BY FS_EmptySet
    <3>3. PICK m : m = Cardinality({d \in Datagram : epoch'[d] = restarts'}) /\ m = 0
      BY <3>1, <3>2
    <3>4. my_tag' \in Nat /\ my_tag' <= m
      BY <1>1, <3>3
    <3> QED BY <3>3, <3>4
  <2>5. \A d : IsCut(d)' = IsCut(d) /\ Tag(d)' = Tag(d)
    BY <1>1 DEF IsCut, Tag
  <2> QED BY <1>1, <2>2, <2>3, <2>4, <2>5 DEF LowpanInv, TagsOK
<1>6. OutOK' /\ QueueOK' /\ ForeignOK'
  BY <1>1 DEF OutOK, QueueOK, LowpanInv, ForeignOK
<1>7. RecvOK(frag_info, frag_buf)'
  <2>1. \A p : Genuine(p) => Genuine(p)'
    BY <1>1 DEF Genuine, Fragments, Tag
  <2>2. RecvOK(frag_info', frag_buf')
    BY <1>1 DEF LowpanInv, invars
  <2> QED BY <2>1, <2>2, RecvNext
<1>8. PassedOK'
  <2>1. PICK X : X = InHand(frag_info', frag_buf')
    OBVIOUS
  <2>2. \A p \in X : Passed(p)
    BY <1>1, <2>1 DEF LowpanInv, PassedOK, invars
  <2>3. \A p \in X : Passed(p)'
    BY <1>1, <2>2 DEF Passed
  <2> QED BY <2>1, <2>3, PassedNext
<1> QED BY <1>2, <1>3, <1>4, <1>5, <1>6, <1>7, <1>8 DEF LowpanInv

-----------------------------------------------------------------------------
(* The theorems                                                             *)

LEMMA ForeignCutOK ==
  ASSUME frag1_payload >= 0
  PROVE  /\ ForeignCut \in Seq(Fragments) /\ Len(ForeignCut) = Count(Foreign)
         /\ Count(Foreign) \in Nat
         /\ \A k \in 1..Count(Foreign) :
              ForeignCut[k] = Fragment(Foreign, k, 0, Offset(k), Bytes(Foreign, k))
<1>1. frag_needed(Size[Foreign]) /\ TagWrap \in Nat /\ 0 \in 0..(TagWrap - 1)
  <2>1. {} \in SUBSET Datagram
    OBVIOUS
  <2>2. Cardinality({}) = 0 /\ Cardinality({}) < TagWrap /\ TagWrap \in Nat
    BY <2>1, TagsUsed, FS_EmptySet
  <2> QED BY <2>2, SicslowpanAssumption
<1>2. PICK N \in Nat : N = Count(Foreign)
  BY <1>1, Pieces
<1>3. \A k \in 1..N : Offset(k) \in Nat /\ Bytes(Foreign, k) \in Nat \ {0}
  BY <1>1, <1>2, Pieces
<1>4. \A k \in 1..N : Fragment(Foreign, k, 0, Offset(k), Bytes(Foreign, k)) \in Fragments
  <2> SUFFICES ASSUME NEW k \in 1..N
               PROVE  Fragment(Foreign, k, 0, Offset(k), Bytes(Foreign, k)) \in Fragments
    OBVIOUS
  <2>1. PICK off, len : off = Offset(k) /\ len = Bytes(Foreign, k) /\ off \in Nat /\ len \in Nat \ {0}
    BY <1>3
  <2>2. k \in Nat \ {0}
    BY <1>2
  <2>3. Fragment(Foreign, k, 0, off, len) \in Fragments
    BY <1>1, <2>1, <2>2 DEF Fragment, Fragments
  <2> QED BY <2>1, <2>3
<1>5. /\ ForeignCut = [k \in 1..N |-> Fragment(Foreign, k, 0, Offset(k), Bytes(Foreign, k))]
  BY <1>2 DEF ForeignCut, Count, Bytes
<1>6. \A k \in 1..N : ForeignCut[k] = Fragment(Foreign, k, 0, Offset(k), Bytes(Foreign, k))
  BY <1>5
<1>7. ForeignCut \in [1..N -> Fragments]
  BY <1>4, <1>5
<1>8. PICK q : q = ForeignCut
  OBVIOUS
<1>9. q \in Seq(Fragments) /\ Len(q) = N
  <2>1. q \in [1..N -> Fragments]
    BY <1>7, <1>8
  <2> QED BY <1>2, <2>1
<1> QED BY <1>2, <1>6, <1>8, <1>9

LEMMA InitLowpan == LowpanInit => LowpanInv
<1> SUFFICES ASSUME LowpanInit PROVE LowpanInv
  OBVIOUS
<1>1. /\ Init /\ my_tag = 0 /\ out = Idle
      /\ cut = [d \in Datagram |-> <<>>] /\ epoch = [d \in Datagram |-> NotSent]
      /\ frag_info = [c \in Context |-> NoInfo] /\ frag_buf = [b \in Buffer |-> NoBuf]
      /\ heard = {} /\ restarts = 0
      /\ foreign = IF frag1_payload >= 0 THEN ForeignCut ELSE <<>>
  BY DEF LowpanInit
<1>2. IInv /\ Books
  BY <1>1, InitIInv, InitBooks
<1>3. Len(<<>>) = 0 /\ DOMAIN <<>> = 1..0 /\ \A k \in 1..0 : FALSE
  OBVIOUS
<1>4. \A d \in Datagram : cut[d] = <<>> /\ epoch[d] = NotSent
  BY <1>1
<1>5. CutOK
  <2>1. \A d \in Datagram : Len(cut[d]) = 0 /\ DOMAIN cut[d] = 1..Len(cut[d])
    BY <1>3, <1>4
  <2>2. \A d \in Datagram : Count(d) \in Nat
    BY SizeType, CountType DEF Count
  <2>3. DOMAIN cut = Datagram
    BY <1>1
  <2> QED BY <1>3, <1>4, <2>1, <2>2, <2>3 DEF CutOK
<1>6. TagsOK
  <2>1. PICK m : m = Cardinality({d \in Datagram : epoch[d] = restarts}) /\ m \in Nat
    BY TagsUsed
  <2>2. my_tag \in Nat /\ my_tag <= m
    BY <1>1, <2>1
  <2>3. \A d \in Datagram : ~IsCut(d)
    BY <1>4 DEF IsCut
  <2>4. restarts \in 0..MaxRestarts
    BY <1>1, SicslowpanAssumption
  <2> QED BY <1>1, <1>4, <2>1, <2>2, <2>3, <2>4 DEF TagsOK
<1>7. OutOK
  BY <1>1 DEF OutOK
<1>8. QueueOK
  <2>1. \A n \in Neighbor : packet_queue[n] = <<>>
    BY <1>1 DEF Init
  <2> QED BY <1>1, <1>3, <2>1 DEF QueueOK
<1>9. ForeignOK
  <2>1. CASE frag1_payload >= 0
    <3>1. PICK q, N : q = ForeignCut /\ N = Count(Foreign) /\ q = foreign
      BY <1>1, <2>1
    <3>2. /\ q \in Seq(Fragments) /\ Len(q) = N /\ N \in Nat
          /\ \A k \in 1..N : q[k] = Fragment(Foreign, k, 0, Offset(k), Bytes(Foreign, k))
      BY <2>1, <3>1, ForeignCutOK
    <3>3. \A i \in 1..N : N - Len(q) + i = i
      BY <3>2
    <3>4. \A i \in 1..N : q[i] = Fragment(Foreign, N - Len(q) + i, 0, Offset(N - Len(q) + i),
                                          Bytes(Foreign, N - Len(q) + i))
      BY <3>2, <3>3
    <3> QED BY <2>1, <3>1, <3>2, <3>4 DEF ForeignOK
  <2>2. CASE ~(frag1_payload >= 0)
    <3>1. foreign = <<>>
      BY <1>1, <2>2
    <3>2. Count(Foreign) \in Nat
      BY SizeType, CountType DEF Count
    <3>3. <<>> \in Seq(Fragments)
      OBVIOUS
    <3> QED BY <1>3, <3>1, <3>2, <3>3 DEF ForeignOK
  <2> QED BY <2>1, <2>2
<1>10. /\ \A c \in Context : frag_info[c] = NoInfo /\ ~(frag_info[c].len > 0)
       /\ \A b \in Buffer : frag_buf[b] = NoBuf /\ ~(frag_buf[b].len > 0)
  <2>1. ~(NoInfo.len > 0) /\ ~(NoBuf.len > 0)
    BY DEF NoInfo, NoBuf
  <2> QED BY <1>1, <2>1
<1>11. RecvOK(frag_info, frag_buf)
  <2>1. frag_info \in [Context -> {NoInfo} \cup Info] /\ frag_buf \in [Buffer -> {NoBuf} \cup Buf]
    BY <1>1
  <2> QED BY <1>10, <2>1 DEF RecvOK, ContextsOK, BuffersOK, CountsOK
<1>12. PassedOK
  BY <1>10 DEF PassedOK, InHand
<1> QED BY <1>2, <1>5, <1>6, <1>7, <1>8, <1>9, <1>11, <1>12 DEF LowpanInv

LEMMA NextLowpan ==
  LowpanInv /\ [LowpanNext]_<<vars, lowpanvars>> => LowpanInv'
<1> SUFFICES ASSUME LowpanInv, [LowpanNext]_<<vars, lowpanvars>> PROVE LowpanInv'
  OBVIOUS
<1>1. CASE \E d \in Datagram : output(d) \/ OutputWhole(d)
  BY <1>1, OutputOK, OutputWholeOK
<1>2. CASE fragment_copy_payload_and_send
  BY <1>2, FragmentOK
<1>3. CASE \E n \in Neighbor, ret \in Result(Broadcast) \cup {"NOACK"}, up \in BOOLEAN : Air(n, ret, up)
  BY <1>3, AirOK
<1>4. CASE ForeignFragment
  BY <1>4, ForeignFragmentOK
<1>5. CASE \E c \in Context : Expire(c)
  BY <1>5, ExpireOK
<1>6. CASE Restart
  BY <1>6, RestartOK
<1>7. CASE UNCHANGED <<vars, lowpanvars>>
  <2>1. UNCHANGED <<packet_queue, neighbor_list, cut, heard, foreign, frag_info, frag_buf>>
    BY <1>7 DEF vars, lowpanvars, outvars, invars
  <2>2. QueueOK' /\ ForeignOK' /\ RecvOK(frag_info, frag_buf)' /\ PassedOK'
    BY <2>1, Untouched
  <2>3. IInv' /\ Books'
    BY <1>7, CsmaKept DEF LowpanInv
  <2>4. CutOK' /\ TagsOK' /\ OutOK'
    BY <1>7 DEF vars, lowpanvars, outvars, invars, LowpanInv, CutOK, TagsOK, OutOK, IsCut, Tag,
                Idle, Cutting, Known
  <2> QED BY <2>2, <2>3, <2>4 DEF LowpanInv
<1> QED BY <1>1, <1>2, <1>3, <1>4, <1>5, <1>6, <1>7 DEF LowpanNext

(* What is cut, queued, held and passed up always fits together, through    *)
(* losses, repetitions, timeouts and restarts.                              *)
THEOREM LowpanCorrect == LowpanSpec => []LowpanInv
  BY InitLowpan, NextLowpan, PTL DEF LowpanSpec

(* What is delivered to the IP layer is the packet that was sent, unless a  *)
(* fragment has come twice or the sender has restarted in between.          *)
THEOREM Delivered == LowpanSpec => []DeliveredWhole
<1>1. LowpanInit => DeliveredWhole
  BY DEF LowpanInit, DeliveredWhole
<1>2. LowpanInv /\ DeliveredWhole /\ [LowpanNext]_<<vars, lowpanvars>> => DeliveredWhole'
  <2> SUFFICES ASSUME LowpanInv, DeliveredWhole, [LowpanNext]_<<vars, lowpanvars>>
               PROVE  DeliveredWhole'
    OBVIOUS
  <2>1. CASE ip_input' = NoDelivery
    BY <2>1 DEF DeliveredWhole, NoDelivery
  <2>2. CASE (ip_input' # NoDelivery => Sound(ip_input')) /\ epoch' = epoch
    BY <2>2 DEF DeliveredWhole, NoDelivery, Sound, Whole
  <2>3. CASE UNCHANGED <<vars, lowpanvars>>
    BY <2>3 DEF DeliveredWhole, NoDelivery, Whole, lowpanvars, outvars
  <2>4. CASE \E n \in Neighbor, ret \in Result(Broadcast) \cup {"NOACK"}, up \in BOOLEAN : Air(n, ret, up)
    <3>1. epoch' = epoch
      BY <2>4 DEF Air, outvars
    <3>2. ip_input' # NoDelivery => Sound(ip_input')
      BY <2>4, AirOK
    <3> QED BY <2>2, <3>1, <3>2
  <2>5. CASE ForeignFragment
    <3>1. epoch' = epoch
      BY <2>5 DEF ForeignFragment, outvars
    <3>2. ip_input' # NoDelivery => Sound(ip_input')
      BY <2>5, ForeignFragmentOK
    <3> QED BY <2>2, <3>1, <3>2
  <2>6. CASE \E d \in Datagram : output(d) \/ OutputWhole(d)
    BY <2>1, <2>6 DEF output, OutputWhole
  <2>7. CASE fragment_copy_payload_and_send
    BY <2>1, <2>7 DEF fragment_copy_payload_and_send
  <2>8. CASE \E c \in Context : Expire(c)
    BY <2>1, <2>8 DEF Expire
  <2>9. CASE Restart
    BY <2>1, <2>9 DEF Restart
  <2> QED BY <2>3, <2>4, <2>5, <2>6, <2>7, <2>8, <2>9 DEF LowpanNext
<1> QED BY <1>1, <1>2, LowpanCorrect, PTL DEF LowpanSpec

(* A context counts the bytes it holds, and none that is complete is left   *)
(* undelivered unless it holds fragments from before and after a restart.   *)
THEOREM Accounts == LowpanSpec => []ReassemblyAccounts
<1>1. LowpanInv => ReassemblyAccounts
  <2> SUFFICES ASSUME LowpanInv PROVE ReassemblyAccounts
    OBVIOUS
  <2>1. PICK info, buf : info = frag_info /\ buf = frag_buf /\ RecvOK(info, buf)
    BY DEF LowpanInv
  <2>2. \A b \in Buffer : buf[b].len > 0 => info[buf[b].index].len > 0
    BY <2>1 DEF RecvOK, BuffersOK
  <2>3. ASSUME NEW c \in Context, info[c].len > 0
        PROVE  /\ info[c].reassembled_len = info[c].first.len + BytesIn(buf, c)
               /\ \/ info[c].reassembled_len < info[c].len
                  \/ \E b \in Buffer : /\ HoldsIn(buf, b, c)
                                       /\ epoch[buf[b].part.d] # epoch[info[c].first.d]
    <3>1. CountOK(info, buf, c)
      BY <2>1, <2>3 DEF RecvOK, CountsOK
    <3>2. CASE ~OnePacket(info, buf, c)
      <4>1. PICK b \in Buffer : HoldsIn(buf, b, c) /\ buf[b].part.d # info[c].first.d
        BY <3>2 DEF OnePacket, Held
      <4>2. PICK p, q : p = buf[b].part /\ q = info[c].first
        OBVIOUS
      <4>3. /\ Genuine(p) /\ Genuine(q)
            /\ p.tag = q.tag /\ p.src = q.src /\ p.d # q.d
        BY <2>1, <2>3, <4>1, <4>2 DEF RecvOK, ContextsOK, BuffersOK, HoldsIn
      <4>4. ~({p.d, q.d} \subseteq Datagram => epoch[p.d] = epoch[q.d])
        BY <4>3, SamePacket DEF LowpanInv
      <4> QED BY <3>1, <4>1, <4>2, <4>4 DEF CountOK
    <3> QED BY <3>1, <3>2 DEF CountOK
  <2>4. /\ \A b, c : HoldsIn(buf, b, c) <=> Holds(b, c)
        /\ \A c : BytesIn(buf, c) = BytesHeld(c)
    BY <2>1 DEF HoldsIn, Holds, BytesIn, BytesHeld
  <2> QED BY <2>1, <2>2, <2>3, <2>4 DEF ReassemblyAccounts
<1> QED BY <1>1, LowpanCorrect, PTL

(* The types; every fragment fits into a frame, and its offset can be sent  *)
(* in units of eight bytes.                                                 *)
THEOREM LowpanType == LowpanSpec => []LowpanTypeOK
<1>1. LowpanInv => LowpanTypeOK
  <2> SUFFICES ASSUME LowpanInv PROVE LowpanTypeOK
    OBVIOUS
  <2>1. my_tag \in 0..(TagWrap - 1) /\ restarts \in 0..MaxRestarts
    <3>1. PICK m : /\ m = Cardinality({d \in Datagram : epoch[d] = restarts})
                   /\ m \in Nat /\ m < TagWrap /\ TagWrap \in Nat
      BY TagsUsed
    <3>2. my_tag \in Nat /\ my_tag <= m
      BY <3>1 DEF LowpanInv, TagsOK
    <3> QED BY <3>1, <3>2 DEF LowpanInv, TagsOK
  <2>2. ASSUME NEW d \in Datagram, NEW k \in DOMAIN cut[d]
        PROVE  /\ cut[d][k].d = d /\ cut[d][k].k = k /\ cut[d][k].off % 8 = 0
               /\ k > 1 => cut[d][k].len \in 1..last_fragn_max_payload
    <3>1. \A tag, off, len : LET f == Fragment(d, k, tag, off, len)
                             IN  f.d = d /\ f.k = k /\ f.off = off /\ f.len = len
      BY DEF Fragment
    <3>2. CASE ~frag_needed(Size[d])
      <4>1. cut[d] = <<>> \/ cut[d] = <<Fragment(d, 1, 0, 0, Size[d])>>
        BY <3>2 DEF LowpanInv, CutOK
      <4>2. k = 1 /\ cut[d][k] = Fragment(d, 1, 0, 0, Size[d])
        <5>1. PICK f : f = Fragment(d, 1, 0, 0, Size[d])
          OBVIOUS
        <5>2. cut[d] = <<>> \/ cut[d] = <<f>>
          BY <4>1, <5>1
        <5>3. k = 1 /\ cut[d][k] = f
          BY <5>2
        <5> QED BY <5>1, <5>3
      <4>3. 0 % 8 = 0
        OBVIOUS
      <4> QED BY <3>1, <4>2, <4>3
    <3>3. CASE frag_needed(Size[d])
      <4>1. /\ Len(cut[d]) \in Nat /\ k \in 1..Len(cut[d]) /\ cut[d] # <<>>
            /\ frag1_payload >= 0 /\ Len(cut[d]) <= Count(d)
            /\ cut[d][k] = Fragment(d, k, Tag(d), Offset(k), Bytes(d, k))
        <5>1. Len(cut[d]) \in Nat /\ k \in 1..Len(cut[d])
          BY DEF LowpanInv, CutOK
        <5>2. cut[d] # <<>>
          BY <5>1
        <5> QED BY <3>3, <5>1, <5>2 DEF LowpanInv, CutOK
      <4>2. Count(d) \in Nat /\ k \in 1..Count(d) /\ k \in Nat \ {0}
        BY <3>3, <4>1, Pieces
      <4>3. Offset(k) % 8 = 0
        BY <4>1, <4>2, OffsetType
      <4>4. Bytes(d, k) \in Nat \ {0} /\ (k > 1 => Bytes(d, k) <= last_fragn_max_payload)
        BY <3>3, <4>1, <4>2, Pieces
      <4>5. cut[d][k].d = d /\ cut[d][k].k = k /\ cut[d][k].off = Offset(k) /\ cut[d][k].len = Bytes(d, k)
        BY <3>1, <4>1
      <4>6. k > 1 => Bytes(d, k) \in 1..last_fragn_max_payload
        BY <4>4, Payloads
      <4> QED BY <4>3, <4>5, <4>6
    <3> QED BY <3>2, <3>3
  <2>3. PICK info, buf : info = frag_info /\ buf = frag_buf /\ RecvOK(info, buf)
    BY DEF LowpanInv
  <2>4. \A c \in Context : info[c].len > 0 =>
          /\ info[c].tag \in 0..(TagWrap - 1) /\ info[c].expired \in BOOLEAN
          /\ info[c].reassembled_len \in 1..UIP_BUFSIZE
    <3>1. \A x \in Info : /\ x.tag \in 0..(TagWrap - 1) /\ x.expired \in BOOLEAN
                          /\ x.reassembled_len \in 1..UIP_BUFSIZE
      BY DEF Info
    <3> QED BY <2>3, <3>1, InUse
  <2>5. ASSUME NEW b \in Buffer
        PROVE  buf[b].len \in 0..last_fragn_max_payload
    <3>1. buf[b].len \in Nat
      BY <2>3, InUse
    <3>2. CASE buf[b].len > 0
      <4>1. PICK p : p = buf[b].part
        OBVIOUS
      <4>2. Genuine(p) /\ p.k > 1 /\ p.len = buf[b].len
        BY <2>3, <3>2, <4>1 DEF RecvOK, BuffersOK
      <4>3. /\ p.d \in Datagram \cup {Foreign} /\ frag_needed(Size[p.d]) /\ frag1_payload >= 0
            /\ p.k \in 1..Count(p.d) /\ p.len = Bytes(p.d, p.k)
        BY <4>2 DEF Genuine, Fragments
      <4>4. Bytes(p.d, p.k) <= last_fragn_max_payload
        BY <4>2, <4>3, Pieces
      <4> QED BY <3>1, <4>2, <4>3, <4>4, Payloads
    <3>3. CASE ~(buf[b].len > 0)
      BY <3>1, <3>3, Payloads
    <3> QED BY <3>2, <3>3
  <2>6. heard \subseteq neighbor_list
    BY DEF LowpanInv, QueueOK
  <2> QED BY <2>1, <2>2, <2>3, <2>4, <2>5, <2>6 DEF LowpanTypeOK
<1> QED BY <1>1, LowpanCorrect, PTL

(* A packet's fragments are given to CSMA all or none.                      *)
THEOREM AllOrNothing == LowpanSpec => AllOrNone
<1> DEFINE A == out # Idle /\ out' = Idle /\ restarts' = restarts =>
                  Len(cut'[out.d]) \in {0, fragment_count(Size[out.d])}
<1>1. LowpanInv /\ [LowpanNext]_<<vars, lowpanvars>> => [A]_<<vars, lowpanvars>>
  <2> SUFFICES ASSUME LowpanInv, LowpanNext, out # Idle, out' = Idle, restarts' = restarts
               PROVE  Len(cut'[out.d]) \in {0, fragment_count(Size[out.d])}
    OBVIOUS
  <2>1. ~(\E d \in Datagram : output(d) \/ OutputWhole(d))
    BY DEF output, OutputWhole
  <2>2. ~(\E n \in Neighbor, ret \in Result(Broadcast) \cup {"NOACK"}, up \in BOOLEAN : Air(n, ret, up))
    BY DEF Air
  <2>3. ~ForeignFragment /\ ~(\E c \in Context : Expire(c))
    BY DEF ForeignFragment, Expire, outvars
  <2>4. ~Restart
    <3>1. restarts \in Nat
      BY SicslowpanAssumption DEF LowpanInv, TagsOK
    <3> QED BY <3>1 DEF Restart
  <2>5. fragment_copy_payload_and_send
    BY <2>1, <2>2, <2>3, <2>4 DEF LowpanNext
  <2>6. PICK d \in Datagram : \E tag \in Nat : \E k \in Nat : Sends(d, tag, k)
    BY <2>5, FragmentStep
  <2>7. PICK tag \in Nat, k \in Nat : Sends(d, tag, k)
    BY <2>6
  <2>8. out.d = d /\ k = Len(cut[d]) + 1 /\ k \in 1..Count(d) /\ Len(cut[d]) \in Nat /\ DOMAIN cut = Datagram
        /\ Count(d) \in Nat
    <3>1. Len(cut[d]) \in Nat /\ DOMAIN cut = Datagram
      BY DEF LowpanInv, CutOK
    <3>2. Count(d) \in Nat
      BY SizeType, CountType DEF Count
    <3> QED BY <2>7, <3>1, <3>2 DEF Sends
  <2>9. CASE Refused(<<d, k>>) /\ k = 1 /\ cut' = cut
    BY <2>8, <2>9
  <2>10. CASE /\ cut' = [cut EXCEPT ![d] = Append(cut[d], Fragment(d, k, tag, Offset(k), Bytes(d, k)))]
              /\ out' = IF k < Count(d) THEN [d |-> d, done |-> Offset(k + 1), tag |-> tag] ELSE Idle
    <3>1. k = Count(d)
      <4>1. d # Foreign
        BY SicslowpanAssumption
      <4>2. [d |-> d, done |-> Offset(k + 1), tag |-> tag] # Idle
        BY <4>1 DEF Idle
      <4> QED BY <2>8, <2>10, <4>2
    <3>2. PICK q, f : q = cut[d] /\ f = Fragment(d, k, tag, Offset(k), Bytes(d, k))
      OBVIOUS
    <3>3. cut'[d] = Append(q, f)
      BY <2>8, <2>10, <3>2
    <3>4. Len(Append(q, f)) = k
      BY <2>8, <3>2
    <3> QED BY <2>8, <3>1, <3>3, <3>4 DEF Count
  <2> QED BY <2>7, <2>9, <2>10 DEF Sends
<1> QED BY <1>1, LowpanCorrect, PTL DEF LowpanSpec, AllOrNone
=============================================================================
