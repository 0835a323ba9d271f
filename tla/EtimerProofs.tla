---------------------------- MODULE EtimerProofs ----------------------------
(***************************************************************************)
(* Proofs about event timers (Etimer) and callback timers (Ctimer), for    *)
(* any number of timers and processes, any clock width and queue length:   *)
(* the timer list holds exactly the pending timers of live processes, no   *)
(* timer is served early although the clock wraps, no set callback is      *)
(* forgotten, and a callback is early only if its timer was set again.     *)
(***************************************************************************)
EXTENDS Ctimer, LibTheorems

(* The timers a live process has pending are those on the list.            *)
Pending == {t \in Timer : tp[t] \in alive}
ListInv == \E s : Chain(timerlist, tnext, NULL, s) /\ Elems(s) = Pending

(* The clock is a ticks after s, up to whole turns.                        *)
Apart(c, s, a) == \E k \in Int : c - s = a + Wrap * k

(* While less than a round of the clock has passed since its start, the    *)
(* clock tells a timer's age.                                              *)
AgeInv == \A t \in Timer : age[t] < Wrap - 1 => Apart(clock, start[t], age[t])

EInv == TypeOK /\ ListInv /\ AgeInv

Index == 0..(Wrap - 1)

(* Ages: negative while the start lies in the future.                      *)
Ages == {a \in Int : a <= Wrap - 1}

(* The list that ListInv speaks of.                                        *)
LEMMA ListedChain ==
  ASSUME TypeOK, ListInv
  PROVE  /\ \A t \in Timer : Listed(t) <=> tp[t] \in alive
         /\ \A t : Listed(t) => t \in Timer
         /\ Ends(timerlist, tnext, NULL)
         /\ Nodes(timerlist, tnext, NULL) = Pending
<1>1. PICK s : Chain(timerlist, tnext, NULL, s) /\ Elems(s) = Pending
  BY DEF ListInv
<1>2. NULL \notin DOMAIN tnext /\ IsFiniteSet(DOMAIN tnext)
  BY TimerAssumption DEF TypeOK
<1>3. PICK h, nx : h = timerlist /\ nx = tnext
  OBVIOUS
<1>4. Nodes(h, nx, NULL) = Elems(s) /\ Ends(h, nx, NULL)
  BY <1>1, <1>2, <1>3, ChainNodes
<1>5. Nodes(timerlist, tnext, NULL) = Pending /\ Ends(timerlist, tnext, NULL)
  BY <1>1, <1>3, <1>4
<1> QED BY <1>5 DEF Listed, Pending

(* The same after a step.                                                  *)
LEMMA ListedPrime ==
  ASSUME EInv'
  PROVE  \A t \in Timer : Listed(t)' <=> t \in Pending'
<1>1. PICK s : Chain(timerlist', tnext', NULL, s) /\ Elems(s) = Pending'
  BY DEF EInv, ListInv
<1>2. NULL \notin DOMAIN tnext' /\ IsFiniteSet(DOMAIN tnext')
  BY TimerAssumption DEF EInv, TypeOK
<1>3. PICK h, nx : h = timerlist' /\ nx = tnext'
  OBVIOUS
<1>4. Nodes(h, nx, NULL) = Elems(s)
  BY <1>1, <1>2, <1>3, ChainNodes
<1> QED BY <1>1, <1>3, <1>4 DEF Listed

(* ListInv says what PendingListed does.                                   *)
LEMMA ListsPending ==
  ASSUME TypeOK, ListInv PROVE PendingListed
BY ListedChain DEF PendingListed

(* update_time stays within the clock's range.                             *)
LEMMA UpdateType ==
  ASSUME TypeOK, NEW head, NEW nxt, NEW s, NEW st, NEW iv,
         DOMAIN nxt = Timer, Chain(head, nxt, NULL, s),
         st \in [Timer -> Index], iv \in [Timer -> Index]
  PROVE  update_time(head, nxt, st, iv) \in Index
<1> DEFINE on == Nodes(head, nxt, NULL)
           D(t) == Distance(t, st, iv)
<1>1. Wrap \in Nat \ {0} /\ NULL \notin Timer /\ IsFiniteSet(Timer) /\ clock \in Index
  BY TimerAssumption DEF TypeOK, Index
<1>2. on = Elems(s)
  BY <1>1, ChainNodes
<1>3. on \subseteq Timer
  BY <1>2 DEF Chain, Elems
<1>4. \A t \in Timer : D(t) \in Index
  <2>1. ASSUME NEW t \in Timer PROVE D(t) \in Index
    <3>1. st[t] + iv[t] - clock \in Int
      BY <1>1 DEF Index
    <3> QED BY <1>1, <3>1, ModRange DEF Distance, Index
  <2> QED BY <2>1
<1>5. CASE head = NULL
  BY <1>1, <1>5 DEF update_time, Index
<1>6. CASE head # NULL
  <2>1. PICK x : x \in on
    <3>1. s # <<>> /\ head = s[1] /\ 1 \in 1..Len(s)
      BY <1>6 DEF Chain
    <3> QED BY <1>2, <3>1 DEF Elems
  <2> DEFINE V == {d \in Index : \E t \in on : d = D(t)}
  <2> HIDE DEF on, D
  <2>2. V \subseteq Nat /\ V # {}
    BY <1>3, <1>4, <2>1, <1>1 DEF Index
  <2>3. PICK d \in V : \A e \in V : d <= e
    <3> HIDE DEF V
    <3> QED BY <2>2, Least
  <2>4. PICK t \in on : d = D(t)
    BY <2>3
  <2>5. \A u \in on : D(t) <= D(u)
    BY <1>3, <1>4, <2>3, <2>4
  <2>6. PICK n \in on : n = CHOOSE c \in on : \A u \in on : D(c) <= D(u)
    BY <2>4, <2>5
  <2>7. update_time(head, nxt, st, iv) = (clock + D(n)) % Wrap
    BY <1>6, <2>6 DEF update_time, on, D
  <2>8. D(n) \in Index
    BY <1>3, <1>4, <2>6
  <2>9. clock + D(n) \in Int
    BY <1>1, <2>8 DEF Index
  <2> QED BY <1>1, <2>7, <2>9, ModRange, ZenonT(30) DEF Index
<1> QED BY <1>5, <1>6

(* The types of what add_timer, Remove and Exited assign.                  *)
ListTypes ==
  /\ timerlist \in Timer \cup {NULL} /\ tnext \in [Timer -> Timer \cup {NULL}]
  /\ tp \in [Timer -> Proc \cup {NULL}]

(* The head of a list is one of its nodes or nil.                          *)
LEMMA HeadType ==
  ASSUME NEW head, NEW nxt, NEW s, DOMAIN nxt = Timer, Chain(head, nxt, NULL, s)
  PROVE  head \in Timer \cup {NULL}
<1>1. CASE s = <<>>
  BY <1>1 DEF Chain
<1>2. CASE s # <<>>
  BY <1>2, ChainTail
<1> QED BY <1>1, <1>2

(* add_timer by a live process: the timer is on the list afterwards, once, *)
(* and the others are where they were.                                     *)
LEMMA AddTimer ==
  ASSUME TypeOK, ListInv, NEW t \in Timer, NEW p \in alive, NEW st, NEW iv,
         st \in [Timer -> Index], iv \in [Timer -> Index],
         add_timer(t, p, st, iv), alive' = alive
  PROVE  /\ ListInv' /\ ListTypes' /\ needspoll' = TRUE /\ next_expiration' \in Index
         /\ Pending' = Pending \cup {t}
<1>1. PICK s : Chain(timerlist, tnext, NULL, s) /\ Elems(s) = Pending
  BY DEF ListInv
<1>2. /\ NULL \notin Timer /\ NULL \notin Proc /\ p \in Proc /\ DOMAIN tnext = Timer
      /\ tnext \in [Timer -> Timer \cup {NULL}] /\ tp \in [Timer -> Proc \cup {NULL}]
      /\ timerlist \in Timer \cup {NULL} /\ alive \subseteq Proc
  BY TimerAssumption DEF TypeOK
<1>3. /\ needspoll' = TRUE /\ tp' = [tp EXCEPT ![t] = p]
      /\ IF tp[t] # NULL /\ Listed(t) THEN UNCHANGED <<timerlist, tnext>>
         ELSE tnext' = [tnext EXCEPT ![t] = timerlist] /\ timerlist' = t
      /\ next_expiration' = update_time(timerlist', tnext', st, iv)
  BY DEF add_timer
<1>4. Pending' = Pending \cup {t} /\ tp' \in [Timer -> Proc \cup {NULL}]
  BY <1>2, <1>3 DEF Pending
<1>5. PICK h, nx : h = timerlist' /\ nx = tnext'
  OBVIOUS
<1>6. ASSUME NEW r, Chain(h, nx, NULL, r), Elems(r) = Pending', DOMAIN nx = Timer,
             nx \in [Timer -> Timer \cup {NULL}]
      PROVE  ListInv' /\ ListTypes' /\ next_expiration' \in Index
  <2>1. update_time(h, nx, st, iv) \in Index
    BY <1>6, UpdateType
  <2>2. h \in Timer \cup {NULL}
    BY <1>6, HeadType
  <2>3. Chain(timerlist', tnext', NULL, r)
    BY <1>5, <1>6
  <2>4. ListInv'
    BY <1>6, <2>3 DEF ListInv
  <2>5. next_expiration' = update_time(h, nx, st, iv)
    BY <1>3, <1>5 DEF update_time, Distance
  <2> QED BY <1>4, <1>5, <1>6, <2>1, <2>2, <2>4, <2>5 DEF ListTypes
<1>7. CASE tp[t] # NULL /\ Listed(t)
  <2>1. h = timerlist /\ nx = tnext
    BY <1>3, <1>5, <1>7
  <2>2. t \in Pending
    BY <1>7, ListedChain DEF Pending
  <2>3. Elems(s) = Pending'
    BY <1>1, <1>4, <2>2
  <2> QED BY <1>1, <1>2, <1>3, <1>4, <1>6, <2>1, <2>3
<1>8. CASE ~(tp[t] # NULL /\ Listed(t))
  <2>1. t \notin Elems(s)
    BY <1>1, <1>2, <1>8, ListedChain DEF Pending
  <2>2. PICK h0, n0, r : h0 = timerlist /\ n0 = tnext /\ r = <<t>> \o s
    OBVIOUS
  <2>3. Prepends(h0, n0, s, t, nx, r) /\ h = t /\ Chain(h0, n0, NULL, s) /\ t \in DOMAIN n0
    BY <1>1, <1>2, <1>3, <1>5, <1>8, <2>2 DEF Prepends
  <2>4. NULL \notin DOMAIN n0
    BY <1>2, <2>2
  <2>5. Chain(t, nx, NULL, r) /\ Elems(r) = Elems(s) \cup {t}
    BY <2>1, <2>3, <2>4, ChainPush
  <2>6. DOMAIN nx = Timer /\ nx \in [Timer -> Timer \cup {NULL}]
    BY <1>2, <2>2, <2>3 DEF Prepends
  <2>7. Elems(r) = Pending' /\ Chain(h, nx, NULL, r)
    BY <1>1, <1>4, <2>3, <2>5
  <2> QED BY <1>3, <1>4, <1>6, <2>6, <2>7
<1> QED BY <1>3, <1>4, <1>7, <1>8

(* Remove takes t off the list, if it is there, and nothing else.          *)
LEMMA RemoveTimer ==
  ASSUME TypeOK, ListInv, NEW t \in Timer, Remove(t), alive' = alive
  PROVE  /\ ListInv' /\ ListTypes'
         /\ Pending' = Pending \ {t}
         /\ \E r : Chain(timerlist', tnext', NULL, r)
<1>1. PICK s : Chain(timerlist, tnext, NULL, s) /\ Elems(s) = Pending
  BY DEF ListInv
<1>2. /\ NULL \notin Timer /\ DOMAIN tnext = Timer /\ NULL \notin Proc
      /\ tnext \in [Timer -> Timer \cup {NULL}] /\ tp \in [Timer -> Proc \cup {NULL}]
      /\ timerlist \in Timer \cup {NULL} /\ alive \subseteq Proc
  BY TimerAssumption DEF TypeOK
<1>3. /\ timerlist' = IF t = timerlist THEN tnext[t] ELSE timerlist
      /\ tnext' = [u \in Timer |-> IF u = t THEN NULL
                     ELSE IF Listed(u) /\ tnext[u] = t THEN tnext[t] ELSE tnext[u]]
      /\ tp' = [tp EXCEPT ![t] = NULL]
  BY DEF Remove
<1>4. Pending' = Pending \ {t} /\ tp' \in [Timer -> Proc \cup {NULL}]
  BY <1>2, <1>3 DEF Pending
<1>5. ListTypes'
  BY <1>2, <1>3, <1>4 DEF ListTypes
<1>6. PICK h0, n0, h, nx : h0 = timerlist /\ n0 = tnext /\ h = timerlist' /\ nx = tnext'
  OBVIOUS
<1>7. PICK n \in Nat : n = Len(s)
  BY <1>1 DEF Chain
<1>8. /\ Chain(h0, n0, NULL, s) /\ DOMAIN n0 = Timer /\ DOMAIN nx = Timer
      /\ h = IF t = h0 THEN n0[t] ELSE h0
      /\ nx[t] = NULL
      /\ \A u \in Timer : u # t => nx[u] = IF u \in Elems(s) /\ n0[u] = t THEN n0[t] ELSE n0[u]
  <2>1. \A u \in Timer : Listed(u) <=> u \in Elems(s)
    BY <1>1, ListedChain DEF Pending
  <2> QED BY <1>1, <1>2, <1>3, <1>6, <2>1
<1>9. /\ \A i \in 1..n : s[i] \in Timer /\ s[i] \in Elems(s)
      /\ \A i, j \in 1..n : s[i] = s[j] => i = j
      /\ h0 = IF s = <<>> THEN NULL ELSE s[1]
      /\ \A i \in 1..n : n0[s[i]] = IF i = n THEN NULL ELSE s[i + 1]
  BY <1>7, <1>8 DEF Chain, Elems
<1>10. CASE t \notin Pending
  <2>1. \A i \in 1..n : s[i] # t /\ n0[s[i]] # t
    <3>1. \A i \in 1..n : i # n => i + 1 \in 1..n
      BY <1>7
    <3>2. \A i \in 1..n : s[i] # t
      BY <1>1, <1>9, <1>10
    <3> QED BY <1>2, <1>9, <3>1, <3>2
  <2>2. h0 # t
    <3>1. s # <<>> => 1 \in 1..n
      BY <1>7, <1>8 DEF Chain
    <3> QED BY <1>2, <1>9, <2>1, <3>1
  <2>3. Chain(h, nx, NULL, s)
    <3>1. h = h0 /\ \A i \in 1..n : nx[s[i]] = n0[s[i]]
      BY <1>8, <1>9, <2>1, <2>2
    <3> QED BY <1>7, <1>8, <3>1 DEF Chain
  <2>4. Elems(s) = Pending'
    BY <1>1, <1>4, <1>10
  <2> QED BY <1>4, <1>5, <1>6, <2>3, <2>4 DEF ListInv
<1>11. CASE t \in Pending
  <2>1. PICK k \in 1..n : s[k] = t
    BY <1>1, <1>7, <1>11 DEF Elems
  <2>2. Skips(h0, n0, s, k, h, nx)
    <3>1. h = IF k = 1 THEN n0[s[1]] ELSE h0
      <4>1. s # <<>> /\ 1 \in 1..n
        BY <1>7, <2>1, <1>8 DEF Chain
      <4>2. t = h0 <=> k = 1
        BY <1>9, <2>1, <4>1
      <4> QED BY <1>8, <2>1, <4>2
    <3>2. ASSUME NEW i \in 1..n, i # k
          PROVE  nx[s[i]] = IF i = k - 1 THEN n0[s[k]] ELSE n0[s[i]]
      <4>1. s[i] # t /\ s[i] \in Timer /\ s[i] \in Elems(s)
        BY <1>9, <2>1, <3>2
      <4>2. n0[s[i]] = t <=> i = k - 1
        <5>1. CASE i = n
          BY <1>2, <1>7, <1>9, <2>1, <5>1
        <5>2. CASE i # n
          <6>1. i + 1 \in 1..n /\ n0[s[i]] = s[i + 1]
            BY <1>7, <1>9, <5>2
          <6>2. s[i + 1] = t <=> i + 1 = k
            BY <1>9, <2>1, <6>1
          <6> QED BY <1>7, <6>1, <6>2
        <5> QED BY <5>1, <5>2
      <4> QED BY <1>8, <2>1, <4>1, <4>2
    <3> QED BY <1>7, <1>8, <3>1, <3>2 DEF Skips
  <2>3. Chain(h, nx, NULL, Cut(s, k)) /\ Elems(Cut(s, k)) = Elems(s) \ {s[k]}
    BY <1>7, <1>8, <2>1, <2>2, ChainCut
  <2>4. PICK r : r = Cut(s, k)
    OBVIOUS
  <2>5. Chain(timerlist', tnext', NULL, r) /\ Elems(r) = Pending'
    BY <1>1, <1>4, <1>6, <2>1, <2>3, <2>4
  <2> QED BY <1>4, <1>5, <2>5 DEF ListInv
<1> QED BY <1>10, <1>11

(* A process exits: its timers leave the list, and no others.              *)
LEMMA ExitTimers ==
  ASSUME TypeOK, ListInv, NEW p \in alive, Exited(p), alive' = alive \ {p}
  PROVE  ListInv' /\ ListTypes'
<1>1. PICK s : Chain(timerlist, tnext, NULL, s) /\ Elems(s) = Pending
  BY DEF ListInv
<1>2. /\ NULL \notin Timer /\ DOMAIN tnext = Timer /\ IsFiniteSet(Timer)
      /\ tnext \in [Timer -> Timer \cup {NULL}] /\ tp \in [Timer -> Proc \cup {NULL}]
      /\ timerlist \in Timer \cup {NULL}
  BY TimerAssumption DEF TypeOK
<1>3. PICK h0, n0, K, nx : /\ h0 = timerlist /\ n0 = tnext /\ K = {t \in Timer : tp[t] # p}
                           /\ nx = tnext'
  OBVIOUS
<1>4. /\ timerlist' = FirstIn(K, h0, n0, NULL) /\ tp' = tp
      /\ tnext' = [t \in Timer |-> IF Listed(t) /\ t \in K
                                     THEN FirstIn(K, n0[t], n0, NULL) ELSE n0[t]]
  BY <1>3 DEF Exited
<1>5. /\ Chain(h0, n0, NULL, s) /\ NULL \notin DOMAIN n0 /\ NULL \notin K
      /\ IsFiniteSet(DOMAIN n0)
  BY <1>1, <1>2, <1>3
<1>6. Filters(K, n0, NULL, s, nx)
  <2>1. \A t \in Elems(s) : t \in Timer /\ Listed(t)
    BY <1>1, ListedChain DEF Pending
  <2> QED BY <1>2, <1>3, <1>4, <2>1 DEF Filters
<1>7. Filtered(K, h0, n0, NULL, s, nx)
  BY <1>5, <1>6, ChainFilter
<1>8. PICK r : Chain(FirstIn(K, h0, n0, NULL), nx, NULL, r) /\ Elems(r) = Elems(s) \cap K
  BY <1>7 DEF Filtered
<1>9. Elems(r) = Pending'
  BY <1>1, <1>3, <1>4, <1>8 DEF Pending
<1>10. ListInv'
  BY <1>3, <1>4, <1>8, <1>9 DEF ListInv
<1>11. ListTypes'
  <2>1. DOMAIN nx = Timer
    BY <1>3, <1>4
  <2>2. timerlist' \in Timer \cup {NULL}
    BY <1>4, <1>8, <2>1, HeadType
  <2>3. ASSUME NEW t \in Timer, Listed(t), t \in K
        PROVE  FirstIn(K, n0[t], n0, NULL) \in Timer \cup {NULL}
    <3>1. t \in Elems(r)
      BY <1>1, <1>8, <2>3, ListedChain DEF Pending
    <3>2. PICK i \in 1..Len(r) : r[i] = t
      BY <3>1 DEF Elems
    <3>3. nx[t] \in Timer \cup {NULL}
      BY <1>8, <2>1, <3>2 DEF Chain
    <3> QED BY <1>3, <1>4, <2>3, <3>3
  <2> QED BY <1>2, <1>3, <1>4, <2>2, <2>3 DEF ListTypes
<1> QED BY <1>10, <1>11

-----------------------------------------------------------------------------
(* The clock: distances modulo Wrap.                                       *)

(* A timer just started has age 0.                                         *)
LEMMA ApartNow ==
  ASSUME NEW c \in Int, Wrap \in Nat \ {0} PROVE Apart(c, c, 0)
<1>1. c - c = 0 + Wrap * 0
  OBVIOUS
<1> QED BY <1>1 DEF Apart

(* The clock ticks: the age grows by one.                                  *)
LEMMA ApartTick ==
  ASSUME NEW c \in Int, NEW s \in Int, NEW a \in Int, Apart(c, s, a), Wrap \in Nat \ {0}
  PROVE  Apart((c + 1) % Wrap, s, a + 1)
<1>1. PICK k \in Int : c - s = a + Wrap * k
  BY DEF Apart
<1>2. PICK m \in Int : (c + 1) % Wrap = (c + 1) - Wrap * m
  BY c + 1 \in Int, ModTurns
<1>3. PICK x, y, z : x = Wrap * k /\ y = Wrap * m /\ z = Wrap * (k - m)
  OBVIOUS
<1>4. x \in Int /\ y \in Int /\ z = x - y /\ k - m \in Int
  BY <1>3, TurnsAdd
<1>5. ((c + 1) % Wrap) - s = (a + 1) + z
  BY <1>1, <1>2, <1>3, <1>4
<1> QED BY <1>3, <1>4, <1>5 DEF Apart

(* The start moves by d, wherever that takes it: the age shrinks by d.     *)
LEMMA ApartShift ==
  ASSUME NEW c \in Int, NEW s \in Int, NEW a \in Int, NEW d \in Int, Apart(c, s, a),
         Wrap \in Nat \ {0}
  PROVE  Apart(c, (s + d) % Wrap, a - d)
<1>1. PICK k \in Int : c - s = a + Wrap * k
  BY DEF Apart
<1>2. PICK m \in Int : (s + d) % Wrap = (s + d) - Wrap * m
  BY s + d \in Int, ModTurns
<1>3. PICK x, y, z : x = Wrap * k /\ y = Wrap * m /\ z = Wrap * (k + m)
  OBVIOUS
<1>4. x \in Int /\ y \in Int /\ z = x + y /\ k + m \in Int
  BY <1>3, TurnsAdd
<1>5. c - ((s + d) % Wrap) = (a - d) + z
  BY <1>1, <1>2, <1>3, <1>4
<1> QED BY <1>3, <1>4, <1>5 DEF Apart

(* timer_expired tells the age, from -1 up to a round less one.            *)
LEMMA ApartNext ==
  ASSUME NEW c \in Int, NEW s \in Int, NEW a \in Int, Apart(c, s, a), a + 1 \in 0..(Wrap - 1),
         Wrap \in Nat \ {0}
  PROVE  ((c - s) + 1) % Wrap = a + 1
<1>1. PICK k \in Int : c - s = a + Wrap * k
  BY DEF Apart
<1>2. PICK x : x = Wrap * k
  OBVIOUS
<1>3. x \in Int
  BY <1>2, TurnsAdd
<1>4. (c - s) + 1 = (a + 1) + x
  BY <1>1, <1>2, <1>3
<1>5. (c - s) + 1 = (a + 1) + Wrap * k
  BY <1>2, <1>4
<1> QED BY <1>5, (c - s) + 1 \in Int, ModIs

(* No timer has expired before its interval has passed, unless its start   *)
(* lies two ticks or more in the future.                                   *)
LEMMA ExpiredOld ==
  ASSUME TypeOK, AgeInv, NEW t \in Timer, timer_expired(t)
  PROVE  age[t] >= interval[t] \/ age[t] < -1
<1>1. /\ Wrap \in Nat \ {0} /\ clock \in Int /\ start[t] \in Int
      /\ interval[t] \in 0..(Wrap - 1) /\ age[t] \in Int /\ age[t] <= Wrap - 1
  BY TimerAssumption DEF TypeOK
<1>2. CASE age[t] + 1 \in 0..(Wrap - 1)
  <2>1. PICK c, s, a : c = clock /\ s = start[t] /\ a = age[t]
    OBVIOUS
  <2>2. Apart(c, s, a) /\ a + 1 \in 0..(Wrap - 1) /\ c \in Int /\ s \in Int /\ a \in Int
    BY <1>1, <1>2, <2>1 DEF AgeInv
  <2>3. ((c - s) + 1) % Wrap = a + 1
    BY <1>1, <2>2, ApartNext
  <2>4. interval[t] < a + 1
    BY <2>1, <2>3 DEF timer_expired
  <2> QED BY <1>1, <2>1, <2>4
<1>3. CASE ~(age[t] + 1 \in 0..(Wrap - 1))
  BY <1>1, <1>3
<1> QED BY <1>2, <1>3

-----------------------------------------------------------------------------
(* The operations.                                                         *)

(* What a call of an etimer function leaves alone.                         *)
Around == UNCHANGED <<clock, scanning, queue, alive>> /\ calls' \in 0..MaxCalls

TimeTypes ==
  start \in [Timer -> Index] /\ interval \in [Timer -> Index] /\ age \in [Timer -> Ages]

(* The parts of EInv', put together.                                       *)
LEMMA Composed ==
  ASSUME TypeOK, Around, TimeTypes', ListTypes', ListInv', AgeInv', needspoll' \in BOOLEAN,
         next_expiration' \in Index
  PROVE  EInv'
BY DEF TypeOK, Around, TimeTypes, ListTypes, EInv, Index, Ages

LEMMA SetStep ==
  ASSUME EInv, NEW t \in Timer, NEW i \in Interval, NEW p \in alive, etimer_set(t, i, p), Around
  PROVE  EInv' /\ Pending' = Pending \cup {t} /\ needspoll' = TRUE
<1>1. /\ start' = [start EXCEPT ![t] = clock] /\ interval' = [interval EXCEPT ![t] = i]
      /\ age' = [age EXCEPT ![t] = 0] /\ add_timer(t, p, start', interval')
  BY DEF etimer_set
<1>2. TypeOK /\ ListInv /\ AgeInv /\ TimeTypes /\ Wrap \in Nat \ {0} /\ clock \in Index /\ i \in Index
  <2>1. TypeOK /\ ListInv /\ AgeInv
    BY DEF EInv
  <2>2. TimeTypes /\ clock \in Index
    BY <2>1 DEF TypeOK, TimeTypes, Index, Ages
  <2>3. Wrap \in Nat \ {0} /\ i \in Index
    BY TimerAssumption DEF Index
  <2> QED BY <2>1, <2>2, <2>3
<1>3. 0 \in Ages
  BY <1>2 DEF Ages
<1>4. TimeTypes'
  BY <1>1, <1>2, <1>3 DEF TimeTypes
<1>5. AgeInv'
  <2> SUFFICES ASSUME NEW u \in Timer, age'[u] < Wrap - 1
               PROVE  Apart(clock', start'[u], age'[u])
    BY DEF AgeInv, Apart
  <2>1. clock' = clock
    BY DEF Around
  <2>2. CASE u = t
    <3>1. age'[u] = 0 /\ start'[u] = clock
      BY <1>1, <1>2, <2>2 DEF TimeTypes
    <3>2. PICK c : c = clock
      OBVIOUS
    <3>3. Apart(c, c, 0)
      BY <1>2, <3>2, ApartNow DEF Index
    <3> QED BY <2>1, <3>1, <3>2, <3>3
  <2>3. CASE u # t
    <3>1. age'[u] = age[u] /\ start'[u] = start[u]
      BY <1>1, <1>2, <2>3 DEF TimeTypes
    <3> QED BY <1>2, <2>1, <3>1 DEF AgeInv
  <2> QED BY <2>2, <2>3
<1>6. PICK st, iv : st = start' /\ iv = interval'
  OBVIOUS
<1>7. add_timer(t, p, st, iv) /\ st \in [Timer -> Index] /\ iv \in [Timer -> Index]
  BY <1>1, <1>4, <1>6 DEF add_timer, TimeTypes, update_time, Distance
<1>8. /\ ListInv' /\ ListTypes' /\ needspoll' = TRUE /\ next_expiration' \in Index
      /\ Pending' = Pending \cup {t}
  BY <1>2, <1>7, AddTimer DEF Around
<1> QED BY <1>2, <1>4, <1>5, <1>8, Composed

LEMMA ResetStep ==
  ASSUME EInv, NEW t \in Timer, NEW iv, iv \in [Timer -> Index], NEW p \in alive, MayReset(t),
         Reset(t, iv, p), Around
  PROVE  EInv' /\ Pending' = Pending \cup {t} /\ needspoll' = TRUE
<1>1. /\ start' = [start EXCEPT ![t] = (start[t] + interval[t]) % Wrap] /\ interval' = iv
      /\ age' = [age EXCEPT ![t] = age[t] - interval[t]] /\ add_timer(t, p, start', interval')
  BY DEF Reset
<1>2. TypeOK /\ ListInv /\ AgeInv /\ TimeTypes /\ Wrap \in Nat \ {0} /\ clock \in Index
  BY TimerAssumption DEF EInv, TypeOK, TimeTypes, Index, Ages
<1>3. PICK c, s, d, a : c = clock /\ s = start[t] /\ d = interval[t] /\ a = age[t]
  OBVIOUS
<1>4. c \in Index /\ s \in Index /\ d \in Index /\ a \in Ages /\ a < Wrap - 1 /\ Apart(c, s, a)
  BY <1>2, <1>3 DEF TimeTypes, MayReset, AgeInv
<1>5. a - d \in Ages /\ c \in Int /\ s \in Int /\ d \in Int /\ a \in Int /\ s + d \in Int
  BY <1>2, <1>4 DEF Index, Ages
<1>6. PICK e, b : e = (s + d) % Wrap /\ b = a - d
  OBVIOUS
<1>7. e \in Index /\ b \in Ages /\ Apart(c, e, b)
  <2>1. e \in Index
    BY <1>2, <1>5, <1>6, ModRange DEF Index
  <2>2. Apart(c, (s + d) % Wrap, a - d)
    BY <1>2, <1>4, <1>5, ApartShift
  <2> QED BY <1>5, <1>6, <2>1, <2>2
<1>8. TimeTypes'
  BY <1>1, <1>2, <1>3, <1>5, <1>7, <1>6 DEF TimeTypes
<1>9. AgeInv'
  <2> SUFFICES ASSUME NEW u \in Timer, age'[u] < Wrap - 1
               PROVE  Apart(clock', start'[u], age'[u])
    BY DEF AgeInv, Apart
  <2>1. clock' = clock
    BY DEF Around
  <2>2. CASE u = t
    <3>1. age'[u] = b /\ start'[u] = e
      BY <1>1, <1>2, <1>3, <1>6, <2>2 DEF TimeTypes
    <3> QED BY <1>3, <1>7, <2>1, <3>1
  <2>3. CASE u # t
    <3>1. age'[u] = age[u] /\ start'[u] = start[u]
      BY <1>1, <1>2, <2>3 DEF TimeTypes
    <3> QED BY <1>2, <2>1, <3>1 DEF AgeInv
  <2> QED BY <2>2, <2>3
<1>10. PICK st : st = start'
  OBVIOUS
<1>11. add_timer(t, p, st, iv) /\ st \in [Timer -> Index]
  BY <1>1, <1>8, <1>10 DEF add_timer, TimeTypes, update_time, Distance
<1>12. /\ ListInv' /\ ListTypes' /\ needspoll' = TRUE /\ next_expiration' \in Index
       /\ Pending' = Pending \cup {t}
  BY <1>2, <1>11, AddTimer DEF Around
<1> QED BY <1>2, <1>8, <1>9, <1>12, Composed

LEMMA RestartStep ==
  ASSUME EInv, NEW t \in Timer, NEW p \in alive, etimer_restart(t, p), Around
  PROVE  EInv' /\ Pending' = Pending \cup {t} /\ needspoll' = TRUE
<1>1. /\ start' = [start EXCEPT ![t] = clock] /\ interval' = interval
      /\ age' = [age EXCEPT ![t] = 0] /\ add_timer(t, p, start', interval)
  BY DEF etimer_restart
<1>2. TypeOK /\ ListInv /\ AgeInv /\ TimeTypes /\ Wrap \in Nat \ {0} /\ clock \in Index
  BY TimerAssumption DEF EInv, TypeOK, TimeTypes, Index, Ages
<1>3. 0 \in Ages
  BY <1>2 DEF Ages
<1>4. TimeTypes'
  BY <1>1, <1>2, <1>3 DEF TimeTypes
<1>5. AgeInv'
  <2> SUFFICES ASSUME NEW u \in Timer, age'[u] < Wrap - 1
               PROVE  Apart(clock', start'[u], age'[u])
    BY DEF AgeInv, Apart
  <2>1. clock' = clock
    BY DEF Around
  <2>2. CASE u = t
    <3>1. age'[u] = 0 /\ start'[u] = clock
      BY <1>1, <1>2, <2>2 DEF TimeTypes
    <3>2. PICK c : c = clock
      OBVIOUS
    <3>3. Apart(c, c, 0)
      BY <1>2, <3>2, ApartNow DEF Index
    <3> QED BY <2>1, <3>1, <3>2, <3>3
  <2>3. CASE u # t
    <3>1. age'[u] = age[u] /\ start'[u] = start[u]
      BY <1>1, <1>2, <2>3 DEF TimeTypes
    <3> QED BY <1>2, <2>1, <3>1 DEF AgeInv
  <2> QED BY <2>2, <2>3
<1>6. PICK st, iv : st = start' /\ iv = interval
  OBVIOUS
<1>7. add_timer(t, p, st, iv) /\ st \in [Timer -> Index] /\ iv \in [Timer -> Index]
  BY <1>1, <1>2, <1>4, <1>6 DEF add_timer, TimeTypes, update_time, Distance
<1>8. /\ ListInv' /\ ListTypes' /\ needspoll' = TRUE /\ next_expiration' \in Index
      /\ Pending' = Pending \cup {t}
  BY <1>2, <1>7, AddTimer DEF Around
<1> QED BY <1>2, <1>4, <1>5, <1>8, Composed

LEMMA AdjustStep ==
  ASSUME EInv, NEW t \in Timer, NEW d \in Adjustment, MayAdjust(t, d), etimer_adjust(t, d), Around
  PROVE  EInv'
<1>1. /\ start' = [start EXCEPT ![t] = (start[t] + d) % Wrap]
      /\ age' = [age EXCEPT ![t] = age[t] - d]
      /\ next_expiration' = update_time(timerlist, tnext, start', interval)
      /\ UNCHANGED <<timerlist, tnext, interval, tp, needspoll>>
  BY DEF etimer_adjust
<1>2. TypeOK /\ ListInv /\ AgeInv /\ TimeTypes /\ Wrap \in Nat \ {0} /\ clock \in Index
  BY TimerAssumption DEF EInv, TypeOK, TimeTypes, Index, Ages
<1>3. PICK c, s, a : c = clock /\ s = start[t] /\ a = age[t]
  OBVIOUS
<1>4. /\ c \in Index /\ s \in Index /\ d \in Int /\ a \in Ages /\ a < Wrap - 1 /\ a - d < Wrap - 1
      /\ Apart(c, s, a)
  BY <1>2, <1>3, TimerAssumption DEF TimeTypes, MayAdjust, AgeInv
<1>5. a - d \in Ages /\ c \in Int /\ s \in Int /\ a \in Int /\ s + d \in Int
  BY <1>2, <1>4 DEF Index, Ages
<1>6. PICK e, b : e = (s + d) % Wrap /\ b = a - d
  OBVIOUS
<1>7. e \in Index /\ b \in Ages /\ Apart(c, e, b)
  <2>1. e \in Index
    BY <1>2, <1>5, <1>6, ModRange DEF Index
  <2>2. Apart(c, (s + d) % Wrap, a - d)
    BY <1>2, <1>4, <1>5, ApartShift
  <2> QED BY <1>5, <1>6, <2>1, <2>2
<1>8. TimeTypes'
  BY <1>1, <1>2, <1>3, <1>5, <1>7, <1>6 DEF TimeTypes
<1>9. AgeInv'
  <2> SUFFICES ASSUME NEW u \in Timer, age'[u] < Wrap - 1
               PROVE  Apart(clock', start'[u], age'[u])
    BY DEF AgeInv, Apart
  <2>1. clock' = clock
    BY DEF Around
  <2>2. CASE u = t
    <3>1. age'[u] = b /\ start'[u] = e
      BY <1>1, <1>2, <1>3, <1>6, <2>2 DEF TimeTypes
    <3> QED BY <1>3, <1>7, <2>1, <3>1
  <2>3. CASE u # t
    <3>1. age'[u] = age[u] /\ start'[u] = start[u]
      BY <1>1, <1>2, <2>3 DEF TimeTypes
    <3> QED BY <1>2, <2>1, <3>1 DEF AgeInv
  <2> QED BY <2>2, <2>3
<1>10. ListInv' /\ ListTypes' /\ needspoll' \in BOOLEAN
  BY <1>1, <1>2 DEF ListInv, ListTypes, Pending, Around, TypeOK
<1>11. next_expiration' \in Index
  <2>1. PICK h, nx, st, iv : h = timerlist /\ nx = tnext /\ st = start' /\ iv = interval
    OBVIOUS
  <2>2. PICK r : Chain(h, nx, NULL, r)
    BY <1>2, <2>1 DEF ListInv
  <2>3. DOMAIN nx = Timer /\ st \in [Timer -> Index] /\ iv \in [Timer -> Index]
    BY <1>2, <1>8, <2>1 DEF TypeOK, TimeTypes
  <2>4. update_time(h, nx, st, iv) \in Index
    BY <1>2, <2>2, <2>3, UpdateType
  <2> QED BY <1>1, <2>1, <2>4 DEF update_time, Distance
<1> QED BY <1>2, <1>8, <1>9, <1>10, <1>11, Composed

LEMMA StopStep ==
  ASSUME EInv, NEW t \in Timer, etimer_stop(t), Around
  PROVE  EInv' /\ Pending' = Pending \ {t}
<1>1. /\ Remove(t) /\ UNCHANGED <<start, interval, age, needspoll>>
      /\ next_expiration' = IF Listed(t) THEN update_time(timerlist', tnext', start, interval)
                                         ELSE next_expiration
  BY DEF etimer_stop
<1>2. TypeOK /\ ListInv /\ AgeInv /\ TimeTypes
  BY DEF EInv, TypeOK, TimeTypes, Index, Ages
<1>3. /\ ListInv' /\ ListTypes' /\ Pending' = Pending \ {t}
      /\ \E r : Chain(timerlist', tnext', NULL, r)
  BY <1>1, <1>2, RemoveTimer DEF Around
<1>4. TimeTypes' /\ AgeInv' /\ needspoll' \in BOOLEAN
  BY <1>1, <1>2 DEF TimeTypes, AgeInv, Around, TypeOK
<1>5. next_expiration' \in Index
  <2>1. PICK h, nx, st, iv : h = timerlist' /\ nx = tnext' /\ st = start /\ iv = interval
    OBVIOUS
  <2>2. PICK r : Chain(h, nx, NULL, r)
    BY <1>3, <2>1
  <2>3. DOMAIN nx = Timer /\ st \in [Timer -> Index] /\ iv \in [Timer -> Index]
    BY <1>2, <1>3, <2>1 DEF ListTypes, TimeTypes
  <2>4. update_time(h, nx, st, iv) \in Index
    BY <1>2, <2>2, <2>3, UpdateType
  <2>5. update_time(timerlist', tnext', start, interval) \in Index
    BY <2>1, <2>4 DEF update_time, Distance
  <2> QED BY <1>1, <1>2, <2>5 DEF TypeOK, Index
<1> QED BY <1>2, <1>3, <1>4, <1>5, Composed

LEMMA TickStep ==
  ASSUME EInv, Tick
  PROVE  EInv' /\ Pending' = Pending
<1>1. /\ clock' = (clock + 1) % Wrap
      /\ age' = [t \in Timer |-> IF age[t] < Wrap - 1 THEN age[t] + 1 ELSE age[t]]
      /\ needspoll' = (needspoll \/ (PollPeriod = 0 /\ timerlist # NULL))
      /\ UNCHANGED <<timerlist, tnext, start, interval, tp, next_expiration, scanning, queue, alive, calls>>
  BY DEF Tick
<1>2. TypeOK /\ ListInv /\ AgeInv /\ TimeTypes /\ Wrap \in Nat \ {0} /\ clock \in Index
  BY TimerAssumption DEF EInv, TypeOK, TimeTypes, Index, Ages
<1>3. clock' \in Index
  BY <1>1, <1>2, clock + 1 \in Int, ModRange DEF Index
<1>4. age' \in [Timer -> Ages]
  BY <1>1, <1>2 DEF TimeTypes, Ages
<1>5. needspoll' \in BOOLEAN
  BY <1>1
<1>6. ListInv' /\ Pending' = Pending
  BY <1>1, <1>2 DEF ListInv, Pending
<1>7. AgeInv'
  <2> SUFFICES ASSUME NEW t \in Timer, age'[t] < Wrap - 1
               PROVE  Apart(clock', start'[t], age'[t])
    BY DEF AgeInv, Apart
  <2>1. PICK c, st, a : c = clock /\ st = start[t] /\ a = age[t]
    OBVIOUS
  <2>2. age'[t] = (IF a < Wrap - 1 THEN a + 1 ELSE a) /\ a \in Ages
    BY <1>1, <1>2, <2>1 DEF TimeTypes
  <2>3. a < Wrap - 1 /\ age'[t] = a + 1
    BY <1>2, <2>2 DEF Ages
  <2>4. c \in Int /\ st \in Int /\ a \in Int /\ Apart(c, st, a)
    BY <1>2, <2>1, <2>2, <2>3 DEF AgeInv, TimeTypes, Index, Ages
  <2>5. Apart((c + 1) % Wrap, st, a + 1)
    BY <1>2, <2>4, ApartTick
  <2> QED BY <1>1, <2>1, <2>3, <2>5
<1>8. TypeOK'
  BY <1>1, <1>2, <1>3, <1>4, <1>5 DEF TypeOK, Index, Ages
<1> QED BY <1>6, <1>7, <1>8 DEF EInv

(* The timer ScanPost serves is on the list and has expired.               *)
LEMMA ServedExpired ==
  ASSUME TypeOK, ListInv, Expired # {}
  PROVE  FirstIn(Expired, timerlist, tnext, NULL) \in Expired
<1>1. PICK s : Chain(timerlist, tnext, NULL, s) /\ Elems(s) = Pending
  BY DEF ListInv
<1>2. PICK h, nx, K : h = timerlist /\ nx = tnext /\ K = Expired
  OBVIOUS
<1>3. /\ NULL \notin DOMAIN nx /\ IsFiniteSet(DOMAIN nx) /\ Chain(h, nx, NULL, s)
  BY <1>1, <1>2, TimerAssumption DEF TypeOK
<1>4. K \subseteq Elems(s) /\ K # {} /\ NULL \notin K
  BY <1>1, <1>2, ListedChain, TimerAssumption DEF Expired, Pending
<1>5. IsFirst(K, s, NULL, FirstIn(K, h, nx, NULL))
  BY <1>3, <1>4, FirstInChain
<1>6. FirstIn(K, h, nx, NULL) \in K
  BY <1>4, <1>5 DEF IsFirst, Elems
<1> QED BY <1>2, <1>6

LEMMA PostStep ==
  ASSUME EInv, ScanPost
  PROVE  /\ EInv' /\ alive' = alive
         /\ \E t \in Timer : /\ timer_expired(t) /\ t \in Pending /\ Pending' = Pending \ {t}
                             /\ queue' = Append(queue, [p |-> tp[t], t |-> t])
<1>1. TypeOK /\ ListInv /\ AgeInv /\ TimeTypes
  BY DEF EInv, TypeOK, TimeTypes, Index, Ages
<1>2. PICK t : t = FirstIn(Expired, timerlist, tnext, NULL)
  OBVIOUS
<1>3. /\ Expired # {} /\ Len(queue) < NUMEVENTS
      /\ queue' = Append(queue, [p |-> tp[t], t |-> t]) /\ Remove(t)
      /\ next_expiration' = update_time(timerlist', tnext', start, interval)
      /\ UNCHANGED <<clock, start, interval, needspoll, scanning, alive, calls, age>>
  BY <1>2 DEF ScanPost
<1>4. t \in Timer /\ t \in Pending /\ timer_expired(t)
  <2>1. t \in Expired
    BY <1>1, <1>2, <1>3, ServedExpired
  <2> QED BY <1>1, <2>1, ListedChain DEF Expired, Pending
<1>5. /\ ListInv' /\ ListTypes' /\ Pending' = Pending \ {t}
      /\ \E r : Chain(timerlist', tnext', NULL, r)
  BY <1>1, <1>3, <1>4, RemoveTimer
<1>6. AgeInv'
  BY <1>1, <1>3 DEF AgeInv
<1>7. next_expiration' \in Index
  <2>1. PICK h, nx, st, iv : h = timerlist' /\ nx = tnext' /\ st = start /\ iv = interval
    OBVIOUS
  <2>2. PICK r : Chain(h, nx, NULL, r)
    BY <1>5, <2>1
  <2>3. DOMAIN nx = Timer /\ st \in [Timer -> Index] /\ iv \in [Timer -> Index]
    BY <1>1, <1>5, <2>1 DEF ListTypes, TimeTypes
  <2>4. update_time(h, nx, st, iv) \in Index
    BY <1>1, <2>2, <2>3, UpdateType
  <2> QED BY <1>3, <2>1, <2>4 DEF update_time, Distance
<1>8. /\ queue' \in Seq([p : Proc \cup {NULL}, t : Timer \cup {NULL}])
      /\ Len(queue') <= NUMEVENTS
  <2>1. [p |-> tp[t], t |-> t] \in [p : Proc \cup {NULL}, t : Timer \cup {NULL}]
    BY <1>1, <1>4 DEF TypeOK
  <2>2. PICK m : m = [p |-> tp[t], t |-> t]
    OBVIOUS
  <2>3. queue' = Append(queue, m) /\ m \in [p : Proc \cup {NULL}, t : Timer \cup {NULL}]
    BY <1>3, <2>1, <2>2
  <2> QED BY <1>1, <1>3, <2>3, TimerAssumption DEF TypeOK
<1>9. TypeOK'
  BY <1>1, <1>3, <1>5, <1>7, <1>8 DEF TypeOK, ListTypes, Index, Ages
<1> QED BY <1>3, <1>4, <1>5, <1>6, <1>9 DEF EInv

LEMMA ExitStep ==
  ASSUME EInv, NEW p \in Proc, ProcessExit(p)
  PROVE  EInv'
<1>1. /\ p \in alive /\ alive' = alive \ {p} /\ Exited(p)
      /\ UNCHANGED <<clock, needspoll, scanning, queue, calls>>
  BY DEF ProcessExit
<1>2. TypeOK /\ ListInv /\ AgeInv
  BY DEF EInv
<1>3. ListInv' /\ ListTypes'
  BY <1>1, <1>2, ExitTimers
<1>4. UNCHANGED <<start, interval, next_expiration, age>>
  BY <1>1 DEF Exited
<1>5. AgeInv'
  BY <1>1, <1>2, <1>4 DEF AgeInv
<1>6. TypeOK'
  BY <1>1, <1>2, <1>3, <1>4 DEF TypeOK, ListTypes
<1> QED BY <1>3, <1>5, <1>6 DEF EInv

(* Steps that do not touch the timers.                                     *)
LEMMA IdleStep ==
  ASSUME EInv, UNCHANGED <<clock, timervars, alive, calls>>,
         needspoll' \in BOOLEAN, scanning' \in BOOLEAN,
         \/ queue' = queue
         \/ queue # <<>> /\ queue' = Tail(queue)
  PROVE  EInv' /\ Pending' = Pending
<1>1. TypeOK /\ ListInv /\ AgeInv
  BY DEF EInv
<1>2. ListInv' /\ Pending' = Pending
  BY <1>1 DEF ListInv, Pending, timervars
<1>3. AgeInv'
  BY <1>1 DEF AgeInv, timervars
<1>4. /\ queue' \in Seq([p : Proc \cup {NULL}, t : Timer \cup {NULL}])
      /\ Len(queue') <= NUMEVENTS
  <2>1. PICK M : M = [p : Proc \cup {NULL}, t : Timer \cup {NULL}]
    OBVIOUS
  <2>2. queue \in Seq(M) /\ Len(queue) <= NUMEVENTS /\ NUMEVENTS \in Nat
    BY <1>1, <2>1, TimerAssumption DEF TypeOK
  <2>3. queue' \in Seq(M) /\ Len(queue') <= NUMEVENTS
    BY <2>2
  <2> QED BY <2>1, <2>3
<1>5. TypeOK'
  BY <1>1, <1>4 DEF TypeOK, timervars
<1> QED BY <1>2, <1>3, <1>5 DEF EInv

(* A call from a process keeps the invariant.                              *)
LEMMA CallStep ==
  ASSUME EInv, NULL \notin Callers, NEW p \in Callers, Calls(p)
  PROVE  EInv'
<1>1. /\ p \in alive /\ calls > 0 /\ calls' = calls - 1
      /\ UNCHANGED <<clock, scanning, queue, alive>>
  BY DEF Calls
<1>2. Around
  BY <1>1, TimerAssumption DEF Around, EInv, TypeOK
<1>3. PICK t \in Timer :
       \/ \E i \in Interval : etimer_set(t, i, p)
       \/ MayReset(t) /\ etimer_reset(t, p)
       \/ \E i \in Interval : MayReset(t) /\ etimer_reset_with_new_interval(t, i, p)
       \/ etimer_restart(t, p)
       \/ \E d \in Adjustment : MayAdjust(t, d) /\ etimer_adjust(t, d)
       \/ etimer_stop(t)
  BY DEF Calls
<1>4. interval \in [Timer -> Index] /\ Interval \subseteq Index
  BY TimerAssumption DEF EInv, TypeOK, Index
<1>5. ASSUME NEW i \in Interval, etimer_set(t, i, p) PROVE EInv'
  BY <1>1, <1>2, <1>5, SetStep
<1>6. ASSUME MayReset(t), etimer_reset(t, p) PROVE EInv'
  <2>1. PICK iv : iv = interval
    OBVIOUS
  <2>2. Reset(t, iv, p) /\ iv \in [Timer -> Index]
    BY <1>4, <1>6, <2>1 DEF etimer_reset, Reset
  <2> QED BY <1>1, <1>2, <1>6, <2>2, ResetStep
<1>7. ASSUME NEW i \in Interval, MayReset(t), etimer_reset_with_new_interval(t, i, p) PROVE EInv'
  <2>1. PICK iv : iv = [interval EXCEPT ![t] = i]
    OBVIOUS
  <2>2. Reset(t, iv, p) /\ iv \in [Timer -> Index]
    BY <1>4, <1>7, <2>1 DEF etimer_reset_with_new_interval, Reset
  <2> QED BY <1>1, <1>2, <1>7, <2>2, ResetStep
<1>8. ASSUME etimer_restart(t, p) PROVE EInv'
  BY <1>1, <1>2, <1>8, RestartStep
<1>9. ASSUME NEW d \in Adjustment, MayAdjust(t, d), etimer_adjust(t, d) PROVE EInv'
  BY <1>2, <1>9, AdjustStep
<1>10. ASSUME etimer_stop(t) PROVE EInv'
  BY <1>2, <1>10, StopStep
<1> QED BY <1>3, <1>5, <1>6, <1>7, <1>8, <1>9, <1>10

LEMMA EInvInit ==
  ASSUME Init PROVE EInv
<1>1. /\ Wrap \in Nat \ {0} /\ Wrap - 1 \in Index /\ Wrap - 1 \in Ages /\ 0 \in Index
      /\ NULL \notin Proc
  BY TimerAssumption DEF Index, Ages
<1>2. TypeOK
  <2>1. PICK M : M = [p : Proc \cup {NULL}, t : Timer \cup {NULL}]
    OBVIOUS
  <2>2. queue \in Seq(M) /\ Len(queue) <= NUMEVENTS
    BY TimerAssumption DEF Init
  <2>3. /\ clock \in Index /\ next_expiration \in Index /\ calls \in 0..MaxCalls
        /\ start \in [Timer -> Index] /\ interval \in [Timer -> Index] /\ age \in [Timer -> Ages]
    BY <1>1, TimerAssumption DEF Init
  <2>4. /\ timerlist \in Timer \cup {NULL} /\ tnext \in [Timer -> Timer \cup {NULL}]
        /\ tp \in [Timer -> Proc \cup {NULL}] /\ alive \subseteq Proc
        /\ needspoll \in BOOLEAN /\ scanning \in BOOLEAN
    BY DEF Init
  <2> QED BY <2>1, <2>2, <2>3, <2>4 DEF TypeOK, Index, Ages
<1>3. Chain(timerlist, tnext, NULL, <<>>) /\ Elems(<<>>) = {}
  BY DEF Chain, Elems, Init
<1>4. Pending = {}
  BY <1>1 DEF Pending, Init
<1>5. AgeInv
  BY DEF AgeInv, Init
<1> QED BY <1>2, <1>3, <1>4, <1>5 DEF EInv, ListInv

LEMMA EInvNext ==
  ASSUME EInv, NULL \notin Callers, [Next]_vars
  PROVE  EInv'
<1>1. CASE Tick
  BY <1>1, TickStep
<1>2. CASE etimer_pending_process \/ EtimerPoll \/ ScanFull \/ ScanEnd \/ TakeEvent \/ UNCHANGED vars
  <2>1. UNCHANGED <<clock, timervars, alive, calls>>
    BY <1>2 DEF etimer_pending_process, EtimerPoll, ScanFull, ScanEnd, TakeEvent, vars, timervars
  <2>2. needspoll' \in BOOLEAN /\ scanning' \in BOOLEAN
    BY <1>2 DEF etimer_pending_process, EtimerPoll, ScanFull, ScanEnd, TakeEvent, vars, EInv, TypeOK
  <2>3. queue' = queue \/ (queue # <<>> /\ queue' = Tail(queue))
    BY <1>2 DEF etimer_pending_process, EtimerPoll, ScanFull, ScanEnd, TakeEvent, vars
  <2> QED BY <2>1, <2>2, <2>3, IdleStep
<1>3. CASE ScanPost
  BY <1>3, PostStep
<1>4. ASSUME NEW p \in Proc, ProcessExit(p) PROVE EInv'
  BY <1>4, ExitStep
<1>5. ASSUME NEW p \in Callers, Calls(p) PROVE EInv'
  BY <1>5, CallStep
<1> QED BY <1>1, <1>2, <1>3, <1>4, <1>5 DEF Next

LEMMA EInvariance ==
  ASSUME NULL \notin Callers PROVE Spec => []EInv
<1>1. Init => EInv
  BY EInvInit
<1>2. EInv /\ [Next]_vars => EInv'
  BY EInvNext
<1> QED BY <1>1, <1>2, PTL DEF Spec

(* Event timers keep their types: clock values, starts, intervals and ages *)
(* stay below the clock's wrap, and the event queue below its limit.       *)
THEOREM TimersTyped ==
  ASSUME NULL \notin Callers
  PROVE  Spec => []TypeOK
<1>1. EInv => TypeOK
  BY DEF EInv
<1> QED BY <1>1, EInvariance, PTL

(* As long as the etimer functions are called from within processes, the   *)
(* timer list ends and holds exactly the timers that live processes have   *)
(* pending, through every interleaving of calls, expirations and exits.    *)
THEOREM PendingKept ==
  ASSUME NULL \notin Callers
  PROVE  Spec => []PendingListed
<1>1. EInv => PendingListed
  BY ListsPending DEF EInv
<1> QED BY <1>1, EInvariance, PTL

(* The etimer process posts TIMER for a timer only when its interval has   *)
(* passed in true time, whatever the width of the clock, however late the  *)
(* etimer process is polled and by whatever amounts timers are adjusted:   *)
(* timer_expired errs on the early side only for a timer whose start an    *)
(* adjustment has moved two ticks or more into the future.                 *)
THEOREM ServedInTime ==
  ASSUME NULL \notin Callers
  PROVE  Spec => NeverEarly
<1> DEFINE InTime == \A t \in Timer : Posts(t) => age[t] >= interval[t] \/ age[t] < -1
<1>1. EInv /\ [Next]_vars => [InTime]_vars
  <2> SUFFICES ASSUME EInv, Next, NEW t \in Timer, scanning, Listed(t), ~Listed(t)'
               PROVE  age[t] >= interval[t] \/ age[t] < -1
    BY DEF Posts
  <2>1. EInv'
    BY EInvNext
  <2>2. t \in Pending /\ t \notin Pending'
    <3>1. Listed(t) <=> t \in Pending
      BY ListedChain DEF EInv, Pending
    <3>2. Listed(t)' <=> t \in Pending'
      BY <2>1, ListedPrime
    <3> QED BY <3>1, <3>2
  <2>3. CASE ScanPost
    <3>1. PICK u \in Timer : timer_expired(u) /\ Pending' = Pending \ {u}
      BY <2>3, PostStep
    <3>2. u = t
      BY <2>2, <3>1
    <3> QED BY <3>1, <3>2, ExpiredOld DEF EInv
  <2>4. CASE Tick
    BY <2>2, <2>4, TickStep
  <2>5. CASE etimer_pending_process \/ EtimerPoll \/ ScanFull \/ ScanEnd \/ TakeEvent
    <3>1. Pending' = Pending
      BY <2>5 DEF etimer_pending_process, EtimerPoll, ScanFull, ScanEnd, TakeEvent, timervars, Pending
    <3> QED BY <2>2, <3>1
  <2>6. ASSUME NEW p \in Proc, ProcessExit(p) PROVE FALSE
    BY <2>6 DEF ProcessExit
  <2>7. ASSUME NEW p \in Callers, Calls(p) PROVE FALSE
    BY <2>7 DEF Calls
  <2> QED BY <2>3, <2>4, <2>5, <2>6, <2>7 DEF Next
<1> QED BY <1>1, EInvariance, PTL DEF Spec, NeverEarly

-----------------------------------------------------------------------------
(* Callback timers.                                                        *)

(* The queue holds a TIMER event for c.                                    *)
Queued(q, c) == \E k \in DOMAIN q : q[k].t = c

(* A callback timer is on ctimer_list once.                                *)
ListOnce == /\ ctimer_list \in Seq(Timer)
            /\ \A i, j \in DOMAIN ctimer_list : ctimer_list[i] = ctimer_list[j] => i = j

(* Before ctimer_init no timer is set and none has expired.                *)
Unused == ~initialized => Pending = {} /\ queue = <<>>

(* CallbackKept, in terms of Pending.                                      *)
Kept == initialized => \A c \in Timer : InList(c) => c \in Pending \/ Queued(queue, c)

(* An event that is still in the queue belongs to a timer that is pending  *)
(* again, has been stopped, or has expired and was not set since.          *)
Late == \A c \in Timer : Queued(queue, c) => c \in Pending \/ ~InList(c) \/ age[c] >= interval[c]

CInv == /\ EInv /\ alive = Proc /\ initialized \in BOOLEAN
        /\ ListOnce /\ Unused /\ Kept /\ Late

(* ctimer.c adjusts no timer: no start lies in the future.                 *)
NoneAhead == \A c \in Timer : age[c] >= 0

LEMMA InMembers ==
  ASSUME NEW c PROVE InList(c) <=> c \in Members(ctimer_list)
BY DEF InList, Members

LEMMA InMembersPrime ==
  ASSUME NEW c PROVE InList(c)' <=> c \in Members(ctimer_list')
BY DEF InList, Members

LEMMA Added ==
  ASSUME ListOnce, NEW c \in Timer, ctimer_list' = list_add(ctimer_list, c)
  PROVE  ListOnce' /\ \A d \in Timer : InList(d)' <=> InList(d) \/ d = c
<1>1. PICK s, r : s = ctimer_list /\ r = ctimer_list'
  OBVIOUS
<1>2. s \in Seq(Timer) /\ Distinct(s) /\ r = list_add(s, c)
  BY <1>1 DEF ListOnce, Distinct
<1>3. r \in Seq(Timer) /\ Distinct(r) /\ Members(r) = Members(s) \cup {c}
  BY <1>2, ListAdd
<1>4. ListOnce'
  BY <1>1, <1>3 DEF ListOnce, Distinct
<1> QED BY <1>1, <1>3, <1>4, InMembers, InMembersPrime

LEMMA Removed ==
  ASSUME ListOnce, NEW c, ctimer_list' = list_remove(ctimer_list, c)
  PROVE  ListOnce' /\ \A d \in Timer : InList(d)' <=> InList(d) /\ d # c
<1>1. PICK s, r : s = ctimer_list /\ r = ctimer_list'
  OBVIOUS
<1>2. s \in Seq(Timer) /\ Distinct(s) /\ r = list_remove(s, c)
  BY <1>1 DEF ListOnce, Distinct
<1>3. r \in Seq(Timer) /\ Distinct(r) /\ Members(r) = Members(s) \ {c}
  BY <1>2, ListRemove
<1>4. ListOnce'
  BY <1>1, <1>3 DEF ListOnce, Distinct
<1> QED BY <1>1, <1>3, <1>4, InMembers, InMembersPrime

(* The other timers keep their age and interval.                           *)
Others(c) == \A d \in Timer : d # c => age'[d] = age[d] /\ interval'[d] = interval[d]

(* Setting a callback timer: its event timer is pending afterwards.        *)
LEMMA Armed ==
  ASSUME CInv, NEW c \in Timer, initialized, EInv', Pending' = Pending \cup {c},
         ctimer_list' = list_add(ctimer_list, c), UNCHANGED <<queue, alive, initialized>>, Others(c)
  PROVE  CInv'
<1>1. ListOnce' /\ \A d \in Timer : InList(d)' <=> InList(d) \/ d = c
  BY Added DEF CInv
<1>2. Kept'
  BY <1>1 DEF CInv, Kept
<1>3. Late'
  <2> SUFFICES ASSUME NEW d \in Timer, Queued(queue, d)', d \notin Pending', InList(d)'
               PROVE  age'[d] >= interval'[d]
    BY DEF Late
  <2>1. d # c /\ d \notin Pending /\ InList(d) /\ Queued(queue, d)
    BY <1>1
  <2>2. age[d] >= interval[d]
    BY <2>1 DEF CInv, Late
  <2> QED BY <2>1, <2>2 DEF Others
<1> QED BY <1>1, <1>2, <1>3 DEF CInv, Unused

(* Before ctimer_init a timer is only put on the list, or taken off it.    *)
LEMMA Unarmed ==
  ASSUME CInv, ~initialized, EInv', Pending' = Pending, ListOnce',
         UNCHANGED <<queue, alive, initialized>>
  PROVE  CInv'
<1>1. queue = <<>> /\ Pending = {}
  BY DEF CInv, Unused
<1>2. Late'
  BY <1>1 DEF Late, Queued
<1> QED BY <1>1, <1>2 DEF CInv, Unused, Kept

(* Stopping a callback timer.                                              *)
LEMMA Disarmed ==
  ASSUME CInv, NEW c \in Timer, EInv', Pending' = Pending \ {c},
         ctimer_list' = list_remove(ctimer_list, c), UNCHANGED <<queue, alive, initialized>>,
         UNCHANGED <<age, interval>>
  PROVE  CInv'
<1>1. ListOnce' /\ \A d \in Timer : InList(d)' <=> InList(d) /\ d # c
  BY Removed DEF CInv
<1>2. Kept'
  BY <1>1 DEF CInv, Kept
<1>3. Late'
  BY <1>1 DEF CInv, Late
<1> QED BY <1>1, <1>2, <1>3 DEF CInv, Unused

(* The etimer process posts TIMER for a timer that has expired.            *)
LEMMA Posted ==
  ASSUME CInv, NoneAhead, ScanPost, UNCHANGED cvars
  PROVE  CInv'
<1>1. /\ EInv' /\ alive' = alive
  BY PostStep DEF CInv
<1>2. PICK t \in Timer : /\ timer_expired(t) /\ t \in Pending /\ Pending' = Pending \ {t}
                         /\ queue' = Append(queue, [p |-> tp[t], t |-> t])
  BY PostStep DEF CInv
<1>3. UNCHANGED <<age, interval, ctimer_list, initialized>>
  BY DEF ScanPost, cvars
<1>4. age[t] >= interval[t]
  BY <1>2, ExpiredOld, age[t] \in Int, ~(age[t] < -1) DEF CInv, EInv, TypeOK, NoneAhead
<1>5. \A d : Queued(queue, d)' <=> Queued(queue, d) \/ d = t
  <2>1. PICK q, r, m : q = queue /\ r = queue' /\ m = [p |-> tp[t], t |-> t]
    OBVIOUS
  <2>2. r = Append(q, m) /\ m.t = t
    BY <1>2, <2>1
  <2>3. PICK M : q \in Seq(M) /\ m \in M
    <3>1. queue \in Seq([p : Proc \cup {NULL}, t : Timer \cup {NULL}])
      BY DEF CInv, EInv, TypeOK
    <3>2. [p |-> tp[t], t |-> t] \in [p : Proc \cup {NULL}, t : Timer \cup {NULL}]
      BY DEF CInv, EInv, TypeOK
    <3> QED BY <2>1, <3>1, <3>2
  <2>4. PICK n \in Nat : n = Len(q)
    BY <2>3
  <2>5. /\ DOMAIN q = 1..n /\ DOMAIN r = 1..(n + 1) /\ r[n + 1] = m
        /\ \A i \in 1..n : r[i] = q[i]
    BY <2>2, <2>3, <2>4
  <2>6. \A i \in 1..(n + 1) : i = n + 1 \/ i \in 1..n
    OBVIOUS
  <2>7. n + 1 \in 1..(n + 1) /\ \A i \in 1..n : i \in 1..(n + 1)
    OBVIOUS
  <2>8. \A d : Queued(r, d) <=> Queued(q, d) \/ d = t
    <3>1. ASSUME NEW d, Queued(r, d) PROVE Queued(q, d) \/ d = t
      BY <2>2, <2>5, <2>6, <3>1 DEF Queued
    <3>2. ASSUME NEW d, Queued(q, d) PROVE Queued(r, d)
      BY <2>5, <2>7, <3>2 DEF Queued
    <3>3. Queued(r, t)
      BY <2>2, <2>5, <2>7 DEF Queued
    <3> QED BY <3>1, <3>2, <3>3
  <2> QED BY <2>1, <2>8
<1>6. \A d : InList(d)' <=> InList(d)
  BY <1>3 DEF InList
<1>7. Kept'
  BY <1>2, <1>3, <1>5, <1>6 DEF CInv, Kept
<1>8. Late'
  <2> SUFFICES ASSUME NEW d \in Timer, Queued(queue, d)', d \notin Pending', InList(d)'
               PROVE  age'[d] >= interval'[d]
    BY DEF Late
  <2>1. CASE d = t
    BY <1>3, <1>4, <2>1
  <2>2. CASE d # t
    BY <1>2, <1>3, <1>5, <1>6, <2>2 DEF CInv, Late
  <2> QED BY <2>1, <2>2
<1>9. initialized
  BY <1>2 DEF CInv, Unused
<1> QED BY <1>1, <1>3, <1>7, <1>8, <1>9 DEF CInv, Unused, ListOnce

(* The head of the queue is taken.                                         *)
LEMMA QueueTaken ==
  ASSUME NEW M, NEW q \in Seq(M), q # <<>>
  PROVE  /\ \A d : Queued(Tail(q), d) => Queued(q, d)
         /\ \A d : Queued(q, d) => Queued(Tail(q), d) \/ d = Head(q).t
         /\ Queued(q, Head(q).t)
<1>1. PICK n \in Nat : n = Len(q)
  OBVIOUS
<1>2. PICK r : r = Tail(q)
  OBVIOUS
<1>3. /\ n > 0 /\ DOMAIN q = 1..n /\ DOMAIN r = 1..(n - 1) /\ Head(q) = q[1]
      /\ \A i \in 1..(n - 1) : r[i] = q[i + 1]
  BY <1>1, <1>2
<1>4. \A i \in 1..(n - 1) : i + 1 \in 1..n
  OBVIOUS
<1>5. \A i \in 1..n : i = 1 \/ (i - 1 \in 1..(n - 1) /\ (i - 1) + 1 = i)
  OBVIOUS
<1>6. 1 \in 1..n
  BY <1>3
<1>7. ASSUME NEW d, Queued(r, d) PROVE Queued(q, d)
  BY <1>3, <1>4, <1>7 DEF Queued
<1>8. ASSUME NEW d, Queued(q, d), d # Head(q).t PROVE Queued(r, d)
  <2>1. PICK i \in 1..n : q[i].t = d
    BY <1>3, <1>8 DEF Queued
  <2>2. i # 1
    BY <1>3, <1>8, <2>1
  <2>3. i - 1 \in 1..(n - 1) /\ r[i - 1] = q[i]
    BY <1>3, <1>5, <2>2
  <2> QED BY <1>3, <2>1, <2>3 DEF Queued
<1>9. Queued(q, Head(q).t)
  BY <1>3, <1>6 DEF Queued
<1> QED BY <1>2, <1>7, <1>8, <1>9

(* The ctimer process handles an event: h is the timer of the event, whose *)
(* callback has run, if it was on the list.                                *)
LEMMA Handled ==
  ASSUME CInv, TakeEvent, initialized' = initialized, ListOnce', NEW h, h = Head(queue).t,
         \A d \in Timer : InList(d)' <=> InList(d) /\ d # h
  PROVE  CInv'
<1>1. /\ queue # <<>> /\ queue' = Tail(queue)
      /\ UNCHANGED <<clock, timervars, needspoll, scanning, alive, calls>>
  BY DEF TakeEvent
<1>2. EInv' /\ Pending' = Pending
  BY <1>1, IdleStep DEF CInv, EInv, TypeOK
<1>3. /\ \A d : Queued(queue, d)' => Queued(queue, d)
      /\ \A d : Queued(queue, d) => Queued(queue, d)' \/ d = h
  <2>1. PICK q, r, M : q = queue /\ r = queue' /\ M = [p : Proc \cup {NULL}, t : Timer \cup {NULL}]
    OBVIOUS
  <2>2. q \in Seq(M) /\ q # <<>> /\ r = Tail(q) /\ h = Head(q).t
    BY <1>1, <2>1 DEF CInv, EInv, TypeOK
  <2>3. /\ \A d : Queued(r, d) => Queued(q, d)
        /\ \A d : Queued(q, d) => Queued(r, d) \/ d = h
    BY <2>2, QueueTaken
  <2> QED BY <2>1, <2>3
<1>4. UNCHANGED <<age, interval>>
  BY <1>1 DEF timervars
<1>5. Kept'
  BY <1>2, <1>3 DEF CInv, Kept
<1>6. Late'
  BY <1>2, <1>3, <1>4 DEF CInv, Late
<1>7. initialized
  BY <1>1 DEF CInv, Unused
<1> QED BY <1>1, <1>2, <1>5, <1>6, <1>7 DEF CInv, Unused

(* The clock ticks.                                                        *)
LEMMA Ticked ==
  ASSUME CInv, Tick, UNCHANGED cvars
  PROVE  CInv'
<1>1. EInv' /\ Pending' = Pending
  BY TickStep DEF CInv
<1>2. UNCHANGED <<interval, queue, alive, ctimer_list, initialized>>
  BY DEF Tick, cvars
<1>3. \A d \in Timer : age'[d] >= age[d] /\ age[d] \in Int /\ age'[d] \in Int /\ interval[d] \in Int
  <2>1. age' = [t \in Timer |-> IF age[t] < Wrap - 1 THEN age[t] + 1 ELSE age[t]]
    BY DEF Tick
  <2>2. \A d \in Timer : age[d] \in Int /\ interval[d] \in Int
    BY TimerAssumption DEF CInv, EInv, TypeOK
  <2> QED BY <2>1, <2>2, TimerAssumption
<1>4. \A d : InList(d)' <=> InList(d)
  BY <1>2 DEF InList
<1>5. Late'
  <2> SUFFICES ASSUME NEW d \in Timer, Queued(queue, d)', d \notin Pending', InList(d)'
               PROVE  age'[d] >= interval'[d]
    BY DEF Late
  <2>1. age[d] >= interval[d]
    BY <1>1, <1>2, <1>4 DEF CInv, Late
  <2>2. age'[d] >= age[d] /\ age[d] \in Int /\ age'[d] \in Int /\ interval[d] \in Int
    BY <1>3
  <2>3. interval'[d] = interval[d]
    BY <1>2
  <2> QED BY <2>1, <2>2, <2>3
<1>6. Kept'
  BY <1>1, <1>2, <1>4 DEF CInv, Kept
<1> QED BY <1>1, <1>2, <1>5, <1>6 DEF CInv, Unused, ListOnce

(* The timers, the list and the queue are left alone.                      *)
LEMMA Quiet ==
  ASSUME CInv, UNCHANGED <<clock, timervars, queue, alive, calls, cvars>>,
         needspoll' \in BOOLEAN, scanning' \in BOOLEAN
  PROVE  CInv'
<1>1. EInv' /\ Pending' = Pending
  BY IdleStep DEF CInv
<1>2. UNCHANGED <<age, interval, queue, alive, ctimer_list, initialized>>
  BY DEF timervars, cvars
<1>3. \A d : InList(d)' <=> InList(d)
  BY <1>2 DEF InList
<1>4. Kept'
  BY <1>1, <1>2, <1>3 DEF CInv, Kept
<1>5. Late'
  BY <1>1, <1>2, <1>3 DEF CInv, Late
<1> QED BY <1>1, <1>2, <1>4, <1>5 DEF CInv, Unused, ListOnce

(* ctimer_init: the list is empty afterwards.                              *)
LEMMA Initialized ==
  ASSUME CInv, ctimer_init
  PROVE  CInv'
<1>1. /\ ctimer_list' = <<>> /\ initialized' = TRUE
      /\ UNCHANGED <<clock, timervars, queue, alive, calls, needspoll, scanning>>
  BY DEF ctimer_init, vars, timervars
<1>2. EInv' /\ Pending' = Pending
  BY <1>1, IdleStep DEF CInv, EInv, TypeOK
<1>3. ListOnce' /\ \A d : ~InList(d)'
  BY <1>1 DEF ListOnce, InList
<1>4. Kept' /\ Late'
  BY <1>3 DEF Kept, Late
<1> QED BY <1>1, <1>2, <1>3, <1>4 DEF CInv, Unused

(* The calls of the application.                                           *)
LEMMA Called ==
  ASSUME CInv, CCalls
  PROVE  CInv'
<1>1. /\ calls > 0 /\ calls' = calls - 1
      /\ UNCHANGED <<clock, scanning, queue, alive, initialized>>
  BY DEF CCalls
<1>2. Around
  BY <1>1, TimerAssumption DEF Around, CInv, EInv, TypeOK
<1>3. PICK c \in Timer :
       \/ \E t \in Interval : ctimer_set(c, t)
       \/ ctimer_reset(c)
       \/ ctimer_restart(c)
       \/ ctimer_stop(c)
  BY DEF CCalls
<1>4. /\ EInv /\ alive = Proc /\ ctimer_process \in alive /\ interval \in [Timer -> Index]
      /\ Interval \subseteq Index /\ age \in [Timer -> Ages] /\ start \in [Timer -> Index]
      /\ initialized' = initialized
  <2>1. EInv /\ alive = Proc /\ TypeOK
    BY DEF CInv, EInv
  <2>2. ctimer_process \in alive /\ initialized' = initialized
    BY <1>1, <2>1, CtimerAssumption
  <2>3. Interval \subseteq Index
    BY TimerAssumption DEF Index
  <2>4. interval \in [Timer -> Index] /\ age \in [Timer -> Ages] /\ start \in [Timer -> Index]
    BY <2>1 DEF TypeOK, Index, Ages
  <2> QED BY <2>1, <2>2, <2>3, <2>4
<1>5. ASSUME NEW t \in Interval, ctimer_set(c, t) PROVE CInv'
  <2>1. ctimer_list' = list_add(ctimer_list, c)
    BY <1>5 DEF ctimer_set
  <2>2. CASE initialized /\ etimer_set(c, t, ctimer_process)
    <3>1. EInv' /\ Pending' = Pending \cup {c}
      BY <1>2, <1>4, <2>2, SetStep
    <3>2. Others(c)
      BY <1>4, <2>2 DEF Others, etimer_set
    <3> QED BY <1>1, <2>1, <2>2, <3>1, <3>2, Armed
  <2>3. CASE /\ ~initialized /\ interval' = [interval EXCEPT ![c] = t]
             /\ UNCHANGED <<timerlist, tnext, start, tp, next_expiration, age, needspoll>>
    <3>1. interval' \in [Timer -> Index]
      BY <1>4, <2>3
    <3>2. TimeTypes' /\ ListTypes' /\ needspoll' \in BOOLEAN /\ next_expiration' \in Index
      BY <1>4, <2>3, <3>1 DEF TimeTypes, ListTypes, EInv, TypeOK, Index, Ages
    <3>3. ListInv' /\ Pending' = Pending
      BY <1>1, <1>4, <2>3 DEF EInv, ListInv, Pending
    <3>4. AgeInv'
      BY <1>1, <1>4, <2>3 DEF EInv, AgeInv
    <3>5. EInv'
      BY <1>2, <1>4, <3>2, <3>3, <3>4, Composed DEF EInv
    <3>6. ListOnce'
      BY <2>1, Added DEF CInv
    <3> QED BY <1>1, <2>3, <3>3, <3>5, <3>6, Unarmed
  <2> QED BY <1>5, <2>2, <2>3 DEF ctimer_set
<1>6. ASSUME ~initialized, UNCHANGED <<timervars, needspoll>>,
             ctimer_list' = list_add(ctimer_list, c)
      PROVE  CInv'
  <2>1. ListInv' /\ Pending' = Pending /\ AgeInv'
    BY <1>1, <1>4, <1>6 DEF EInv, ListInv, Pending, AgeInv, timervars
  <2>2. TimeTypes' /\ ListTypes' /\ needspoll' \in BOOLEAN /\ next_expiration' \in Index
    BY <1>4, <1>6 DEF TimeTypes, ListTypes, EInv, TypeOK, Index, Ages, timervars
  <2>3. EInv'
    BY <1>2, <1>4, <2>1, <2>2, Composed DEF EInv
  <2>4. ListOnce'
    BY <1>6, Added DEF CInv
  <2> QED BY <1>1, <1>6, <2>1, <2>3, <2>4, Unarmed
<1>7. ASSUME ctimer_reset(c) PROVE CInv'
  <2>1. ctimer_list' = list_add(ctimer_list, c)
    BY <1>7 DEF ctimer_reset
  <2>2. CASE initialized /\ MayReset(c) /\ etimer_reset(c, ctimer_process)
    <3>1. PICK iv : iv = interval
      OBVIOUS
    <3>2. Reset(c, iv, ctimer_process) /\ iv \in [Timer -> Index]
      BY <1>4, <2>2, <3>1 DEF etimer_reset, Reset
    <3>3. EInv' /\ Pending' = Pending \cup {c}
      BY <1>2, <1>4, <2>2, <3>2, ResetStep
    <3>4. Others(c)
      BY <1>4, <3>1, <3>2 DEF Others, Reset
    <3> QED BY <1>1, <2>1, <2>2, <3>3, <3>4, Armed
  <2> QED BY <1>6, <1>7, <2>1, <2>2 DEF ctimer_reset
<1>8. ASSUME ctimer_restart(c) PROVE CInv'
  <2>1. ctimer_list' = list_add(ctimer_list, c)
    BY <1>8 DEF ctimer_restart
  <2>2. CASE initialized /\ etimer_restart(c, ctimer_process)
    <3>1. EInv' /\ Pending' = Pending \cup {c}
      BY <1>2, <1>4, <2>2, RestartStep
    <3>2. Others(c)
      BY <1>4, <2>2 DEF Others, etimer_restart
    <3> QED BY <1>1, <2>1, <2>2, <3>1, <3>2, Armed
  <2> QED BY <1>6, <1>8, <2>1, <2>2 DEF ctimer_restart
<1>9. ASSUME ctimer_stop(c) PROVE CInv'
  <2>1. ctimer_list' = list_remove(ctimer_list, c)
    BY <1>9 DEF ctimer_stop
  <2>2. CASE initialized /\ etimer_stop(c)
    <3>1. EInv' /\ Pending' = Pending \ {c}
      BY <1>2, <1>4, <2>2, StopStep
    <3>2. UNCHANGED <<age, interval>>
      BY <2>2 DEF etimer_stop
    <3> QED BY <1>1, <2>1, <3>1, <3>2, Disarmed
  <2>3. CASE /\ ~initialized
             /\ tnext' = [tnext EXCEPT ![c] = NULL] /\ tp' = [tp EXCEPT ![c] = NULL]
             /\ UNCHANGED <<timerlist, start, interval, next_expiration, age, needspoll>>
    <3>1. Pending = {} /\ Pending' = {}
      <4>1. Pending = {}
        BY <2>3 DEF CInv, Unused
      <4>2. NULL \notin alive /\ alive' = alive /\ tp \in [Timer -> Proc \cup {NULL}]
        BY <1>1, <1>4, TimerAssumption DEF EInv, TypeOK
      <4> QED BY <2>3, <4>1, <4>2 DEF Pending
    <3>2. ListInv'
      <4>1. PICK s : Chain(timerlist, tnext, NULL, s) /\ Elems(s) = {}
        BY <1>4, <3>1 DEF EInv, ListInv
      <4>2. s = <<>>
        <5>1. PICK S : s \in Seq(S)
          BY <4>1 DEF Chain
        <5>2. PICK n \in Nat : n = Len(s)
          BY <5>1
        <5>3. 1 \notin 1..n
          BY <4>1, <5>2 DEF Elems
        <5>4. n = 0
          BY <5>3
        <5> QED BY <5>1, <5>2, <5>4, EmptySeq
      <4>3. timerlist' = NULL
        BY <2>3, <4>1, <4>2 DEF Chain
      <4>4. Chain(timerlist', tnext', NULL, <<>>) /\ Elems(<<>>) = {}
        BY <4>3 DEF Chain, Elems
      <4> QED BY <3>1, <4>4 DEF ListInv
    <3>3. TimeTypes' /\ ListTypes' /\ needspoll' \in BOOLEAN /\ next_expiration' \in Index
      BY <1>4, <2>3 DEF TimeTypes, ListTypes, EInv, TypeOK, Index, Ages
    <3>4. AgeInv'
      BY <1>1, <1>4, <2>3 DEF EInv, AgeInv
    <3>5. EInv'
      BY <1>2, <1>4, <3>2, <3>3, <3>4, Composed DEF EInv
    <3>6. ListOnce'
      BY <2>1, Removed DEF CInv
    <3> QED BY <1>1, <2>3, <3>1, <3>5, <3>6, Unarmed
  <2> QED BY <1>9, <2>2, <2>3 DEF ctimer_stop
<1> QED BY <1>3, <1>5, <1>7, <1>8, <1>9

LEMMA CInvInit ==
  ASSUME CInit PROVE CInv
<1>1. Init /\ ctimer_list = <<>> /\ initialized = FALSE
  BY DEF CInit
<1>2. EInv
  BY <1>1, EInvInit
<1>3. queue = <<>> /\ alive = Proc
  BY <1>1 DEF Init
<1>4. Pending = {}
  BY <1>1, TimerAssumption DEF Pending, Init
<1>5. ListOnce /\ \A d : ~InList(d)
  BY <1>1 DEF ListOnce, InList
<1>6. Kept /\ Late
  BY <1>5 DEF Kept, Late
<1> QED BY <1>1, <1>2, <1>3, <1>4, <1>5, <1>6 DEF CInv, Unused

LEMMA NoneAheadNext ==
  ASSUME EInv, NoneAhead, [CNext]_allvars
  PROVE  NoneAhead'
<1>1. \A d \in Timer : age[d] \in Int /\ interval[d] \in Int
  BY TimerAssumption DEF EInv, TypeOK
<1>2. ASSUME age' = age PROVE NoneAhead'
  BY <1>2 DEF NoneAhead
<1>3. CASE Tick
  BY <1>1, <1>3, TimerAssumption DEF Tick, NoneAhead
<1>4. ASSUME NEW c \in Timer, NEW a \in Int, a >= 0, age' = [age EXCEPT ![c] = a] PROVE NoneAhead'
  BY <1>4 DEF NoneAhead, EInv, TypeOK
<1>5. ASSUME NEW c \in Timer, MayReset(c), etimer_reset(c, ctimer_process) PROVE NoneAhead'
  <2>1. PICK a : a = age[c] - interval[c]
    OBVIOUS
  <2>2. a \in Int /\ a >= 0 /\ age' = [age EXCEPT ![c] = a]
    BY <1>1, <1>5, <2>1 DEF MayReset, etimer_reset, Reset
  <2> QED BY <1>4, <2>2
<1>6. ASSUME NEW c \in Timer, age' = [age EXCEPT ![c] = 0] PROVE NoneAhead'
  <2>1. 0 \in Int /\ 0 >= 0
    OBVIOUS
  <2> QED BY <1>4, <1>6, <2>1
<1>7. CASE CCalls
  <2>1. PICK c \in Timer :
         \/ \E t \in Interval : ctimer_set(c, t)
         \/ ctimer_reset(c) \/ ctimer_restart(c) \/ ctimer_stop(c)
    BY <1>7 DEF CCalls
  <2>2. ASSUME NEW t \in Interval, ctimer_set(c, t) PROVE NoneAhead'
    BY <1>2, <1>6, <2>2 DEF ctimer_set, etimer_set
  <2>3. CASE ctimer_reset(c)
    BY <1>2, <1>5, <2>3 DEF ctimer_reset, timervars
  <2>4. CASE ctimer_restart(c)
    BY <1>2, <1>6, <2>4 DEF ctimer_restart, etimer_restart, timervars
  <2>5. CASE ctimer_stop(c)
    BY <1>2, <2>5 DEF ctimer_stop, etimer_stop
  <2> QED BY <2>1, <2>2, <2>3, <2>4, <2>5
<1>8. CASE \/ EtimerPoll \/ ScanPost \/ ScanFull \/ ScanEnd \/ ctimer_init \/ NoCallback
           \/ \E c \in Timer : Callback(c)
  BY <1>2, <1>8
     DEF EtimerPoll, ScanPost, ScanFull, ScanEnd, ctimer_init, NoCallback, Callback, TakeEvent,
         timervars, vars
<1>9. CASE UNCHANGED allvars
  BY <1>2, <1>9 DEF allvars, vars
<1> QED BY <1>3, <1>7, <1>8, <1>9 DEF CNext

LEMMA CInvNext ==
  ASSUME CInv, NoneAhead, [CNext]_allvars
  PROVE  CInv'
<1>1. CASE Tick /\ UNCHANGED cvars
  BY <1>1, Ticked
<1>2. CASE (EtimerPoll \/ ScanFull \/ ScanEnd) /\ UNCHANGED cvars
  <2>1. UNCHANGED <<clock, timervars, queue, alive, calls, cvars>>
    BY <1>2 DEF EtimerPoll, ScanFull, ScanEnd
  <2>2. needspoll' \in BOOLEAN /\ scanning' \in BOOLEAN
    BY <1>2 DEF EtimerPoll, ScanFull, ScanEnd, CInv, EInv, TypeOK
  <2> QED BY <2>1, <2>2, Quiet
<1>3. CASE UNCHANGED allvars
  <2>1. UNCHANGED <<clock, timervars, queue, alive, calls, cvars>>
    BY <1>3 DEF allvars, vars, timervars
  <2>2. needspoll' \in BOOLEAN /\ scanning' \in BOOLEAN
    BY <1>3 DEF allvars, vars, CInv, EInv, TypeOK
  <2> QED BY <2>1, <2>2, Quiet
<1>4. CASE ScanPost /\ UNCHANGED cvars
  BY <1>4, Posted
<1>5. CASE ctimer_init
  BY <1>5, Initialized
<1>6. ASSUME NEW c \in Timer, Callback(c) PROVE CInv'
  <2>1. /\ TakeEvent /\ c = Head(queue).t
        /\ ctimer_list' = list_remove(ctimer_list, c) /\ initialized' = initialized
    BY <1>6 DEF Callback
  <2>2. ListOnce' /\ \A d \in Timer : InList(d)' <=> InList(d) /\ d # c
    BY <2>1, Removed DEF CInv
  <2> QED BY <2>1, <2>2, Handled
<1>7. CASE NoCallback
  <2>1. PICK h : h = Head(queue).t
    OBVIOUS
  <2>2. TakeEvent /\ ~InList(h) /\ UNCHANGED <<ctimer_list, initialized>>
    BY <1>7, <2>1 DEF NoCallback, cvars
  <2>3. ListOnce' /\ \A d \in Timer : InList(d)' <=> InList(d) /\ d # h
    BY <2>2 DEF CInv, ListOnce, InList
  <2> QED BY <2>1, <2>2, <2>3, Handled
<1>8. CASE CCalls
  BY <1>8, Called
<1> QED BY <1>1, <1>2, <1>3, <1>4, <1>5, <1>6, <1>7, <1>8 DEF CNext

LEMMA CInvariance == CSpec => []CInv
<1>1. CInit => CInv /\ NoneAhead
  <2>1. Wrap - 1 >= 0
    BY TimerAssumption
  <2> QED BY <2>1, CInvInit DEF CInit, Init, NoneAhead
<1>2. CInv /\ NoneAhead /\ [CNext]_allvars => CInv' /\ NoneAhead'
  BY CInvNext, NoneAheadNext DEF CInv
<1> QED BY <1>1, <1>2, PTL DEF CSpec

(* A callback timer on ctimer_list is never forgotten: its event timer is  *)
(* pending or its TIMER event is in the queue, whatever calls are made     *)
(* between the expiration and the event, and even if the queue was full.   *)
THEOREM CallbackNotLost == CSpec => []CallbackKept
<1>1. ASSUME CInv PROVE CallbackKept
  <2>1. \A c \in Timer : c \in Pending <=> Listed(c)
    BY <1>1, ListedChain DEF CInv, EInv, Pending
  <2> QED BY <1>1, <2>1 DEF CInv, Kept, Queued, CallbackKept
<1> QED BY <1>1, CInvariance, PTL

(* A callback that runs before its interval has passed is one whose timer  *)
(* was set again while its earlier TIMER event was in the queue: its event *)
(* timer is pending when the ctimer process matches the event to it.       *)
THEOREM EarlyExplained == CSpec => EarlyOnlyWhenSetAgain
<1> DEFINE Explained(c) == Callback(c) => age[c] >= interval[c] \/ Listed(c)
<1>1. ASSUME CInv, NEW c \in Timer PROVE Explained(c)
  <2> SUFFICES ASSUME Callback(c) PROVE age[c] >= interval[c] \/ Listed(c)
    OBVIOUS
  <2>1. queue # <<>> /\ Head(queue).t = c /\ InList(c)
    BY DEF Callback, TakeEvent
  <2>2. Queued(queue, c)
    <3>1. PICK q, M : q = queue /\ M = [p : Proc \cup {NULL}, t : Timer \cup {NULL}]
      OBVIOUS
    <3>2. q \in Seq(M) /\ q # <<>>
      BY <1>1, <2>1, <3>1 DEF CInv, EInv, TypeOK
    <3>3. Queued(q, Head(q).t)
      BY <3>2, QueueTaken
    <3> QED BY <2>1, <3>1, <3>3
  <2>3. c \in Pending <=> Listed(c)
    BY <1>1, ListedChain DEF CInv, EInv, Pending
  <2> QED BY <1>1, <2>1, <2>2, <2>3 DEF CInv, Late
<1>2. CInv /\ [CNext]_allvars => [\A c \in Timer : Explained(c)]_allvars
  BY <1>1
<1> QED BY <1>2, CInvariance, PTL DEF CSpec, EarlyOnlyWhenSetAgain
=============================================================================
