----------------------------- MODULE CoapProofs -----------------------------
(***************************************************************************)
(* Proofs about CoAP transactions (Coap), for any number of requests,      *)
(* endpoints, resources, transaction blocks and retransmissions: between   *)
(* handlers exactly the open transactions have a timer, each is a          *)
(* confirmable message with an id of its own, and no block is open twice.  *)
(***************************************************************************)
EXTENDS Coap, LibTheorems

Peer == Endpoint \cup {NULL}
Transaction ==
  [mid : Nat, endpoint : Peer, con : BOOLEAN, retrans_counter : Nat,
   callback : Request \cup {NULL}]
TxState ==
  [trans : [Block -> Transaction], list : Seq(Block), timers : SUBSET Block,
   sent : SUBSET (Nat \X Peer)]
Observer == [endpoint : Endpoint, uri : Uri, last_mid : Nat]
Waiting == [mid : Nat, block_num : Nat]

(* The blocks in which a message of x is open.                             *)
Open(x) == Members(x.list)

(* Message ids in use are at most m and different from each other.         *)
OwnMids(x, m) ==
  /\ \A b \in Open(x) : x.trans[b].mid \in 1..m
  /\ \A b, c \in Open(x) : x.trans[b].mid = x.trans[c].mid => b = c

Counted(x) == \A b \in Open(x) : x.trans[b].retrans_counter <= COAP_MAX_RETRANSMIT

(* Every open transaction but that of the blocks in S is confirmable and   *)
(* has its timer; the handler at work has still to send or clear those.    *)
ServedBut(x, S) ==
  /\ x.timers \subseteq Open(x) /\ Open(x) \ S \subseteq x.timers
  /\ \A b \in Open(x) \ S : x.trans[b].con

Good(x, m, S) ==
  /\ x \in TxState /\ Distinct(x.list)
  /\ OwnMids(x, m) /\ Counted(x) /\ ServedBut(x, S)

CoapTypeOK ==
  /\ Tx \in TxState
  /\ current_mid \in Nat
  /\ observers \in Seq(Observer)
  /\ req \in [Request -> Waiting]
  /\ stray \in BOOLEAN

CoapInv == CoapTypeOK /\ Good(Tx, current_mid, {})

-----------------------------------------------------------------------------
(* Clearing a transaction leaves the others as they are.                   *)
LEMMA Cleared ==
  ASSUME NEW x, NEW m \in Nat, NEW b \in Block, Good(x, m, {b})
  PROVE  Good(coap_clear_transaction(x, b), m, {}) /\ b \notin Open(coap_clear_transaction(x, b))
<1>1. PICK y : y = coap_clear_transaction(x, b)
  OBVIOUS
<1>2. PICK l : l = list_remove(x.list, b)
  OBVIOUS
<1>3. x \in TxState /\ x.list \in Seq(Block) /\ Distinct(x.list)
  BY DEF Good, TxState
<1>4. l \in Seq(Block) /\ Distinct(l) /\ Members(l) = Members(x.list) \ {b}
  BY <1>2, <1>3, ListRemove
<1>5. PICK n : n = [NoTransaction EXCEPT !.callback = x.trans[b].callback]
  OBVIOUS
<1>6. n \in Transaction
  BY <1>3, <1>5, 0 \in Nat DEF NoTransaction, Transaction, TxState, Peer
<1>7. y = [x EXCEPT !.list = l, !.timers = @ \ {b}, !.trans[b] = n]
  BY <1>1, <1>2, <1>5 DEF coap_clear_transaction
<1>8. /\ y.list = l /\ y.timers = x.timers \ {b} /\ y.sent = x.sent
      /\ y.trans = [x.trans EXCEPT ![b] = n] /\ y \in TxState
  BY <1>3, <1>4, <1>6, <1>7 DEF TxState
<1>9. Open(y) = Open(x) \ {b} /\ Open(x) \subseteq Block
  BY <1>3, <1>4, <1>8 DEF Open, Members
<1>10. \A c \in Open(y) : y.trans[c] = x.trans[c]
  BY <1>3, <1>8, <1>9 DEF TxState
<1>11. OwnMids(y, m)
  BY <1>9, <1>10 DEF Good, OwnMids
<1>12. Counted(y)
  BY <1>9, <1>10 DEF Good, Counted
<1>13. ServedBut(y, {})
  BY <1>8, <1>9, <1>10 DEF Good, ServedBut
<1>14. Good(y, m, {})
  BY <1>4, <1>8, <1>11, <1>12, <1>13 DEF Good
<1> QED BY <1>1, <1>9, <1>14

(* Sending the message of an open transaction leaves it confirmable and    *)
(* with a timer, or not open.                                              *)
LEMMA Sent ==
  ASSUME NEW x, NEW m \in Nat, NEW b \in Block, Good(x, m, {b}), b \in Open(x)
  PROVE  Good(coap_send_transaction(x, b), m, {})
<1>1. CASE ~x.trans[b].con
  <2>1. coap_send_transaction(x, b) = coap_clear_transaction(x, b)
    BY <1>1 DEF coap_send_transaction
  <2> QED BY <2>1, Cleared
<1>2. CASE x.trans[b].con
  <2>1. PICK y : y = coap_send_transaction(x, b)
    OBVIOUS
  <2>2. PICK p : p = <<x.trans[b].mid, x.trans[b].endpoint>>
    OBVIOUS
  <2>3. x \in TxState
    BY DEF Good
  <2>4. x.trans[b] \in Transaction
    BY <2>3 DEF TxState
  <2>5. p \in Nat \X Peer
    BY <2>2, <2>4 DEF Transaction
  <2>6. y = [x EXCEPT !.timers = @ \cup {b}, !.sent = @ \cup {p}]
    BY <1>2, <2>1, <2>2 DEF coap_send_transaction
  <2>7. /\ y.list = x.list /\ y.timers = x.timers \cup {b} /\ y.trans = x.trans
        /\ y \in TxState
    BY <2>3, <2>5, <2>6 DEF TxState
  <2>8. Open(y) = Open(x)
    BY <2>7 DEF Open
  <2>9. OwnMids(y, m) /\ Counted(y)
    BY <2>7, <2>8 DEF Good, OwnMids, Counted
  <2>10. ServedBut(y, {})
    BY <1>2, <2>7, <2>8 DEF Good, ServedBut
  <2>11. Good(y, m, {})
    BY <2>7, <2>9, <2>10 DEF Good
  <2> QED BY <2>1, <2>11
<1> QED BY <1>1, <1>2

(* A transaction that is served may be handled like any other.             *)
LEMMA Handled ==
  ASSUME NEW x, NEW m, NEW b, Good(x, m, {})
  PROVE  Good(x, m, {b})
BY DEF Good, ServedBut


(* Writing an open transaction's callback and kind changes no message id,  *)
(* list or timer.                                                          *)
LEMMA Marked ==
  ASSUME NEW x, NEW m \in Nat, NEW b \in Block, Good(x, m, {b}), NEW t \in Transaction,
         t.mid = x.trans[b].mid, t.retrans_counter = x.trans[b].retrans_counter,
         NEW y, y = [x EXCEPT !.trans = [x.trans EXCEPT ![b] = t]]
  PROVE  Good(y, m, {b}) /\ Open(y) = Open(x) /\ Opened(y) = Opened(x)
<1>1. x \in TxState
  BY DEF Good
<1>2. /\ y.list = x.list /\ y.timers = x.timers /\ y.sent = x.sent
      /\ y.trans = [x.trans EXCEPT ![b] = t] /\ y \in TxState
  BY <1>1 DEF TxState
<1>3. Open(y) = Open(x) /\ Opened(y) = Opened(x) /\ Open(x) \subseteq Block
  BY <1>1, <1>2 DEF Open, Opened, Last, Members, TxState
<1>4. \A c \in Block : /\ y.trans[c].mid = x.trans[c].mid
                       /\ y.trans[c].retrans_counter = x.trans[c].retrans_counter
                       /\ c # b => y.trans[c] = x.trans[c]
  BY <1>1, <1>2 DEF TxState
<1>5. OwnMids(y, m) /\ Counted(y)
  BY <1>3, <1>4 DEF Good, OwnMids, Counted
<1>6. ServedBut(y, {b})
  BY <1>2, <1>3, <1>4 DEF Good, ServedBut
<1> QED BY <1>2, <1>3, <1>5, <1>6 DEF Good

(* The first free block is a free block.                                   *)
LEMMA FirstFree ==
  ASSUME NEW x, FreeBlocks(x) # {}
  PROVE  Min(FreeBlocks(x)) \in Block /\ Min(FreeBlocks(x)) \notin Open(x)
<1>1. PICK F : F = FreeBlocks(x)
  OBVIOUS
<1>2. F \subseteq Nat /\ F # {}
  BY <1>1, CoapAssumption DEF FreeBlocks, Block
<1>3. Min(F) \in F
  BY <1>2, Least DEF Min
<1> QED BY <1>1, <1>3 DEF FreeBlocks, Open, Members, ToSet

(* A new transaction is open in a block of its own, under the next id; the *)
(* handler has still to send it.                                           *)
LEMMA NewOpened ==
  ASSUME NEW x, NEW m \in Nat, Good(x, m, {}), FreeBlocks(x) # {}, NEW ep \in Peer,
         NEW y, y = coap_new_transaction(x, m + 1, ep), NEW b, b = Opened(y)
  PROVE  b \in Block /\ b \in Open(y) /\ Good(y, m + 1, {b})
<1>1. PICK f : f = Min(FreeBlocks(x))
  OBVIOUS
<1>2. f \in Block /\ f \notin Open(x)
  BY <1>1, FirstFree
<1>3. x \in TxState /\ x.list \in Seq(Block) /\ Distinct(x.list)
  BY DEF Good, TxState
<1>4. PICK l : l = list_add(x.list, f)
  OBVIOUS
<1>5. l \in Seq(Block) /\ Distinct(l) /\ Members(l) = Members(x.list) \cup {f} /\ Last(l) = f
  <2>1. l \in Seq(Block) /\ Distinct(l) /\ Members(l) = Members(x.list) \cup {f}
    BY <1>2, <1>3, <1>4, ListAdd
  <2>2. PICK r : r = list_remove(x.list, f)
    OBVIOUS
  <2>3. r \in Seq(Block) /\ l = Append(r, f)
    BY <1>3, <1>4, <2>2, ListRemove DEF list_add
  <2>4. Last(l) = f
    BY <1>2, <2>3 DEF Last
  <2> QED BY <2>1, <2>4
<1>6. PICK t : t = [x.trans[f] EXCEPT !.mid = m + 1, !.endpoint = ep, !.retrans_counter = 0]
  OBVIOUS
<1>7. t \in Transaction /\ t.mid = m + 1 /\ t.retrans_counter = 0
  <2>1. x.trans[f] \in Transaction
    BY <1>2, <1>3 DEF TxState
  <2>2. m + 1 \in Nat /\ 0 \in Nat
    OBVIOUS
  <2> QED BY <1>6, <2>1, <2>2 DEF Transaction
<1>8. y = [x EXCEPT !.list = l, !.trans[f] = t]
  BY <1>1, <1>4, <1>6 DEF coap_new_transaction
<1>9. /\ y.list = l /\ y.timers = x.timers /\ y.sent = x.sent
      /\ y.trans = [x.trans EXCEPT ![f] = t] /\ y \in TxState
  <2>1. PICK TT, LL, MM, SS : /\ TT = [Block -> Transaction] /\ LL = Seq(Block)
                              /\ MM = SUBSET Block /\ SS = SUBSET (Nat \X Peer)
    OBVIOUS
  <2>2. x \in [trans : TT, list : LL, timers : MM, sent : SS] /\ l \in LL
    BY <1>3, <1>5, <2>1 DEF TxState
  <2>3. PICK q : q = [x.trans EXCEPT ![f] = t]
    OBVIOUS
  <2>4. q \in TT
    BY <1>2, <1>7, <2>1, <2>2, <2>3
  <2>5. y = [x EXCEPT !.list = l, !.trans = q]
    BY <1>8, <2>2, <2>3
  <2>6. /\ y.list = l /\ y.timers = x.timers /\ y.sent = x.sent /\ y.trans = q
        /\ y \in [trans : TT, list : LL, timers : MM, sent : SS]
    BY <2>2, <2>4, <2>5
  <2> QED BY <2>1, <2>3, <2>6 DEF TxState
<1>10. b = f
  BY <1>5, <1>9 DEF Opened
<1>11. Open(y) = Open(x) \cup {f} /\ Open(x) \subseteq Block
  <2>1. Open(x) \subseteq Block
    BY <1>3 DEF Open, Members
  <2> QED BY <1>5, <1>9, <2>1 DEF Open
<1>12. y.trans[f] = t /\ \A c \in Open(x) : y.trans[c] = x.trans[c]
  BY <1>2, <1>3, <1>9, <1>11 DEF TxState
<1>13. /\ \A c \in Open(x) : x.trans[c].mid \in 1..m
       /\ \A c, d \in Open(x) : x.trans[c].mid = x.trans[d].mid => c = d
  BY DEF Good, OwnMids
<1>14. OwnMids(y, m + 1)
  <2>1. ASSUME NEW c \in Open(y) PROVE y.trans[c].mid \in 1..(m + 1)
    BY <1>7, <1>11, <1>12, <1>13, <2>1
  <2>2. ASSUME NEW c \in Open(y), NEW d \in Open(y), y.trans[c].mid = y.trans[d].mid PROVE c = d
    <3>1. \A e \in Open(x) : y.trans[e].mid # m + 1
      BY <1>12, <1>13
    <3> QED BY <1>7, <1>11, <1>12, <1>13, <2>2, <3>1
  <2> QED BY <2>1, <2>2 DEF OwnMids
<1>15. Counted(y)
  BY <1>7, <1>11, <1>12, CoapAssumption DEF Good, Counted
<1>16. ServedBut(y, {b})
  BY <1>2, <1>9, <1>10, <1>11, <1>12 DEF Good, ServedBut
<1> QED BY <1>2, <1>5, <1>9, <1>10, <1>11, <1>14, <1>15, <1>16 DEF Good

(* A request's transaction is open and served after progress_request.      *)
LEMMA ProgressServed ==
  ASSUME NEW x, NEW m \in Nat, Good(x, m, {}), FreeBlocks(x) # {}, NEW ep \in Peer,
         NEW r \in Request
  PROVE  Good(Progressed(x, r, m + 1, ep), m + 1, {})
<1>1. PICK y : y = coap_new_transaction(x, m + 1, ep)
  OBVIOUS
<1>2. PICK b : b = Opened(y)
  OBVIOUS
<1>3. b \in Block /\ b \in Open(y) /\ Good(y, m + 1, {b})
  BY <1>1, <1>2, NewOpened
<1>4. PICK z : z = [y EXCEPT !.trans[b].callback = r, !.trans[b].con = TRUE]
  OBVIOUS
<1>5. PICK t : t = [y.trans[b] EXCEPT !.callback = r, !.con = TRUE]
  OBVIOUS
<1>6. y \in TxState /\ y.trans[b] \in Transaction
  BY <1>3 DEF Good, TxState
<1>7. /\ t \in Transaction /\ t.mid = y.trans[b].mid
      /\ t.retrans_counter = y.trans[b].retrans_counter
  BY <1>5, <1>6 DEF Transaction
<1>8. z = [y EXCEPT !.trans = [y.trans EXCEPT ![b] = t]]
  BY <1>3, <1>4, <1>5, <1>6 DEF TxState, Transaction
<1>9. Good(z, m + 1, {b}) /\ b \in Open(z) /\ b = Opened(z)
  BY <1>2, <1>3, <1>7, <1>8, Marked, m + 1 \in Nat
<1>10. Good(coap_send_transaction(z, b), m + 1, {})
  BY <1>3, <1>9, Sent, m + 1 \in Nat
<1>11. Progressed(x, r, m + 1, ep) = coap_send_transaction(z, b)
  BY <1>1, <1>2, <1>4, <1>9 DEF Progressed
<1> QED BY <1>10, <1>11


-----------------------------------------------------------------------------
(* Ids that are handed out and not used harm nothing.                      *)
LEMMA IdSkipped ==
  ASSUME NEW x, NEW m \in Nat, Good(x, m, {})
  PROVE  Good(x, m + 1, {})
<1>1. \A i \in 1..m : i \in 1..(m + 1)
  OBVIOUS
<1> QED BY <1>1 DEF Good, OwnMids

(* What the loop over the observers keeps.                                 *)
LoopOK(s) ==
  \E m, x, o : /\ m \in Nat /\ o \in Seq(Observer)
               /\ s = [mid |-> m, x |-> x, obs |-> o] /\ Good(x, m, {})

(* One notification keeps the transactions served.                         *)
LEMMA NotifyServed ==
  ASSUME NEW s, LoopOK(s), NEW o \in Observer, NEW con \in BOOLEAN
  PROVE  LoopOK(Notify(s, o, con))
<1>1. PICK m, x, obs : /\ m \in Nat /\ obs \in Seq(Observer)
                       /\ s = [mid |-> m, x |-> x, obs |-> obs] /\ Good(x, m, {})
  BY DEF LoopOK
<1>2. s.mid = m /\ s.x = x /\ s.obs = obs /\ m + 1 \in Nat
  BY <1>1
<1>3. CASE FreeBlocks(x) = {}
  <2>1. Notify(s, o, con) = [s EXCEPT !.mid = m + 1, !.obs = Append(@, o)]
    BY <1>2, <1>3 DEF Notify
  <2>2. Notify(s, o, con) = [mid |-> m + 1, x |-> x, obs |-> Append(obs, o)]
    BY <1>1, <2>1
  <2>3. Append(obs, o) \in Seq(Observer)
    BY <1>1, AppendProperties
  <2>4. Good(x, m + 1, {})
    BY <1>1, IdSkipped
  <2> QED BY <1>2, <2>2, <2>3, <2>4 DEF LoopOK
<1>4. CASE FreeBlocks(x) # {}
  <2>1. o.endpoint \in Peer
    BY DEF Observer, Peer
  <2>2. PICK ep : ep = o.endpoint
    OBVIOUS
  <2>3. PICK y : y = coap_new_transaction(x, m + 1, ep)
    OBVIOUS
  <2>4. PICK b : b = Opened(y)
    OBVIOUS
  <2>5. b \in Block /\ b \in Open(y) /\ Good(y, m + 1, {b})
    BY <1>1, <1>4, <2>1, <2>2, <2>3, <2>4, NewOpened
  <2>6. PICK z : z = [y EXCEPT !.trans[b].con = con]
    OBVIOUS
  <2>7. PICK t : t = [y.trans[b] EXCEPT !.con = con]
    OBVIOUS
  <2>8. y \in TxState /\ y.trans[b] \in Transaction
    BY <2>5 DEF Good, TxState
  <2>9. /\ t \in Transaction /\ t.mid = y.trans[b].mid
        /\ t.retrans_counter = y.trans[b].retrans_counter
    BY <2>7, <2>8 DEF Transaction
  <2>10. z = [y EXCEPT !.trans = [y.trans EXCEPT ![b] = t]]
    BY <2>6, <2>7
  <2>11. Good(z, m + 1, {b}) /\ b \in Open(z) /\ b = Opened(z)
    BY <1>2, <2>4, <2>5, <2>9, <2>10, Marked
  <2>12. PICK w : w = coap_send_transaction(z, b)
    OBVIOUS
  <2>13. Good(w, m + 1, {})
    BY <1>2, <2>5, <2>11, <2>12, Sent
  <2>14. PICK q : q = [o EXCEPT !.last_mid = m + 1]
    OBVIOUS
  <2>15. q \in Observer
    BY <1>2, <2>14 DEF Observer
  <2>16. Append(obs, q) \in Seq(Observer)
    BY <1>1, <2>15, AppendProperties
  <2>17. Notify(s, o, con) = [mid |-> m + 1, x |-> w, obs |-> Append(obs, q)]
    BY <1>2, <1>4, <2>2, <2>3, <2>4, <2>6, <2>11, <2>12, <2>14 DEF Notify
  <2> QED BY <1>2, <2>13, <2>16, <2>17 DEF LoopOK
<1> QED BY <1>3, <1>4

(* So does every turn of the loop.                                         *)
LEMMA TurnServed ==
  ASSUME observers \in Seq(Observer), NEW s, LoopOK(s), NEW i \in 1..Len(observers),
         NEW uri, NEW first \in Nat
  PROVE  LoopOK(NotifyTurn(s, i, uri, first))
<1>1. observers[i] \in Observer /\ (i >= first) \in BOOLEAN
  OBVIOUS
<1>2. PICK o, con : o = observers[i] /\ con = (i >= first)
  OBVIOUS
<1>3. CASE o.uri = uri
  <2>1. NotifyTurn(s, i, uri, first) = Notify(s, o, con)
    BY <1>2, <1>3 DEF NotifyTurn
  <2>2. LoopOK(Notify(s, o, con))
    BY <1>1, <1>2, NotifyServed
  <2> QED BY <2>1, <2>2
<1>4. CASE o.uri # uri
  <2>1. PICK m, x, obs : /\ m \in Nat /\ obs \in Seq(Observer)
                         /\ s = [mid |-> m, x |-> x, obs |-> obs] /\ Good(x, m, {})
    BY DEF LoopOK
  <2>2. NotifyTurn(s, i, uri, first) = [mid |-> m, x |-> x, obs |-> Append(obs, o)]
    BY <1>2, <1>4, <2>1 DEF NotifyTurn
  <2>3. Append(obs, o) \in Seq(Observer)
    BY <1>1, <1>2, <2>1, AppendProperties
  <2> QED BY <2>1, <2>2, <2>3 DEF LoopOK
<1> QED BY <1>3, <1>4

(* f is what the loop has after each of the first n turns.                 *)
Loop(f, n, uri, first) ==
  f = [i \in 0..n |-> IF i = 0 THEN [mid |-> current_mid, x |-> Tx, obs |-> <<>>]
                      ELSE NotifyTurn(f[i - 1], i, uri, first)]

(* The loop is defined for any number of turns: a least number for which   *)
(* it is not would have a predecessor for which it is.                     *)
LEMMA LoopDefined ==
  ASSUME NEW uri, NEW first, NEW N \in Nat
  PROVE  \E f : Loop(f, N, uri, first)
<1> DEFINE Base == [mid |-> current_mid, x |-> Tx, obs |-> <<>>]
           Bad == {n \in Nat : ~ \E f : Loop(f, n, uri, first)}
<1> SUFFICES ASSUME Bad # {} PROVE FALSE
  OBVIOUS
<1>1. PICK n \in Bad : \A k \in Bad : n <= k
  <2>1. PICK B : B = Bad
    OBVIOUS
  <2>2. B \subseteq Nat /\ B # {}
    BY <2>1
  <2> QED BY <2>1, <2>2, Least
<1>2. n \in Nat /\ ~ \E f : Loop(f, n, uri, first)
  BY <1>1
<1>3. CASE n = 0
  <2> DEFINE g == [i \in 0..0 |-> Base]
  <2>1. Loop(g, 0, uri, first)
    BY DEF Loop
  <2> QED BY <1>2, <1>3, <2>1
<1>4. CASE n # 0
  <2>1. n - 1 \in Nat /\ n - 1 \notin Bad
    BY <1>1, <1>2, <1>4
  <2>2. PICK f : Loop(f, n - 1, uri, first)
    BY <2>1
  <2> DEFINE g == [i \in 0..n |-> IF i = n THEN NotifyTurn(f[n - 1], n, uri, first) ELSE f[i]]
  <2>3. \A i \in 0..(n - 1) : g[i] = f[i]
    BY <1>2
  <2>4. ASSUME NEW i \in 0..n
        PROVE  g[i] = IF i = 0 THEN Base ELSE NotifyTurn(g[i - 1], i, uri, first)
    <3>1. CASE i = n
      <4>1. g[i] = NotifyTurn(f[n - 1], n, uri, first) /\ n - 1 \in 0..(n - 1)
        BY <1>2, <1>4, <3>1
      <4>2. g[n - 1] = f[n - 1]
        BY <2>3, <4>1
      <4> QED BY <1>4, <3>1, <4>1, <4>2
    <3>2. CASE i # n
      <4>1. i \in 0..(n - 1) /\ (i # 0 => i - 1 \in 0..(n - 1))
        BY <1>2, <3>2
      <4>2. f[i] = IF i = 0 THEN Base ELSE NotifyTurn(f[i - 1], i, uri, first)
        BY <2>2, <4>1 DEF Loop
      <4>3. g[i] = f[i] /\ (i # 0 => g[i - 1] = f[i - 1])
        BY <2>3, <4>1
      <4> QED BY <4>2, <4>3
    <3> QED BY <3>1, <3>2
  <2>5. PICK h : h = g
    OBVIOUS
  <2>6. h = [i \in 0..n |-> h[i]]
    BY <2>5
  <2>7. \A i \in 0..n : h[i] = IF i = 0 THEN Base ELSE NotifyTurn(h[i - 1], i, uri, first)
    BY <2>4, <2>5
  <2> HIDE DEF g, Base
  <2>8. h = [i \in 0..n |-> IF i = 0 THEN Base ELSE NotifyTurn(h[i - 1], i, uri, first)]
    BY <2>6, <2>7
  <2>9. Loop(h, n, uri, first)
    BY <2>8 DEF Loop, Base
  <2> QED BY <1>2, <2>9
<1> QED BY <1>3, <1>4

(* The loop over all observers keeps the transactions served.              *)
LEMMA AllNotified ==
  ASSUME CoapInv, NEW uri, NEW first \in Nat
  PROVE  LoopOK(Notified(uri, first)[Len(observers)])
<1>1. PICK N \in Nat : N = Len(observers)
  BY DEF CoapInv, CoapTypeOK
<1>2. PICK f : f = Notified(uri, first)
  OBVIOUS
<1>3. f = CHOOSE g : Loop(g, N, uri, first)
  BY <1>1, <1>2 DEF Notified, Loop
<1>4. Loop(f, N, uri, first)
  BY <1>3, LoopDefined
<1> DEFINE Base == [mid |-> current_mid, x |-> Tx, obs |-> <<>>]
           Bad == {n \in 0..N : ~LoopOK(f[n])}
<1>5. \A i \in 0..N : f[i] = IF i = 0 THEN Base ELSE NotifyTurn(f[i - 1], i, uri, first)
  BY <1>4 DEF Loop
<1>6. LoopOK(Base)
  <2>1. <<>> \in Seq(Observer)
    OBVIOUS
  <2> QED BY <2>1 DEF LoopOK, CoapInv, CoapTypeOK
<1> HIDE DEF Base
<1>7. CASE Bad # {}
  <2>1. PICK n \in Bad : \A k \in Bad : n <= k
    <3>1. PICK B : B = Bad
      OBVIOUS
    <3>2. B \subseteq Nat /\ B # {}
      BY <1>7, <3>1
    <3> QED BY <3>1, <3>2, Least
  <2>2. n \in 0..N /\ ~LoopOK(f[n])
    BY <2>1
  <2>3. n # 0
    BY <1>5, <1>6, <2>2
  <2>4. n - 1 \in 0..N /\ n - 1 \notin Bad /\ n \in 1..N
    BY <2>1, <2>2, <2>3
  <2>5. LoopOK(f[n - 1])
    BY <2>4
  <2>6. PICK s : s = f[n - 1]
    OBVIOUS
  <2>7. LoopOK(NotifyTurn(s, n, uri, first))
    BY <1>1, <2>4, <2>5, <2>6, TurnServed DEF CoapInv, CoapTypeOK
  <2>8. f[n] = NotifyTurn(s, n, uri, first)
    BY <1>5, <2>2, <2>3, <2>6
  <2> QED BY <2>2, <2>7, <2>8
<1>8. CASE Bad = {}
  BY <1>1, <1>2, <1>8
<1> QED BY <1>7, <1>8


-----------------------------------------------------------------------------
(* Taking the first of some positions out of a sequence.                   *)
LEMMA RemovedTyped ==
  ASSUME NEW s, NEW T, s \in Seq(T), NEW I, I \subseteq 1..Len(s), I # {}
  PROVE  RemoveAt(s, Min(I)) \in Seq(T)
<1>1. PICK n \in Nat : n = Len(s)
  OBVIOUS
<1>2. Min(I) \in I
  <2>1. I \subseteq Nat
    BY <1>1
  <2> QED BY <2>1, Least DEF Min
<1>3. PICK k \in 1..n : k = Min(I)
  BY <1>1, <1>2
<1>4. PICK a \in Int, b \in Int : a = k - 1 /\ b = k + 1
  OBVIOUS
<1>5. (\A i \in 1..a : s[i] \in T) /\ (\A i \in b..n : s[i] \in T) /\ 1 \in Int /\ n \in Int
  <2>1. \A i \in 1..n : s[i] \in T
    BY <1>1
  <2>2. (\A i \in 1..a : i \in 1..n) /\ (\A i \in b..n : i \in 1..n)
    BY <1>4
  <2> QED BY <2>1, <2>2
<1>6. SubSeq(s, 1, a) \in Seq(T) /\ SubSeq(s, b, n) \in Seq(T)
  BY <1>5, SubSeqProperties
<1>7. RemoveAt(s, k) = SubSeq(s, 1, a) \o SubSeq(s, b, n)
  BY <1>1, <1>4 DEF RemoveAt
<1>8. SubSeq(s, 1, a) \o SubSeq(s, b, n) \in Seq(T)
  BY <1>6, ConcatProperties
<1> QED BY <1>3, <1>7, <1>8

(* Removing an observer leaves a list of observers.                        *)
LEMMA ObserversTyped ==
  ASSUME observers \in Seq(Observer), NEW ep, NEW mid, NEW uri
  PROVE  /\ coap_remove_observer_by_client(ep) \in Seq(Observer)
         /\ coap_remove_observer_by_mid(ep, mid) \in Seq(Observer)
         /\ coap_remove_observer_by_uri(ep, uri) \in Seq(Observer)
<1>1. PICK s : s = observers
  OBVIOUS
<1> DEFINE C == {i \in 1..Len(s) : s[i].endpoint = ep}
           M == {i \in 1..Len(s) : s[i].endpoint = ep /\ s[i].last_mid = mid}
           U == {i \in 1..Len(s) : s[i].endpoint = ep /\ s[i].uri = uri}
<1>2. coap_remove_observer_by_client(ep) = IF C = {} THEN s ELSE RemoveAt(s, Min(C))
  BY <1>1 DEF coap_remove_observer_by_client, RemoveFirstMatch, SelectInSeq, SelectInSubSeq
<1>3. coap_remove_observer_by_mid(ep, mid) = IF M = {} THEN s ELSE RemoveAt(s, Min(M))
  BY <1>1 DEF coap_remove_observer_by_mid, RemoveFirstMatch, SelectInSeq, SelectInSubSeq
<1>4. coap_remove_observer_by_uri(ep, uri) = IF U = {} THEN s ELSE RemoveAt(s, Min(U))
  BY <1>1 DEF coap_remove_observer_by_uri, RemoveFirstMatch, SelectInSeq, SelectInSubSeq
<1>5. C \subseteq 1..Len(s) /\ M \subseteq 1..Len(s) /\ U \subseteq 1..Len(s)
  OBVIOUS
<1> HIDE DEF C, M, U
<1>6. C # {} => RemoveAt(s, Min(C)) \in Seq(Observer)
  BY <1>1, <1>5, RemovedTyped
<1>7. M # {} => RemoveAt(s, Min(M)) \in Seq(Observer)
  BY <1>1, <1>5, RemovedTyped
<1>8. U # {} => RemoveAt(s, Min(U)) \in Seq(Observer)
  BY <1>1, <1>5, RemovedTyped
<1> QED BY <1>1, <1>2, <1>3, <1>4, <1>6, <1>7, <1>8

(* Registering an observer leaves a list of observers.                     *)
LEMMA AddTyped ==
  ASSUME observers \in Seq(Observer), NEW ep \in Endpoint, NEW uri \in Uri
  PROVE  add_observer(ep, uri) \in Seq(Observer)
<1>1. PICK r : r = coap_remove_observer_by_uri(ep, uri)
  OBVIOUS
<1>2. r \in Seq(Observer)
  BY <1>1, ObserversTyped
<1>3. PICK o : o = [endpoint |-> ep, uri |-> uri, last_mid |-> 0]
  OBVIOUS
<1>4. o \in Observer
  BY <1>3, 0 \in Nat DEF Observer
<1>5. Append(r, o) \in Seq(Observer)
  BY <1>2, <1>4, AppendProperties
<1> QED BY <1>1, <1>2, <1>3, <1>5 DEF add_observer

-----------------------------------------------------------------------------
(* A handler that leaves the transactions in a good state x keeps CoapInv. *)
LEMMA Becomes ==
  ASSUME NEW x, NEW m \in Nat, Good(x, m, {}), Become(x), current_mid' = m,
         observers' \in Seq(Observer), req' \in [Request -> Waiting], stray' \in BOOLEAN
  PROVE  CoapInv'
<1>1. x \in TxState
  BY DEF Good
<1>2. x = [trans |-> x.trans, list |-> x.list, timers |-> x.timers, sent |-> x.sent]
  BY <1>1 DEF TxState
<1>3. Tx' = x
  BY <1>2 DEF Become, Tx
<1>4. Good(Tx, current_mid, {})'
  BY <1>3
<1>5. CoapTypeOK'
  BY <1>1, <1>3 DEF CoapTypeOK
<1> QED BY <1>4, <1>5 DEF CoapInv

(* An answer or a timeout that ends a request.                             *)
LEMMA FinishKeeps ==
  ASSUME CoapInv, NEW x, NEW b \in Block, Good(x, current_mid, {}), Finish(x, b),
         observers' \in Seq(Observer)
  PROVE  CoapInv'
<1>1. PICK m, r : m = current_mid /\ r = trans[b].callback
  OBVIOUS
<1>2. /\ m \in Nat /\ r \in Request \cup {NULL} /\ req \in [Request -> Waiting]
      /\ stray \in BOOLEAN
  BY <1>1 DEF CoapInv, CoapTypeOK, Tx, TxState, Transaction
<1>3. Become(x) /\ current_mid' = m
  BY <1>1 DEF Finish
<1>4. req' \in [Request -> Waiting] /\ stray' \in BOOLEAN
  <2>1. CASE r = NULL /\ UNCHANGED <<req, stray>>
    BY <1>2, <2>1
  <2>2. CASE /\ r # NULL /\ req' = [req EXCEPT ![r].mid = 0]
             /\ stray' = (trans[b].mid # req[r].mid)
    BY <1>2, <2>2, 0 \in Nat DEF Waiting
  <2> QED BY <1>1, <2>1, <2>2 DEF Finish
<1>5. Good(x, m, {})
  BY <1>1
<1> QED BY <1>2, <1>3, <1>4, <1>5, Becomes

(* An answer that makes a request ask for one more block.                  *)
LEMMA MoreKeeps ==
  ASSUME CoapInv, NEW x, NEW b \in Block, Good(x, current_mid, {}), b \notin Open(x),
         More(x, b), observers' \in Seq(Observer)
  PROVE  CoapInv'
<1>1. PICK m, r, ep : m = current_mid /\ r = trans[b].callback /\ ep = trans[b].endpoint
  OBVIOUS
<1>2. /\ m \in Nat /\ r \in Request /\ ep \in Peer /\ req \in [Request -> Waiting]
  BY <1>1 DEF CoapInv, CoapTypeOK, Tx, TxState, Transaction, More
<1>3. FreeBlocks(x) # {}
  BY DEF FreeBlocks, Open, Members, ToSet
<1>4. Good(x, m, {})
  BY <1>1
<1>5. PICK y : y = Progressed(x, r, m + 1, ep)
  OBVIOUS
<1>6. Good(y, m + 1, {}) /\ m + 1 \in Nat
  BY <1>2, <1>3, <1>4, <1>5, ProgressServed
<1>7. Become(y) /\ current_mid' = m + 1
  BY <1>1, <1>5 DEF More
<1>8. req' \in [Request -> Waiting] /\ stray' \in BOOLEAN
  <2>1. req' = [req EXCEPT ![r] = [mid |-> m + 1, block_num |-> req[r].block_num + 1]]
    BY <1>1, <1>2, <1>7 DEF More
  <2>2. req[r].block_num + 1 \in Nat
    BY <1>2 DEF Waiting
  <2>3. stray' \in BOOLEAN
    BY <1>1 DEF More
  <2> QED BY <1>2, <1>6, <2>1, <2>2, <2>3 DEF Waiting
<1> QED BY <1>6, <1>7, <1>8, Becomes


-----------------------------------------------------------------------------
(* The parts of CoapInv that the handlers start from.                      *)
LEMMA Before ==
  ASSUME CoapInv
  PROVE  /\ Tx \in TxState /\ Good(Tx, current_mid, {}) /\ current_mid \in Nat
         /\ observers \in Seq(Observer) /\ req \in [Request -> Waiting] /\ stray \in BOOLEAN
         /\ Open(Tx) = timers /\ timers \subseteq Block
         /\ trans \in [Block -> Transaction]
<1>1. /\ Tx \in TxState /\ Good(Tx, current_mid, {}) /\ current_mid \in Nat
      /\ observers \in Seq(Observer) /\ req \in [Request -> Waiting] /\ stray \in BOOLEAN
  BY DEF CoapInv, CoapTypeOK
<1>2. Tx.timers = timers /\ Tx.trans = trans
  BY DEF Tx
<1>3. Open(Tx) = timers
  BY <1>1, <1>2 DEF Good, ServedBut
<1>4. timers \subseteq Block /\ trans \in [Block -> Transaction]
  BY <1>1, <1>2 DEF TxState
<1> QED BY <1>1, <1>3, <1>4

LEMMA SendRequestKeeps ==
  ASSUME CoapInv, NEW r \in Request, NEW ep \in Endpoint, coap_send_request(r, ep)
  PROVE  CoapInv'
<1>1. PICK m, x : m = current_mid /\ x = Tx
  OBVIOUS
<1>2. m \in Nat /\ Good(x, m, {}) /\ m + 1 \in Nat
  BY <1>1, Before
<1>3. /\ current_mid' = m + 1 /\ observers' \in Seq(Observer) /\ stray' \in BOOLEAN
      /\ req \in [Request -> Waiting]
  BY <1>1, Before DEF coap_send_request
<1>4. CASE /\ FreeBlocks(Tx) # {}
           /\ Become(Progressed(Tx, r, current_mid', ep))
           /\ req' = [req EXCEPT ![r] = [mid |-> current_mid', block_num |-> 0]]
  <2>1. PICK y : y = Progressed(x, r, m + 1, ep)
    OBVIOUS
  <2>2. ep \in Peer /\ FreeBlocks(x) # {}
    BY <1>1, <1>4 DEF Peer
  <2>3. Good(y, m + 1, {})
    BY <1>2, <2>1, <2>2, ProgressServed
  <2>4. Become(y)
    BY <1>1, <1>3, <1>4, <2>1
  <2>5. req' \in [Request -> Waiting]
    BY <1>2, <1>3, <1>4, 0 \in Nat DEF Waiting
  <2> QED BY <1>2, <1>3, <2>3, <2>4, <2>5, Becomes
<1>5. CASE UNCHANGED <<trans, list, timers, sent, req>>
  <2>1. Good(x, m + 1, {})
    BY <1>2, IdSkipped
  <2>2. Become(x) /\ req' \in [Request -> Waiting]
    BY <1>1, <1>3, <1>5 DEF Become, Tx
  <2> QED BY <1>2, <1>3, <2>1, <2>2, Becomes
<1> QED BY <1>4, <1>5 DEF coap_send_request

LEMMA NotifyKeeps ==
  ASSUME CoapInv, NEW uri \in Uri, NEW first \in 1..(COAP_MAX_OBSERVERS + 1),
         coap_notify_observers(uri, first)
  PROVE  CoapInv'
<1>1. PICK d : d = Notified(uri, first)[Len(observers)]
  OBVIOUS
<1>2. first \in Nat
  BY CoapAssumption
<1>3. LoopOK(d)
  BY <1>1, <1>2, AllNotified
<1>4. PICK m, x, o : /\ m \in Nat /\ o \in Seq(Observer)
                     /\ d = [mid |-> m, x |-> x, obs |-> o] /\ Good(x, m, {})
  BY <1>3 DEF LoopOK
<1>5. d.mid = m /\ d.x = x /\ d.obs = o
  BY <1>4
<1>6. Become(x) /\ current_mid' = m /\ observers' = o /\ UNCHANGED <<req, stray>>
  BY <1>1, <1>5 DEF coap_notify_observers
<1>7. observers' \in Seq(Observer) /\ req' \in [Request -> Waiting] /\ stray' \in BOOLEAN
  BY <1>4, <1>6, Before
<1> QED BY <1>4, <1>6, <1>7, Becomes

LEMMA RetransmitKeeps ==
  ASSUME CoapInv, NEW b \in timers, Retransmit(b)
  PROVE  CoapInv'
<1>1. PICK m, x, t : /\ m = current_mid /\ x = Tx
                     /\ t = [trans[b] EXCEPT !.retrans_counter = @ + 1]
  OBVIOUS
<1>2. /\ m \in Nat /\ Good(x, m, {}) /\ x \in TxState /\ b \in Block /\ b \in Open(x)
      /\ x.trans = trans /\ x.timers = timers /\ Open(x) = timers /\ timers \subseteq Block
      /\ trans \in [Block -> Transaction]
  BY <1>1, Before DEF Tx
<1>3. PICK y : y = [x EXCEPT !.timers = @ \ {b}, !.trans = [trans EXCEPT ![b] = t]]
  OBVIOUS
<1>4. t \in Transaction /\ t.mid = trans[b].mid /\ t.retrans_counter = trans[b].retrans_counter + 1
  BY <1>1, <1>2 DEF Transaction
<1>5. /\ y.list = x.list /\ y.timers = x.timers \ {b} /\ y.trans = [trans EXCEPT ![b] = t]
      /\ y \in TxState
  BY <1>2, <1>3, <1>4 DEF TxState
<1>6. y = [Tx EXCEPT !.timers = @ \ {b}, !.trans[b].retrans_counter = @ + 1]
  BY <1>1, <1>2, <1>3 DEF TxState
<1>7. /\ y.trans[b].retrans_counter <= COAP_MAX_RETRANSMIT
      /\ Become(coap_send_transaction(y, b))
      /\ UNCHANGED <<current_mid, observers, req, stray>>
  BY <1>6 DEF Retransmit
<1>8. Open(y) = Open(x)
  BY <1>5 DEF Open
<1>9. \A c \in Block : y.trans[c].mid = x.trans[c].mid /\ (c # b => y.trans[c] = x.trans[c])
  BY <1>2, <1>4, <1>5
<1>10. OwnMids(y, m)
  BY <1>2, <1>8, <1>9 DEF Good, OwnMids
<1>11. Counted(y)
  BY <1>2, <1>7, <1>8, <1>9 DEF Good, Counted
<1>12. ServedBut(y, {b})
  BY <1>2, <1>5, <1>8, <1>9 DEF Good, ServedBut
<1>13. Good(y, m, {b})
  BY <1>2, <1>5, <1>10, <1>11, <1>12 DEF Good
<1>14. PICK z : z = coap_send_transaction(y, b)
  OBVIOUS
<1>15. Good(z, m, {})
  BY <1>2, <1>8, <1>13, <1>14, Sent
<1>16. /\ Become(z) /\ current_mid' = m /\ observers' \in Seq(Observer)
       /\ req' \in [Request -> Waiting] /\ stray' \in BOOLEAN
  BY <1>1, <1>7, <1>14, Before
<1> QED BY <1>2, <1>15, <1>16, Becomes

(* The transaction of an open block is cleared before its callback.        *)
LEMMA ClearedFirst ==
  ASSUME CoapInv, NEW b \in Open(Tx)
  PROVE  /\ b \in Block /\ Good(coap_clear_transaction(Tx, b), current_mid, {})
         /\ b \notin Open(coap_clear_transaction(Tx, b))
<1>1. PICK m, x : m = current_mid /\ x = Tx
  OBVIOUS
<1>2. m \in Nat /\ Good(x, m, {}) /\ b \in Block
  BY <1>1, Before
<1>3. Good(x, m, {b})
  BY <1>2, Handled
<1>4. Good(coap_clear_transaction(x, b), m, {}) /\ b \notin Open(coap_clear_transaction(x, b))
  BY <1>2, <1>3, Cleared
<1> QED BY <1>1, <1>2, <1>4

LEMMA GiveUpKeeps ==
  ASSUME CoapInv, NEW b \in timers, GiveUp(b)
  PROVE  CoapInv'
<1>1. PICK x, ep : x = coap_clear_transaction(Tx, b) /\ ep = trans[b].endpoint
  OBVIOUS
<1>2. b \in Block /\ Good(x, current_mid, {})
  BY <1>1, Before, ClearedFirst
<1>3. coap_remove_observer_by_client(ep) \in Seq(Observer)
  BY Before, ObserversTyped
<1>4. observers' \in Seq(Observer) /\ Finish(x, b)
  BY <1>1, <1>3 DEF GiveUp
<1> QED BY <1>2, <1>4, FinishKeeps

(* A handler that leaves the transactions alone.                           *)
LEMMA LeftAlone ==
  ASSUME CoapInv, UNCHANGED <<trans, list, timers, sent, req, stray>>,
         current_mid' = current_mid \/ current_mid' = current_mid + 1,
         observers' \in Seq(Observer)
  PROVE  CoapInv'
<1>1. PICK m, x : m = current_mid /\ x = Tx
  OBVIOUS
<1>2. m \in Nat /\ Good(x, m, {}) /\ m + 1 \in Nat
  BY <1>1, Before
<1>3. Good(x, m + 1, {})
  BY <1>2, IdSkipped
<1>4. Become(x) /\ req' \in [Request -> Waiting] /\ stray' \in BOOLEAN
  BY <1>1, Before DEF Become, Tx
<1>5. CASE current_mid' = current_mid
  BY <1>1, <1>2, <1>4, <1>5, Becomes
<1>6. CASE current_mid' = current_mid + 1
  BY <1>1, <1>2, <1>3, <1>4, <1>6, Becomes
<1> QED BY <1>5, <1>6

LEMMA ResponseKeeps ==
  ASSUME CoapInv, NEW type, NEW mid, NEW ep, ReceiveResponse(type, mid, ep)
  PROVE  CoapInv'
<1>1. observers' \in Seq(Observer)
  <2>1. observers \in Seq(Observer) /\ coap_remove_observer_by_mid(ep, mid) \in Seq(Observer)
    BY Before, ObserversTyped
  <2> QED BY <2>1 DEF ReceiveResponse
<1>2. CASE UNCHANGED <<trans, list, timers, sent, current_mid, req, stray>>
  BY <1>1, <1>2, LeftAlone
<1>3. ASSUME NEW b \in coap_get_transaction_by_mid(mid),
             \/ Finish(coap_clear_transaction(Tx, b), b)
             \/ More(coap_clear_transaction(Tx, b), b)
      PROVE  CoapInv'
  <2>1. b \in Open(Tx)
    BY DEF coap_get_transaction_by_mid, Open, Tx, Members, ToSet
  <2>2. PICK x : x = coap_clear_transaction(Tx, b)
    OBVIOUS
  <2>3. b \in Block /\ Good(x, current_mid, {}) /\ b \notin Open(x)
    BY <2>1, <2>2, ClearedFirst
  <2>4. CASE Finish(x, b)
    BY <1>1, <2>3, <2>4, FinishKeeps
  <2>5. CASE More(x, b)
    BY <1>1, <2>3, <2>5, MoreKeeps
  <2> QED BY <1>3, <2>2, <2>4, <2>5
<1> QED BY <1>2, <1>3 DEF ReceiveResponse

LEMMA RequestKeeps ==
  ASSUME CoapInv, NEW ep \in Endpoint, NEW uri \in Uri, Register(ep, uri) \/ Deregister(ep, uri)
  PROVE  CoapInv'
<1>1. /\ observers \in Seq(Observer) /\ add_observer(ep, uri) \in Seq(Observer)
      /\ coap_remove_observer_by_uri(ep, uri) \in Seq(Observer)
  BY Before, AddTyped, ObserversTyped
<1>2. observers' \in Seq(Observer) /\ UNCHANGED <<trans, list, timers, sent, current_mid, req, stray>>
  BY <1>1 DEF Register, Deregister, ReceiveRequest
<1> QED BY <1>2, LeftAlone


-----------------------------------------------------------------------------
(* Nothing is open when the engine starts.                                 *)
LEMMA InitGood == Init => CoapInv
<1> SUFFICES ASSUME Init PROVE CoapInv
  OBVIOUS
<1>1. NoTransaction \in Transaction
  BY 0 \in Nat DEF NoTransaction, Transaction, Peer
<1>2. Tx.trans = trans /\ Tx.list = <<>> /\ Tx.timers = {}
  BY DEF Tx, Init
<1>3. Tx \in TxState
  BY <1>1 DEF Tx, Init, TxState
<1>4. CoapTypeOK
  <2>1. req \in [Request -> Waiting]
    BY 0 \in Nat DEF Init, Waiting
  <2>2. current_mid \in Nat /\ stray \in BOOLEAN
    BY DEF Init
  <2>3. <<>> \in Seq(Observer)
    OBVIOUS
  <2>4. observers \in Seq(Observer)
    BY <2>3 DEF Init
  <2> QED BY <1>3, <2>1, <2>2, <2>4 DEF CoapTypeOK
<1>5. Open(Tx) = {} /\ Distinct(Tx.list)
  BY <1>2 DEF Open, Members, Distinct
<1>6. Good(Tx, current_mid, {})
  BY <1>2, <1>3, <1>5 DEF Good, OwnMids, Counted, ServedBut
<1> QED BY <1>4, <1>6 DEF CoapInv

(* Every handler keeps the transactions served.                            *)
LEMMA NextGood == CoapInv /\ [Next]_vars => CoapInv'
<1> SUFFICES ASSUME CoapInv, [Next]_vars PROVE CoapInv'
  OBVIOUS
<1>1. ASSUME NEW r \in Request, NEW ep \in Endpoint, coap_send_request(r, ep) PROVE CoapInv'
  BY <1>1, SendRequestKeeps
<1>2. ASSUME NEW uri \in Uri, NEW first \in 1..(COAP_MAX_OBSERVERS + 1),
             coap_notify_observers(uri, first)
      PROVE  CoapInv'
  BY <1>2, NotifyKeeps
<1>3. ASSUME NEW b \in Block, TimerRuns(b) PROVE CoapInv'
  BY <1>3, RetransmitKeeps, GiveUpKeeps DEF TimerRuns
<1>4. ASSUME NEW ep \in Endpoint, NEW uri \in Uri, Register(ep, uri) \/ Deregister(ep, uri)
      PROVE  CoapInv'
  BY <1>4, RequestKeeps
<1>5. CASE GetNon
  BY <1>5, Before, LeftAlone DEF GetNon
<1>6. ASSUME NEW type, NEW mid, NEW ep, ReceiveResponse(type, mid, ep) PROVE CoapInv'
  BY <1>6, ResponseKeeps
<1>7. CASE UNCHANGED vars
  BY <1>7, Before, LeftAlone DEF vars
<1> QED BY <1>1, <1>2, <1>3, <1>4, <1>5, <1>6, <1>7 DEF Next

LEMMA CoapInvariance == Spec => []CoapInv
BY InitGood, NextGood, PTL DEF Spec

(* Different message ids in all open blocks are as many as the blocks.     *)
LEMMA AsManyIds ==
  ASSUME NEW l, l \in Seq(Block), Distinct(l), NEW f,
         \A b, c \in Members(l) : f[b].mid = f[c].mid => b = c
  PROVE  Cardinality({f[b].mid : b \in Members(l)}) = Len(l)
<1>1. PICK n \in Nat : n = Len(l)
  OBVIOUS
<1> DEFINE M == {f[b].mid : b \in Members(l)}
           g == [i \in 1..n |-> f[l[i]].mid]
<1>2. DOMAIN l = 1..n /\ \A i \in 1..n : l[i] \in Members(l)
  BY <1>1 DEF Members
<1>3. g \in [1..n -> M]
  BY <1>2
<1>4. \A i, j \in 1..n : g[i] = g[j] => i = j
  BY <1>2 DEF Distinct
<1>5. \A m \in M : \E i \in 1..n : g[i] = m
  BY <1>2 DEF Members
<1> HIDE DEF M, g
<1>6. g \in Injection(1..n, M)
  BY <1>3, <1>4 DEF Injection, IsInjective
<1>7. g \in Surjection(1..n, M)
  BY <1>3, <1>5 DEF Surjection
<1>8. ExistsBijection(1..n, M)
  BY <1>6, <1>7 DEF ExistsBijection, Bijection
<1>9. IsFiniteSet(1..n) /\ Cardinality(1..n) = n
  BY FS_Interval
<1>10. Cardinality(M) = n
  BY <1>8, <1>9, FS_Bijection
<1> QED BY <1>1, <1>10 DEF M

(* The engine's data are well-formed: transactions, message ids, observers *)
(* and requests have their types, whatever is answered and in which order. *)
THEOREM CoapTyped == Spec => []CoapTypeOK
BY CoapInvariance, PTL DEF CoapInv

(* Between handlers exactly the open transactions have a retransmission    *)
(* timer, each is confirmable, sent again at most COAP_MAX_RETRANSMIT      *)
(* times and known by a message id no other has (coap-transactions.c), for *)
(* any number of blocks and observers.                                     *)
THEOREM TimersServed == Spec => []TimersServe
<1>1. CoapInv => TimersServe
  <2> SUFFICES ASSUME CoapInv PROVE TimersServe
    OBVIOUS
  <2>1. Tx \in TxState /\ Good(Tx, current_mid, {}) /\ Open(Tx) = timers
    BY Before
  <2>2. Tx.list = list /\ Tx.trans = trans /\ Open(Tx) = Members(list)
    BY DEF Tx, Open
  <2>3. ToSet(list) = Members(list)
    BY DEF ToSet, Members
  <2>4. list \in Seq(Block) /\ Distinct(list)
    BY <2>1, <2>2 DEF Good, TxState
  <2>5. IsInjective(list)
    BY <2>4 DEF IsInjective, Distinct
  <2>6. /\ \A b \in Members(list) : trans[b].con /\ trans[b].retrans_counter <= COAP_MAX_RETRANSMIT
        /\ \A b, c \in Members(list) : trans[b].mid = trans[c].mid => b = c
    BY <2>1, <2>2 DEF Good, Counted, OwnMids, ServedBut
  <2>7. PICK l, f : l = list /\ f = trans
    OBVIOUS
  <2>8. Cardinality({f[b].mid : b \in Members(l)}) = Len(l)
    BY <2>4, <2>6, <2>7, AsManyIds
  <2>9. Cardinality(OpenMids) = Len(list)
    BY <2>3, <2>7, <2>8 DEF OpenMids
  <2> QED BY <2>1, <2>2, <2>3, <2>5, <2>6, <2>9 DEF TimersServe
<1> QED BY <1>1, CoapInvariance, PTL
=============================================================================
