--------------------------- MODULE NbrTableProofs ---------------------------
(***************************************************************************)
(* Proofs about NbrTable, for every number of neighbors, addresses and     *)
(* destinations, with and without RPL: eviction never confuses two         *)
(* neighbors, and never takes one that is locked.                          *)
(***************************************************************************)
EXTENDS NbrTable, SequenceTheorems, TLAPS

(* The list of keys: the keys in use are the first ones, each once, and no *)
(* two stand for the same address.                                         *)
KeysOK ==
  /\ nbr_table_keys \in Seq(Key) /\ IsInjective(nbr_table_keys)
  /\ Keys = 1..Len(nbr_table_keys)
  /\ lladdr \in [Key -> Addr \cup {NULL}]
  /\ \A k \in Keys : lladdr[k] \in Addr
  /\ \A j, k \in Keys : lladdr[j] = lladdr[k] => j = k

(* The bitmaps: a free key has no bit set; only the next hop of a route    *)
(* and the preferred parent are locked, by the tables that hold them.      *)
MapsOK ==
  /\ used_map \in [Key -> SUBSET Table] /\ locked_map \in [Key -> SUBSET Table]
  /\ \A k \in Key : k \notin Keys => used_map[k] = {}
  /\ \A k \in Key : locked_map[k] \subseteq used_map[k] \cap {"nbr_routes", "rpl_parents"}
  /\ \A k \in Key : "rpl_parents" \in locked_map[k] <=> preferred_parent = k

(* The pointers: a route's next hop is locked for it.                      *)
LinksOK ==
  /\ neighbor_routes \in [Dest -> Key \cup {0}] /\ preferred_parent \in Key \cup {0}
  /\ meant \in [Dest \cup {0} -> Addr \cup {NULL}]
  /\ \A d \in Dest : neighbor_routes[d] # 0 => "nbr_routes" \in locked_map[neighbor_routes[d]]

ItemsOK == item \in [Table -> [Key -> Addr \cup {NULL}]] /\ ItemsOwned

IInv == KeysOK /\ MapsOK /\ LinksOK /\ ItemsOK /\ PointersKept

(***************************************************************************)
(* Lemmas                                                                  *)
(***************************************************************************)
(* list_remove and list_add of an element: it moves to the end, and the    *)
(* others keep their order.                                                *)
LEMMA MovedToEnd ==
  ASSUME NEW S, NEW s \in Seq(S), IsInjective(s), NEW i \in 1..Len(s)
  PROVE  LET t == Append(RemoveAt(s, i), s[i])
         IN  t \in Seq(S) /\ Len(t) = Len(s) /\ IsInjective(t) /\ ToSet(t) = ToSet(s)
<1> DEFINE r == RemoveAt(s, i)
           t == Append(r, s[i])
           n == Len(s)
<1>1. n \in Nat /\ DOMAIN s = 1..n /\ i \in 1..n /\ \A j \in 1..n : s[j] \in S
  OBVIOUS
<1>0. r = SubSeq(s, 1, i - 1) \o SubSeq(s, i + 1, n)
  BY DEF RemoveAt
<1> HIDE DEF n, r
<1>3. /\ SubSeq(s, 1, i - 1) \in Seq(S) /\ Len(SubSeq(s, 1, i - 1)) = i - 1
      /\ \A j \in 1..(i - 1) : SubSeq(s, 1, i - 1)[j] = s[j]
  BY <1>1, SubSeqProperties
<1>4. /\ SubSeq(s, i + 1, n) \in Seq(S) /\ Len(SubSeq(s, i + 1, n)) = n - i
      /\ \A j \in 1..(n - i) : SubSeq(s, i + 1, n)[j] = s[i + j]
  <2>1. i + 1 \in Int /\ n \in Int /\ \A j \in (i + 1)..n : s[j] \in S
    BY <1>1
  <2>2. /\ SubSeq(s, i + 1, n) \in Seq(S)
        /\ Len(SubSeq(s, i + 1, n)) = IF i + 1 <= n THEN n - (i + 1) + 1 ELSE 0
        /\ \A j \in 1..(n - (i + 1) + 1) : SubSeq(s, i + 1, n)[j] = s[(i + 1) + j - 1]
    BY <2>1, SubSeqProperties
  <2>3. n - (i + 1) + 1 = n - i /\ \A j \in Int : (i + 1) + j - 1 = i + j
    BY <1>1
  <2>4. Len(SubSeq(s, i + 1, n)) = n - i
    BY <1>1, <2>2
  <2> QED
    BY <2>2, <2>3, <2>4
<1>5. /\ r \in Seq(S) /\ Len(r) = n - 1
      /\ \A j \in 1..(i - 1) : r[j] = s[j]
      /\ \A j \in i..(n - 1) : r[j] = s[j + 1]
  <2> DEFINE a == SubSeq(s, 1, i - 1)
             b == SubSeq(s, i + 1, n)
  <2>1. r = a \o b
    BY <1>0
  <2> HIDE DEF a, b
  <2>2. /\ a \o b \in Seq(S) /\ Len(a \o b) = Len(a) + Len(b)
        /\ \A j \in 1..(Len(a) + Len(b)) :
             (a \o b)[j] = IF j <= Len(a) THEN a[j] ELSE b[j - Len(a)]
    BY <1>3, <1>4, ConcatProperties DEF a, b
  <2>3. Len(a) = i - 1 /\ Len(b) = n - i /\ Len(a) + Len(b) = n - 1
    BY <1>1, <1>3, <1>4 DEF a, b
  <2>4. \A j \in 1..(i - 1) : r[j] = s[j]
    BY <1>1, <1>3, <2>1, <2>2, <2>3 DEF a
  <2>5. \A j \in i..(n - 1) : r[j] = s[j + 1]
    <3> SUFFICES ASSUME NEW j \in i..(n - 1) PROVE r[j] = s[j + 1]
      OBVIOUS
    <3>1. j \in 1..(n - 1) /\ ~(j <= i - 1) /\ j - (i - 1) \in 1..(n - i) /\ i + (j - (i - 1)) = j + 1
      BY <1>1
    <3>2. r[j] = b[j - (i - 1)]
      BY <3>1, <2>1, <2>2, <2>3
    <3> QED
      BY <3>1, <3>2, <1>4 DEF b
  <2> QED
    BY <2>1, <2>2, <2>3, <2>4, <2>5
<1>6. s[i] \in S
  BY <1>1 DEF n
<1>7. /\ t \in Seq(S) /\ Len(t) = n /\ DOMAIN t = 1..n
      /\ \A j \in 1..(n - 1) : t[j] = r[j]
      /\ t[n] = s[i]
  BY <1>1, <1>5, <1>6
<1> DEFINE From(j) == IF j < i THEN j ELSE IF j = n THEN i ELSE j + 1
<1>8. \A j \in 1..n : From(j) \in 1..n /\ t[j] = s[From(j)]
  <2> SUFFICES ASSUME NEW j \in 1..n PROVE From(j) \in 1..n /\ t[j] = s[From(j)]
    OBVIOUS
  <2> HIDE DEF t
  <2>1. CASE j < i
    BY <2>1, <1>1, <1>5, <1>7
  <2>2. CASE j = n
    BY <2>2, <1>1, <1>5, <1>7
  <2>3. CASE ~(j < i) /\ j # n
    BY <2>3, <1>1, <1>5, <1>7
  <2> QED
    BY <2>1, <2>2, <2>3
<1>9. \A j, m \in 1..n : From(j) = From(m) => j = m
  BY <1>1
<1>10. \A j \in 1..n : \E m \in 1..n : From(m) = j
  <2> SUFFICES ASSUME NEW j \in 1..n PROVE \E m \in 1..n : From(m) = j
    OBVIOUS
  <2>1. CASE j < i
    BY <2>1, <1>1
  <2>2. CASE j = i
    <3>1. n \in 1..n /\ From(n) = j
      BY <2>2, <1>1
    <3> QED
      BY <3>1
  <2>3. CASE j > i
    <3>1. j - 1 \in 1..n /\ From(j - 1) = j
      BY <2>3, <1>1
    <3> QED
      BY <3>1
  <2> QED
    BY <2>1, <2>2, <2>3, <1>1
<1> HIDE DEF t, From
<1>11. IsInjective(t)
  BY <1>1, <1>7, <1>8, <1>9 DEF IsInjective
<1>12. ToSet(t) = ToSet(s)
  <2>1. ASSUME NEW j \in 1..n PROVE t[j] \in ToSet(s)
    BY <1>1, <1>8 DEF ToSet
  <2>2. ASSUME NEW j \in 1..n PROVE s[j] \in ToSet(t)
    <3>1. PICK m \in 1..n : From(m) = j
      BY <1>10
    <3> QED
      BY <3>1, <1>7, <1>8 DEF ToSet
  <2> QED
    BY <2>1, <2>2, <1>1, <1>7 DEF ToSet
<1> QED
  BY <1>7, <1>11, <1>12 DEF t, r, n

(* The place of a key on the list.                                         *)
LEMMA AgeIs ==
  ASSUME KeysOK, NEW k \in Keys
  PROVE  Age(k) \in 1..Len(nbr_table_keys) /\ nbr_table_keys[Age(k)] = k
<1>1. \E i \in DOMAIN nbr_table_keys : nbr_table_keys[i] = k
  BY DEF Keys, ToSet
<1>2. Age(k) \in DOMAIN nbr_table_keys /\ nbr_table_keys[Age(k)] = k
  BY <1>1 DEF Age
<1> QED
  BY <1>2 DEF KeysOK

(* The keys in use are keys.                                               *)
LEMMA KeysAreKeys == KeysOK => Keys \subseteq Key
  BY DEF KeysOK, Keys, ToSet

(* What is not locked is not pointed to.                                   *)
LEMMA UnlockedFree ==
  ASSUME IInv, NEW k \in Key, locked_map[k] = {}
  PROVE  preferred_parent # k /\ \A d \in Dest : neighbor_routes[d] # k
  BY NbrAssumption DEF IInv, MapsOK, LinksOK, Key

(* Neither policy gives up a neighbor that is locked: the default one asks *)
(* for the lock, RPL's for what the locks stand for.                       *)
LEMMA RemovableUnlocked ==
  ASSUME IInv, NEW reason, NEW k \in Removable(reason)
  PROVE  k \in Keys /\ locked_map[k] = {}
<1>1. Keys \subseteq Key
  BY KeysAreKeys DEF IInv
<1>2. CASE ~rpl
  BY <1>2 DEF Removable, LeastUsed
<1>3. CASE rpl
  <2>1. k \in RplRemovable
    BY <1>3 DEF Removable
  <2>2. k \in Keys /\ "nbr_routes" \notin used_map[k]
        /\ ("rpl_parents" \notin used_map[k] \/ preferred_parent # k)
    BY <2>1 DEF RplRemovable, Holding
  <2>3. /\ locked_map[k] \subseteq used_map[k] \cap {"nbr_routes", "rpl_parents"}
        /\ ("rpl_parents" \in locked_map[k] <=> preferred_parent = k)
    BY <1>1, <2>2 DEF IInv, MapsOK
  <2> QED
    BY <2>2, <2>3
<1> QED
  BY <1>2, <1>3

(* The list and the addresses are as they were.                            *)
LEMMA KeysSame ==
  ASSUME KeysOK, UNCHANGED <<nbr_table_keys, lladdr>>
  PROVE  KeysOK' /\ Keys' = Keys
  BY DEF KeysOK, Keys

(* An item is zeroed; no other changes.                                    *)
LEMMA PutItem ==
  ASSUME NEW V, NEW f \in [Table -> [Key -> V]], NEW table \in Table, NEW k \in Key, NEW a \in V
  PROVE  LET g == [f EXCEPT ![table][k] = a]
         IN  /\ g \in [Table -> [Key -> V]]
             /\ \A t \in Table, j \in Key : g[t][j] = IF t = table /\ j = k THEN a ELSE f[t][j]
<1> DEFINE h == [f[table] EXCEPT ![k] = a]
           g == [f EXCEPT ![table] = h]
<1>1. h \in [Key -> V] /\ \A j \in Key : h[j] = IF j = k THEN a ELSE f[table][j]
  OBVIOUS
<1> HIDE DEF h
<1>2. g \in [Table -> [Key -> V]] /\ \A t \in Table : g[t] = IF t = table THEN h ELSE f[t]
  BY <1>1
<1> HIDE DEF g
<1>3. \A t \in Table, j \in Key : g[t][j] = IF t = table /\ j = k THEN a ELSE f[t][j]
  BY <1>1, <1>2
<1> QED
  BY <1>2, <1>3 DEF g, h

(* The address is known: its key gets one more item.                       *)
LEMMA AddKnownIInv ==
  ASSUME IInv, NEW table \in Table, NEW a \in Addr, AddKnown(table, a), UNCHANGED <<rpl, meant>>
  PROVE  IInv'
<1>1. PICK k \in index_from_lladdr(a) :
        /\ SetItem(table, k, a, used_map[k])
        /\ UNCHANGED <<nbr_table_keys, lladdr, locked_map, neighbor_routes, preferred_parent>>
  BY DEF AddKnown
<1>2. KeysOK' /\ Keys' = Keys /\ Keys \subseteq Key
  BY <1>1, KeysSame, KeysAreKeys DEF IInv
<1>3. k \in Keys /\ k \in Key /\ lladdr[k] = a
  BY <1>2 DEF index_from_lladdr
<1>4. /\ item' \in [Table -> [Key -> Addr \cup {NULL}]]
      /\ \A t \in Table, j \in Key :
           item'[t][j] = IF t = table /\ j = k THEN a ELSE item[t][j]
      /\ used_map' \in [Key -> SUBSET Table]
      /\ \A j \in Key : used_map'[j] = IF j = k THEN used_map[k] \cup {table} ELSE used_map[j]
  <2>1. /\ item \in [Table -> [Key -> Addr \cup {NULL}]]
        /\ used_map \in [Key -> SUBSET Table]
    BY DEF IInv, ItemsOK, MapsOK
  <2>2. k \in Key /\ a \in Addr \cup {NULL} /\ used_map[k] \cup {table} \in SUBSET Table
    BY <1>1, <1>3, <2>1
  <2>3. /\ item' = [item EXCEPT ![table][k] = a]
        /\ used_map' = [used_map EXCEPT ![k] = used_map[k] \cup {table}]
    BY <1>1, <1>3 DEF SetItem
  <2>4. /\ item' \in [Table -> [Key -> Addr \cup {NULL}]]
        /\ \A t \in Table, j \in Key :
             item'[t][j] = IF t = table /\ j = k THEN a ELSE item[t][j]
    BY <2>1, <2>2, <2>3, PutItem
  <2> QED
    BY <2>1, <2>2, <2>3, <2>4
<1>5. MapsOK'
  BY <1>1, <1>2, <1>3, <1>4 DEF IInv, MapsOK
<1>6. LinksOK'
  BY <1>1 DEF IInv, LinksOK
<1>7. ItemsOK'
  BY <1>1, <1>2, <1>3, <1>4 DEF IInv, MapsOK, ItemsOK, ItemsOwned
<1>8. PointersKept'
  BY <1>1, <1>4 DEF IInv, LinksOK, PointersKept
<1> QED
  BY <1>2, <1>5, <1>6, <1>7, <1>8 DEF IInv

(* A block is free: it is the next one, and none of its bits was set.      *)
LEMMA AddFreeIInv ==
  ASSUME IInv, NEW table \in Table, NEW a \in Addr, AddFree(table, a), UNCHANGED <<rpl, meant>>
  PROVE  IInv'
<1> DEFINE k == Len(nbr_table_keys) + 1
<1>1. /\ index_from_lladdr(a) = {} /\ k \in Key
      /\ nbr_table_keys' = Append(nbr_table_keys, k)
      /\ lladdr' = [lladdr EXCEPT ![k] = a]
      /\ SetItem(table, k, a, used_map[k])
      /\ UNCHANGED <<locked_map, neighbor_routes, preferred_parent>>
  BY DEF AddFree
<1>2. nbr_table_keys \in Seq(Key) /\ Len(nbr_table_keys) \in Nat /\ Keys = 1..Len(nbr_table_keys)
      /\ Keys \subseteq Key
  BY KeysAreKeys DEF IInv, KeysOK
<1>3. k \notin Keys
  BY <1>2
<1>4. PICK key \in Key : key = k
  BY <1>1
<1>5. /\ nbr_table_keys' \in Seq(Key) /\ Len(nbr_table_keys') = k
      /\ \A i \in 1..Len(nbr_table_keys) : nbr_table_keys'[i] = nbr_table_keys[i]
      /\ nbr_table_keys'[k] = k
  BY <1>1, <1>2
<1>6. /\ DOMAIN nbr_table_keys' = DOMAIN nbr_table_keys \cup {k} /\ k \notin DOMAIN nbr_table_keys
      /\ DOMAIN nbr_table_keys = 1..Len(nbr_table_keys)
  BY <1>2, <1>5
<1> HIDE DEF k
<1>7. Keys' = Keys \cup {key}
  BY <1>4, <1>5, <1>6 DEF Keys, ToSet
<1>8. IsInjective(nbr_table_keys')
  BY <1>3, <1>5, <1>6, SMTT(30) DEF IInv, KeysOK, IsInjective, Keys, ToSet
<1>9. /\ lladdr' \in [Key -> Addr \cup {NULL}] /\ lladdr'[key] = a
      /\ \A j \in Keys : lladdr'[j] = lladdr[j] /\ lladdr[j] # a
  BY <1>1, <1>2, <1>3, <1>4 DEF IInv, KeysOK, index_from_lladdr
<1>10. KeysOK'
  <2>0. 1..(Len(nbr_table_keys) + 1) = 1..Len(nbr_table_keys) \cup {Len(nbr_table_keys) + 1}
    BY <1>2
  <2>1. Len(nbr_table_keys') = Len(nbr_table_keys) + 1 /\ key = Len(nbr_table_keys) + 1
    BY <1>4, <1>5 DEF k
  <2>2. Keys' = 1..Len(nbr_table_keys) \cup {Len(nbr_table_keys) + 1}
    BY <2>1, <1>2, <1>7, Zenon
  <2>3. Keys' = 1..Len(nbr_table_keys')
    BY <2>0, <2>1, <2>2, Zenon
  <2>4. \A j \in Keys' : lladdr'[j] \in Addr
    BY <1>7, <1>9 DEF IInv, KeysOK
  <2>5. \A i, j \in Keys' : lladdr'[i] = lladdr'[j] => i = j
    BY <1>7, <1>9 DEF IInv, KeysOK
  <2> QED
    BY <2>3, <2>4, <2>5, <1>5, <1>8, <1>9 DEF KeysOK
<1>11. /\ item' \in [Table -> [Key -> Addr \cup {NULL}]]
       /\ \A t \in Table, j \in Key :
            item'[t][j] = IF t = table /\ j = key THEN a ELSE item[t][j]
       /\ used_map' \in [Key -> SUBSET Table]
       /\ \A j \in Key : used_map'[j] = IF j = key THEN used_map[key] \cup {table} ELSE used_map[j]
  <2>1. /\ item \in [Table -> [Key -> Addr \cup {NULL}]]
        /\ used_map \in [Key -> SUBSET Table]
    BY DEF IInv, ItemsOK, MapsOK
  <2>2. key \in Key /\ a \in Addr \cup {NULL} /\ used_map[key] \cup {table} \in SUBSET Table
    BY <1>1, <1>4, <2>1
  <2>3. /\ item' = [item EXCEPT ![table][key] = a]
        /\ used_map' = [used_map EXCEPT ![key] = used_map[key] \cup {table}]
    BY <1>1, <1>4 DEF SetItem
  <2>4. /\ item' \in [Table -> [Key -> Addr \cup {NULL}]]
        /\ \A t \in Table, j \in Key :
             item'[t][j] = IF t = table /\ j = key THEN a ELSE item[t][j]
    BY <2>1, <2>2, <2>3, PutItem
  <2> QED
    BY <2>1, <2>2, <2>3, <2>4
<1>12. used_map[key] = {}
  BY <1>3, <1>4 DEF IInv, MapsOK
<1>13. MapsOK'
  BY <1>1, <1>2, <1>7, <1>11 DEF IInv, MapsOK
<1>14. LinksOK'
  BY <1>1 DEF IInv, LinksOK
<1>15. ItemsOK'
  BY <1>2, <1>3, <1>4, <1>7, <1>9, <1>11, <1>12 DEF IInv, MapsOK, ItemsOK, ItemsOwned
<1>16. PointersKept'
  <2>1. \A j \in Key : used_map[j] # {} => j \in Keys
    BY DEF IInv, MapsOK
  <2> QED
    BY <2>1, <1>1, <1>9, <1>11 DEF IInv, LinksOK, PointersKept
<1> QED
  BY <1>10, <1>13, <1>14, <1>15, <1>16 DEF IInv

(* All blocks are in use: an unlocked neighbor makes room, which nothing   *)
(* points to, and its items of all tables go.                              *)
LEMMA AddEvictingIInv ==
  ASSUME IInv, NEW table \in Table, NEW a \in Addr, NEW reason, AddEvicting(table, a, reason),
         UNCHANGED <<rpl, meant>>
  PROVE  IInv'
<1>1. PICK k \in Removable(reason) :
        /\ nbr_table_keys' = Append(RemoveAt(nbr_table_keys, Age(k)), k)
        /\ lladdr' = [lladdr EXCEPT ![k] = a]
        /\ locked_map' = [locked_map EXCEPT ![k] = LocksWithout(k)]
        /\ neighbor_routes' = RoutesWithout(k)
        /\ preferred_parent' = ParentWithout(k)
        /\ SetItem(table, k, a, {})
  BY DEF AddEvicting
<1>2. index_from_lladdr(a) = {} /\ Keys = Key
  BY DEF AddEvicting
<1>3. k \in Key /\ locked_map[k] = {}
  BY <1>2, RemovableUnlocked
<1>4. preferred_parent # k /\ \A d \in Dest : neighbor_routes[d] # k
  BY <1>3, UnlockedFree
<1>5. neighbor_routes' = neighbor_routes /\ preferred_parent' = preferred_parent
  BY <1>1, <1>4 DEF RoutesWithout, ParentWithout, IInv, LinksOK
<1>6. locked_map' = locked_map
  BY <1>1, <1>3 DEF LocksWithout, IInv, MapsOK
<1>7. /\ nbr_table_keys' \in Seq(Key) /\ Len(nbr_table_keys') = Len(nbr_table_keys)
      /\ IsInjective(nbr_table_keys') /\ Keys' = Keys
  <2>1. Age(k) \in 1..Len(nbr_table_keys) /\ nbr_table_keys[Age(k)] = k
    BY <1>2, <1>3, AgeIs DEF IInv
  <2>2. nbr_table_keys' = Append(RemoveAt(nbr_table_keys, Age(k)), nbr_table_keys[Age(k)])
    BY <1>1, <2>1
  <2>3. nbr_table_keys \in Seq(Key) /\ IsInjective(nbr_table_keys)
    BY DEF IInv, KeysOK
  <2> QED
    BY <2>1, <2>2, <2>3, MovedToEnd DEF Keys
<1>8. /\ lladdr' \in [Key -> Addr \cup {NULL}] /\ lladdr'[k] = a
      /\ \A j \in Key : j # k => lladdr'[j] = lladdr[j] /\ lladdr[j] # a
  BY <1>1, <1>2, <1>3 DEF IInv, KeysOK, index_from_lladdr
<1>9. KeysOK'
  BY <1>2, <1>3, <1>7, <1>8, ZenonT(30) DEF IInv, KeysOK
<1>10. /\ item' \in [Table -> [Key -> Addr \cup {NULL}]]
       /\ \A t \in Table, j \in Key :
            item'[t][j] = IF t = table /\ j = k THEN a ELSE item[t][j]
       /\ used_map' \in [Key -> SUBSET Table]
       /\ \A j \in Key : used_map'[j] = IF j = k THEN {} \cup {table} ELSE used_map[j]
  <2>1. /\ item \in [Table -> [Key -> Addr \cup {NULL}]]
        /\ used_map \in [Key -> SUBSET Table]
    BY DEF IInv, ItemsOK, MapsOK
  <2>2. k \in Key /\ a \in Addr \cup {NULL} /\ {} \cup {table} \in SUBSET Table
    BY <1>1, <1>3, <2>1
  <2>3. /\ item' = [item EXCEPT ![table][k] = a]
        /\ used_map' = [used_map EXCEPT ![k] = {} \cup {table}]
    BY <1>1, <1>3 DEF SetItem
  <2>4. /\ item' \in [Table -> [Key -> Addr \cup {NULL}]]
        /\ \A t \in Table, j \in Key :
             item'[t][j] = IF t = table /\ j = k THEN a ELSE item[t][j]
    BY <2>1, <2>2, <2>3, PutItem
  <2> QED
    BY <2>1, <2>2, <2>3, <2>4
<1>11. MapsOK'
  BY <1>2, <1>3, <1>5, <1>6, <1>7, <1>10 DEF IInv, MapsOK
<1>12. LinksOK'
  BY <1>5, <1>6 DEF IInv, LinksOK
<1>13. ItemsOK'
  BY <1>2, <1>3, <1>7, <1>8, <1>10 DEF IInv, MapsOK, ItemsOK, ItemsOwned
<1>14. PointersKept'
  BY <1>3, <1>4, <1>5, <1>8, <1>10 DEF IInv, LinksOK, PointersKept
<1> QED
  BY <1>9, <1>11, <1>12, <1>13, <1>14 DEF IInv

LEMMA AddIInv ==
  ASSUME IInv, NEW table \in Table, NEW a \in Addr, NEW reason,
         nbr_table_add_lladdr(table, a, reason), UNCHANGED <<rpl, meant>>
  PROVE  IInv'
<1>1. CASE AddFails(a, reason)
  <2>1. KeysOK' /\ Keys' = Keys
    BY <1>1, KeysSame DEF AddFails, IInv
  <2> QED
    BY <2>1, <1>1 DEF AddFails, IInv, MapsOK, LinksOK, ItemsOK, ItemsOwned, PointersKept
<1> QED
  BY <1>1, AddKnownIInv, AddFreeIInv, AddEvictingIInv DEF nbr_table_add_lladdr

(* Bits are cleared in a table's column: the keys that keep theirs, and    *)
(* the locks within them, are as they were.                                *)
LEMMA LinkStatsResetIInv ==
  ASSUME IInv, link_stats_reset
  PROVE  IInv'
<1>1. KeysOK' /\ Keys' = Keys /\ Keys \subseteq Key
  BY KeysSame, KeysAreKeys DEF link_stats_reset, IInv
<1>2. MapsOK'
  BY <1>1 DEF link_stats_reset, IInv, MapsOK
<1>3. LinksOK' /\ PointersKept'
  BY DEF link_stats_reset, IInv, MapsOK, LinksOK, PointersKept
<1>4. ItemsOK'
  BY <1>1 DEF link_stats_reset, IInv, MapsOK, ItemsOK, ItemsOwned
<1> QED
  BY <1>1, <1>2, <1>3, <1>4 DEF IInv

LEMMA NbrRmIInv ==
  ASSUME IInv, NEW k \in Key, uip_ds6_nbr_rm(k)
  PROVE  IInv'
<1>1. KeysOK' /\ Keys' = Keys /\ Keys \subseteq Key
  BY KeysSame, KeysAreKeys DEF uip_ds6_nbr_rm, IInv
<1>2. /\ used_map' = [used_map EXCEPT ![k] = @ \ {"ds6_neighbors"}]
      /\ locked_map' = [locked_map EXCEPT ![k] = @ \ {"ds6_neighbors"}]
  BY DEF uip_ds6_nbr_rm, nbr_table_remove
<1>3. locked_map' = locked_map
  BY <1>2 DEF IInv, MapsOK
<1>4. MapsOK'
  BY <1>1, <1>2, <1>3 DEF uip_ds6_nbr_rm, IInv, MapsOK
<1>5. LinksOK' /\ PointersKept'
  BY <1>2, <1>3 DEF uip_ds6_nbr_rm, IInv, MapsOK, LinksOK, PointersKept
<1>6. ItemsOK'
  BY <1>1, <1>2 DEF uip_ds6_nbr_rm, IInv, MapsOK, ItemsOK, ItemsOwned
<1> QED
  BY <1>1, <1>4, <1>5, <1>6 DEF IInv

(* What a route that goes leaves: its next hop's bit, unless another route *)
(* leads there.                                                            *)
LEMMA WithoutRouteDoes ==
  ASSUME IInv, NEW map \in [Key -> SUBSET Table], NEW d \in Dest
  PROVE  /\ WithoutRoute(map, d) \in [Key -> SUBSET Table]
         /\ \A j \in Key : WithoutRoute(map, d)[j] =
              IF j = neighbor_routes[d] /\ OnlyRoute(d) THEN map[j] \ {"nbr_routes"} ELSE map[j]
<1>1. neighbor_routes \in [Dest -> Key \cup {0}]
  BY DEF IInv, LinksOK
<1>2. CASE neighbor_routes[d] # 0 /\ OnlyRoute(d)
  <2>1. neighbor_routes[d] \in Key
    BY <1>1, <1>2
  <2>2. WithoutRoute(map, d) = [map EXCEPT ![neighbor_routes[d]] = @ \ {"nbr_routes"}]
    BY <1>2 DEF WithoutRoute
  <2> QED
    BY <2>1, <2>2, <1>2
<1>3. CASE ~(neighbor_routes[d] # 0 /\ OnlyRoute(d))
  <2>1. WithoutRoute(map, d) = map
    BY <1>3 DEF WithoutRoute
  <2>2. \A j \in Key : ~(j = neighbor_routes[d] /\ OnlyRoute(d))
    BY <1>3 DEF Key
  <2> QED
    BY <2>1, <2>2
<1> QED
  BY <1>2, <1>3

(* A route is made: its next hop is locked before anything points to it,   *)
(* and the next hop of the route it replaces keeps its bits only if        *)
(* another route leads there.                                              *)
LEMMA RouteAddIInv ==
  ASSUME IInv, NEW d \in Dest, NEW a \in Addr, uip_ds6_route_add(d, a)
  PROVE  IInv'
<1>1. PICK k \in nbr_table_get_from_lladdr("ds6_neighbors", a) :
        /\ neighbor_routes[d] # k
        /\ item' = IF "nbr_routes" \in used_map[k] THEN item
                   ELSE [item EXCEPT !["nbr_routes"][k] = a]
        /\ used_map' = [WithoutRoute(used_map, d) EXCEPT ![k] = @ \cup {"nbr_routes"}]
        /\ locked_map' = [WithoutRoute(locked_map, d) EXCEPT ![k] = @ \cup {"nbr_routes"}]
        /\ neighbor_routes' = [neighbor_routes EXCEPT ![d] = k]
        /\ meant' = [meant EXCEPT ![d] = a]
        /\ UNCHANGED <<nbr_table_keys, lladdr, preferred_parent, rpl>>
  BY DEF uip_ds6_route_add
<1>2. KeysOK' /\ Keys' = Keys /\ Keys \subseteq Key
  BY <1>1, KeysSame, KeysAreKeys DEF IInv
<1>3. k \in Keys /\ k \in Key /\ lladdr[k] = a /\ "nbr_routes" \in Table
  BY <1>2 DEF nbr_table_get_from_lladdr, index_from_lladdr, Holding, Table
<1>4. used_map \in [Key -> SUBSET Table] /\ locked_map \in [Key -> SUBSET Table]
  BY DEF IInv, MapsOK
<1> DEFINE W == WithoutRoute(used_map, d)
           L == WithoutRoute(locked_map, d)
           gone(j) == j = neighbor_routes[d] /\ OnlyRoute(d)
<1>5. /\ W \in [Key -> SUBSET Table]
      /\ \A j \in Key : W[j] = IF gone(j) THEN used_map[j] \ {"nbr_routes"} ELSE used_map[j]
      /\ L \in [Key -> SUBSET Table]
      /\ \A j \in Key : L[j] = IF gone(j) THEN locked_map[j] \ {"nbr_routes"} ELSE locked_map[j]
  BY <1>4, WithoutRouteDoes
<1>6. used_map' = [W EXCEPT ![k] = @ \cup {"nbr_routes"}]
      /\ locked_map' = [L EXCEPT ![k] = @ \cup {"nbr_routes"}]
  BY <1>1
<1>7. \A e \in Dest : e # d => ~gone(neighbor_routes[e])
  BY DEF OnlyRoute
<1> HIDE DEF W, L, gone
<1>8. /\ used_map' \in [Key -> SUBSET Table] /\ locked_map' \in [Key -> SUBSET Table]
      /\ used_map'[k] = used_map[k] \cup {"nbr_routes"}
      /\ locked_map'[k] = locked_map[k] \cup {"nbr_routes"}
      /\ \A j \in Key \ {k} :
           /\ used_map'[j] = IF gone(j) THEN used_map[j] \ {"nbr_routes"} ELSE used_map[j]
           /\ locked_map'[j] = IF gone(j) THEN locked_map[j] \ {"nbr_routes"} ELSE locked_map[j]
  <2>1. W[k] \cup {"nbr_routes"} = used_map[k] \cup {"nbr_routes"}
        /\ L[k] \cup {"nbr_routes"} = locked_map[k] \cup {"nbr_routes"}
    BY <1>3, <1>5
  <2>2. used_map[k] \cup {"nbr_routes"} \in SUBSET Table /\ locked_map[k] \cup {"nbr_routes"} \in SUBSET Table
    BY <1>3, <1>4
  <2> QED
    BY <1>3, <1>5, <1>6, <2>1, <2>2
<1>9. MapsOK'
  BY <1>1, <1>2, <1>3, <1>8 DEF IInv, MapsOK
<1>10. neighbor_routes' \in [Dest -> Key \cup {0}] /\ neighbor_routes'[d] = k
       /\ \A e \in Dest : e # d => neighbor_routes'[e] = neighbor_routes[e]
  BY <1>1, <1>3 DEF IInv, LinksOK
<1>11. /\ meant' \in [Dest \cup {0} -> Addr \cup {NULL}] /\ meant'[d] = a /\ meant'[0] = meant[0]
       /\ \A e \in Dest : e # d => meant'[e] = meant[e]
  BY <1>1, NbrAssumption DEF IInv, LinksOK
<1>12. ASSUME NEW e \in Dest, neighbor_routes'[e] # 0
       PROVE  "nbr_routes" \in locked_map'[neighbor_routes'[e]]
  <2>1. CASE neighbor_routes'[e] = k
    BY <2>1, <1>8
  <2>2. CASE neighbor_routes'[e] # k
    <3>1. e # d /\ neighbor_routes'[e] = neighbor_routes[e] /\ neighbor_routes[e] \in Key \ {k}
      BY <2>2, <1>10, <1>12
    <3>2. ~gone(neighbor_routes[e]) /\ "nbr_routes" \in locked_map[neighbor_routes[e]]
      BY <3>1, <1>7, <1>12 DEF IInv, LinksOK
    <3> QED
      BY <3>1, <3>2, <1>8
  <2> QED
    BY <2>1, <2>2
<1>13. LinksOK'
  BY <1>1, <1>10, <1>11, <1>12 DEF IInv, LinksOK
<1>14. ItemsOK'
  <2>1. item \in [Table -> [Key -> Addr \cup {NULL}]] /\ a \in Addr \cup {NULL}
    BY DEF IInv, ItemsOK
  <2>2. CASE "nbr_routes" \in used_map[k]
    <3>1. item' = item
      BY <1>1, <2>2
    <3>2. \A j \in Keys : used_map'[j] \subseteq used_map[j] /\ used_map[j] \subseteq Table
      BY <1>2, <1>3, <1>4, <1>8, <2>2
    <3> QED
      BY <3>1, <3>2, <2>1, <1>1, <1>2 DEF IInv, ItemsOK, ItemsOwned
  <2>3. CASE "nbr_routes" \notin used_map[k]
    <3>1. item' = [item EXCEPT !["nbr_routes"][k] = a]
      BY <1>1, <2>3
    <3>2. /\ item' \in [Table -> [Key -> Addr \cup {NULL}]]
          /\ \A t \in Table, j \in Key :
               item'[t][j] = IF t = "nbr_routes" /\ j = k THEN a ELSE item[t][j]
      BY <3>1, <2>1, <1>3, PutItem
    <3>3. \A j \in Keys : j # k => used_map'[j] \subseteq used_map[j] /\ used_map[j] \subseteq Table
      BY <1>2, <1>3, <1>4, <1>8
    <3>4. \A t \in used_map'[k] : item'[t][k] = lladdr[k]
      BY <3>2, <1>3, <1>4, <1>8 DEF IInv, ItemsOK, ItemsOwned
    <3>5. \A j \in Keys : j # k => \A t \in used_map'[j] : item'[t][j] = lladdr[j]
      BY <3>2, <3>3, <1>2 DEF IInv, ItemsOK, ItemsOwned
    <3> QED
      BY <3>2, <3>4, <3>5, <1>1, <1>2 DEF ItemsOK, ItemsOwned
  <2> QED
    BY <2>2, <2>3
<1>15. PointersKept'
  <2>1. ASSUME NEW e \in Dest, neighbor_routes'[e] # 0
        PROVE  "nbr_routes" \in used_map'[neighbor_routes'[e]] /\ lladdr'[neighbor_routes'[e]] = meant'[e]
    <3>1. neighbor_routes'[e] \in Key
      BY <2>1, <1>10
    <3>2. "nbr_routes" \in used_map'[neighbor_routes'[e]]
      BY <2>1, <3>1, <1>12, <1>9 DEF MapsOK
    <3> QED
      BY <2>1, <3>2, <1>1, <1>3, <1>10, <1>11 DEF IInv, PointersKept
  <2>2. preferred_parent' # 0 =>
          "rpl_parents" \in used_map'[preferred_parent'] /\ lladdr'[preferred_parent'] = meant'[0]
    <3>1. preferred_parent' = preferred_parent /\ preferred_parent \in Key \cup {0}
      BY <1>1 DEF IInv, LinksOK
    <3>2. \A j \in Key : "rpl_parents" \in used_map[j] => "rpl_parents" \in used_map'[j]
      BY <1>8
    <3> QED
      BY <3>1, <3>2, <1>1, <1>11 DEF IInv, PointersKept
  <2> QED
    BY <2>1, <2>2 DEF PointersKept
<1> QED
  BY <1>2, <1>9, <1>13, <1>14, <1>15 DEF IInv

(* A route goes.                                                           *)
LEMMA RouteRmIInv ==
  ASSUME IInv, NEW d \in Dest, uip_ds6_route_rm(d)
  PROVE  IInv'
<1> DEFINE gone(j) == j = neighbor_routes[d] /\ OnlyRoute(d)
<1>1. KeysOK' /\ Keys' = Keys /\ Keys \subseteq Key
  BY KeysSame, KeysAreKeys DEF uip_ds6_route_rm, IInv
<1>2. used_map \in [Key -> SUBSET Table] /\ locked_map \in [Key -> SUBSET Table]
  BY DEF IInv, MapsOK
<1>3. /\ used_map' \in [Key -> SUBSET Table]
      /\ \A j \in Key : used_map'[j] = IF gone(j) THEN used_map[j] \ {"nbr_routes"} ELSE used_map[j]
      /\ locked_map' \in [Key -> SUBSET Table]
      /\ \A j \in Key : locked_map'[j] = IF gone(j) THEN locked_map[j] \ {"nbr_routes"} ELSE locked_map[j]
  BY <1>2, WithoutRouteDoes DEF uip_ds6_route_rm
<1>4. \A e \in Dest : e # d => ~gone(neighbor_routes[e])
  BY DEF OnlyRoute
<1> HIDE DEF gone
<1>5. /\ neighbor_routes' \in [Dest -> Key \cup {0}] /\ neighbor_routes'[d] = 0
      /\ \A e \in Dest : e # d => neighbor_routes'[e] = neighbor_routes[e]
  BY DEF uip_ds6_route_rm, IInv, LinksOK
<1>6. MapsOK'
  BY <1>1, <1>3 DEF uip_ds6_route_rm, IInv, MapsOK
<1>7. ASSUME NEW e \in Dest, neighbor_routes'[e] # 0
      PROVE  /\ e # d /\ neighbor_routes'[e] = neighbor_routes[e] /\ neighbor_routes[e] \in Key
             /\ "nbr_routes" \in locked_map'[neighbor_routes'[e]]
  <2>1. e # d /\ neighbor_routes'[e] = neighbor_routes[e] /\ neighbor_routes[e] \in Key
    BY <1>5, <1>7
  <2>2. ~gone(neighbor_routes[e]) /\ "nbr_routes" \in locked_map[neighbor_routes[e]]
    BY <2>1, <1>4, <1>7 DEF IInv, LinksOK
  <2> QED
    BY <2>1, <2>2, <1>3
<1>8. LinksOK'
  BY <1>5, <1>7 DEF uip_ds6_route_rm, IInv, LinksOK
<1>9. ItemsOK'
  BY <1>1, <1>2, <1>3 DEF uip_ds6_route_rm, IInv, ItemsOK, ItemsOwned
<1>10. PointersKept'
  <2>1. ASSUME NEW e \in Dest, neighbor_routes'[e] # 0
        PROVE  "nbr_routes" \in used_map'[neighbor_routes'[e]] /\ lladdr'[neighbor_routes'[e]] = meant'[e]
    BY <2>1, <1>6, <1>7 DEF uip_ds6_route_rm, IInv, MapsOK, PointersKept
  <2>2. \A j \in Key : "rpl_parents" \in used_map[j] => "rpl_parents" \in used_map'[j]
    BY <1>3
  <2> QED
    BY <2>1, <2>2 DEF uip_ds6_route_rm, IInv, LinksOK, PointersKept
<1> QED
  BY <1>1, <1>6, <1>8, <1>9, <1>10 DEF IInv

(* All routes through a neighbor go, and with them its item.               *)
LEMMA RouteRmByNexthopIInv ==
  ASSUME IInv, NEW a \in Addr, uip_ds6_route_rm_by_nexthop(a)
  PROVE  IInv'
<1>1. PICK k \in Holding("nbr_routes") :
        /\ nbr_table_remove("nbr_routes", k)
        /\ neighbor_routes' = RoutesWithout(k)
        /\ UNCHANGED <<nbr_table_keys, lladdr, preferred_parent, rpl, item, meant>>
  BY DEF uip_ds6_route_rm_by_nexthop
<1>2. KeysOK' /\ Keys' = Keys /\ Keys \subseteq Key
  BY <1>1, KeysSame, KeysAreKeys DEF IInv
<1>3. k \in Key /\ "nbr_routes" \in used_map[k]
  BY <1>2 DEF Holding
<1>4. /\ used_map' = [used_map EXCEPT ![k] = @ \ {"nbr_routes"}]
      /\ locked_map' = [locked_map EXCEPT ![k] = @ \ {"nbr_routes"}]
  BY <1>1 DEF nbr_table_remove
<1>5. /\ neighbor_routes' \in [Dest -> Key \cup {0}]
      /\ \A e \in Dest : neighbor_routes'[e] = IF neighbor_routes[e] = k THEN 0 ELSE neighbor_routes[e]
  BY <1>1, <1>3 DEF RoutesWithout, IInv, LinksOK
<1>6. MapsOK'
  BY <1>1, <1>2, <1>3, <1>4 DEF IInv, MapsOK
<1>7. \A e \in Dest : neighbor_routes'[e] # 0 =>
        neighbor_routes'[e] = neighbor_routes[e] /\ neighbor_routes[e] \in Key \ {k}
  BY <1>5
<1>8. LinksOK'
  BY <1>1, <1>4, <1>5, <1>7 DEF IInv, MapsOK, LinksOK
<1>9. ItemsOK'
  BY <1>1, <1>2, <1>3, <1>4 DEF IInv, MapsOK, ItemsOK, ItemsOwned
<1>10. PointersKept'
  BY <1>1, <1>3, <1>4, <1>7 DEF IInv, MapsOK, LinksOK, PointersKept
<1> QED
  BY <1>2, <1>6, <1>8, <1>9, <1>10 DEF IInv

(* The preferred parent changes, and its lock with it.                     *)
LEMMA SetPreferredIInv ==
  ASSUME IInv, NEW k \in Key \cup {0}, rpl_set_preferred_parent(k)
  PROVE  IInv'
<1>1. KeysOK' /\ Keys' = Keys /\ Keys \subseteq Key
  BY KeysSame, KeysAreKeys DEF rpl_set_preferred_parent, IInv
<1>2. /\ k # preferred_parent /\ preferred_parent' = k
      /\ k # 0 => k \in Keys /\ "rpl_parents" \in used_map[k]
      /\ UNCHANGED <<nbr_table_keys, lladdr, used_map, neighbor_routes, rpl, item>>
  BY DEF rpl_set_preferred_parent, Holding
<1>3. /\ locked_map' \in [Key -> SUBSET Table]
      /\ \A j \in Key : /\ j = k => locked_map'[j] = locked_map[j] \cup {"rpl_parents"}
                        /\ j = preferred_parent => locked_map'[j] = locked_map[j] \ {"rpl_parents"}
                        /\ j # k /\ j # preferred_parent => locked_map'[j] = locked_map[j]
  <2>1. locked_map' = [j \in Key |->
          CASE j = k -> locked_map[j] \cup {"rpl_parents"}
            [] j = preferred_parent -> locked_map[j] \ {"rpl_parents"}
            [] OTHER -> locked_map[j]]
    BY DEF rpl_set_preferred_parent
  <2>2. \A j \in Key : locked_map[j] \in SUBSET Table
    BY DEF IInv, MapsOK
  <2>3. "rpl_parents" \in Table
    BY DEF Table
  <2>4. \A j \in Key : /\ j = k => locked_map'[j] = locked_map[j] \cup {"rpl_parents"}
                       /\ j = preferred_parent => locked_map'[j] = locked_map[j] \ {"rpl_parents"}
                       /\ j # k /\ j # preferred_parent => locked_map'[j] = locked_map[j]
    BY <2>1, <1>2
  <2>5. ASSUME NEW j \in Key PROVE locked_map'[j] \subseteq Table
    <3>1. locked_map[j] \subseteq Table
      BY <2>2
    <3>2. CASE j = k
      BY <2>3, <2>4, <3>1, <3>2
    <3>3. CASE j = preferred_parent
      BY <2>4, <3>1, <3>3
    <3>4. CASE j # k /\ j # preferred_parent
      BY <2>4, <3>1, <3>4
    <3> QED
      BY <3>2, <3>3, <3>4
  <2>6. locked_map' = [j \in Key |-> locked_map'[j]]
    BY <2>1
  <2>7. locked_map' \in [Key -> SUBSET Table]
    BY <2>5, <2>6
  <2> QED
    BY <2>4, <2>7
<1>4. MapsOK'
  BY <1>1, <1>2, <1>3, ZenonT(30) DEF IInv, MapsOK
<1>5. meant' = [meant EXCEPT ![0] = IF k = 0 THEN NULL ELSE lladdr[k]]
  BY DEF rpl_set_preferred_parent
<1>6. /\ meant' \in [Dest \cup {0} -> Addr \cup {NULL}]
      /\ meant'[0] = (IF k = 0 THEN NULL ELSE lladdr[k])
      /\ \A d \in Dest : meant'[d] = meant[d]
  BY <1>1, <1>2, <1>5, NbrAssumption DEF IInv, KeysOK, LinksOK
<1>7. LinksOK'
  BY <1>2, <1>3, <1>6 DEF IInv, LinksOK
<1>8. ItemsOK'
  BY <1>1, <1>2 DEF IInv, ItemsOK, ItemsOwned
<1>9. PointersKept'
  BY <1>2, <1>6 DEF IInv, PointersKept
<1> QED
  BY <1>1, <1>4, <1>7, <1>8, <1>9 DEF IInv

(* A parent goes; if it was preferred, there is no preferred parent.       *)
LEMMA RemoveParentIInv ==
  ASSUME IInv, NEW k \in Key, rpl_remove_parent(k)
  PROVE  IInv'
<1>1. KeysOK' /\ Keys' = Keys /\ Keys \subseteq Key
  BY KeysSame, KeysAreKeys DEF rpl_remove_parent, IInv
<1>2. /\ used_map' = [used_map EXCEPT ![k] = @ \ {"rpl_parents"}]
      /\ locked_map' = [locked_map EXCEPT ![k] = @ \ {"rpl_parents"}]
      /\ preferred_parent' = IF preferred_parent = k THEN 0 ELSE preferred_parent
      /\ UNCHANGED <<nbr_table_keys, lladdr, neighbor_routes, rpl, item, meant>>
  BY DEF rpl_remove_parent, nbr_table_remove, ParentWithout, Holding
<1>3. 0 \notin Key
  BY DEF Key
<1>4. MapsOK'
  BY <1>1, <1>2, <1>3 DEF IInv, MapsOK
<1>5. LinksOK'
  BY <1>2 DEF IInv, MapsOK, LinksOK
<1>6. ItemsOK'
  BY <1>1, <1>2 DEF IInv, MapsOK, ItemsOK, ItemsOwned
<1>7. PointersKept'
  BY <1>2, <1>3 DEF IInv, MapsOK, LinksOK, PointersKept
<1> QED
  BY <1>1, <1>4, <1>5, <1>6, <1>7 DEF IInv

(***************************************************************************)
(* Theorems                                                                *)
(***************************************************************************)
LEMMA InitIInv == Init => IInv
<1> SUFFICES ASSUME Init PROVE IInv
  OBVIOUS
<1>1. nbr_table_keys = <<>> /\ Keys = {}
  BY DEF Init, Keys, ToSet
<1>2. KeysOK
  BY <1>1 DEF Init, KeysOK, IsInjective
<1>3. MapsOK
  BY DEF Init, MapsOK, Key
<1>4. LinksOK /\ PointersKept
  BY DEF Init, LinksOK, PointersKept
<1>5. ItemsOK
  BY <1>1 DEF Init, ItemsOK, ItemsOwned
<1> QED
  BY <1>2, <1>3, <1>4, <1>5 DEF IInv

LEMMA NextIInv == IInv /\ [Next]_vars => IInv'
<1> SUFFICES ASSUME IInv, [Next]_vars PROVE IInv'
  OBVIOUS
<1> USE DEF Table
<1>1. ASSUME NEW a \in Addr, link_stats_packet_sent(a) PROVE IInv'
  BY <1>1, AddIInv DEF link_stats_packet_sent
<1>2. ASSUME NEW a \in Addr, rpl_add_parent(a) PROVE IInv'
  BY <1>2, AddKnownIInv DEF rpl_add_parent
<1>3. ASSUME NEW a \in Addr, NEW reason \in {"IPV6_ND", "RPL"}, uip_ds6_nbr_add(a, reason) PROVE IInv'
  BY <1>3, AddIInv DEF uip_ds6_nbr_add
<1>4. CASE UNCHANGED vars
  <2>1. KeysOK' /\ Keys' = Keys
    BY <1>4, KeysSame DEF vars, IInv
  <2> QED
    BY <2>1, <1>4 DEF vars, IInv, MapsOK, LinksOK, ItemsOK, ItemsOwned, PointersKept
<1> QED
  BY <1>1, <1>2, <1>3, <1>4, RouteRmByNexthopIInv, RouteAddIInv, RouteRmIInv, NbrRmIInv,
     RemoveParentIInv, SetPreferredIInv, LinkStatsResetIInv DEF Next

(* The table is consistent, whatever is added, evicted and removed.        *)
THEOREM Consistent == Spec => []IInv
  BY InitIInv, NextIInv, PTL DEF Spec

(* The types; each key and each address is on the list at most once.       *)
THEOREM Typed == Spec => []NbrTypeOK
<1>1. IInv => NbrTypeOK
  <2> SUFFICES ASSUME IInv PROVE NbrTypeOK
    OBVIOUS
  <2>1. \A k \in Keys : lladdr[k] # NULL /\ index_from_lladdr(lladdr[k]) = {k}
    BY NbrAssumption DEF IInv, KeysOK, index_from_lladdr
  <2> QED
    BY <2>1 DEF IInv, KeysOK, MapsOK, LinksOK, ItemsOK, NbrTypeOK
<1> QED
  BY <1>1, Consistent, PTL

(* An item found for a neighbor holds that neighbor's data, also in the    *)
(* table that is never told of an eviction.                                *)
THEOREM Owned == Spec => []ItemsOwned
<1>1. IInv => ItemsOwned
  BY DEF IInv, ItemsOK
<1> QED
  BY <1>1, Consistent, PTL

(* Routes and the preferred parent point to the neighbors they were made   *)
(* for, although eviction reuses slots.                                    *)
THEOREM Kept == Spec => []PointersKept
<1>1. IInv => PointersKept
  BY DEF IInv
<1> QED
  BY <1>1, Consistent, PTL

(* A locked neighbor is not evicted, neither by the default policy nor by  *)
(* RPL's, which may ignore the lock.                                       *)
THEOREM Locked == Spec => LockedStays
<1> DEFINE Stays == \A k \in Keys : locked_map[k] # {} => lladdr'[k] = lladdr[k]
<1>1. IInv /\ [Next]_vars => [Stays]_vars
  <2> SUFFICES ASSUME IInv, Next PROVE Stays
    OBVIOUS
  <2>1. Keys \subseteq Key /\ lladdr \in [Key -> Addr \cup {NULL}]
    BY KeysAreKeys DEF IInv, KeysOK
  <2>2. ASSUME NEW table, NEW a \in Addr, NEW reason, nbr_table_add_lladdr(table, a, reason)
        PROVE  Stays
    <3>1. CASE AddKnown(table, a) \/ AddFails(a, reason)
      BY <3>1 DEF AddKnown, AddFails
    <3>2. CASE AddFree(table, a)
      <4>1. Len(nbr_table_keys) + 1 \notin Keys
        BY DEF IInv, KeysOK
      <4> QED
        BY <3>2, <4>1, <2>1 DEF AddFree
    <3>3. CASE AddEvicting(table, a, reason)
      <4>1. PICK k \in Removable(reason) : lladdr' = [lladdr EXCEPT ![k] = a]
        BY <3>3 DEF AddEvicting
      <4>2. locked_map[k] = {}
        BY RemovableUnlocked
      <4> QED
        BY <4>1, <4>2, <2>1
    <3> QED
      BY <2>2, <3>1, <3>2, <3>3 DEF nbr_table_add_lladdr
  <2> HIDE DEF Stays
  <2>3. ASSUME NEW a \in Addr, link_stats_packet_sent(a) PROVE Stays
    BY <2>2, <2>3 DEF link_stats_packet_sent
  <2>4. ASSUME NEW a \in Addr, NEW reason, uip_ds6_nbr_add(a, reason) PROVE Stays
    BY <2>2, <2>4 DEF uip_ds6_nbr_add
  <2>5. CASE lladdr' = lladdr
    BY <2>5 DEF Stays
  <2> QED
    BY <2>3, <2>4, <2>5 DEF Next, rpl_add_parent, AddKnown, uip_ds6_route_rm_by_nexthop,
       uip_ds6_route_add, uip_ds6_route_rm, uip_ds6_nbr_rm, rpl_remove_parent,
       rpl_set_preferred_parent, link_stats_reset
<1> QED
  BY <1>1, Consistent, PTL DEF Spec, LockedStays
=============================================================================
