------------------------------ MODULE NbrTable ------------------------------
(***************************************************************************)
(* The neighbor table (net/nbr-table.c) and the four tables that share it: *)
(* link statistics, IPv6 neighbors, routes by next hop, and RPL parents.   *)
(* One list of keys, ordered by insertion, holds the link-layer addresses; *)
(* a table's item for a neighbor is the slot with the key's index.  When   *)
(* all keys are in use, adding a neighbor evicts another, and the tables   *)
(* that registered a callback are told.  Routes and the preferred parent   *)
(* are kept as pointers to slots, which is what eviction endangers.        *)
(***************************************************************************)
EXTENDS Integers, Sequences, FiniteSets, SequencesExt

CONSTANTS
  Addr,                     \* link-layer addresses; a neighbor's IPv6 address stands for it
  Dest,                     \* destinations a route may lead to
  NBR_TABLE_MAX_NEIGHBORS,  \* blocks in neighbor_addr_mem
  NULL                      \* no address

ASSUME NbrAssumption ==
  NBR_TABLE_MAX_NEIGHBORS \in Nat \ {0} /\ NULL \notin Addr /\ 0 \notin Dest

Key == 1..NBR_TABLE_MAX_NEIGHBORS
Table == {"link_stats", "ds6_neighbors", "nbr_routes", "rpl_parents"}

(* link-stats.c registers NULL; the callbacks of the others all end in     *)
(* nbr_table_remove of their own item.                                     *)
WithCallback == Table \ {"link_stats"}

VARIABLES
  nbr_table_keys,    \* the keys in use, oldest first
  lladdr,            \* key -> its address
  used_map,          \* key -> the tables that hold an item for it
  locked_map,        \* key -> the tables that have locked it
  neighbor_routes,   \* destination -> the slot its route points to, 0 for no route
  preferred_parent,  \* the slot the DAG's preferred parent is, 0 for none
  rpl,               \* whether the build has RPL, and with it the removal policy
  item,              \* history: table, key -> the address the item's data is about
  meant              \* history: the address each route, and the parent, was set to

vars == <<nbr_table_keys, lladdr, used_map, locked_map, neighbor_routes, preferred_parent,
          rpl, item, meant>>

Init ==
  /\ nbr_table_keys = <<>>
  /\ lladdr = [k \in Key |-> NULL]
  /\ used_map = [k \in Key |-> {}]
  /\ locked_map = [k \in Key |-> {}]
  /\ neighbor_routes = [d \in Dest |-> 0]
  /\ preferred_parent = 0
  /\ rpl \in BOOLEAN
  /\ item = [t \in Table |-> [k \in Key |-> NULL]]
  /\ meant = [p \in Dest \cup {0} |-> NULL]

(***************************************************************************)
(* nbr-table.c                                                             *)
(***************************************************************************)
Keys == ToSet(nbr_table_keys)
index_used(a) == {k \in Keys : lladdr[k] = a /\ used_map[k] # {}}  \* mutation
index_from_lladdr(a) == {k \in Keys : lladdr[k] = a}
Holding(table) == {k \in Keys : table \in used_map[k]}
nbr_table_get_from_lladdr(table, a) == index_from_lladdr(a) \cap Holding(table)
Age(k) == CHOOSE i \in DOMAIN nbr_table_keys : nbr_table_keys[i] = k

(* The neighbor the default policy frees: not locked, used by the fewest   *)
(* tables, oldest.                                                         *)
LeastUsed ==
  LET Unlocked == {k \in Keys : locked_map[k] = {}}
      Count(k) == Cardinality(used_map[k])
      Fewest == {k \in Unlocked : \A j \in Unlocked : Count(k) <= Count(j)}
  IN  {k \in Fewest : \A j \in Fewest : Age(k) <= Age(j)}

(* Mutation: next hops are not exempt.                                     *)
RplRemovableHop == {k \in Holding("ds6_neighbors") : preferred_parent # k}

(* rpl_nbr_policy_find_removable: only a DIO, a DAO or a DIS may evict.    *)
(* The last IPv6 neighbor that is neither next hop nor parent, or else     *)
(* some parent that is neither next hop nor preferred; ranks and limits on *)
(* children, which decide between these and nothing, are left open.        *)
RplRemovable ==
  LET Childless == {k \in Holding("ds6_neighbors") : "nbr_routes" \notin used_map[k]}
      Unused == {k \in Childless : "rpl_parents" \notin used_map[k]}
  IN  IF Unused # {}
      THEN {k \in Unused : \A j \in Unused : Age(j) <= Age(k)}
      ELSE {k \in Childless : preferred_parent # k}

Removable(reason) ==
  IF ~rpl THEN LeastUsed ELSE IF reason = "RPL" THEN RplRemovable ELSE {}

(* nbr_table_remove of one item: both bits of the table.                   *)
nbr_table_remove(table, k) ==
  /\ used_map' = [used_map EXCEPT ![k] = @ \ {table}]
  /\ locked_map' = [locked_map EXCEPT ![k] = @ \ {table}]

(* The routes and the parent that remain when slot k goes: the callbacks   *)
(* of nbr_routes and rpl_parents drop what points to it.                   *)
RoutesWithout(k) ==
  [d \in Dest |-> IF neighbor_routes[d] = k /\ "nbr_routes" \in used_map[k]
                  THEN 0 ELSE neighbor_routes[d]]
ParentKept(k) == preferred_parent  \* mutation
ParentWithout(k) ==
  IF preferred_parent = k /\ "rpl_parents" \in used_map[k] THEN 0 ELSE preferred_parent

(* The lock bits remove_key leaves: the policy clears them all first, and  *)
(* each callback clears those of its table.                                *)
LocksWithout(k) == IF rpl THEN {} ELSE locked_map[k] \ (used_map[k] \cap WithCallback)

(* Mutation: remove_key leaves the used bits.                              *)
SetItemKept(table, k, a, used) ==
  /\ used_map' = [used_map EXCEPT ![k] = @ \cup {table}]
  /\ item' = [item EXCEPT ![table][k] = a]

(* The rest of nbr_table_add_lladdr, once key k stands for address a: the  *)
(* item is zeroed and the used bit set.                                    *)
SetItem(table, k, a, used) ==
  /\ used_map' = [used_map EXCEPT ![k] = used \cup {table}]
  /\ item' = [item EXCEPT ![table][k] = a]

AddKnown(table, a) ==
  \E k \in index_from_lladdr(a) :
    /\ SetItem(table, k, a, used_map[k])
    /\ UNCHANGED <<nbr_table_keys, lladdr, locked_map, neighbor_routes, preferred_parent>>

AddFree(table, a) ==
  LET k == Len(nbr_table_keys) + 1
  IN  /\ index_from_lladdr(a) = {} /\ k \in Key
      /\ nbr_table_keys' = Append(nbr_table_keys, k)
      /\ lladdr' = [lladdr EXCEPT ![k] = a]
      /\ SetItem(table, k, a, used_map[k])
      /\ UNCHANGED <<locked_map, neighbor_routes, preferred_parent>>

AddEvicting(table, a, reason) ==
  /\ index_from_lladdr(a) = {} /\ Keys = Key
  /\ \E k \in Removable(reason) :
       /\ nbr_table_keys' = Append(RemoveAt(nbr_table_keys, Age(k)), k)
       /\ lladdr' = [lladdr EXCEPT ![k] = a]
       /\ locked_map' = [locked_map EXCEPT ![k] = LocksWithout(k)]
       /\ neighbor_routes' = RoutesWithout(k)
       /\ preferred_parent' = ParentWithout(k)
       /\ SetItem(table, k, a, {})

(* The default policy fails only when all are locked, RPL's at any time.   *)
AddFails(a, reason) ==
  /\ index_from_lladdr(a) = {} /\ Keys = Key
  /\ rpl \/ Removable(reason) = {}
  /\ UNCHANGED <<nbr_table_keys, lladdr, used_map, locked_map, neighbor_routes,
                 preferred_parent, item>>

nbr_table_add_lladdr(table, a, reason) ==
  \/ AddKnown(table, a)
  \/ AddFree(table, a)
  \/ AddEvicting(table, a, reason)
  \/ AddFails(a, reason)

(***************************************************************************)
(* The users of the table.                                                 *)
(***************************************************************************)
(* A frame is sent to or received from a: its statistics are created.      *)
link_stats_packet_sent(a) ==
  /\ nbr_table_get_from_lladdr("link_stats", a) = {}
  /\ nbr_table_add_lladdr("link_stats", a, "LINK_STATS")
  /\ UNCHANGED <<rpl, meant>>

link_stats_reset ==
  /\ used_map' = [k \in Key |-> used_map[k] \ {"link_stats"}]
  /\ locked_map' = [k \in Key |-> locked_map[k] \ {"link_stats"}]
  /\ UNCHANGED <<nbr_table_keys, lladdr, neighbor_routes, preferred_parent, rpl, item, meant>>

(* Neighbor discovery, or an RPL message, learns of a.                     *)
uip_ds6_nbr_add(a, reason) ==
  /\ nbr_table_get_from_lladdr("ds6_neighbors", a) = {}
  /\ reason = "RPL" => rpl
  /\ nbr_table_add_lladdr("ds6_neighbors", a, reason)
  /\ UNCHANGED <<rpl, meant>>

uip_ds6_nbr_rm(k) ==
  /\ k \in Holding("ds6_neighbors")
  /\ nbr_table_remove("ds6_neighbors", k)
  /\ UNCHANGED <<nbr_table_keys, lladdr, neighbor_routes, preferred_parent, rpl, item, meant>>

(* A route through IPv6 neighbor a: the next hop's item is made if it has  *)
(* none, and locked.  A route to d through another neighbor goes first,    *)
(* with that neighbor's item if it was the last one there.                 *)
OnlyRoute(d) == \A e \in Dest : neighbor_routes[e] = neighbor_routes[d] => e = d
WithoutRoute(map, d) ==
  IF neighbor_routes[d] # 0 /\ OnlyRoute(d)
  THEN [map EXCEPT ![neighbor_routes[d]] = @ \ {"nbr_routes"}] ELSE map

uip_ds6_route_add(d, a) ==
  \E k \in nbr_table_get_from_lladdr("ds6_neighbors", a) :
    /\ neighbor_routes[d] # k
    /\ item' = IF "nbr_routes" \in used_map[k] THEN item ELSE [item EXCEPT !["nbr_routes"][k] = a]
    /\ used_map' = [WithoutRoute(used_map, d) EXCEPT ![k] = @ \cup {"nbr_routes"}]
    /\ locked_map' = [WithoutRoute(locked_map, d) EXCEPT ![k] = @ \cup {"nbr_routes"}]
    /\ neighbor_routes' = [neighbor_routes EXCEPT ![d] = k]
    /\ meant' = [meant EXCEPT ![d] = a]
    /\ UNCHANGED <<nbr_table_keys, lladdr, preferred_parent, rpl>>

uip_ds6_route_rm(d) ==
  /\ neighbor_routes[d] # 0
  /\ used_map' = WithoutRoute(used_map, d)
  /\ locked_map' = WithoutRoute(locked_map, d)
  /\ neighbor_routes' = [neighbor_routes EXCEPT ![d] = 0]
  /\ UNCHANGED <<nbr_table_keys, lladdr, preferred_parent, rpl, item, meant>>

uip_ds6_route_rm_by_nexthop(a) ==
  \E k \in nbr_table_get_from_lladdr("ds6_neighbors", a) \cap Holding("nbr_routes") :
    /\ nbr_table_remove("nbr_routes", k)
    /\ neighbor_routes' = RoutesWithout(k)
    /\ UNCHANGED <<nbr_table_keys, lladdr, preferred_parent, rpl, item, meant>>

(* A DIO makes IPv6 neighbor a a candidate parent; its key exists.         *)
rpl_add_parent(a) ==
  /\ rpl
  /\ nbr_table_get_from_lladdr("ds6_neighbors", a) # {}
  /\ nbr_table_get_from_lladdr("rpl_parents", a) = {}
  /\ AddKnown("rpl_parents", a)
  /\ UNCHANGED <<rpl, meant>>

(* The preferred parent becomes candidate k, or none (0): the old one is   *)
(* unlocked, the new one locked.                                           *)
rpl_set_preferred_parent(k) ==
  /\ rpl /\ k \in Holding("rpl_parents") \cup {0} /\ k # preferred_parent
  /\ locked_map' = [j \in Key |->
       CASE j = k -> locked_map[j] \cup {"rpl_parents"}
         [] j = preferred_parent -> locked_map[j] \ {"rpl_parents"}
         [] OTHER -> locked_map[j]]
  /\ preferred_parent' = k
  /\ meant' = [meant EXCEPT ![0] = IF k = 0 THEN NULL ELSE lladdr[k]]
  /\ UNCHANGED <<nbr_table_keys, lladdr, used_map, neighbor_routes, rpl, item>>

rpl_remove_parent(k) ==
  /\ k \in Holding("rpl_parents")
  /\ preferred_parent' = ParentWithout(k)
  /\ nbr_table_remove("rpl_parents", k)
  /\ UNCHANGED <<nbr_table_keys, lladdr, neighbor_routes, rpl, item, meant>>

Next ==
  \/ \E a \in Addr : link_stats_packet_sent(a) \/ rpl_add_parent(a)
                     \/ uip_ds6_route_rm_by_nexthop(a)
  \/ \E a \in Addr, reason \in {"IPV6_ND", "RPL"} : uip_ds6_nbr_add(a, reason)
  \/ \E d \in Dest, a \in Addr : uip_ds6_route_add(d, a)
  \/ \E d \in Dest : uip_ds6_route_rm(d)
  \/ \E k \in Key : uip_ds6_nbr_rm(k) \/ rpl_remove_parent(k)
  \/ \E k \in Key \cup {0} : rpl_set_preferred_parent(k)
  \/ link_stats_reset

Spec == Init /\ [][Next]_vars

(***************************************************************************)
(* Properties.                                                             *)
(***************************************************************************)
(* The types; the list holds each key, and each address, at most once, so  *)
(* that a neighbor has one item per table.                                 *)
NbrTypeOK ==
  /\ nbr_table_keys \in Seq(Key) /\ IsInjective(nbr_table_keys)
  /\ lladdr \in [Key -> Addr \cup {NULL}]
  /\ \A k \in Keys : lladdr[k] # NULL /\ index_from_lladdr(lladdr[k]) = {k}
  /\ used_map \in [Key -> SUBSET Table] /\ locked_map \in [Key -> SUBSET Table]
  /\ neighbor_routes \in [Dest -> Key \cup {0}] /\ preferred_parent \in Key \cup {0}
  /\ item \in [Table -> [Key -> Addr \cup {NULL}]]

(* Whatever is evicted and reused, the item a table finds for a neighbor   *)
(* holds that neighbor's data: link_stats is never told of an eviction     *)
(* (its callback is NULL), and must not find the old neighbor's statistics *)
(* under the new address.                                                  *)
ItemsOwned == \A k \in Keys : \A t \in used_map[k] : item[t][k] = lladdr[k]

(* A route leads to the neighbor it was made for and the preferred parent  *)
(* is the neighbor that was chosen, though both are pointers to slots that *)
(* eviction reuses: a slot somebody points to is locked or its owner told. *)
PointersKept ==
  /\ \A d \in Dest : LET k == neighbor_routes[d] IN
       k # 0 => "nbr_routes" \in used_map[k] /\ lladdr[k] = meant[d]
  /\ LET k == preferred_parent IN
       k # 0 => "rpl_parents" \in used_map[k] /\ lladdr[k] = meant[0]

(* The next hop of a route and the preferred parent are never evicted:     *)
(* rpl-dag.c ("Always keep the preferred parent locked, so it remains in   *)
(* the neighbor table") and uip-ds6-route.c ("lock this entry so that      *)
(* nexthop is not removed") rely on their locks, which RPL's policy could  *)
(* override ("Allow delete of locked item?").                              *)
LockedStays ==
  [][\A k \in Keys : locked_map[k] # {} => lladdr'[k] = lladdr[k]]_vars

=============================================================================
