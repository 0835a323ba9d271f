----------------------------- MODULE MCNbrTable -----------------------------
(* NbrTable on the constants of its configuration.  Addresses are          *)
(* interchangeable, and so are destinations.                               *)
EXTENDS NbrTable, TLC

Symmetry == Permutations(Addr) \cup Permutations(Dest)

(* What the rest of a run depends on: an item is zeroed when its used bit  *)
(* is set, and the histories matter only for what is in use.               *)
Used(k) == [t \in used_map[k] |-> item[t][k]]
View == <<nbr_table_keys, lladdr, [k \in Key |-> Used(k)], locked_map, neighbor_routes,
          preferred_parent, rpl,
          [d \in {d \in Dest : neighbor_routes[d] # 0} |-> meant[d]],
          preferred_parent # 0 /\ meant[0] = lladdr[preferred_parent]>>
=============================================================================
