------------------------------- MODULE Links -------------------------------
(* Singly linked lists as the C code keeps them: a head and a `next'       *)
(* pointer per node, nil at the end.  A walk of n steps reaches every node *)
(* of a list of at most n nodes, and still ends when the links form a      *)
(* cycle.                                                                  *)
EXTENDS Naturals, FiniteSets, Sequences

\* the node reached from `head' after i steps, for i up to the number of nodes
Walk(head, nxt, nil) ==
  LET at[i \in 0..Cardinality(DOMAIN nxt)] ==
        IF i = 0 THEN head
        ELSE LET prev == at[i - 1] IN IF prev = nil THEN nil ELSE nxt[prev]
  IN at

\* the nodes of the list
Nodes(head, nxt, nil) == LET at == Walk(head, nxt, nil) IN {at[i] : i \in DOMAIN at} \ {nil}

\* the list ends, so no node is on it twice
Ends(head, nxt, nil) == Walk(head, nxt, nil)[Cardinality(DOMAIN nxt)] = nil

\* the first node from `from' on that is in S, nil if there is none
FirstIn(S, from, nxt, nil) ==
  LET at == Walk(from, nxt, nil)
      hits == {i \in DOMAIN at : at[i] \in S}
  IN  IF hits = {} THEN nil ELSE at[CHOOSE i \in hits : \A j \in hits : i <= j]

-----------------------------------------------------------------------------
(* The lists of ns/lib/list.c as sequences: nothing is on one twice,        *)
(* list_add sees to that.                                                   *)
list_remove(list, c) ==
  IF \E k \in DOMAIN list : list[k] = c
    THEN LET k == CHOOSE k \in DOMAIN list : list[k] = c
         IN  SubSeq(list, 1, k - 1) \o SubSeq(list, k + 1, Len(list))
    ELSE list
list_add(list, c) == Append(list_remove(list, c), c)
=============================================================================
