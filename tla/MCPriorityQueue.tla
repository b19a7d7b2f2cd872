-------------------------- MODULE MCPriorityQueue --------------------------
(***************************************************************************)
(* Small instances of PriorityQueueStore.                                  *)
(***************************************************************************)
EXTENDS PriorityQueueProperties

\* Two items in one queue, one in another.
Items == {"i1", "i2", "i3"}
TwoQueues == [i \in Items |-> IF i = "i3" THEN {"e"} ELSE {"d"}]
Descending == [i \in Items |-> IF i = "i1" THEN 2 ELSE 1]
OneFirst == [i \in Items |-> IF i = "i3" THEN 2 ELSE 1]

=============================================================================
