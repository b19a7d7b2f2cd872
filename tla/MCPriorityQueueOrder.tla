------------------------ MODULE MCPriorityQueueOrder ------------------------
(***************************************************************************)
(* A small instance of PriorityQueueOrder: four queues, with an item each, *)
(* or three, of which one has two.                                         *)
(***************************************************************************)
EXTENDS PriorityQueueOrder, TLC

Items == {"i1", "i2", "i3", "i4"}

ThreeOrFourQueues ==
  [i \in Items |-> CASE i = "i1" -> {"d"} [] i = "i2" -> {"d", "e"}
                     [] i = "i3" -> {"f"} [] i = "i4" -> {"g"}]

TwoPriorities == [i \in Items |-> IF i \in {"i1", "i3"} THEN 1 ELSE 2]

TokenSymmetry == Permutations(Token)

=============================================================================
