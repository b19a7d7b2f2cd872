------------------------- MODULE MCConsumerProgress -------------------------
(***************************************************************************)
(* Small instances of ConsumerProgressStore.                               *)
(***************************************************************************)
EXTENDS ConsumerProgressProperties

\* Two aggregates for one consumer, one of them for another consumer too.
Keys == {"xa", "xb", "ya"}
Consumers == [k \in Keys |-> IF k = "ya" THEN "y" ELSE "x"]

Ranges == {[from |-> 1, to |-> 2], [from |-> 2, to |-> 2]}

\* Earlier processes have come to revision 1.
One == {[revision |-> 1, replay |-> NoRange]}

=============================================================================
