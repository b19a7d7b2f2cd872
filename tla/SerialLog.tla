------------------------------ MODULE SerialLog ------------------------------
(***************************************************************************)
(* What the command side promises: commands on an aggregate happen one at  *)
(* a time.  A command is executed at most once, in one step; that step     *)
(* reads the whole log of its aggregate and appends what it decides.       *)
(*                                                                         *)
(* A command that is rejected, that decides nothing or that is given up    *)
(* leaves no trace here.                                                   *)
(***************************************************************************)
EXTENDS Integers, Sequences

CONSTANTS
  AggregateId,
  Command,
  MaxEvents       \* the most events a command decides

VARIABLE log      \* per aggregate, the events in the order they happened

\* The length of the log a command was decided on stands for that log: it
\* only grows at its end.
Entry == [command : Command, decidedAt : Nat]

Executed(command) ==
  \E id \in AggregateId : \E i \in DOMAIN log[id] : log[id][i].command = command

Init == log = [id \in AggregateId |-> << >>]

Execute(id, command) ==
  /\ ~ Executed(command)
  /\ \E n \in 1..MaxEvents :
       log' = [log EXCEPT ![id] =
                 @ \o [i \in 1..n |-> [command |-> command, decidedAt |-> Len(@)]]]

Next == \E id \in AggregateId, command \in Command : Execute(id, command)

Spec == Init /\ [][Next]_log

=============================================================================
