--------------------- MODULE ConsumerProgressProperties ---------------------
(***************************************************************************)
(* What has to hold of ConsumerProgressStore.                              *)
(***************************************************************************)
EXTENDS ConsumerProgressStore

(***************************************************************************)
(* Types.                                                                  *)
(***************************************************************************)
TypeOK ==
  /\ committed \in [Key -> Row \cup {NoRow}]
  /\ draft \in [Key -> Row \cup {NoRow}]
  /\ writer \in [Key -> Client \cup {NoClient}]
  /\ call \in [Client -> Call]

(***************************************************************************)
(* Unless it is reset, a revision does not fall: acknowledgements of a     *)
(* consumer's processes may come in any order, and start and stop replays  *)
(* in between.                                                             *)
(***************************************************************************)
Stays(k) == committed[k] # NoRow /\ committed'[k] # NoRow

RevisionNeverFalls ==
  [][\A k \in Key : Stays(k) => committed[k].revision <= committed'[k].revision]_vars

(***************************************************************************)
(* A replay in progress is not replaced by another: setIsReplaying that    *)
(* resolves has the replay for itself, until it is stopped or reset.       *)
(***************************************************************************)
ReplayNotReplaced ==
  [][\A k \in Key : Stays(k) =>
       committed[k].replay = NoRange \/ committed'[k].replay \in {NoRange, committed[k].replay}]_vars

(***************************************************************************)
(* FlowIsAlreadyReplaying has one of two reasons.  What getProgress        *)
(* answered when the UPDATE met no row stood against the call, a revision  *)
(* as high or a replay; or another call put a row there after that, and    *)
(* then what is refused may be the higher revision of the two.             *)
(***************************************************************************)
RefusedForAReason ==
  \A c \in Client : call[c].phase = "refused" => call[c].met

(***************************************************************************)
(* The store implements the abstract one: the table as committed.          *)
(***************************************************************************)
Kept ==
  INSTANCE Progress WITH
    progress <- [k \in Key |-> IF committed[k] = NoRow
                                 THEN [revision |-> 0, replay |-> NoRange]
                                 ELSE committed[k]]

ImplementsProgress == Kept!Spec

(***************************************************************************)
(* Every call ends, also resets that wait for one another's rows.          *)
(***************************************************************************)
CallsEnd == \A c \in Client : (call[c].phase # "idle") ~> (call[c].phase = "idle")

=============================================================================
