------------------------------ MODULE Progress ------------------------------
(***************************************************************************)
(* What a store of consumer progress promises: for each consumer and each  *)
(* aggregate, the revision up to which the consumer has handled it, which  *)
(* advances, and the range of revisions being replayed to it, of which     *)
(* there is one at a time; and a reset, which forgets both.                *)
(***************************************************************************)
EXTENDS Integers

CONSTANTS
  Key,          \* a consumer and an aggregate each
  Consumer,
  ConsumerOf,   \* the consumer of a key
  Revision,
  Range,        \* ranges of revisions to replay
  NoRange

VARIABLE progress

Fresh == [revision |-> 0, replay |-> NoRange]

Init == progress \in [Key -> [revision : Revision \cup {0}, replay : Range \cup {NoRange}]]

Advance(k, r) ==
  /\ r > progress[k].revision
  /\ progress' = [progress EXCEPT ![k].revision = r]

StartReplay(k, range) ==
  /\ progress[k].replay = NoRange
  /\ progress' = [progress EXCEPT ![k].replay = range]

StopReplay(k) == progress' = [progress EXCEPT ![k].replay = NoRange]

\* A key the consumer comes to at the same time may be left as it is.
Reset(consumer, kept) ==
  progress' = [k \in Key |->
    IF ConsumerOf[k] = consumer /\ k \notin kept THEN Fresh ELSE progress[k]]

Next ==
  \/ \E k \in Key :
       \/ \E r \in Revision : Advance(k, r)
       \/ \E range \in Range : StartReplay(k, range)
       \/ StopReplay(k)
  \/ \E consumer \in Consumer, kept \in SUBSET Key : Reset(consumer, kept)

Spec == Init /\ [][Next]_progress

=============================================================================
