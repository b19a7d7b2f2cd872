------------------------------- MODULE Leases -------------------------------
(***************************************************************************)
(* What a lock store promises: a lock is granted to a client until a time, *)
(* and before that to nobody else, unless it is given back.  A lock that   *)
(* expired may be forgotten at any time, by whatever call comes along.     *)
(*                                                                         *)
(* The promise is void for a lock that somebody renews or gives back who   *)
(* does not count on it: it is contested from then on.                     *)
(***************************************************************************)
EXTENDS Integers

CONSTANTS
  Client,
  Value,      \* what locks are for
  Expiry,     \* the times they are asked for until
  NoLock

VARIABLES
  clock,
  lock,       \* until when each value is locked, or NoLock
  lease,      \* until when each client counts on that, or NoLock
  contested   \* locks of which nothing is promised

vars == <<clock, lock, lease, contested>>

Expired == {v \in Value : lock[v] # NoLock /\ lock[v] < clock}

Holds(c, v) == lease[c][v] # NoLock /\ lease[c][v] >= clock

\* Nobody but c is concerned.
Own(c, v) == contested[v] \/ \A d \in Client : Holds(d, v) => d = c

Init ==
  /\ clock = 0
  /\ lock \in [Value -> Expiry \cup {NoLock}]
  /\ lease = [c \in Client |-> [v \in Value |-> NoLock]]
  /\ contested = [v \in Value |-> FALSE]

Tick ==
  /\ clock' = clock + 1
  /\ UNCHANGED <<lock, lease, contested>>

Forget(forgotten) == [v \in Value |-> IF v \in forgotten THEN NoLock ELSE lock[v]]

\* The lock is in place from now on; its client may not get to hear of it.
Locked(c, v, e, forgotten) ==
  /\ lock' = [Forget(forgotten) EXCEPT ![v] = e]
  /\ lease' \in {lease, [lease EXCEPT ![c][v] = IF contested[v] THEN NoLock ELSE e]}
  /\ UNCHANGED <<clock, contested>>

Grant(c, v, e, forgotten) ==
  /\ lock[v] = NoLock \/ v \in Expired
  /\ Locked(c, v, e, forgotten)

Extend(c, v, e, forgotten) ==
  /\ lock[v] # NoLock
  /\ Own(c, v)
  /\ Locked(c, v, e, forgotten)

Free(c, v, forgotten) ==
  /\ \/ Own(c, v) /\ lock' = [Forget(forgotten) EXCEPT ![v] = NoLock]
     \/ lock' = Forget(forgotten)
  /\ lease' = [lease EXCEPT ![c][v] = NoLock]
  /\ UNCHANGED <<clock, contested>>

\* A client asks for less time, and counts on no more until it is answered.
Shorten(c, v, e) ==
  /\ lease[c][v] # NoLock /\ e <= lease[c][v]
  /\ lease' = [lease EXCEPT ![c][v] = e]
  /\ UNCHANGED <<clock, lock, contested>>

Contest(c, v) ==
  /\ ~ Holds(c, v)
  /\ contested' = [contested EXCEPT ![v] = TRUE]
  /\ lease' = [d \in Client |-> [lease[d] EXCEPT ![v] = NoLock]]
  /\ UNCHANGED <<clock, lock>>

Next ==
  \/ Tick
  \/ \E c \in Client, v \in Value :
       \/ \E e \in Expiry : Shorten(c, v, e)
       \/ Contest(c, v)
       \/ \E forgotten \in SUBSET Expired :
            \/ \E e \in Expiry : Grant(c, v, e, forgotten) \/ Extend(c, v, e, forgotten)
            \/ Free(c, v, forgotten)

Spec == Init /\ [][Next]_vars

=============================================================================
