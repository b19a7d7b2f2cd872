------------------------ MODULE LockStoreProperties -------------------------
(***************************************************************************)
(* What has to hold of LockStore.                                          *)
(***************************************************************************)
EXTENDS LockStore

(***************************************************************************)
(* Types.                                                                  *)
(***************************************************************************)
TypeOK ==
  /\ committed \in [Key -> Expiry \cup {NoRow}]
  /\ draft \in [Key -> Expiry \cup {NoRow}]
  /\ writer \in [Key -> Client \cup {NoClient}]
  /\ clock \in Nat
  /\ call \in [Client -> Call]
  /\ lease \in [Client -> [Key -> Expiry \cup {NoRow}]]
  /\ late \in [Key -> BOOLEAN]

(***************************************************************************)
(* Two clients do not count on one lock at a time, as long as every client *)
(* that renews or releases it still counts on it by the time the statement *)
(* is carried out: whatever time passes within calls, whichever of them    *)
(* fail, and whichever answers are lost.  Without that condition they do:  *)
(* releaseLock and renewLock take no owner.                                *)
(***************************************************************************)
OneHolder ==
  \A v \in Key : ~ late[v] =>
    \A c, d \in Client : Holds(c, v) /\ Holds(d, v) => c = d

(***************************************************************************)
(* The key refuses acquireLock only if isLocked would have answered true   *)
(* when the call deleted expired locks, or somebody put the lock in place  *)
(* since: a lock that expired before does not stand in the way, at no      *)
(* instant.  (An INSERT the database aborts is LockAcquireFailed too, and  *)
(* says nothing of the lock; that is Abort.)                               *)
(***************************************************************************)
RefusedMetALock ==
  \A c \in Client : call[c].phase = "refused" /\ call[c].op = "acquire" => call[c].met

(***************************************************************************)
(* The store implements leases: the table as committed, and what clients   *)
(* have been told of it.  A lock is granted only where there is none, and  *)
(* renewed or taken away under nobody else's hands.                        *)
(***************************************************************************)
Granted ==
  INSTANCE Leases WITH
    Value <- Key, NoLock <- NoRow, lock <- committed, contested <- late

ImplementsLeases == Granted!Spec

(***************************************************************************)
(* Every call ends, also those that wait for one another: a transaction    *)
(* gives all rows free that it wrote, however it ends.                     *)
(***************************************************************************)
CallsEnd == \A c \in Client : (call[c].phase # "idle") ~> (call[c].phase = "idle")

=============================================================================
