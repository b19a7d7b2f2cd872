---------------------------- MODULE MCLockStore -----------------------------
(***************************************************************************)
(* Small instances of LockStore.                                           *)
(***************************************************************************)
EXTENDS LockStoreProperties

\* Both clients ask for b; what they find of a is an earlier process's.
Both == [c \in Client |-> {"b"}]

\* Locks that expire at the second tick, and never.
Times == {1, 3}

=============================================================================
