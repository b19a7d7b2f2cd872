------------------------------ MODULE RowLocks ------------------------------
(***************************************************************************)
(* A table in PostgreSQL as the transactions of the stores see it (READ    *)
(* COMMITTED, the default, which no store changes).  A statement reads the *)
(* rows committed before it and those its own transaction wrote; a row     *)
(* written and not committed makes other writers of it wait, and so does a *)
(* key inserted and not committed; a statement that waited looks at the row*)
(* again.  TypeORM adds nothing to this: connection.transaction takes a    *)
(* session of its own, commits when its callback resolves, and rolls back  *)
(* when it rejects.                                                        *)
(***************************************************************************)
CONSTANTS
  Client,       \* processes, each with one transaction at a time
  Key,          \* the primary keys
  NoClient,
  NoRow

VARIABLES
  committed,    \* the row of each key, as committed
  writer,       \* the client whose transaction wrote it since
  draft         \* what it wrote

rowVars == <<committed, writer, draft>>

\* The row a statement of c sees, and whether it can write it without waiting.
Seen(c, k) == IF writer[k] = c THEN draft[k] ELSE committed[k]
Unlocked(c, k) == writer[k] \in {NoClient, c}

WriteRow(c, k, row) ==
  /\ writer' = [writer EXCEPT ![k] = c]
  /\ draft' = [draft EXCEPT ![k] = row]
  /\ UNCHANGED committed

Unlock(c) ==
  /\ writer' = [k \in Key |-> IF writer[k] = c THEN NoClient ELSE writer[k]]
  /\ draft' = [k \in Key |-> IF writer[k] = c THEN NoRow ELSE draft[k]]

CommitRows(c) ==
  /\ committed' = [k \in Key |-> Seen(c, k)]
  /\ Unlock(c)

RollbackRows(c) ==
  /\ Unlock(c)
  /\ UNCHANGED committed

\* Rows that earlier processes left, none of them locked.
SomeRows(Row) ==
  /\ committed \in [Key -> Row \cup {NoRow}]
  /\ writer = [k \in Key |-> NoClient]
  /\ draft = [k \in Key |-> NoRow]

=============================================================================
