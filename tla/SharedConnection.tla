-------------------------- MODULE SharedConnection --------------------------
(***************************************************************************)
(* LockStore on sqlite, which is what the storage module configures unless *)
(* it is told otherwise.  All of a process is on one connection there, with*)
(* one query runner: connection.transaction neither waits for a transaction*)
(* in progress nor gets one of its own.                                    *)
(*                                                                         *)
(* Statements are carried out in the order they are issued in, and a call  *)
(* goes on when it has the answer to its last one; until then other calls  *)
(* issue theirs.  Of the calls, acquireLock without expiry and releaseLock *)
(* are here.                                                               *)
(***************************************************************************)
EXTENDS Integers, Sequences

CONSTANTS
  Client,
  Value,          \* hashes of what locks are for
  MaxPending      \* bound: statements issued and not carried out

VARIABLES
  table,      \* the values that are locked, as the connection sees them
  undo,       \* the same when the transaction began
  open,       \* the database is in a transaction
  active,     \* isTransactionActive of the query runner
  queue,      \* the statements issued: of which client, and the SQL
  call,       \* the call each client has in progress
  holders     \* history: who has been told that it has a lock

vars == <<table, undo, open, active, queue, call, holders>>

NoCall == [op |-> "none"]

Init ==
  /\ table = {} /\ undo = {}
  /\ open = FALSE /\ active = FALSE
  /\ queue = << >>
  /\ call = [c \in Client |-> NoCall]
  /\ holders = {}

Issue(rest, c, sql) == queue' = Append(rest, [client |-> c, sql |-> sql])

Reject(rest, c) ==
  /\ queue' = rest
  /\ call' = [call EXCEPT ![c] = NoCall]

-----------------------------------------------------------------------------
(* connection.transaction *)

\* startTransaction refuses while another call's is active; what catches that
\* rolls back whatever is active.
Start(c, op, v) ==
  /\ call[c] = NoCall
  /\ Len(queue) < MaxPending
  /\ call' = [call EXCEPT ![c] = [op |-> op, value |-> v]]
  /\ active' = TRUE
  /\ Issue(queue, c, IF active THEN "ROLLBACK" ELSE "BEGIN")
  /\ UNCHANGED <<table, undo, open, holders>>

AcquireLock(c, v) == Start(c, "acquire", v)
ReleaseLock(c, v) == Start(c, "release", v)

\* A call that fails rolls back if something is active, and rejects.
Catch(rest, c) ==
  IF active
    THEN Issue(rest, c, "ROLLBACK") /\ UNCHANGED <<call, active>>
    ELSE Reject(rest, c) /\ UNCHANGED active

-----------------------------------------------------------------------------
(* The next statement is carried out, and its call goes on *)

Due(sql) == queue # << >> /\ Head(queue).sql = sql

Begin ==
  LET c == Head(queue).client
  IN  /\ Due("BEGIN")
      /\ \/ /\ ~ open
            /\ open' = TRUE
            /\ undo' = table
            /\ Issue(Tail(queue), c, "DELETE expired")
            /\ UNCHANGED <<active, call>>
         \/ /\ open
            /\ Catch(Tail(queue), c)
            /\ UNCHANGED <<open, undo>>
      /\ UNCHANGED <<table, holders>>

RemoveExpiredLocks ==
  LET c == Head(queue).client
  IN  /\ Due("DELETE expired")
      /\ Issue(Tail(queue), c, IF call[c].op = "acquire" THEN "INSERT" ELSE "DELETE")
      /\ UNCHANGED <<table, undo, open, active, call, holders>>

\* Outside of a transaction a statement is committed by itself; then
\* commitTransaction finds nothing active, and the call rejects.
GoOn(c) ==
  IF active
    THEN Issue(Tail(queue), c, "COMMIT") /\ UNCHANGED <<call, active>>
    ELSE Catch(Tail(queue), c)

Insert ==
  LET c == Head(queue).client
      v == call[c].value
  IN  /\ Due("INSERT")
      /\ \/ /\ v \notin table
            /\ table' = table \cup {v}
            /\ GoOn(c)
         \/ /\ v \in table
            /\ Catch(Tail(queue), c)
            /\ UNCHANGED table
      /\ UNCHANGED <<undo, open, holders>>

Delete ==
  LET c == Head(queue).client
  IN  /\ Due("DELETE")
      /\ table' = table \ {call[c].value}
      /\ GoOn(c)
      /\ UNCHANGED <<undo, open, holders>>

\* The call resolves.
Told(c, v) ==
  IF call[c].op = "acquire" THEN holders \cup {<<c, v>>} ELSE holders \ (Client \X {v})

Commit ==
  LET c == Head(queue).client
  IN  /\ Due("COMMIT")
      /\ \/ /\ open
            /\ open' = FALSE /\ active' = FALSE
            /\ queue' = Tail(queue)
            /\ call' = [call EXCEPT ![c] = NoCall]
            /\ holders' = Told(c, call[c].value)
         \/ /\ ~ open
            /\ Catch(Tail(queue), c)
            /\ UNCHANGED <<open, holders>>
      /\ UNCHANGED <<table, undo>>

Rollback ==
  LET c == Head(queue).client
  IN  /\ Due("ROLLBACK")
      /\ Reject(Tail(queue), c)
      /\ \/ /\ open
            /\ table' = undo
            /\ open' = FALSE /\ active' = FALSE
         \/ /\ ~ open
            /\ UNCHANGED <<table, open, active>>
      /\ UNCHANGED <<undo, holders>>

-----------------------------------------------------------------------------
Next ==
  \/ \E c \in Client, v \in Value : AcquireLock(c, v) \/ ReleaseLock(c, v)
  \/ Begin \/ RemoveExpiredLocks \/ Insert \/ Delete \/ Commit \/ Rollback

Spec == Init /\ [][Next]_vars

-----------------------------------------------------------------------------
(***************************************************************************)
(* When no call is in progress, a lock in place is that of a client whose  *)
(* acquireLock resolved: one that rejects leaves none behind, which nobody *)
(* would release.                                                          *)
(***************************************************************************)
LocksAreHeld ==
  queue = << >> => \A v \in table : \E c \in Client : <<c, v>> \in holders

=============================================================================
