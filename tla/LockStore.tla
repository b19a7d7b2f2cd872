----------------------------- MODULE LockStore ------------------------------
(***************************************************************************)
(* LockStore of packages/storage on PostgreSQL: a table of the values that *)
(* are locked and until when, shared by any number of processes.  Every    *)
(* call is a transaction of two statements, the first of which deletes all *)
(* locks that have expired.  A row does not say whose lock it is, and the  *)
(* calls that renew or release a lock do not ask.                          *)
(*                                                                         *)
(* An action is one statement, for the deletion the statement on one row,  *)
(* or the end of the transaction.  Each reads the clock where the code     *)
(* does, so that time can pass in the middle of a call.                    *)
(***************************************************************************)
EXTENDS Integers, RowLocks

CONSTANTS
  Wanted,      \* the locks each client asks for
  Expiry,      \* the times they are asked for until
  MaxTime      \* bound: the clock stops there

ASSUME WantedAssumption == Wanted \in [Client -> SUBSET Key]
ASSUME ExpiryAssumption == Expiry \subseteq Nat /\ NoRow \notin Nat
ASSUME ClientAssumption == NoClient \notin Client

VARIABLES
  clock,                      \* Date.now(), the same in all processes
  call,                       \* the call each client has in progress
  lease,                      \* history: until when it counts on a lock
  late                        \* history: locks renewed or released by a
                              \* client that did not count on them any more;
                              \* the history of leases on them ends there

vars == <<rowVars, clock, call, lease, late>>

(***************************************************************************)
(* A call.  expired are the rows the deletion of expired locks has still to*)
(* visit, with the time it was issued at.  met is history, of acquireLock: *)
(* the lock was in place then, or somebody put it in place since.          *)
(***************************************************************************)
Call ==
  [op : {"none", "acquire", "renew", "release"},
   value : Key \cup {NoRow},
   expiresAt : Expiry \cup {NoRow},
   phase : {"idle", "begin", "purging", "ending", "refused"},
   expired : SUBSET (Key \X Nat),
   met : BOOLEAN]

NoCall ==
  [op |-> "none", value |-> NoRow, expiresAt |-> NoRow, phase |-> "idle",
   expired |-> {}, met |-> FALSE]

NewCall(op, v, e) ==
  [NoCall EXCEPT !.op = op, !.value = v, !.expiresAt = e, !.phase = "begin"]

Init ==
  /\ SomeRows(Expiry)
  /\ clock = 0
  /\ call = [c \in Client |-> NoCall]
  /\ lease = [c \in Client |-> [v \in Key |-> NoRow]]
  /\ late = [v \in Key |-> FALSE]

-----------------------------------------------------------------------------
(* Conditions *)

\* Bug variant: a lock is deleted in the instant it expires at.
ExpiredAtOnce(expiresAt, now) == expiresAt # NoRow /\ expiresAt <= now

\* Bug variant: isLocked compares the other way round than the deletion.
IsLockedStrictly(v) == committed[v] # NoRow /\ committed[v] > clock

\* What removeExpiredLocks deletes, and what isLocked answers.
IsExpired(expiresAt, now) == expiresAt # NoRow /\ expiresAt < now
IsLocked(v) == committed[v] # NoRow /\ committed[v] >= clock

\* A client counts on its lock.
Holds(c, v) == lease[c][v] # NoRow /\ lease[c][v] >= clock

\* expiresAt is not in the past.
InTime(e) == e >= clock

Purged(c) == call[c].phase = "purging" /\ call[c].expired = {}

-----------------------------------------------------------------------------
(* Calls *)

Start(c, new) ==
  /\ call[c].phase = "idle"
  /\ call' = [call EXCEPT ![c] = new]
  /\ UNCHANGED <<rowVars, clock, late>>

\* Bug variant: expiresAt is taken for how long to lock.
AcquireLockFor(c, v, e) ==
  /\ InTime(e)
  /\ Start(c, NewCall("acquire", v, clock + e))
  /\ UNCHANGED lease

AcquireLock(c, v, e) ==
  /\ InTime(e)
  /\ Start(c, NewCall("acquire", v, e))
  /\ UNCHANGED lease

\* From here on the client counts on the shorter of the two times.
RenewLock(c, v, e) ==
  /\ InTime(e)
  /\ Start(c, NewCall("renew", v, e))
  /\ lease' = [lease EXCEPT ![c][v] = IF @ # NoRow /\ e < @ THEN e ELSE @]

ReleaseLock(c, v) ==
  /\ Start(c, NewCall("release", v, NoRow))
  /\ UNCHANGED lease

\* The deletion of expired locks, issued.
RemoveExpiredLocks(c) ==
  /\ call[c].phase = "begin"
  /\ call' = [call EXCEPT ![c] =
       [@ EXCEPT !.phase = "purging",
                 !.expired = {v \in Key : IsExpired(committed[v], clock)} \X {clock},
                 !.met = call[c].op = "acquire" /\ IsLocked(call[c].value)]]
  /\ UNCHANGED <<rowVars, clock, lease, late>>

\* It visits a row: one that was renewed meanwhile stays.
DeleteExpired(c, v, now) ==
  /\ call[c].phase = "purging"
  /\ <<v, now>> \in call[c].expired
  /\ Unlocked(c, v)
  /\ IF IsExpired(committed[v], now)
       THEN WriteRow(c, v, NoRow)
       ELSE UNCHANGED rowVars
  /\ call' = [call EXCEPT ![c].expired = @ \ {<<v, now>>}]
  /\ UNCHANGED <<clock, lease, late>>

\* The second statement is done, and leaves the row as it writes it.
Writes(c, row) ==
  /\ Unlocked(c, call[c].value)
  /\ WriteRow(c, call[c].value, row)
  /\ call' = [call EXCEPT ![c] = [@ EXCEPT !.phase = "ending", !.met = FALSE]]
  /\ UNCHANGED clock

\* Bug variant: the row is saved, which replaces one that is there.
Upsert(c) ==
  /\ Purged(c) /\ call[c].op = "acquire"
  /\ Writes(c, call[c].expiresAt)
  /\ UNCHANGED <<lease, late>>

Insert(c) ==
  /\ Purged(c) /\ call[c].op = "acquire"
  /\ Seen(c, call[c].value) = NoRow
  /\ Writes(c, call[c].expiresAt)
  /\ UNCHANGED <<lease, late>>

\* The primary key refuses the row.
InsertConflict(c) ==
  /\ Purged(c) /\ call[c].op = "acquire"
  /\ Unlocked(c, call[c].value)
  /\ Seen(c, call[c].value) # NoRow
  /\ call' = [call EXCEPT ![c].phase = "refused"]
  /\ UNCHANGED <<rowVars, clock, lease, late>>

\* Whose lock it is does not matter; history notes when it may be another's.
NoteLate(c) ==
  IF Holds(c, call[c].value)
    THEN UNCHANGED <<lease, late>>
    ELSE /\ late' = [late EXCEPT ![call[c].value] = TRUE]
         /\ lease' = [d \in Client |-> [lease[d] EXCEPT ![call[c].value] = NoRow]]

Update(c) ==
  /\ Purged(c) /\ call[c].op = "renew"
  /\ Seen(c, call[c].value) # NoRow
  /\ Writes(c, call[c].expiresAt)
  /\ NoteLate(c)

UpdateMiss(c) ==
  /\ Purged(c) /\ call[c].op = "renew"
  /\ Seen(c, call[c].value) = NoRow
  /\ call' = [call EXCEPT ![c].phase = "refused"]
  /\ UNCHANGED <<rowVars, clock, lease, late>>

Delete(c) ==
  /\ Purged(c) /\ call[c].op = "release"
  /\ Seen(c, call[c].value) # NoRow
  /\ Writes(c, NoRow)
  /\ NoteLate(c)

DeleteNothing(c) ==
  /\ Purged(c) /\ call[c].op = "release"
  /\ Seen(c, call[c].value) = NoRow
  /\ call' = [call EXCEPT ![c].phase = "ending"]
  /\ UNCHANGED <<rowVars, clock, lease, late>>

-----------------------------------------------------------------------------
(* The end of a transaction *)

\* The calls of others that get to see the lock that c commits.
Meets(c, d) ==
  /\ call[d].op = "acquire" /\ call[d].phase = "purging"
  /\ writer[call[d].value] = c
  /\ draft[call[d].value] # NoRow

Ended(c) == [d \in Client |-> IF d = c THEN NoCall
                              ELSE [call[d] EXCEPT !.met = @ \/ Meets(c, d)]]

\* What c counts on once it has been told.
NewLease(c) ==
  [lease EXCEPT ![c][call[c].value] =
     IF late[call[c].value] \/ call[c].op = "release" THEN NoRow ELSE call[c].expiresAt]

Commit(c) ==
  /\ call[c].phase = "ending"
  /\ CommitRows(c)
  /\ call' = Ended(c)
  /\ lease' = NewLease(c)
  /\ UNCHANGED <<clock, late>>

\* The connection breaks before the answer is there.
CommitUnheard(c) ==
  /\ call[c].phase = "ending" /\ call[c].op # "release"
  /\ CommitRows(c)
  /\ call' = Ended(c)
  /\ UNCHANGED <<clock, lease, late>>

RollsBack(c) ==
  /\ RollbackRows(c)
  /\ call' = [call EXCEPT ![c] = NoCall]
  /\ UNCHANGED <<clock, lease, late>>

\* Bug variant: a call that throws leaves its transaction open.
ThrowOnly(c) ==
  /\ call[c].phase = "refused"
  /\ call' = [call EXCEPT ![c] = NoCall]
  /\ UNCHANGED <<rowVars, clock, lease, late>>

\* LockAcquireFailed or LockRenewalFailed.
Rollback(c) == call[c].phase = "refused" /\ RollsBack(c)

\* The connection breaks, or the database aborts the transaction.  Of its INSERT
\* acquireLock makes LockAcquireFailed then as well.
Abort(c) == call[c].phase \in {"begin", "purging", "ending"} /\ RollsBack(c)

\* The clients a client waits for, and those of a ring of such.
WaitsFor(c) ==
  {writer[v] : v \in
     IF call[c].phase # "purging" THEN {}
     ELSE IF call[c].expired # {} THEN {row[1] : row \in call[c].expired}
     ELSE IF call[c].op = "acquire" \/ Seen(c, call[c].value) # NoRow THEN {call[c].value}
     ELSE {}} \ {NoClient, c}

Deadlocked(c) ==
  \E ring \in SUBSET Client : c \in ring /\ \A d \in ring : WaitsFor(d) \cap ring # {}

BreakDeadlock == \E c \in Client : Deadlocked(c) /\ Abort(c)

-----------------------------------------------------------------------------
Tick ==
  /\ clock < MaxTime
  /\ clock' = clock + 1
  /\ UNCHANGED <<rowVars, call, lease, late>>

Progress(c) ==
  \/ RemoveExpiredLocks(c)
  \/ \E row \in call[c].expired : DeleteExpired(c, row[1], row[2])
  \/ Insert(c) \/ InsertConflict(c)
  \/ Update(c) \/ UpdateMiss(c)
  \/ Delete(c) \/ DeleteNothing(c)
  \/ Commit(c) \/ Rollback(c)

Next ==
  \/ \E c \in Client :
       \/ \E v \in Wanted[c], e \in Expiry : AcquireLock(c, v, e) \/ RenewLock(c, v, e)
       \/ \E v \in Wanted[c] : ReleaseLock(c, v)
       \/ Progress(c)
       \/ CommitUnheard(c)
       \/ Abort(c)
  \/ Tick

Spec == Init /\ [][Next]_vars

\* A transaction goes on, and one that waits for a row gets it in its turn: the
\* database queues those who wait.  It also breaks the rings they form.
FairSpec ==
  /\ Spec
  /\ \A c \in Client : SF_vars(Progress(c))
  /\ WF_vars(BreakDeadlock)

=============================================================================
