------------------------ MODULE ConsumerProgressStore -----------------------
(***************************************************************************)
(* ConsumerProgressStore of packages/storage on PostgreSQL: a table of how *)
(* far each consumer has come with each aggregate, shared by any number of *)
(* processes.  setProgress and setIsReplaying are transactions of an UPDATE*)
(* with a condition and, if it met no row, an INSERT; resetProgress deletes*)
(* all rows of a consumer.  An action is one statement, for the deletion   *)
(* the statement on one row, or the end of the transaction.                *)
(***************************************************************************)
EXTENDS Integers, RowLocks

CONSTANTS
  Consumer,
  ConsumerOf,     \* the consumer of a primary key, which has an aggregate too
  Wanted,         \* the keys clients ask for
  Revision,       \* the revisions they set
  Range,          \* the ranges they set, each from a revision to another
  NoRange,
  EarlierRow      \* bound: the rows earlier processes left

Row == [revision : Revision \cup {0}, replay : Range \cup {NoRange}]

ASSUME ConsumerAssumption == ConsumerOf \in [Key -> Consumer] /\ Wanted \subseteq Key
ASSUME RevisionAssumption == Revision \subseteq Nat \ {0}
ASSUME RangeAssumption ==
  /\ Range \subseteq [from : Revision, to : Revision]
  /\ NoRange \notin Range
ASSUME RowAssumption == EarlierRow \subseteq Row /\ NoRow \notin Row
ASSUME ClientAssumption == NoClient \notin Client

VARIABLE call     \* the call each client has in progress

vars == <<rowVars, call>>

(***************************************************************************)
(* A call.  rows are those the deletion has still to visit.  met is        *)
(* history: what getProgress answered when the UPDATE met no row stood     *)
(* against the call, or somebody has inserted a row since.                 *)
(***************************************************************************)
Call ==
  [op : {"none", "setProgress", "setIsReplaying", "resetProgress"},
   key : Key \cup {NoRow},
   consumer : Consumer \cup {NoRow},
   revision : Revision \cup {0},
   replay : Range \cup {NoRange},
   phase : {"idle", "updating", "inserting", "deleting", "ending", "refused"},
   rows : SUBSET Key,
   met : BOOLEAN]

NoCall ==
  [op |-> "none", key |-> NoRow, consumer |-> NoRow, revision |-> 0, replay |-> NoRange,
   phase |-> "idle", rows |-> {}, met |-> FALSE]

Init ==
  /\ SomeRows(EarlierRow)
  /\ call = [c \in Client |-> NoCall]

-----------------------------------------------------------------------------
(* What getProgress answers: a range counts only if neither end is 0. *)

GetProgress(k) ==
  IF committed[k] = NoRow
    THEN [revision |-> 0, replay |-> NoRange]
    ELSE [revision |-> committed[k].revision,
          replay |-> IF committed[k].replay # NoRange
                          /\ committed[k].replay.from # 0 /\ committed[k].replay.to # 0
                       THEN committed[k].replay ELSE NoRange]

(* The statements of a call d *)

\* Bug variants: any revision is written; a replay is written over another; the
\* replay in progress stands against a revision.
AnyRevision(d, row) ==
  IF d.op = "setIsReplaying" /\ d.replay # NoRange THEN row.replay = NoRange ELSE TRUE

AnyReplay(d, row) ==
  IF d.op = "setProgress" THEN row.revision < d.revision ELSE TRUE

NotReplaying(d, row) ==
  CASE d.op = "setProgress" -> row.revision < d.revision /\ row.replay = NoRange
    [] d.op = "setIsReplaying" -> d.replay # NoRange => row.replay = NoRange

\* Bug variants: what is written is the revision to handle next; the call's own
\* values for all columns.
NextRevision(d, row) ==
  IF d.op = "setProgress"
    THEN [row EXCEPT !.revision = d.revision + 1]
    ELSE [row EXCEPT !.replay = d.replay]

WholeRow(d, row) == [revision |-> d.revision, replay |-> d.replay]

\* The criteria of the UPDATE, what it makes of a row, and the row inserted.
Criteria(d, row) ==
  CASE d.op = "setProgress" -> row.revision < d.revision
    [] d.op = "setIsReplaying" -> d.replay # NoRange => row.replay = NoRange

Updated(d, row) ==
  IF d.op = "setProgress"
    THEN [row EXCEPT !.revision = d.revision]
    ELSE [row EXCEPT !.replay = d.replay]

\* What getProgress has to answer for the call to be in vain.
StandsAgainst(found, d) ==
  IF d.op = "setProgress" THEN found.revision >= d.revision ELSE found.replay # NoRange

Inserted(d) == [revision |-> d.revision, replay |-> d.replay]

-----------------------------------------------------------------------------
(* Calls *)

Start(c, new) ==
  /\ call[c].phase = "idle"
  /\ call' = [call EXCEPT ![c] = new]
  /\ UNCHANGED rowVars

SetProgress(c, k, r) ==
  Start(c,
    [NoCall EXCEPT !.op = "setProgress", !.phase = "updating", !.key = k, !.revision = r])

SetIsReplaying(c, k, replay) ==
  Start(c,
    [NoCall EXCEPT !.op = "setIsReplaying", !.phase = "updating", !.key = k, !.replay = replay])

\* The deletion is issued at once, and nobody waits for its answer: COMMIT is
\* behind it on the same connection.
ResetProgress(c, consumer) ==
  Start(c,
    [NoCall EXCEPT !.op = "resetProgress", !.phase = "deleting", !.consumer = consumer,
       !.rows = {k \in Key : ConsumerOf[k] = consumer /\ committed[k] # NoRow}])

\* The UPDATE waits for a row that meets its criteria, to look at it again.
Meets(c) == LET row == committed[call[c].key] IN row # NoRow /\ Criteria(call[c], row)

Update(c) ==
  /\ call[c].phase = "updating"
  /\ Meets(c)
  /\ Unlocked(c, call[c].key)
  /\ WriteRow(c, call[c].key, Updated(call[c], committed[call[c].key]))
  /\ call' = [call EXCEPT ![c].phase = "ending"]

UpdateMiss(c) ==
  /\ call[c].phase = "updating"
  /\ ~ Meets(c)
  /\ call' = [call EXCEPT ![c] =
       [@ EXCEPT !.phase = "inserting",
                 !.met = StandsAgainst(GetProgress(call[c].key), call[c])]]
  /\ UNCHANGED rowVars

\* It waits for a transaction that has written the key, whatever it wrote.
Insert(c) ==
  /\ call[c].phase = "inserting"
  /\ Unlocked(c, call[c].key)
  /\ committed[call[c].key] = NoRow
  /\ WriteRow(c, call[c].key, Inserted(call[c]))
  /\ call' = [call EXCEPT ![c] = [@ EXCEPT !.phase = "ending", !.met = FALSE]]

\* FlowIsAlreadyReplaying, whichever of the two calls it is.
InsertConflict(c) ==
  /\ call[c].phase = "inserting"
  /\ Unlocked(c, call[c].key)
  /\ committed[call[c].key] # NoRow
  /\ call' = [call EXCEPT ![c].phase = "refused"]
  /\ UNCHANGED rowVars

DeleteRow(c, k) ==
  /\ call[c].phase = "deleting"
  /\ k \in call[c].rows
  /\ Unlocked(c, k)
  /\ IF committed[k] # NoRow THEN WriteRow(c, k, NoRow) ELSE UNCHANGED rowVars
  /\ call' = [call EXCEPT ![c].rows = @ \ {k}]

-----------------------------------------------------------------------------
(* The end of a transaction *)

\* A row that c commits is in the way of an INSERT of d.
InTheWay(c, d) ==
  /\ call[d].phase = "inserting"
  /\ writer[call[d].key] = c
  /\ draft[call[d].key] # NoRow

\* Bug variant: a call that has nothing to insert leaves its transaction open.
ReturnOnly(c) ==
  /\ \/ call[c].phase = "ending"
     \/ call[c].phase = "deleting" /\ call[c].rows = {}
  /\ call' = [call EXCEPT ![c] = NoCall]
  /\ UNCHANGED rowVars

Commit(c) ==
  /\ \/ call[c].phase = "ending"
     \/ call[c].phase = "deleting" /\ call[c].rows = {}
  /\ CommitRows(c)
  /\ call' = [d \in Client |-> IF d = c THEN NoCall
                               ELSE [call[d] EXCEPT !.met = @ \/ InTheWay(c, d)]]

RollsBack(c) ==
  /\ RollbackRows(c)
  /\ call' = [call EXCEPT ![c] = NoCall]

Rollback(c) == call[c].phase = "refused" /\ RollsBack(c)

\* The connection breaks, or the database aborts the transaction.  A reset that
\* is aborted resolves nevertheless: COMMIT only ends the transaction then.
Abort(c) == call[c].phase \notin {"idle", "refused"} /\ RollsBack(c)

\* The clients a client waits for, and those of a ring of such.
WaitsFor(c) ==
  {writer[k] : k \in
     CASE call[c].phase = "updating" -> IF Meets(c) THEN {call[c].key} ELSE {}
       [] call[c].phase = "inserting" -> {call[c].key}
       [] call[c].phase = "deleting" -> call[c].rows
       [] OTHER -> {}} \ {NoClient, c}

Deadlocked(c) ==
  \E ring \in SUBSET Client : c \in ring /\ \A d \in ring : WaitsFor(d) \cap ring # {}

BreakDeadlock == \E c \in Client : Deadlocked(c) /\ Abort(c)

-----------------------------------------------------------------------------
Continue(c) ==
  \/ Update(c) \/ UpdateMiss(c)
  \/ Insert(c) \/ InsertConflict(c)
  \/ \E k \in call[c].rows : DeleteRow(c, k)
  \/ Commit(c) \/ Rollback(c)

Next ==
  \E c \in Client :
    \/ \E k \in Wanted :
         \/ \E r \in Revision : SetProgress(c, k, r)
         \/ \E replay \in Range \cup {NoRange} : SetIsReplaying(c, k, replay)
    \/ \E consumer \in Consumer : ResetProgress(c, consumer)
    \/ Continue(c)
    \/ Abort(c)

Spec == Init /\ [][Next]_vars

\* A transaction goes on, and one that waits for a row gets it in its turn; the
\* database breaks the rings that those who wait form.
FairSpec ==
  /\ Spec
  /\ \A c \in Client : SF_vars(Continue(c))
  /\ WF_vars(BreakDeadlock)

=============================================================================
