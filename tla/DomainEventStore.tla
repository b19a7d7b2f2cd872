-------------------------- MODULE DomainEventStore --------------------------
(***************************************************************************)
(* The event store of packages/storage: two tables, domain events and      *)
(* snapshots, and the calls the command side makes on them.  Every call is *)
(* one SQL statement, so each operator below is atomic and what interleaves*)
(* is the code between two of them (see CommandBus).                       *)
(*                                                                         *)
(* Both primary keys are (aggregateId, revision): the aggregate's NAME is  *)
(* no part of them, it is only inside the stored event.                    *)
(***************************************************************************)
EXTENDS Integers, Sequences, FiniteSets

CONSTANTS
  Aggregate,      \* aggregate identifiers: a name and an id each
  AggregateId,    \* the ids alone
  IdOf,           \* the id inside an aggregate identifier
  Command,        \* command ids: the causationId of the events they lead to
  Delivery,       \* attempts to handle a command
  EventName       \* names of domain events

ASSUME IdOfAssumption == IdOf \in [Aggregate -> AggregateId]

VARIABLES
  domainEvents,   \* the rows of the table of domain events
  snapshots       \* the rows of the table of snapshots

storeVars == <<domainEvents, snapshots>>

(***************************************************************************)
(* A stored event.  Its uuid is written as the attempt that created it and *)
(* its place among the events of that attempt; its data is left out.       *)
(***************************************************************************)
DomainEvent ==
  [aggregate   : Aggregate,
   revision    : Nat \ {0},
   causationId : Command,
   delivery    : Delivery,
   index       : Nat \ {0},
   name        : EventName]

(***************************************************************************)
(* The state of an aggregate is the sequence of the events applied to it:  *)
(* whatever event sourcing handlers compute is a function of that.         *)
(***************************************************************************)
State == Seq(DomainEvent)
InitialState == << >>

Snapshot == [aggregateId : AggregateId, revision : Nat, state : State]

-----------------------------------------------------------------------------
(* Queries *)

EventsOf(id) == {e \in domainEvents : IdOf[e.aggregate] = id}

\* getLastDomainEvent: the revision it carries, 0 when there is none.
LastRevision(id) ==
  IF EventsOf(id) = {}
    THEN 0
    ELSE (CHOOSE e \in EventsOf(id) : \A f \in EventsOf(id) : f.revision <= e.revision).revision

\* Bug variant: the check on the causationId forgotten.
NeverApplied(command) == FALSE

HasDomainEventsWithCausationId(command) ==
  \E e \in domainEvents : e.causationId = command

\* Bug variant: the replay starts after fromRevision.
ReplayAfter(id, fromRevision) ==
  {e \in EventsOf(id) : e.revision > fromRevision}

\* The default toRevision, 2^31 - 1, is the largest value of the column.
ReplayForAggregate(id, fromRevision) ==
  {e \in EventsOf(id) : e.revision >= fromRevision}

\* Bug variant: no ORDER BY.
ReplayedAnyhow(e, stream) == TRUE

\* The order of a replay, for a reader that takes the first event left.
ReplayedFirst(e, stream) == \A f \in stream : e.revision <= f.revision

\* Bug variant: the latest snapshot of all, whatever its aggregate.
LatestSnapshotOfAll(id) ==
  {s \in snapshots : \A t \in snapshots : t.revision <= s.revision}

\* At most one row, by the primary key.
LatestSnapshot(id) ==
  {s \in snapshots :
     /\ s.aggregateId = id
     /\ \A t \in snapshots : t.aggregateId = id => t.revision <= s.revision}

-----------------------------------------------------------------------------
(* Statements *)

\* Bug variants: no primary key; a key on the revision alone.
NoPrimaryKey(rows) == FALSE
RevisionTakenAnywhere(rows) ==
  \E e \in rows, f \in domainEvents : e.revision = f.revision

RevisionAlreadyExists(rows) ==
  \E e \in rows, f \in domainEvents :
    /\ IdOf[e.aggregate] = IdOf[f.aggregate]
    /\ e.revision = f.revision

\* Bug variants: an upsert; the conflicting rows alone left out.
UpsertDomainEvents(rows) ==
  domainEvents' =
    {f \in domainEvents : \A e \in rows :
       IdOf[e.aggregate] = IdOf[f.aggregate] => e.revision # f.revision} \cup rows
InsertWhatIsNew(rows) ==
  domainEvents' = domainEvents \cup {e \in rows : ~ RevisionAlreadyExists({e})}

\* One INSERT of all the rows: it happens entirely or not at all.
StoreDomainEvents(rows) ==
  /\ rows # {}
  /\ ~ RevisionAlreadyExists(rows)
  /\ domainEvents' = domainEvents \cup rows

\* INSERT ... ON CONFLICT DO NOTHING.
StoreSnapshot(id, atRevision, snapshotState) ==
  snapshots' =
    IF \E s \in snapshots : s.aggregateId = id /\ s.revision = atRevision
      THEN snapshots
      ELSE snapshots \cup {[aggregateId |-> id, revision |-> atRevision,
                            state |-> snapshotState]}

=============================================================================
