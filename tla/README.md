# typa in TLA+

typa is a CQRS and event sourcing framework for NestJS (packages under
`src/packages`).  This directory holds TLA+ models of its stateful parts, TLC
configurations that check them on small instances, and proofs, checked by TLAPS,
of what matters most for every instance.

Contents: [the system](#the-system), [modules](#modules),
[runs](#runs), [fairness](#fairness), [proofs](#proofs),
[what is not modelled](#what-is-not-modelled), [plan](#plan).

## The system

| component | state it keeps | operations |
|---|---|---|
| domain event store (`storage/src/domain-event-store`) | tables of domain events and of snapshots, both keyed by (aggregateId, revision) | storeDomainEvents, storeSnapshot, getReplayForAggregate, getSnapshot, hasDomainEventsWithCausationId, getLastDomainEvent, streams by causation and correlation |
| aggregate instance, repository (`domain/src/aggregate`) | per load: revision, state, unstoredDomainEvents | create (snapshot, replay, new snapshot), applyCommandEvents, applyDomainEvent, publishDomainEvent |
| command bus (`command-handling/src/bus`) | none | dispatch, handle: load, decide, store, publish |
| event publisher (`event-handling/src/publisher`) | the set of registered handlers | publishDomainEvents |
| priority queue store (`storage/src/priority-queue-store`) | a heap of queues (index, lock, token) and their items | enqueue, lockNext, renewLock, acknowledge, defer, remove |
| lock store (`storage/src/lock-store`) | locks with an expiry | acquireLock, isLocked, renewLock, releaseLock, each of which but isLocked first deletes expired locks |
| consumer progress store (`storage/src/consumer-progress-store`) | revision and replay range per consumer and aggregate | getProgress, setProgress, setIsReplaying, resetProgress |
| query bus, registries, explorers, value objects, module wiring | handlers found at start-up | lookup and call |

**How they interact.**  `SimpleCommandBus.handle` loads an aggregate through the
`Repository` (reads of the event store), calls the command handler with its
state, lets `AggregateInstance.applyCommandEvents` store what the handler applied,
and awaits `SimpleDomainEventPublisher.publishDomainEvents`, which awaits the
event handlers one after the other.  The queue, lock and progress stores are
independent of that path and of each other: they share its database connection
only.

**What is hard.**  Every `await` of `handle` lets other calls run, in this process
and in others on the same database, and nothing is held across awaits: no
transaction spans the load, the decision and the insert.  What the code has
instead is optimistic: a revision computed from a possibly stale load, a
causationId looked up before the insert, and the primary key.  Whether these add
up is what the core models are about.  Beyond it: crashes between the insert and
the publication; expiring locks whose old holders still act; a heap whose order
depends on the time; transactions of several statements that meet each other's rows;
a single sqlite connection shared by concurrent transactions.

**What makes each part correct.**

- Event store and command bus: logs without gaps or overlaps, each command applied
  at most once, no decision on stale state, snapshots and loaded states equal to
  the fold of the log; together, commands on an aggregate happen as if one after
  the other.
- Publisher: stored events reach the handlers subscribed to them, in order, once;
  what may be missed after a failure, and no more.
- Priority queue: one holder per queue and token; items of a queue in order; nothing
  lost, nothing back from the dead; heap order where it matters.
- Lock store: one holder per value until the lock expires; a call is refused only for
  a lock that was there; calls that wait for each other end.
- Progress store: progress is monotone; one replay at a time; a call is refused for a
  reason.
- Database connection: a call's transaction is its own.

`PROJECT.json` lists the hazards with their lines, the properties that cover them,
and for those not covered why.

## Modules

| module | what it is |
|---|---|
| `DomainEventStore` | the two tables, each SQL statement as an operator (atomic, as one statement is) |
| `CommandBus` | extends it with the calls of `handle` in flight; the state machine |
| `CommandBusProperties` | what has to hold of both, and the refinement mapping to `SerialLog` |
| `SerialLog` | the abstract specification: commands executed one at a time |
| `CommandBusProofs` | proofs of its invariants, those about event handlers included; `SerialLogProofs` extends it with the refinement |
| `MCCommandBus` | instances for TLC |
| `PriorityQueueStore` | the queues, their items and the heap, as transactions of several steps |
| `LeasedQueues` | the abstract specification: first-in first-out queues, each leased to one client |
| `PriorityQueueProperties` | what has to hold of it, and the refinement mapping to `LeasedQueues` |
| `PriorityQueueOrder` | adds a history variable: since when, if ever, the heap may be out of order; what holds until then |
| `PriorityQueueProofs` | proofs about the indices, and that repairs end; `PriorityQueueOrderProofs` extends it with the order of the heap, `LeasedQueuesProofs` with items and tokens and the refinement |
| `MCPriorityQueue`, `MCPriorityQueueOrder` | instances for TLC |
| `RowLocks` | a table in PostgreSQL: committed rows, uncommitted ones, and who waits for whom |
| `LockStore` | extends it with the lock store's transactions |
| `Leases` | the abstract specification: locks granted to one client until a time |
| `LockStoreProperties`, `LockStoreProofs`, `MCLockStore` | what has to hold, with the mapping to `Leases`; the proofs; instances for TLC |
| `ConsumerProgressStore` | extends `RowLocks` with the progress store's transactions |
| `Progress` | the abstract specification: revisions that advance, one replay at a time |
| `ConsumerProgressProperties`, `ConsumerProgressProofs`, `MCConsumerProgress` | what has to hold, with the mapping to `Progress`; the proofs; instances for TLC |
| `SharedConnection` | the lock store on the single sqlite connection, with what should hold of it |

### DomainEventStore

`domainEvents` and `snapshots` are the rows of the tables.  A row keeps what the
properties tell apart: the aggregate identifier, whose id `IdOf` is the key
column; the revision; the causationId; and, in place of the uuid, the attempt that
made the event and its index in that attempt.  The state of an aggregate is the
sequence of events applied to it, since whatever the event sourcing handlers
compute is a function of that.  The keys hold the id but not the aggregate's
name, as in the entities.

`StoreDomainEvents` is one INSERT: all rows or none, none if a key is taken
(`RevisionAlreadyExists`).  `StoreSnapshot` is ON CONFLICT DO NOTHING.

### CommandBus

A *delivery* is one call of `handle`; its `CommandOf` is the id of the command.
`dispatch` gives each command a fresh uuid, so its deliveries have different
commands; deliveries that share one stand for a bus fed from a queue that hands an
item out again, the case the look-up by causationId is written for.  An
`AggregateInstance` belongs to one delivery, so its fields are functions of it.

| action | code | ends at |
|---|---|---|
| `Dispatch` | `AbstractCommandBus.dispatch` | the call of `handle`, or the error without a handler or a target id |
| `LoadSnapshot` | `create` up to `fromRevision` | `await getSnapshot` |
| `ReadEvents` | `getReplayForAggregate` | its `await` |
| `ReplayEvent` | one turn of the loop, with `applyDomainEvent`'s IdentifierMismatch | `await applyDomainEvent` |
| `EndReplay` | the snapshot strategy | |
| `SaveSnapshot` | `storeSnapshot` | its `await` |
| `HandleCommand` | `CommandHandlingMember.handle`: any events, or a rejection | its `await` |
| `ApplyCommandEvents` | the causationId check and the loop of `publishDomainEvent`, which touches the instance only | `await hasDomainEventsWithCausationId` |
| `StoreEvents`, `StoreConflict` | `storeDomainEvents`, and what the instance does with its answer; nothing else sees the instance meanwhile | `await storeDomainEvents` |
| `PublishDomainEvent` | one `await handler.handle` | |
| `EndPublishing` | the return of `handle` | |
| `Fail` | any rejection of the above, AggregateNotFound, or the death of the process | |

The variable `basis` records the state the command handler decided on.  It is
history: no guard reads it.

Definitions whose comment says *Bug variant* stand just before the one they vary.
They are not used by the specification; each is a mistake the code might have had,
and with it in place TLC finds the property it is paired with violated
(`mutants` in `PROJECT.json`).

### SerialLog and the refinement

`SerialLog` says what a user of the framework may rely on: a command is executed in
one step, at most once, reads the whole log of its aggregate and appends to it.
`ImplementsSerialLog` maps the rows of an id, by revision, to the abstract log.  The
entry's `decidedAt` is the length of the log the handler decided on, so the
abstract step, where it equals the length of the log appended to, is matched only
if no decision is stale.

### PriorityQueueStore

`queues` and `items` are the two tables as the transaction in progress sees them,
`committed` the same as of the last commit.  A queue's row keeps its index in the
heap, the token of its lock and, for `lockUntil`, how long that is from now
(`ttl`, 0 if past).  `functionCallQueue` runs one call at a time, so there is at
most one `call` in progress.

| action | code |
|---|---|
| `Enqueue`, `LockNext`, `RenewLock`, `Acknowledge`, `Defer`, `Remove` | the public method of that name, up to its first repair of the heap |
| `EnqueueInternal` | `enqueueInternal`, also as the second half of `defer` |
| `RepairUp`, `RepairDown` | one turn of the recursion: read both queues, compare, exchange |
| `Commit`, `Rollback` | the end of `connection.transaction`; the answer to a committed call may be lost |
| `Tick` | time passes, within transactions too, so that a repair may compare priorities before and after a lock expired |
| `GiveUp` | a client dies or is refused |

What a call has still to do is `todo`, a sequence of repairs and, for `defer`, the
enqueueing.  A guard of the code that throws (ItemNotFound, ItemNotLocked,
TokenMismatch, InvalidOperation) disables the action: such a call changes nothing.
`getQueueByDiscriminator` joins a queue with all its items and takes the first row
of an answer without order; the priority it yields is that of any item.
`status` (what became of an item) and `holders` (what clients were lent) are history
and clients' knowledge.  `home`, the queue each item goes to, is chosen at the start
from `DiscriminatorsOf` and stays, so that one instance has several distributions of
items over queues.

`LeasedQueues` leaves priorities out: a call appends an item, leases a queue, or takes
its first item, in one step.  `ImplementsLeasedQueues` maps the committed tables
to it, so that everything between two commits is a stutter.  It is checked, and
proved, without `remove`, for which the two findings below show that it fails.

### RowLocks and LockStore

`RowLocks` has the rows of a table as `committed`, and for a row that a transaction
wrote and has not committed its `writer` and its `draft`.  The isolation level is
READ COMMITTED, PostgreSQL's default, which the stores leave alone: a statement reads
the rows committed so far and its own; it waits for a row, or a key, that another
transaction wrote, and looks at it again then.

`LockStore` extends it: a row is the time a lock expires at, of which one beyond the
clock's bound stands for never.  Each call is a transaction of two statements.  The
clock passes between them, and is read where the code reads it.

| action | code |
|---|---|
| `AcquireLock`, `RenewLock`, `ReleaseLock` | the public method, with the check of `expiresAt` before the transaction |
| `RemoveExpiredLocks` | `removeExpiredLocks`: the DELETE is issued, with the time of then |
| `DeleteExpired` | the DELETE comes to one of the rows it found, and waits for it if need be |
| `Insert`, `InsertConflict` | the INSERT of `acquireLock`; the duplicate key |
| `Update`, `UpdateMiss` | the UPDATE of `renewLock`; no row, `LockRenewalFailed` |
| `Delete`, `DeleteNothing` | the DELETE of `releaseLock` |
| `Commit`, `Rollback` | the end of `connection.transaction`; `Rollback` after the second statement found what it must not, `LockAcquireFailed` or `LockRenewalFailed` |
| `CommitUnheard`, `Abort` | the connection breaks after, or before, COMMIT was carried out |
| `BreakDeadlock` | PostgreSQL's deadlock detection: one of a ring of waiting calls is aborted |
| `Tick` | time passes |

`isLocked` is the operator `IsLocked`.  A row has no owner, so what clients count on is
history: `lease`, until when each client has been told that it has the lock.  A client
that renews a lock counts, until it is answered, on the earlier of the two times.
`late` marks the locks that some client renewed or released without counting on them
any more; nothing is promised of these, since the code does not ask whose lock it is.
`met` is history too: a lock was in the way of the `acquireLock` in progress.

`Leases` is what remains for a user: a lock is granted where there is none or one that
expired, extended or freed by the one client that counts on it, and expired locks
are forgotten at any time; a `contested` lock is one of which nothing is promised.

### ConsumerProgressStore

The rows are those of each pair of a consumer and an aggregate, a `Key` in the model:
a revision and a range of revisions being replayed, or none.

| action | code |
|---|---|
| `SetProgress`, `SetIsReplaying` | the public method, up to the UPDATE it issues |
| `ResetProgress` | the DELETE, issued and not awaited |
| `Update`, `UpdateMiss` | the UPDATE meets a row with its criteria, or none |
| `Insert`, `InsertConflict` | the INSERT after it; the duplicate key, answered with `FlowIsAlreadyReplaying` |
| `DeleteRow` | the DELETE comes to one of its rows |
| `Commit`, `Rollback`, `Abort`, `BreakDeadlock` | as above |

`getProgress` is the operator `GetProgress`, used in the history `met`: what it would
have answered when the UPDATE met no row stood against the call, or another call put a
row there since.  The answer of `getProgress` treats a range with an end of 0 as none;
such ranges are excluded by `RangeAssumption`, as revisions start at 1.

`Progress` advances a revision, starts a replay where there is none, stops one, and
resets the rows of a consumer; a reset may leave a key as it is that is written at the
same time.

### SharedConnection

With sqlite, what `typeorm.config.ts` configures by default, TypeORM has one query
runner for the whole process.  `queue` is the statements issued to it, in order;
`active` is what the runner believes of a transaction and `open` what the database
knows.  `Start` is `connection.transaction`: with a transaction active it is refused,
and what catches that rolls back the active one, which is another call's.  The
other actions carry out the statement at the head of the queue and let its call go on.

## Runs

All runs of the command bus have `CHECK_DEADLOCK FALSE`: every call of `handle` ends,
and then nothing is left to do.

| run | instance | question |
|---|---|---|
| `contention` | one aggregate, three deliveries, the first two of the same command, up to two events each, a snapshot after every replay of at least one event, one handler | do optimistic revisions, the causationId check and the key add up? |
| `publication` | two dispatchable commands and one that is not, two event names, handlers of `opened`, `closed`, `opened` | what do event handlers see? |
| `ids` | a cart and an order with one id, a user with its own; four commands, two of them on the cart, up to two events each | what still holds when the key identifies less than the aggregate, and do aggregates with ids of their own influence each other? |
| `shared_id_state` | a cart and an order with the same id | expected violation, see below |
| `queues` | two items in one queue, one in another, two priorities, two tokens, locks of one tick | with transactions that fail half-way and locks that expire at any moment, is it leased queues? |
| `queue_structure` | four items in four queues, or in three of which one has two; two priorities, two tokens, one item removable | do the indices keep their structure, do repairs find what they look for and come to an end, and for how long are the heap in order and the next item a most urgent one? |
| `urgent_waits`, `removed_item`, `unseen_item` | two queues | expected violations, see below |
| `locks` | two processes that acquire, renew and release one lock, beside another lock of an earlier process; locks until time 1, or for ever; two ticks | does anybody count on a lock along with another, and does every call end? |
| `progress` | two processes, one aggregate of a consumer that both work on, and two keys of earlier processes, one of another consumer; two revisions, two ranges | does progress fall, does a replay replace another, and what is refused why? |
| `shared_connection` | three processes' calls, two locks, at most three statements pending | expected violation, see below |

The queue's runs have it too: when every item is acknowledged and no lock is left, a
tick changes nothing.  The other runs check for deadlock.

What each property says is in `CommandBusProperties`, `PriorityQueueProperties`,
`LockStoreProperties` and `ConsumerProgressProperties`, next to its definition.

**Why these bounds.**  Two deliveries are enough for each pairwise race; the third
gives a bystander that loads, or takes a snapshot, between two steps of the others,
and a second winner.  Two events per command are the least with which batches
overlap in part, have an inside, and can be delivered in the wrong order.  A
revision limit of 1, where the code has 100, makes snapshots happen inside these
bounds; the limit is a constant, and the proofs are for all its values.  Three
handlers, two of the same event, tell "one of those subscribed" from "all", with an
irrelevant one in between.

For the queue, three items in two queues give a queue with an item behind the one
that is lent, and a heap that exchanges its two members; three queues are the least
with which a queue has two children and the last one moves into a hole that is not
its own, four the least with a heap of three levels.  A lock of one tick can be valid,
expired and renewed, at each step of each call; two tokens are two clients, one of
which is late.  Tokens are interchangeable, so `queue_structure` is checked up to a
permutation of them; it has no liveness property.  As long as no lock expires, it takes
six queues for `removeQueueInternal` to move one below a larger parent: a queue that
is locked, and has sunk into the left half of the heap, is acknowledged, and the last
one, of the right half, takes its place.  With less it happens only while `disturbed`
already, after a lock expired; the theorems are for any number of queues.

The stores on PostgreSQL have two clients, since a row is locked by one client at a
time and each guarantee is about a pair; `OneHolder` and the others are proved for any
number.  Two
values are the least with which deletions of expired locks wait for each other, and
only one of them need be asked for.  Two ticks let a lock expire and its time be
compared with the very instant, within a call or between two.  For progress, three keys
give a reset two rows to delete and one of another consumer to leave; revisions 1 and
2 with rows of revision 0, none, or 1 to begin with give an older, an equal and a
newer acknowledgement.

The order of the heap is what the code keeps only under conditions, and
`PriorityQueueOrder` says which.  `disturbed` becomes true when a lock expires
(`LockExpires`: the queue gets its priority back and stays where it is), when the last
queue moves below a larger parent (`MovedTooLow`: it is repaired downwards only) and when
a queue has several items (`SeveralInQueue`: repairs compare the priority of any of
them, and a queue that loses its first item by an acknowledgement is not moved up); and
false again whenever the heap is in order between two calls.  A lock that expired in the
past does not show in the tables: a queue enqueued below it and the lock's queue then
removed leave a heap out of order without a trace, so that no condition on the present
state would do.  While `disturbed` is false, `Ordered` says that the heap is in order
between calls and `MostUrgentFirst` that lockNext takes a most urgent queue.  Neither
says anything of what those three do to the order; they are the hazards at lines 27,
202 and 250 of the store, of which the runs cover that repairs end.  With
several items in a queue, and no lock expired, it is `MostUrgentOfMany`, of which
`urgent_waits` is the counterexample.

`RepairsEnd` is the safety half of `CallsEnd`: each statement of a call lowers
`StepsLeft`, which counts how far a queue is from the root or from the last place, and
not how priorities compare.  `RepairsFindQueues` adds that a repair always has a next
step: it never throws at the priority of a queue that is not there.

**Finding: `urgent_waits`.**  `acknowledgeInternal` unlocks a queue and repairs the
heap downwards.  But the queue sank when it was locked, and what is needed is a
repair upwards, which `removeInternal` has: with items of priority 1 and 1 in one
queue and 2 in another, the second 1 is handed out after the 2.

**Finding: `removed_item`.**  `remove` of a queue's only item deletes the queue and not
the item, which comes back, in front, with the next item enqueued for the
discriminator.

**Finding: `unseen_item`.**  A lock expires; the item is removed, which its expired lock
does not prevent; the late client acknowledges with its token, which is still in the
queue's row, and the item behind is deleted, which nobody was lent.

**Finding: `shared_connection`.**  A second call of the lock store begins while the
first one's transaction is active on sqlite's query runner.  Its `startTransaction`
throws; TypeORM rolls back what is active, the first call's transaction, and the
second call rejects.  The first goes on with its INSERT, now outside of any
transaction, which is committed by itself; its COMMIT fails, and `acquireLock` rejects
with the lock in place and nobody to release it.

**Finding: `shared_id_state`.**  Events of an aggregate of another name are refused
by `applyDomainEvent` ("Aggregate name does not match."), but snapshots are keyed by
the id alone and `applySnapshot` compares only ids, of which one is the very id
asked for.  So when an order has the id of a cart that has a snapshot, the order is
loaded with the state of the cart.  The id is a uuid in the schema, so this needs a
client that uses one id for two aggregates, as clients with composite or derived
ids do.

## Fairness

`FairSpec` has weak fairness of `Progress(d)` for each delivery: a promise that can
settle does, and the code after an `await` runs.  Nothing is assumed of `Dispatch`
(nobody has to send a command) or of `Fail`.  One weak fairness for all steps of a
delivery is enough, since each of its steps stays enabled until it is taken or
another of its own is: only `StoreEvents` can be disabled by others, and
`StoreConflict` is enabled then.  `StoredIsDelivered` needs no more: it promises
nothing of a call that fails, because the code does not.

`FairSpec` of the queue has weak fairness of `Step`, the next step of the call in
progress: the code does not stop between statements.  `CallsEnd` then says that the
repairs terminate, whatever the clock does between their comparisons, and never miss
a parent.

`FairSpec` of the stores on PostgreSQL has strong fairness of each client's steps,
since a statement that waits for a row may find it taken again when it is free:
PostgreSQL queues those who wait, so a client does not wait for ever while the row is
freed again and again.  And it has weak fairness of `BreakDeadlock`: the database
detects rings of waiting transactions, here those of two deletions of expired locks or
of two resets that visit rows in different orders.  `CallsEnd` says that each call
ends then.  Nothing is assumed of `Abort`, of clients, or of the clock.

## Proofs

The theorems are proved for any number of processes, keys, aggregates and items, and
any values of the limits.  Assumptions: the named `ASSUME`s of the models on their
constants (functions have their domains and ranges, limits are natural numbers, `NoRow`
is not a row), and nothing else.

**`CommandBusProofs`**:

| theorem | statement |
|---|---|
| `TypeCorrect` | `Spec => []TypeOK` |
| `InvCorrect` | `Spec => []IInv` |
| `LogIsGapFree` | `Spec => []GapFreeLog` |
| `CommandAppliedAtMostOnce` | `Spec => []AtMostOnce` |
| `DecisionsAreNotStale` | `Spec => []DecidedOnLog` |
| `LoadedStateCorrect` | `Spec => []LoadedStateIsLogPrefix` |
| `SnapshotCorrect` | `Spec => []SnapshotIsLogPrefix` |
| `ConflictHasWinner` | `Spec => []ConflictIsLostRace` |
| `LogIsAppendOnly` | `Spec => AppendOnly` |
| `StateIsOwnCorrect` | `Spec => []StateIsOwnUnlessShared` |

**The argument.**  None of these is inductive alone.  `IInv` adds how an instance
relates to the log at each await:

- `LoadedOK`: the state is the log up to the instance's revision, from the snapshot
  on.  It survives other calls because the log is only appended to.
- `StreamOK`: what is left of a replay continues at the next revision without a
  hole; reading it relies on the log having none.
- `DecidedOK`, `BatchOK`: the batch about to be stored continues the state decided
  on.
- `Provenance`: a stored event names the delivery that stored it, which is past
  storing.

The step that matters is the insert.  If no key conflicts, no event of the
aggregate has the batch's first revision; the log has no holes; so it ends exactly
at the instance's revision (`StoreAtTheEnd`).  Hence the batch neither leaves a gap
nor overlaps (`LogIsGapFree`), comes last (`LogIsAppendOnly`), and follows what was
decided on (`DecisionsAreNotStale`).

`CommandAppliedAtMostOnce` is the subtle one, as the check and the insert are
separate.  The clause in `BatchOK` says why it holds all the same: when the check
passes, no event of the command is in the log; what another delivery of the command
stores afterwards goes on the same aggregate, and so beyond the revision this one
stores at.  If that happened, the insert conflicts.  It rests on a command naming
one aggregate (`Target`), and would fail without it.

`StateIsOwnCorrect` follows from `LoadedOK`: a state is part of the log of its id, and an
id that one aggregate has names that aggregate in every event.

In the last part of the module, about event handlers: `GapsAreOwedCorrect`,
`DeliveredInOrderCorrect`, `CalledOnceCorrect`. The invariant `PubInv` says of every
stored event and each handler of it that the call was made or is in the outbox of the
delivery that stored the event (`HandedOver`), and that an outbox holds calls not yet
made, which come after those made (`OutboxOK`).

**`SerialLogProofs`**: `ImplementsSerialLogCorrect`, `Spec => ImplementsSerialLog`. 
An insert is one abstract step: by `StoreAtTheEnd` the batch continues the abstract
log, by `DecisionsAreNotStale`'s clause of `IInv` its entries were decided on all of
it, and by `CommandAppliedAtMostOnce`'s its command was not there.  `SerInv` adds that
each log has an end and that batches are no longer than `MaxEvents`.

**`LockStoreProofs`**: `TypeCorrect`, `OneHolderCorrect`, `RefusedMetALockCorrect`,
`ImplementsLeasesCorrect`, from `InvCorrect`.  `OneHolder` holds because of `LeaseOK`:
what a client counts on is in the table, no longer than there, and nobody else counts
on it.  That an INSERT keeps this needs to know what may be in the row's place:
`RowsOK` and `PurgeOK` say that a transaction removes only locks that were expired
when its deletion was issued, and so are expired now; a client that held such a lock
does not count on it.  `EndingOK` carries what a statement found to the COMMIT, across
whatever others do meanwhile: nobody else can write the row; `RenewOK` is why a
renewal that shortens a lock is no danger before its answer is there. 
`RefusedMetALock` is the clause of `PurgeOK` with `met`: without a lock met, the row
is absent, or expired and to be visited.

**`ConsumerProgressProofs`**: `TypeCorrect`, `RefusedForAReasonCorrect`,
`RevisionNeverFallsCorrect`, `ReplayNotReplacedCorrect`, `ImplementsProgressCorrect`,
from `InvCorrect`.  The invariant says that the row a COMMIT is going to replace still
is the one whose criteria the statement looked at, or that there still is none
(`EndingOK`): the UPDATE's condition, looked at again after waiting, is what makes two
statements as good as one.  `InsertOK` says that an INSERT with nothing against it has
no row in its way.

**`PriorityQueueProofs`**: `TypeCorrect`, `HeapIsDenseCorrect`,
`QueuesAreDenseCorrect`, from `InvCorrect`, and `RepairsFindQueuesCorrect` and
`RepairsEndCorrect`, from `TodoInvCorrect`; with `remove` as well.  `IInv` is `TypeOK`
and `TablesOK` of the tables inside the transaction and as committed (to which a
rollback returns): there is a number of queues whose indices are just those below it,
each once, and the same for the items of each queue.  Exchanges permute these indices;
removing moves the last queue into the hole.  `TInv` adds what a call may have left to
do: at most one repair of a queue that is in the heap, and after it another of the same
queue, or an item to enqueue.  With the heap dense, a parent's place is taken, a child's
place is further from the root, and the bound of `RepairsEnd` can be read off.

**`PriorityQueueOrderProofs`**, with `remove` as well:

| theorem | statement |
|---|---|
| `OrderInvCorrect` | `OrderSpec => []OInv` |
| `OrderedCorrect` | `OrderSpec => []Ordered` |
| `MostUrgentFirstCorrect` | `OrderSpec => MostUrgentFirst` |

While a call is carried out the heap is out of order, but at one queue only.  `OInv`
says at which: the queue that is to be repaired upwards may be more urgent than its
parent (`Rising`), the one to be repaired downwards less urgent than its children
(`Sinking`), and in both cases its parent is no less urgent than its children
(`Bridged`), so that an exchange moves the trouble one place on and makes no other. 
Time may pass between two exchanges of a repair, as long as no lock expires.  A
statement that begins a repair leads there: a queue that is locked, or whose lock is
renewed, can only have become less urgent; a new queue comes last, without children; a
queue that fills a hole is `Sinking` if it is no more urgent than its parent, which is
what `MovedTooLow` excludes; an acknowledged queue is gone, since it had one item.

`FirstIsMostUrgent` is why lockNext may take the first unlocked queue by place instead
of a smallest one: in a heap in order, if some unlocked queue were more urgent, take the
one nearest to the root; its parent is as urgent at least, hence not locked, hence more
urgent too and nearer; and a root that is not locked is the first.  The induction over
places is by a least counterexample (`WFMin`), for which the prover needs no operator
as parameter.

**`LeasedQueuesProofs`** assumes `NoRemoval`, that is, that
clients remove nothing; `removed_item` and `unseen_item` show that their theorems fail
otherwise.

| theorem | statement |
|---|---|
| `TakesOwnItemCorrect` | `NoRemoval => (Spec => []TakesOwnItem)` |
| `NothingLostCorrect` | `NoRemoval => (Spec => []NothingLost)` |
| `ImplementsLeasedQueuesCorrect` | `NoRemoval => (Spec => ImplementsLeasedQueues)` |

`JInv` (`OwnCorrect`) says that a client's item is first in its queue for as long as
its token is in the queue's row, whether or not the lock has expired: enqueueing puts
an item behind it, and the only ways to take it out also clear the token.  So a late
client either has the right item or is refused, which is `TakesOwnItem`.  `KInv` says
by operation which items are in the tables half-way through a call, in particular that
the enqueueing that ends `enqueue` and `defer` is the last thing to do.  `MInv` says
how the tables inside a transaction differ from those as committed: at most the lock
of the call's queue, and its first row or a new last one.  With it every COMMIT is one
step of `LeasedQueues`, and everything else a stutter or the passing of time.

**Only model-checked**: what needs fairness, which is out of the prover's reach:
`StoredIsDelivered` and the three `CallsEnd`.  Of the queue's, `RepairsEndCorrect` is
the part that is not about fairness: only finitely many steps are left, so that a call
whose next step is taken eventually ends.

## What is not modelled

- The content of events and states, and event sourcing handlers: a state is the
  sequence of events applied.  In particular a command handler that modifies its
  `state` argument in place is not modelled, nor is the `previous` state that
  `publishDomainEvent` records, which no handler can read.
- Timestamps, correlation ids, tags, initiators and clients: nothing branches on them.
- Context names: the bus has one context, `default`.
- The revision's upper bound of 2^31 - 1.
- Explorers, registries and modules: they run at start-up, and what they produce are
  the constants `Handlers`, `Subscription`, `Dispatchable` and `Target`.
- The query bus: it keeps no state, looks up a handler and calls it.
- Value objects: an assertion on a value each, without state; a model would repeat its
  text.  (`checkIfEmpty` in `domain/src/value-objects/value-object.ts:34`, which
  nothing calls, throws "Empty value" unless the value *is* empty.)
- A failure between the three updates of one exchange of queues: `SwapPositions` is one
  step.  A transaction that fails there is rolled back to the same tables as one that
  fails before or after the exchange.
- A lost answer of `releaseLock`: a client is taken not to count on a lock any more
  once the release it asked for is committed, whether it hears of that or not.
- That in PostgreSQL a statement that waited for a row does not follow to a row inserted
  in its place under the same key: the lock and the progress store's models look at the
  row that is there.  They refuse, or keep, a little more than the database does, which
  the abstract specifications allow either way.
- Several instances of the priority queue store on one database: `functionCallQueue`
  orders the calls of one instance only, and nothing in the code or its docs promises
  anything for two.
- What the Postgres driver makes of a `bigint` priority (a string).
- The branches of `LockStore.renewLock` and of `ConsumerProgressStore`'s update for
  databases without RETURNING, which count affected rows by a second statement; and
  sqlite for the stores other than the lock store.
- What a resolved `resetProgress` promises when its deletion, which it does not await,
  fails: `Abort` covers the effect, no client's knowledge of it is kept.
- Collisions of the hashes that the lock and progress stores use as keys.
- Migrations, connection options and the wiring of Nest modules.
- Files that are not the framework's: `.pnp.js` and `.yarn` are generated or vendored,
  and make up most of the repository's lines of JavaScript.

## Plan

Done: the command side with its abstract log and all its safety properties proved; the
publisher; the priority queue store of one instance with its refinement proved; the lock
store and the consumer progress store on PostgreSQL with their refinements proved; the
order of the heap, with the conditions under which it is kept, proved for any number of
queues; the lock store on the shared sqlite connection.

Left, in this order:

1. The other stores on the shared connection, which is the lock store's behaviour with
   other statements.
2. Two instances of the priority queue store on one database, once it is settled what
   they should promise.
