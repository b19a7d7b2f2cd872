----------------------------- MODULE CommandBus -----------------------------
(***************************************************************************)
(* The command side: SimpleCommandBus.handle, which loads an aggregate     *)
(* (Repository, AggregateInstance.create), lets the command handler decide *)
(* on its state, stores the events decided (applyCommandEvents) and hands  *)
(* them to the event handlers (SimpleDomainEventPublisher).                *)
(*                                                                         *)
(* Many calls of handle are in flight at once, in one process or in        *)
(* several that share the database; each `await` on the store or on a      *)
(* handler ends an action.  An AggregateInstance belongs to one call.      *)
(*                                                                         *)
(* A delivery is one call of handle.  dispatch gives every command a fresh *)
(* uuid, so its deliveries have different commands; a bus fed from a queue *)
(* that hands an item out again has deliveries that share one, which is    *)
(* what the check on the causationId is there for.                         *)
(***************************************************************************)
EXTENDS DomainEventStore

CONSTANTS
  CommandOf,      \* the command of a delivery
  Target,         \* the aggregate a command names
  Dispatchable,   \* the commands with a handler and a target identifier
  Handlers,       \* how many event handlers are registered
  Subscription,   \* the event name each of them is relevant to
  MaxEvents,      \* bound: events one command handler may apply
  SnapshotLimit   \* revisionLimit of the snapshot strategy (100 in the code)

ASSUME CommandOfAssumption    == CommandOf \in [Delivery -> Command]
ASSUME TargetAssumption       == Target \in [Command -> Aggregate]
ASSUME HandlersAssumption     == Handlers \in Nat
ASSUME SubscriptionAssumption == Subscription \in [1..Handlers -> EventName]
ASSUME LimitsAssumption       == MaxEvents \in Nat /\ SnapshotLimit \in Nat

VARIABLES
  phase,          \* where each call of handle stands
  revision,       \* AggregateInstance.revision
  state,          \* AggregateInstance.state
  fromRevision,   \* where its replay starts
  stream,         \* the events of the replay it has not applied yet
  events,         \* the names of the events its command handler applied
  unstored,       \* AggregateInstance.unstoredDomainEvents
  outbox,         \* calls of event handlers it still has to make
  delivered,      \* calls of event handlers made: <<handler, event>>
  basis           \* history: the state its command handler decided on

busVars  == <<phase, revision, state, fromRevision, stream, events, unstored,
              outbox, delivered, basis>>
loadVars == <<revision, state, fromRevision, stream>>
vars     == <<storeVars, busVars>>

Running == {"loading", "reading", "replaying", "snapshotting", "loaded",
            "handled", "storing", "publishing"}
Phase   == Running \cup {"idle", "done", "rejected", "conflicted", "failed"}

AggregateOf(d) == Target[CommandOf[d]]
IdOfTarget(d)  == IdOf[AggregateOf(d)]

Goto(d, next) == phase' = [phase EXCEPT ![d] = next]

-----------------------------------------------------------------------------
(* AbstractCommandBus.dispatch *)

Dispatch(d) ==
  /\ phase[d] = "idle"
  /\ Goto(d, IF CommandOf[d] \in Dispatchable THEN "loading" ELSE "rejected")
  /\ UNCHANGED <<storeVars, loadVars, events, unstored, outbox, delivered, basis>>

-----------------------------------------------------------------------------
(* AggregateInstance.create *)

\* applySnapshot compares ids, and getSnapshot answers with the identifier it
\* was asked for: no snapshot is refused.
LoadSnapshot(d) ==
  /\ phase[d] = "loading"
  /\ \/ /\ LatestSnapshot(IdOfTarget(d)) = {}
        /\ revision' = [revision EXCEPT ![d] = 0]
        /\ state' = [state EXCEPT ![d] = InitialState]
     \/ \E s \in LatestSnapshot(IdOfTarget(d)) :
          /\ revision' = [revision EXCEPT ![d] = s.revision]
          /\ state' = [state EXCEPT ![d] = s.state]
  /\ fromRevision' = [fromRevision EXCEPT ![d] = revision'[d] + 1]
  /\ Goto(d, "reading")
  /\ UNCHANGED <<storeVars, stream, events, unstored, outbox, delivered, basis>>

ReadEvents(d) ==
  /\ phase[d] = "reading"
  /\ stream' = [stream EXCEPT ![d] = ReplayForAggregate(IdOfTarget(d), fromRevision[d])]
  /\ Goto(d, "replaying")
  /\ UNCHANGED <<storeVars, revision, state, fromRevision, events, unstored,
                 outbox, delivered, basis>>

\* One turn of the loop over the replay; applyDomainEvent throws
\* IdentifierMismatch for an event of an aggregate with another name.
ReplayEvent(d) ==
  /\ phase[d] = "replaying"
  /\ \E e \in stream[d] :
       /\ ReplayedFirst(e, stream[d])
       /\ \/ /\ e.aggregate = AggregateOf(d)
             /\ state' = [state EXCEPT ![d] = Append(@, e)]
             /\ revision' = [revision EXCEPT ![d] = e.revision]
             /\ stream' = [stream EXCEPT ![d] = @ \ {e}]
             /\ UNCHANGED phase
          \/ /\ e.aggregate # AggregateOf(d)
             /\ Goto(d, "rejected")
             /\ UNCHANGED <<state, revision, stream>>
  /\ UNCHANGED <<storeVars, fromRevision, events, unstored, outbox, delivered, basis>>

SnapshotDue(d) ==
  LET replayedDomainEvents == revision[d] - (fromRevision[d] - 1)
  IN  replayedDomainEvents > 0 /\ replayedDomainEvents >= SnapshotLimit

EndReplay(d) ==
  /\ phase[d] = "replaying"
  /\ stream[d] = {}
  /\ Goto(d, IF SnapshotDue(d) THEN "snapshotting" ELSE "loaded")
  /\ UNCHANGED <<storeVars, loadVars, events, unstored, outbox, delivered, basis>>

SaveSnapshot(d) ==
  /\ phase[d] = "snapshotting"
  /\ StoreSnapshot(IdOfTarget(d), revision[d], state[d])
  /\ Goto(d, "loaded")
  /\ UNCHANGED <<domainEvents, loadVars, events, unstored, outbox, delivered, basis>>

-----------------------------------------------------------------------------
(* CommandHandlingMember.handle *)

\* The handler throws or returns an Error, or applies any events it likes.
HandleCommand(d) ==
  /\ phase[d] = "loaded"
  /\ \/ /\ Goto(d, "rejected")
        /\ UNCHANGED <<events, basis>>
     \/ \E n \in 0..MaxEvents : \E names \in [1..n -> EventName] :
          /\ events' = [events EXCEPT ![d] = names]
          /\ basis' = [basis EXCEPT ![d] = state[d]]
          /\ Goto(d, "handled")
  /\ UNCHANGED <<storeVars, loadVars, unstored, outbox, delivered>>

-----------------------------------------------------------------------------
(* AggregateInstance.applyCommandEvents *)

\* Bug variants: revisions counted from the event the instance ends with, or
\* from the last one in the store by now.
RevisionOffByOne(d, i) ==
  [aggregate   |-> AggregateOf(d), revision |-> revision[d] + i - 1,
   causationId |-> CommandOf[d], delivery |-> d, index |-> i, name |-> events[d][i]]
RevisionFromStore(d, i) ==
  [aggregate   |-> AggregateOf(d), revision |-> LastRevision(IdOfTarget(d)) + i,
   causationId |-> CommandOf[d], delivery |-> d, index |-> i, name |-> events[d][i]]

\* publishDomainEvent: each event gets the next revision after those the
\* instance already holds.
NewDomainEvent(d, i) ==
  [aggregate   |-> AggregateOf(d),
   revision    |-> revision[d] + i,
   causationId |-> CommandOf[d],
   delivery    |-> d,
   index       |-> i,
   name        |-> events[d][i]]

\* A command whose events are in the store already is not applied again, and
\* nothing is published for it.
ApplyCommandEvents(d) ==
  /\ phase[d] = "handled"
  /\ \/ /\ HasDomainEventsWithCausationId(CommandOf[d])
        /\ Goto(d, "done")
        /\ UNCHANGED unstored
     \/ /\ ~ HasDomainEventsWithCausationId(CommandOf[d])
        /\ unstored' = [unstored EXCEPT ![d] =
                          {NewDomainEvent(d, i) : i \in DOMAIN events[d]}]
        /\ Goto(d, IF events[d] = << >> THEN "done" ELSE "storing")
  /\ UNCHANGED <<storeVars, loadVars, events, outbox, delivered, basis>>

\* Bug variants: the events already in the store published along; only the
\* first handler that is relevant called.
CallsForTheWholeLog(rows) ==
  {call \in (1..Handlers) \X (rows \cup domainEvents) : Subscription[call[1]] = call[2].name}
CallsOfFirstHandler(rows) ==
  {call \in (1..Handlers) \X rows :
     /\ Subscription[call[1]] = call[2].name
     /\ \A h \in 1..Handlers : Subscription[h] = call[2].name => call[1] <= h}

\* The calls publishDomainEvents makes for the events of a batch.
HandlerCalls(rows) ==
  {call \in (1..Handlers) \X rows : Subscription[call[1]] = call[2].name}

\* The instance applies the events it stored: they are those after its
\* revision, in the order of their index.
StoreEvents(d) ==
  /\ phase[d] = "storing"
  /\ StoreDomainEvents(unstored[d])
  /\ state' = [state EXCEPT ![d] = @ \o [i \in DOMAIN events[d] |-> NewDomainEvent(d, i)]]
  /\ revision' = [revision EXCEPT ![d] = @ + Len(events[d])]
  /\ outbox' = [outbox EXCEPT ![d] = HandlerCalls(unstored[d])]
  /\ unstored' = [unstored EXCEPT ![d] = {}]
  /\ Goto(d, "publishing")
  /\ UNCHANGED <<snapshots, fromRevision, stream, events, delivered, basis>>

\* The primary key refuses the batch; unstoredDomainEvents stays as it is.
StoreConflict(d) ==
  /\ phase[d] = "storing"
  /\ RevisionAlreadyExists(unstored[d])
  /\ Goto(d, "conflicted")
  /\ UNCHANGED <<storeVars, loadVars, events, unstored, outbox, delivered, basis>>

-----------------------------------------------------------------------------
(* SimpleDomainEventPublisher.publishDomainEvents *)

\* Bug variant: all handlers started at once.
CalledAnyhow(call, calls) == TRUE

\* Events in the order they were decided, and for each event the handlers in
\* the order they were registered.
CalledFirst(call, calls) ==
  \A other \in calls :
    \/ call[2].index < other[2].index
    \/ call[2].index = other[2].index /\ call[1] <= other[1]

PublishDomainEvent(d) ==
  /\ phase[d] = "publishing"
  /\ \E call \in outbox[d] :
       /\ CalledFirst(call, outbox[d])
       /\ delivered' = delivered \cup {call}
       /\ outbox' = [outbox EXCEPT ![d] = @ \ {call}]
  /\ UNCHANGED <<storeVars, phase, loadVars, events, unstored, basis>>

\* Bug variant: the publisher is not awaited.
EndPublishingEarly(d) ==
  /\ phase[d] = "publishing"
  /\ Goto(d, "done")
  /\ UNCHANGED <<storeVars, loadVars, events, unstored, outbox, delivered, basis>>

EndPublishing(d) ==
  /\ phase[d] = "publishing"
  /\ outbox[d] = {}
  /\ Goto(d, "done")
  /\ UNCHANGED <<storeVars, loadVars, events, unstored, outbox, delivered, basis>>

-----------------------------------------------------------------------------

\* The store or an event handler rejects, the aggregate is unknown, or the
\* process dies: the call ends here, and what it stored stays.
Fail(d) ==
  /\ phase[d] \in Running
  /\ Goto(d, "failed")
  /\ UNCHANGED <<storeVars, loadVars, events, unstored, outbox, delivered, basis>>

Init ==
  /\ domainEvents = {}
  /\ snapshots = {}
  /\ phase = [d \in Delivery |-> "idle"]
  /\ revision = [d \in Delivery |-> 0]
  /\ state = [d \in Delivery |-> InitialState]
  /\ fromRevision = [d \in Delivery |-> 1]
  /\ stream = [d \in Delivery |-> {}]
  /\ events = [d \in Delivery |-> << >>]
  /\ unstored = [d \in Delivery |-> {}]
  /\ outbox = [d \in Delivery |-> {}]
  /\ delivered = {}
  /\ basis = [d \in Delivery |-> InitialState]

\* What a call of handle does once dispatched, as long as nothing fails.
Progress(d) ==
  \/ LoadSnapshot(d)
  \/ ReadEvents(d)
  \/ ReplayEvent(d)
  \/ EndReplay(d)
  \/ SaveSnapshot(d)
  \/ HandleCommand(d)
  \/ ApplyCommandEvents(d)
  \/ StoreEvents(d)
  \/ StoreConflict(d)
  \/ PublishDomainEvent(d)
  \/ EndPublishing(d)

Next == \E d \in Delivery : Dispatch(d) \/ Progress(d) \/ Fail(d)

Spec == Init /\ [][Next]_vars

\* A promise that can settle is settled; nobody has to dispatch, nothing has
\* to fail.
Fairness == \A d \in Delivery : WF_vars(Progress(d))

FairSpec == Spec /\ Fairness

=============================================================================
