------------------------ MODULE CommandBusProperties ------------------------
(***************************************************************************)
(* What has to hold of CommandBus, and of the event store through it.      *)
(***************************************************************************)
EXTENDS CommandBus

(***************************************************************************)
(* Types.                                                                  *)
(***************************************************************************)
TypeOK ==
  /\ domainEvents \subseteq DomainEvent
  /\ snapshots \subseteq Snapshot
  /\ phase \in [Delivery -> Phase]
  /\ revision \in [Delivery -> Nat]
  /\ state \in [Delivery -> State]
  /\ fromRevision \in [Delivery -> Nat \ {0}]
  /\ stream \in [Delivery -> SUBSET DomainEvent]
  /\ events \in [Delivery -> Seq(EventName)]
  /\ unstored \in [Delivery -> SUBSET DomainEvent]
  /\ outbox \in [Delivery -> SUBSET ((1..Handlers) \X DomainEvent)]
  /\ delivered \subseteq (1..Handlers) \X DomainEvent
  /\ basis \in [Delivery -> State]

(***************************************************************************)
(* The log of an aggregate has the revisions 1 to n, each once: concurrent *)
(* batches neither overlap nor leave a hole, although the store checks     *)
(* nothing but the primary key and a revision is computed from what the    *)
(* instance read some awaits ago.                                          *)
(***************************************************************************)
UniqueRevisions ==
  \A e, f \in domainEvents :
    IdOf[e.aggregate] = IdOf[f.aggregate] /\ e.revision = f.revision => e = f

NoGaps ==
  \A e \in domainEvents : \A r \in 1..e.revision :
    \E f \in EventsOf(IdOf[e.aggregate]) : f.revision = r

GapFreeLog == UniqueRevisions /\ NoGaps

(***************************************************************************)
(* A command handed in several times takes effect at most once, although   *)
(* the check on its causationId and the insert are separate statements.    *)
(***************************************************************************)
AtMostOnce ==
  \A e, f \in domainEvents : e.causationId = f.causationId => e.delivery = f.delivery

\* s is the fold of the first Len(s) events of the log of id.
IsLogPrefix(s, id) ==
  \A i \in 1..Len(s) : s[i] \in EventsOf(id) /\ s[i].revision = i

(***************************************************************************)
(* No decision on stale state: the events of a command follow, without     *)
(* another event in between, the very log its handler decided on.          *)
(***************************************************************************)
DecidedOnLog ==
  \A e \in domainEvents :
    /\ IsLogPrefix(basis[e.delivery], IdOf[e.aggregate])
    /\ e.revision = Len(basis[e.delivery]) + e.index

(***************************************************************************)
(* An aggregate loaded from a snapshot and the events after it is in the   *)
(* state of its log at the revision it claims, at every await from the     *)
(* snapshot on, whatever other calls stored meanwhile.                     *)
(***************************************************************************)
Loaded(d) == phase[d] \in Running \ {"loading"}

LoadedStateIsLogPrefix ==
  \A d \in Delivery : Loaded(d) =>
    Len(state[d]) = revision[d] /\ IsLogPrefix(state[d], IdOfTarget(d))

(***************************************************************************)
(* A snapshot is the state of the log at its revision: taken by calls that *)
(* read at different times, it never mixes or misses events.               *)
(***************************************************************************)
SnapshotIsLogPrefix ==
  \A s \in snapshots : Len(s.state) = s.revision /\ IsLogPrefix(s.state, s.aggregateId)

(***************************************************************************)
(* RevisionAlreadyExists is only ever raised because another call won:     *)
(* right after the log the loser decided on stands an event of another     *)
(* delivery, which the loser's load did not see.  It may have been stored  *)
(* before the loser decided or after, and where aggregates share an id,    *)
(* on another aggregate than the loser's.                                  *)
(***************************************************************************)
ConflictIsLostRace ==
  \A d \in Delivery : phase[d] = "conflicted" =>
    \E e \in EventsOf(IdOfTarget(d)) : e.delivery # d /\ e.revision = Len(basis[d]) + 1

(***************************************************************************)
(* An event handler that misses an event of an aggregate, though it was    *)
(* given a later one, misses it because the call that stored it is still   *)
(* publishing or failed doing so.                                          *)
(***************************************************************************)
Missed(h, e) == Subscription[h] = e.name /\ <<h, e>> \notin delivered

GapsAreOwed ==
  \A e \in domainEvents, h \in 1..Handlers :
    Missed(h, e) => phase[e.delivery] \in {"publishing", "failed"}

(***************************************************************************)
(* Within a command, handlers see events in the order they were decided:   *)
(* when any handler has one of them, none misses an earlier one.  Handlers *)
(* see nothing that is not stored.                                         *)
(***************************************************************************)
DeliveredInOrder ==
  \A call \in delivered :
    /\ call[2] \in domainEvents
    /\ \A e \in domainEvents, h \in 1..Handlers :
         e.delivery = call[2].delivery /\ e.index < call[2].index => ~ Missed(h, e)

(***************************************************************************)
(* The store is append-only: a step neither removes nor rewrites an event, *)
(* and what it adds comes after all events its aggregate had.              *)
(***************************************************************************)
AppendStep ==
  /\ domainEvents \subseteq domainEvents'
  /\ \A e \in domainEvents' \ domainEvents, f \in domainEvents :
       IdOf[e.aggregate] = IdOf[f.aggregate] => f.revision < e.revision

AppendOnly == [][AppendStep]_vars

(***************************************************************************)
(* No handler is called twice with the same event, be the command          *)
(* delivered again or not.                                                 *)
(***************************************************************************)
CalledOnce == [][\A d \in Delivery : PublishDomainEvent(d) => delivered' # delivered]_vars

(***************************************************************************)
(* Every stored event reaches every handler subscribed to it, unless the   *)
(* call that stored it fails.                                              *)
(***************************************************************************)
AllDelivered(d) ==
  \A e \in domainEvents : e.delivery = d => \A h \in 1..Handlers : ~ Missed(h, e)

StoredIsDelivered ==
  \A d \in Delivery :
    (\E e \in domainEvents : e.delivery = d) ~> (AllDelivered(d) \/ phase[d] = "failed")

(***************************************************************************)
(* A state is built from events of its own aggregate only: applyDomainEvent*)
(* refuses any other ("Aggregate name does not match.").  The tables know  *)
(* an aggregate by its id, so that of one whose id no other has is such.   *)
(***************************************************************************)
BuiltFromOwn(d) ==
  phase[d] \in {"loaded", "handled", "storing"} =>
    \A i \in 1..Len(state[d]) : state[d][i].aggregate = AggregateOf(d)

SharesId(d) == \E a \in Aggregate : a # AggregateOf(d) /\ IdOf[a] = IdOfTarget(d)

StateIsOwn == \A d \in Delivery : BuiltFromOwn(d)

StateIsOwnUnlessShared == \A d \in Delivery : ~ SharesId(d) => BuiltFromOwn(d)

-----------------------------------------------------------------------------
(* The command side implements the serial log. *)

EventAt(id, r) == CHOOSE e \in EventsOf(id) : e.revision = r

SerialEntry(e) == [command |-> e.causationId, decidedAt |-> Len(basis[e.delivery])]

Serial ==
  INSTANCE SerialLog WITH
    log <- [id \in AggregateId |->
              [r \in 1..LastRevision(id) |-> SerialEntry(EventAt(id, r))]]

\* Interleaved calls of handle, redelivered commands and failures behave as
\* commands executed one after the other, each at most once.
ImplementsSerialLog == Serial!Spec

=============================================================================
