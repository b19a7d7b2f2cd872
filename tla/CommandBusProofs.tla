-------------------------- MODULE CommandBusProofs --------------------------
(***************************************************************************)
(* Proofs about CommandBus, for any number of deliveries, commands,        *)
(* aggregates and handlers, any batch size and any snapshot limit.         *)
(***************************************************************************)
EXTENDS CommandBusProperties, TLAPS

-----------------------------------------------------------------------------
(* Types *)

LEMMA NewDomainEventType ==
  ASSUME TypeOK, NEW d \in Delivery, NEW i \in DOMAIN events[d]
  PROVE  /\ NewDomainEvent(d, i) \in DomainEvent
         /\ NewDomainEvent(d, i).revision = revision[d] + i
         /\ NewDomainEvent(d, i).index = i
<1>1. events[d] \in Seq(EventName) /\ revision[d] \in Nat
  BY DEF TypeOK
<1>2. i \in Nat \ {0} /\ events[d][i] \in EventName
  BY <1>1
<1>3. CommandOf[d] \in Command /\ AggregateOf(d) \in Aggregate
  BY CommandOfAssumption, TargetAssumption DEF AggregateOf
<1>4. QED
  BY <1>1, <1>2, <1>3 DEF NewDomainEvent, DomainEvent

LEMMA BatchType ==
  ASSUME TypeOK, NEW d \in Delivery
  PROVE  /\ [i \in DOMAIN events[d] |-> NewDomainEvent(d, i)] \in State
         /\ Len([i \in DOMAIN events[d] |-> NewDomainEvent(d, i)]) = Len(events[d])
         /\ {NewDomainEvent(d, i) : i \in DOMAIN events[d]} \subseteq DomainEvent
<1>1. events[d] \in Seq(EventName)
  BY DEF TypeOK
<1>2. DOMAIN events[d] = 1..Len(events[d]) /\ Len(events[d]) \in Nat
  BY <1>1
<1>3. \A i \in DOMAIN events[d] : NewDomainEvent(d, i) \in DomainEvent
  BY NewDomainEventType
<1>4. [i \in DOMAIN events[d] |-> NewDomainEvent(d, i)] \in [1..Len(events[d]) -> DomainEvent]
  BY <1>2, <1>3
<1>5. QED
  BY <1>2, <1>3, <1>4 DEF State

LEMMA TypeInit == Init => TypeOK
<1>1. InitialState \in State
  BY DEF InitialState, State
<1>2. QED
  BY <1>1 DEF Init, TypeOK, Phase

LEMMA TypeNext ==
  ASSUME TypeOK, [Next]_vars
  PROVE  TypeOK'
<1>1. CASE UNCHANGED vars
  BY <1>1 DEF TypeOK, vars, storeVars, busVars
<1>2. SUFFICES ASSUME NEW d \in Delivery, Dispatch(d) \/ Progress(d) \/ Fail(d)
               PROVE  TypeOK'
  BY <1>1 DEF Next
<1> USE DEF TypeOK, Goto, storeVars, loadVars
<1>3. CASE Dispatch(d)
  BY <1>3 DEF Dispatch, Phase, Running
<1>4. CASE LoadSnapshot(d)
  <2>1. InitialState \in State
    BY DEF InitialState, State
  <2>2. revision' \in [Delivery -> Nat] /\ state' \in [Delivery -> State]
    <3>1. \A s \in LatestSnapshot(IdOfTarget(d)) : s.revision \in Nat /\ s.state \in State
      BY DEF LatestSnapshot, Snapshot
    <3>2. CASE /\ revision' = [revision EXCEPT ![d] = 0]
               /\ state' = [state EXCEPT ![d] = InitialState]
      BY <2>1, <3>2
    <3>3. CASE \E s \in LatestSnapshot(IdOfTarget(d)) :
                 /\ revision' = [revision EXCEPT ![d] = s.revision]
                 /\ state' = [state EXCEPT ![d] = s.state]
      BY <3>1, <3>3
    <3>4. QED
      BY <1>4, <3>2, <3>3 DEF LoadSnapshot
  <2>3. fromRevision' \in [Delivery -> Nat \ {0}]
    BY <1>4, <2>2 DEF LoadSnapshot
  <2>4. QED
    BY <1>4, <2>2, <2>3 DEF LoadSnapshot, Phase, Running
<1>5. CASE ReadEvents(d)
  BY <1>5 DEF ReadEvents, ReplayForAggregate, EventsOf, Phase, Running
<1>6. CASE ReplayEvent(d)
  <2>1. PICK e \in stream[d] :
          \/ /\ state' = [state EXCEPT ![d] = Append(@, e)]
             /\ revision' = [revision EXCEPT ![d] = e.revision]
             /\ stream' = [stream EXCEPT ![d] = @ \ {e}]
             /\ UNCHANGED phase
          \/ Goto(d, "rejected") /\ UNCHANGED <<state, revision, stream>>
    BY <1>6 DEF ReplayEvent
  <2>2. e \in DomainEvent /\ e.revision \in Nat
    BY DEF DomainEvent
  <2>3. Append(state[d], e) \in State
    BY <2>2 DEF State
  <2>4. phase' \in [Delivery -> Phase]
    BY <2>1 DEF Phase
  <2>5. /\ state' \in [Delivery -> State]
        /\ revision' \in [Delivery -> Nat]
        /\ stream' \in [Delivery -> SUBSET DomainEvent]
    <3>1. CASE /\ state' = [state EXCEPT ![d] = Append(@, e)]
               /\ revision' = [revision EXCEPT ![d] = e.revision]
               /\ stream' = [stream EXCEPT ![d] = @ \ {e}]
      BY <2>2, <2>3, <3>1
    <3>2. CASE UNCHANGED <<state, revision, stream>>
      BY <3>2
    <3>3. QED
      BY <2>1, <3>1, <3>2
  <2>6. QED
    BY <1>6, <2>4, <2>5 DEF ReplayEvent
<1>7. CASE EndReplay(d)
  BY <1>7 DEF EndReplay, Phase, Running
<1>8. CASE SaveSnapshot(d)
  <2>1. IdOfTarget(d) \in AggregateId
    BY IdOfAssumption, CommandOfAssumption, TargetAssumption DEF IdOfTarget, AggregateOf
  <2>2. snapshots' \subseteq Snapshot
    BY <1>8, <2>1 DEF SaveSnapshot, StoreSnapshot, Snapshot
  <2>3. QED
    BY <1>8, <2>2 DEF SaveSnapshot, Phase, Running
<1>9. CASE HandleCommand(d)
  <2>1. \A n \in 0..MaxEvents : [1..n -> EventName] \subseteq Seq(EventName)
    BY LimitsAssumption
  <2>2. events' \in [Delivery -> Seq(EventName)] /\ basis' \in [Delivery -> State]
    BY <1>9, <2>1 DEF HandleCommand
  <2>3. QED
    BY <1>9, <2>2 DEF HandleCommand, Phase, Running
<1>10. CASE ApplyCommandEvents(d)
  BY <1>10, BatchType DEF ApplyCommandEvents, Phase, Running
<1>11. CASE StoreEvents(d)
  <2>1. domainEvents' \subseteq DomainEvent
    BY <1>11 DEF StoreEvents, StoreDomainEvents
  <2>2. state' \in [Delivery -> State]
    BY <1>11, BatchType DEF StoreEvents, State
  <2>3. revision' \in [Delivery -> Nat]
    BY <1>11 DEF StoreEvents
  <2>4. outbox' \in [Delivery -> SUBSET ((1..Handlers) \X DomainEvent)]
    BY <1>11 DEF StoreEvents, HandlerCalls
  <2>5. QED
    BY <1>11, <2>1, <2>2, <2>3, <2>4 DEF StoreEvents, Phase, Running
<1>12. CASE StoreConflict(d)
  BY <1>12 DEF StoreConflict, Phase, Running
<1>13. CASE PublishDomainEvent(d)
  BY <1>13 DEF PublishDomainEvent
<1>14. CASE EndPublishing(d)
  BY <1>14 DEF EndPublishing, Phase, Running
<1>15. CASE Fail(d)
  BY <1>15 DEF Fail, Phase, Running
<1>16. QED
  BY <1>2, <1>3, <1>4, <1>5, <1>6, <1>7, <1>8, <1>9, <1>10, <1>11, <1>12, <1>13,
     <1>14, <1>15 DEF Progress

THEOREM TypeCorrect == Spec => []TypeOK
<1>1. Init => TypeOK
  BY TypeInit
<1>2. TypeOK /\ [Next]_vars => TypeOK'
  BY TypeNext
<1>3. QED
  BY <1>1, <1>2, PTL DEF Spec

-----------------------------------------------------------------------------
(* The inductive invariant *)

\* A stored event was made by its delivery, which went past storing.
Provenance ==
  \A e \in domainEvents :
    /\ e.aggregate = AggregateOf(e.delivery)
    /\ e.causationId = CommandOf[e.delivery]
    /\ phase[e.delivery] \in {"publishing", "done", "failed"}

LoadedOK(d) ==
  Loaded(d) => Len(state[d]) = revision[d] /\ IsLogPrefix(state[d], IdOfTarget(d))

\* What is left of a replay goes on, without a hole, where the instance is.
StreamOK(d) ==
  /\ phase[d] = "reading" => fromRevision[d] = revision[d] + 1
  /\ phase[d] = "replaying" =>
       /\ stream[d] \subseteq EventsOf(IdOfTarget(d))
       /\ \A e \in stream[d] :
            /\ e.revision > revision[d]
            /\ \A r \in (revision[d] + 1)..e.revision : \E f \in stream[d] : f.revision = r

DecidedOK(d) == phase[d] \in {"handled", "storing"} => basis[d] = state[d]

\* Why the causationId check is enough: what another delivery of the command
\* stores after the check lies beyond the revision this one stores at.
BatchOK(d) ==
  phase[d] = "storing" =>
    /\ unstored[d] = {NewDomainEvent(d, i) : i \in DOMAIN events[d]}
    /\ events[d] # << >>
    /\ \A e \in domainEvents : e.causationId = CommandOf[d] => e.revision > revision[d]

ConflictOK(d) ==
  phase[d] = "conflicted" =>
    \E e \in EventsOf(IdOfTarget(d)) : e.delivery # d /\ e.revision = Len(basis[d]) + 1

CallInv(d) == LoadedOK(d) /\ StreamOK(d) /\ DecidedOK(d) /\ BatchOK(d) /\ ConflictOK(d)

LogInv == GapFreeLog /\ AtMostOnce /\ DecidedOnLog /\ Provenance /\ SnapshotIsLogPrefix

IInv == TypeOK /\ LogInv /\ \A d \in Delivery : CallInv(d)

LEMMA InvInit == Init => IInv
<1> SUFFICES ASSUME Init PROVE IInv
  OBVIOUS
<1>1. TypeOK
  BY TypeInit
<1>2. LogInv
  BY DEF Init, LogInv, GapFreeLog, UniqueRevisions, NoGaps, AtMostOnce, DecidedOnLog,
         Provenance, SnapshotIsLogPrefix
<1>3. ASSUME NEW d \in Delivery PROVE CallInv(d)
  BY DEF Init, CallInv, LoadedOK, StreamOK, DecidedOK, BatchOK, ConflictOK, Loaded, Running
<1>4. QED
  BY <1>1, <1>2, <1>3 DEF IInv

(***************************************************************************)
(* A step that leaves the log alone keeps what is said of the log, if it   *)
(* moves on its own delivery only, and that stays on its side of storing.  *)
(***************************************************************************)
LEMMA LogKept ==
  ASSUME IInv, NEW d \in Delivery,
         UNCHANGED <<domainEvents, snapshots, basis>>,
         \A c \in Delivery \ {d} : phase'[c] = phase[c],
         phase[d] \in {"publishing", "done", "failed"} =>
           phase'[d] \in {"publishing", "done", "failed"}
  PROVE  LogInv'
<1>1. GapFreeLog' /\ AtMostOnce' /\ SnapshotIsLogPrefix'
  BY DEF IInv, LogInv, GapFreeLog, UniqueRevisions, NoGaps, EventsOf, AtMostOnce,
         SnapshotIsLogPrefix, IsLogPrefix
<1>2. DecidedOnLog'
  BY DEF IInv, LogInv, DecidedOnLog, IsLogPrefix, EventsOf
<1>3. Provenance'
  BY DEF IInv, LogInv, TypeOK, DomainEvent, Provenance, AggregateOf
<1>4. QED
  BY <1>1, <1>2, <1>3 DEF LogInv

(***************************************************************************)
(* What is said of another delivery c survives a step that leaves c alone  *)
(* and leaves the log alone.                                               *)
(***************************************************************************)
LEMMA OtherCall ==
  ASSUME IInv, NEW c \in Delivery,
         UNCHANGED domainEvents,
         phase'[c] = phase[c], revision'[c] = revision[c], state'[c] = state[c],
         fromRevision'[c] = fromRevision[c], stream'[c] = stream[c],
         events'[c] = events[c], unstored'[c] = unstored[c], basis'[c] = basis[c]
  PROVE  CallInv(c)'
<1> USE DEF IInv, CallInv
<1>1. LoadedOK(c)'
  BY DEF LoadedOK, Loaded, IsLogPrefix, EventsOf, IdOfTarget, AggregateOf
<1>2. StreamOK(c)'
  BY DEF StreamOK, EventsOf, IdOfTarget, AggregateOf
<1>3. DecidedOK(c)'
  BY DEF DecidedOK
<1>4. BatchOK(c)'
  BY DEF BatchOK, NewDomainEvent, AggregateOf
<1>5. ConflictOK(c)'
  BY DEF ConflictOK, EventsOf, IdOfTarget, AggregateOf
<1>6. QED
  BY <1>1, <1>2, <1>3, <1>4, <1>5

(***************************************************************************)
(* Loading.                                                                *)
(***************************************************************************)
LEMMA LoadSnapshotInv ==
  ASSUME IInv, NEW d \in Delivery, LoadSnapshot(d)
  PROVE  CallInv(d)'
<1> USE DEF IInv, TypeOK, Goto
<1>1. phase'[d] = "reading" /\ fromRevision'[d] = revision'[d] + 1
  BY DEF LoadSnapshot
<1>2. Len(state'[d]) = revision'[d] /\ IsLogPrefix(state'[d], IdOfTarget(d))
  <2>1. CASE /\ revision' = [revision EXCEPT ![d] = 0]
             /\ state' = [state EXCEPT ![d] = InitialState]
    BY <2>1 DEF InitialState, IsLogPrefix
  <2>2. CASE \E s \in LatestSnapshot(IdOfTarget(d)) :
               /\ revision' = [revision EXCEPT ![d] = s.revision]
               /\ state' = [state EXCEPT ![d] = s.state]
    <3>1. PICK s \in LatestSnapshot(IdOfTarget(d)) :
                 revision'[d] = s.revision /\ state'[d] = s.state
      BY <2>2
    <3>2. s \in snapshots /\ s.aggregateId = IdOfTarget(d)
      BY DEF LatestSnapshot
    <3>3. QED
      BY <3>1, <3>2 DEF LogInv, SnapshotIsLogPrefix
  <2>3. QED
    BY <2>1, <2>2 DEF LoadSnapshot
<1>3. LoadedOK(d)'
  BY <1>2 DEF LoadedOK, LoadSnapshot, storeVars, IsLogPrefix, EventsOf, IdOfTarget, AggregateOf
<1>4. StreamOK(d)' /\ DecidedOK(d)' /\ BatchOK(d)' /\ ConflictOK(d)'
  BY <1>1 DEF StreamOK, DecidedOK, BatchOK, ConflictOK
<1>5. QED
  BY <1>3, <1>4 DEF CallInv

\* The replay continues the snapshot because the log has no holes.
LEMMA ReadEventsInv ==
  ASSUME IInv, NEW d \in Delivery, ReadEvents(d)
  PROVE  CallInv(d)'
<1> USE DEF IInv, TypeOK, Goto, storeVars
<1>1. phase[d] = "reading" /\ phase'[d] = "replaying"
  BY DEF ReadEvents
<1>2. LoadedOK(d)'
  BY <1>1 DEF ReadEvents, CallInv, LoadedOK, Loaded, Running, IsLogPrefix, EventsOf,
              IdOfTarget, AggregateOf
<1>3. fromRevision[d] = revision[d] + 1
  BY <1>1 DEF CallInv, StreamOK
<1>4. stream'[d] = {e \in EventsOf(IdOfTarget(d)) : e.revision >= revision[d] + 1}
  BY <1>3 DEF ReadEvents, ReplayForAggregate
<1>5. ASSUME NEW e \in stream'[d]
      PROVE  /\ e.revision > revision[d]
             /\ \A r \in (revision[d] + 1)..e.revision :
                  \E f \in stream'[d] : f.revision = r
  <2>1. /\ e \in domainEvents /\ IdOf[e.aggregate] = IdOfTarget(d)
        /\ e.revision \in Nat /\ e.revision >= revision[d] + 1 /\ revision[d] \in Nat
    BY <1>4, <1>5 DEF EventsOf, DomainEvent
  <2>2. ASSUME NEW r \in (revision[d] + 1)..e.revision
        PROVE  \E f \in stream'[d] : f.revision = r
    <3>1. r \in 1..e.revision
      BY <2>1
    <3>2. PICK f \in EventsOf(IdOf[e.aggregate]) : f.revision = r
      BY <2>1, <3>1 DEF LogInv, GapFreeLog, NoGaps
    <3>3. QED
      BY <1>4, <2>1, <3>2
  <2>3. QED
    BY <2>1, <2>2
<1>6. StreamOK(d)'
  <2>1. UNCHANGED <<domainEvents, revision>> /\ stream'[d] \subseteq EventsOf(IdOfTarget(d))
    BY <1>4 DEF ReadEvents
  <2>2. QED
    BY <1>1, <1>5, <2>1 DEF StreamOK, EventsOf, IdOfTarget, AggregateOf
<1>7. DecidedOK(d)' /\ BatchOK(d)' /\ ConflictOK(d)'
  BY <1>1 DEF DecidedOK, BatchOK, ConflictOK
<1>8. QED
  BY <1>2, <1>6, <1>7 DEF CallInv

\* The first event left of the replay is the next one of the log.
LEMMA ReplayEventInv ==
  ASSUME IInv, NEW d \in Delivery, ReplayEvent(d)
  PROVE  CallInv(d)'
<1> USE DEF IInv, TypeOK, Goto, storeVars
<1>1. phase[d] = "replaying" /\ UNCHANGED <<domainEvents, basis>>
  BY DEF ReplayEvent
<1>2. PICK e \in stream[d] :
        /\ ReplayedFirst(e, stream[d])
        /\ \/ /\ state' = [state EXCEPT ![d] = Append(@, e)]
              /\ revision' = [revision EXCEPT ![d] = e.revision]
              /\ stream' = [stream EXCEPT ![d] = @ \ {e}]
              /\ UNCHANGED phase
           \/ Goto(d, "rejected")
  BY DEF ReplayEvent
<1>3. CASE Goto(d, "rejected")
  BY <1>3 DEF CallInv, LoadedOK, StreamOK, DecidedOK, BatchOK, ConflictOK, Loaded, Running
<1>4. CASE /\ state' = [state EXCEPT ![d] = Append(@, e)]
           /\ revision' = [revision EXCEPT ![d] = e.revision]
           /\ stream' = [stream EXCEPT ![d] = @ \ {e}]
           /\ UNCHANGED phase
  <2>1. /\ stream[d] \subseteq EventsOf(IdOfTarget(d))
        /\ e \in DomainEvent /\ e.revision \in Nat /\ revision[d] \in Nat
        /\ e.revision > revision[d]
        /\ \A r \in (revision[d] + 1)..e.revision : \E f \in stream[d] : f.revision = r
    BY <1>1 DEF CallInv, StreamOK, DomainEvent
  <2>2. e.revision = revision[d] + 1
    <3>1. revision[d] + 1 \in (revision[d] + 1)..e.revision
      BY <2>1
    <3>2. PICK f \in stream[d] : f.revision = revision[d] + 1
      BY <2>1, <3>1
    <3>3. e.revision <= f.revision
      BY <1>2 DEF ReplayedFirst
    <3>4. QED
      BY <2>1, <3>2, <3>3
  <2>3. Len(state[d]) = revision[d] /\ IsLogPrefix(state[d], IdOfTarget(d))
    BY <1>1 DEF CallInv, LoadedOK, Loaded, Running
  <2>4. /\ state'[d] = Append(state[d], e) /\ state[d] \in Seq(DomainEvent)
        /\ revision'[d] = revision[d] + 1
    BY <1>4, <2>2 DEF State
  <2>5. Len(state'[d]) = revision'[d]
    BY <2>1, <2>3, <2>4
  <2>6. ASSUME NEW i \in 1..Len(state'[d])
        PROVE  state'[d][i] \in EventsOf(IdOfTarget(d)) /\ state'[d][i].revision = i
    <3>1. CASE i = revision[d] + 1
      <4>1. state'[d][i] = e
        BY <2>1, <2>3, <2>4, <3>1
      <4>2. QED
        BY <2>1, <2>2, <3>1, <4>1
    <3>2. CASE i # revision[d] + 1
      <4>1. i \in 1..Len(state[d])
        BY <2>1, <2>3, <2>4, <2>5, <3>2
      <4>2. state'[d][i] = state[d][i]
        BY <2>1, <2>4, <4>1
      <4>3. QED
        BY <2>3, <4>1, <4>2 DEF IsLogPrefix
    <3>3. QED
      BY <3>1, <3>2
  <2>7. LoadedOK(d)'
    BY <1>1, <2>5, <2>6 DEF LoadedOK, IsLogPrefix, EventsOf, IdOfTarget, AggregateOf
  <2>8. ASSUME NEW f \in stream'[d]
        PROVE  /\ f.revision > revision'[d]
               /\ \A r \in (revision'[d] + 1)..f.revision :
                    \E g \in stream'[d] : g.revision = r
    <3>1. f \in stream[d] /\ f # e /\ f.revision \in Nat /\ stream'[d] = stream[d] \ {e}
      BY <1>4 DEF DomainEvent
    <3>2. f.revision # e.revision
      BY <2>1, <3>1 DEF LogInv, GapFreeLog, UniqueRevisions, EventsOf
    <3>3. f.revision > revision'[d]
      BY <1>2, <2>1, <2>2, <2>4, <3>1, <3>2 DEF ReplayedFirst
    <3>4. ASSUME NEW r \in (revision'[d] + 1)..f.revision
          PROVE  \E g \in stream'[d] : g.revision = r
      <4>1. r \in (revision[d] + 1)..f.revision /\ r # e.revision
        BY <2>1, <2>2, <2>4, <3>1
      <4>2. PICK g \in stream[d] : g.revision = r
        BY <1>1, <3>1, <4>1 DEF CallInv, StreamOK
      <4>3. QED
        BY <3>1, <4>1, <4>2
    <3>5. QED
      BY <3>3, <3>4
  <2>9. StreamOK(d)'
    <3>1. stream'[d] \subseteq stream[d] /\ phase'[d] = "replaying"
      BY <1>1, <1>4
    <3>2. QED
      BY <1>1, <2>1, <2>8, <3>1 DEF StreamOK, EventsOf, IdOfTarget, AggregateOf
  <2>10. DecidedOK(d)' /\ BatchOK(d)' /\ ConflictOK(d)'
    BY <1>1, <1>4 DEF DecidedOK, BatchOK, ConflictOK
  <2>11. QED
    BY <2>7, <2>9, <2>10 DEF CallInv
<1>5. QED
  BY <1>2, <1>3, <1>4

(***************************************************************************)
(* Steps of a call that leave its instance and the log as they are.        *)
(***************************************************************************)
LEMMA QuietInv ==
  ASSUME IInv, NEW d \in Delivery,
         \/ Dispatch(d) \/ EndReplay(d) \/ SaveSnapshot(d) \/ HandleCommand(d)
         \/ PublishDomainEvent(d) \/ EndPublishing(d) \/ Fail(d)
  PROVE  CallInv(d)'
<1> USE DEF IInv, TypeOK, Goto, storeVars, loadVars
<1>1. /\ UNCHANGED <<domainEvents, loadVars>>
      /\ phase'[d] \in {"loading", "rejected", "snapshotting", "loaded", "handled",
                        "publishing", "done", "failed"}
      /\ phase'[d] \in {"snapshotting", "loaded", "handled", "publishing"} => Loaded(d)
      /\ phase'[d] = "handled" => basis'[d] = state[d]
  BY DEF Dispatch, EndReplay, SaveSnapshot, HandleCommand, PublishDomainEvent,
         EndPublishing, Fail, Loaded, Running
<1>2. LoadedOK(d)'
  BY <1>1 DEF CallInv, LoadedOK, Loaded, Running, IsLogPrefix, EventsOf, IdOfTarget, AggregateOf
<1>3. DecidedOK(d)'
  BY <1>1 DEF DecidedOK
<1>4. StreamOK(d)' /\ BatchOK(d)' /\ ConflictOK(d)'
  BY <1>1 DEF StreamOK, BatchOK, ConflictOK
<1>5. QED
  BY <1>2, <1>3, <1>4 DEF CallInv

LEMMA ApplyCommandEventsInv ==
  ASSUME IInv, NEW d \in Delivery, ApplyCommandEvents(d)
  PROVE  CallInv(d)'
<1> USE DEF IInv, TypeOK, Goto, storeVars, loadVars
<1>1. /\ UNCHANGED <<domainEvents, loadVars, events, basis>>
      /\ phase[d] = "handled" /\ phase'[d] \in {"done", "storing"}
  BY DEF ApplyCommandEvents
<1>2. phase'[d] = "storing" =>
        /\ unstored'[d] = {NewDomainEvent(d, i) : i \in DOMAIN events[d]}
        /\ events[d] # << >>
        /\ ~ HasDomainEventsWithCausationId(CommandOf[d])
  BY DEF ApplyCommandEvents
<1>3. LoadedOK(d)'
  BY <1>1 DEF CallInv, LoadedOK, Loaded, Running, IsLogPrefix, EventsOf, IdOfTarget, AggregateOf
<1>4. DecidedOK(d)'
  BY <1>1 DEF CallInv, DecidedOK
<1>5. BatchOK(d)'
  BY <1>1, <1>2 DEF BatchOK, NewDomainEvent, AggregateOf, HasDomainEventsWithCausationId
<1>6. StreamOK(d)' /\ ConflictOK(d)'
  BY <1>1 DEF StreamOK, ConflictOK
<1>7. QED
  BY <1>3, <1>4, <1>5, <1>6 DEF CallInv

(***************************************************************************)
(* Storing.                                                                *)
(***************************************************************************)

\* The events of a delivery about to store, and where the log ends for them.
LEMMA AboutToStore ==
  ASSUME IInv, NEW d \in Delivery, phase[d] = "storing"
  PROVE  /\ unstored[d] = {NewDomainEvent(d, i) : i \in 1..Len(events[d])}
         /\ Len(events[d]) \in Nat \ {0}
         /\ DOMAIN events[d] = 1..Len(events[d])
         /\ revision[d] \in Nat
         /\ basis[d] = state[d]
         /\ Len(state[d]) = revision[d] /\ IsLogPrefix(state[d], IdOfTarget(d))
         /\ NewDomainEvent(d, 1) \in unstored[d]
         /\ NewDomainEvent(d, 1).revision = revision[d] + 1
<1>1. events[d] \in Seq(EventName) /\ revision[d] \in Nat
  BY DEF IInv, TypeOK
<1>2. /\ unstored[d] = {NewDomainEvent(d, i) : i \in DOMAIN events[d]}
      /\ events[d] # << >>
      /\ basis[d] = state[d]
      /\ Len(state[d]) = revision[d] /\ IsLogPrefix(state[d], IdOfTarget(d))
  BY DEF IInv, CallInv, BatchOK, DecidedOK, LoadedOK, Loaded, Running
<1>3. DOMAIN events[d] = 1..Len(events[d]) /\ Len(events[d]) \in Nat \ {0}
  BY <1>1, <1>2
<1>4. 1 \in DOMAIN events[d]
  BY <1>3
<1>5. NewDomainEvent(d, 1).revision = revision[d] + 1
  BY DEF NewDomainEvent
<1>6. QED
  BY <1>1, <1>2, <1>3, <1>4, <1>5

LEMMA StoreConflictInv ==
  ASSUME IInv, NEW d \in Delivery, StoreConflict(d)
  PROVE  CallInv(d)'
<1> USE DEF IInv, TypeOK, Goto, storeVars, loadVars
<1>1. /\ phase[d] = "storing" /\ phase'[d] = "conflicted"
      /\ UNCHANGED <<domainEvents, basis>>
  BY DEF StoreConflict
<1>2. PICK e \in unstored[d], f \in domainEvents :
        IdOf[e.aggregate] = IdOf[f.aggregate] /\ e.revision = f.revision
  BY DEF StoreConflict, RevisionAlreadyExists
<1>3. PICK i \in 1..Len(events[d]) : e = NewDomainEvent(d, i)
  BY <1>1, <1>2, AboutToStore
<1>4. f.revision \in Nat /\ revision[d] + 1 \in 1..f.revision
  BY <1>1, <1>2, <1>3, AboutToStore DEF NewDomainEvent
<1>5. IdOf[f.aggregate] = IdOfTarget(d)
  BY <1>2, <1>3 DEF NewDomainEvent, IdOfTarget
<1>6. PICK g \in EventsOf(IdOfTarget(d)) : g.revision = revision[d] + 1
  BY <1>4, <1>5 DEF LogInv, GapFreeLog, NoGaps
<1>7. g.delivery # d
  BY <1>1 DEF EventsOf, LogInv, Provenance
<1>8. ConflictOK(d)'
  BY <1>1, <1>6, <1>7, AboutToStore DEF ConflictOK, EventsOf, IdOfTarget, AggregateOf
<1>9. LoadedOK(d)' /\ StreamOK(d)' /\ DecidedOK(d)' /\ BatchOK(d)'
  BY <1>1 DEF LoadedOK, StreamOK, DecidedOK, BatchOK, Loaded, Running
<1>10. QED
  BY <1>8, <1>9 DEF CallInv

\* Where nothing conflicts, the log ends at the revision of the instance:
\* there are no holes it could fill.
LEMMA StoreAtTheEnd ==
  ASSUME IInv, NEW d \in Delivery, StoreEvents(d),
         NEW f \in EventsOf(IdOfTarget(d))
  PROVE  f.revision <= revision[d]
<1>1. f \in domainEvents /\ IdOf[f.aggregate] = IdOfTarget(d) /\ f.revision \in Nat
  BY DEF EventsOf, IInv, TypeOK, DomainEvent
<1>2. phase[d] = "storing" /\ ~ RevisionAlreadyExists(unstored[d])
  BY DEF StoreEvents, StoreDomainEvents
<1>3. SUFFICES ASSUME f.revision > revision[d] PROVE FALSE
  BY <1>1, <1>2, AboutToStore
<1>4. revision[d] + 1 \in 1..f.revision
  BY <1>1, <1>2, <1>3, AboutToStore
<1>5. PICK g \in EventsOf(IdOfTarget(d)) : g.revision = revision[d] + 1
  BY <1>1, <1>4 DEF IInv, LogInv, GapFreeLog, NoGaps
<1>6. g \in domainEvents /\ IdOf[g.aggregate] = IdOf[NewDomainEvent(d, 1).aggregate]
  BY DEF EventsOf, NewDomainEvent, IdOfTarget
<1>7. QED
  BY <1>2, <1>5, <1>6, AboutToStore DEF RevisionAlreadyExists

\* What the insert adds, all in one place.
LEMMA Stored ==
  ASSUME IInv, NEW d \in Delivery, StoreEvents(d)
  PROVE  /\ domainEvents' = domainEvents \cup unstored[d]
         /\ \A e \in unstored[d] :
              \E i \in 1..Len(events[d]) :
                /\ e = NewDomainEvent(d, i)
                /\ e.aggregate = AggregateOf(d) /\ e.causationId = CommandOf[d]
                /\ e.delivery = d /\ e.index = i /\ e.revision = revision[d] + i
         /\ \A e \in domainEvents : e.delivery # d /\ e.causationId # CommandOf[d]
<1>1. phase[d] = "storing"
  BY DEF StoreEvents
<1>2. ASSUME NEW e \in unstored[d]
      PROVE  \E i \in 1..Len(events[d]) :
               /\ e = NewDomainEvent(d, i)
               /\ e.aggregate = AggregateOf(d) /\ e.causationId = CommandOf[d]
               /\ e.delivery = d /\ e.index = i /\ e.revision = revision[d] + i
  <2>1. PICK i \in 1..Len(events[d]) : e = NewDomainEvent(d, i)
    BY <1>1, AboutToStore
  <2>2. QED
    BY <2>1 DEF NewDomainEvent
<1>3. ASSUME NEW e \in domainEvents
      PROVE  e.delivery # d /\ e.causationId # CommandOf[d]
  <2>1. e.delivery # d
    BY <1>1 DEF IInv, LogInv, Provenance
  <2>2. SUFFICES ASSUME e.causationId = CommandOf[d] PROVE FALSE
    BY <2>1
  <2>3. e.revision > revision[d] /\ e.revision \in Nat /\ revision[d] \in Nat
    BY <1>1, <2>2 DEF IInv, CallInv, BatchOK, TypeOK, DomainEvent
  <2>4. e \in EventsOf(IdOfTarget(d))
    BY <2>2 DEF IInv, LogInv, Provenance, EventsOf, IdOfTarget, AggregateOf
  <2>5. QED
    BY <2>3, <2>4, StoreAtTheEnd
<1>4. QED
  BY <1>2, <1>3 DEF StoreEvents, StoreDomainEvents

\* What is added comes after everything its aggregate had.
LEMMA StoredAfter ==
  ASSUME IInv, NEW d \in Delivery, StoreEvents(d),
         NEW e \in unstored[d], NEW f \in domainEvents,
         IdOf[e.aggregate] = IdOf[f.aggregate]
  PROVE  f.revision < e.revision
<1>1. PICK i \in 1..Len(events[d]) :
        e.aggregate = AggregateOf(d) /\ e.revision = revision[d] + i
  BY Stored
<1>2. f \in EventsOf(IdOfTarget(d)) /\ f.revision \in Nat
  BY <1>1 DEF EventsOf, IdOfTarget, IInv, TypeOK, DomainEvent
<1>3. f.revision <= revision[d]
  BY <1>2, StoreAtTheEnd
<1>4. phase[d] = "storing"
  BY DEF StoreEvents
<1>5. QED
  BY <1>1, <1>2, <1>3, <1>4, AboutToStore

LEMMA StoreEventsLog ==
  ASSUME IInv, TypeOK', NEW d \in Delivery, StoreEvents(d)
  PROVE  LogInv'
<1> USE DEF IInv
<1>1. phase[d] = "storing" /\ UNCHANGED <<snapshots, basis>>
  BY DEF StoreEvents
<1>2. /\ Len(events[d]) \in Nat \ {0} /\ revision[d] \in Nat
      /\ unstored[d] = {NewDomainEvent(d, i) : i \in 1..Len(events[d])}
      /\ basis[d] = state[d]
      /\ Len(state[d]) = revision[d] /\ IsLogPrefix(state[d], IdOfTarget(d))
  BY <1>1, AboutToStore
<1>3. UniqueRevisions'
  <2>1. SUFFICES ASSUME NEW e \in domainEvents', NEW f \in domainEvents',
                        IdOf[e.aggregate] = IdOf[f.aggregate], e.revision = f.revision
                 PROVE  e = f
    BY DEF UniqueRevisions
  <2>2. e.revision \in Nat /\ f.revision \in Nat
    BY DEF TypeOK, DomainEvent
  <2>3. CASE e \in domainEvents /\ f \in domainEvents
    BY <2>1, <2>3 DEF LogInv, GapFreeLog, UniqueRevisions
  <2>4. CASE e \in unstored[d] /\ f \in unstored[d]
    <3>1. PICK i \in 1..Len(events[d]) : e = NewDomainEvent(d, i) /\ e.revision = revision[d] + i
      BY <2>4, Stored
    <3>2. PICK j \in 1..Len(events[d]) : f = NewDomainEvent(d, j) /\ f.revision = revision[d] + j
      BY <2>4, Stored
    <3>3. i = j
      BY <1>2, <2>1, <3>1, <3>2
    <3>4. QED
      BY <3>1, <3>2, <3>3
  <2>5. CASE e \in unstored[d] /\ f \in domainEvents
    BY <2>1, <2>2, <2>5, StoredAfter
  <2>6. CASE f \in unstored[d] /\ e \in domainEvents
    BY <2>1, <2>2, <2>6, StoredAfter
  <2>7. QED
    BY <2>3, <2>4, <2>5, <2>6, Stored
<1>4. NoGaps'
  <2>1. SUFFICES ASSUME NEW e \in domainEvents', NEW r \in 1..e.revision
                 PROVE  \E f \in domainEvents' :
                          IdOf[f.aggregate] = IdOf[e.aggregate] /\ f.revision = r
    BY DEF NoGaps, EventsOf
  <2>2. CASE e \in domainEvents
    <3>1. PICK f \in EventsOf(IdOf[e.aggregate]) : f.revision = r
      BY <2>2 DEF LogInv, GapFreeLog, NoGaps
    <3>2. QED
      BY <3>1, Stored DEF EventsOf
  <2>3. CASE e \in unstored[d]
    <3>1. PICK i \in 1..Len(events[d]) :
            e.aggregate = AggregateOf(d) /\ e.revision = revision[d] + i
      BY <2>3, Stored
    <3>2. CASE r <= revision[d]
      <4>1. r \in 1..Len(state[d])
        BY <1>2, <3>1, <3>2
      <4>2. state[d][r] \in EventsOf(IdOfTarget(d)) /\ state[d][r].revision = r
        BY <1>2, <4>1 DEF IsLogPrefix
      <4>3. QED
        BY <3>1, <4>2, Stored DEF EventsOf, IdOfTarget
    <3>3. CASE r > revision[d]
      <4>1. r - revision[d] \in 1..Len(events[d])
        BY <1>2, <3>1, <3>3
      <4>2. NewDomainEvent(d, r - revision[d]) \in unstored[d]
        BY <1>2, <4>1
      <4>3. /\ NewDomainEvent(d, r - revision[d]).revision = r
            /\ NewDomainEvent(d, r - revision[d]).aggregate = AggregateOf(d)
        BY <1>2, <4>1 DEF NewDomainEvent
      <4>4. QED
        BY <3>1, <4>2, <4>3, Stored
    <3>4. QED
      BY <1>2, <3>1, <3>2, <3>3
  <2>4. QED
    BY <2>2, <2>3, Stored
<1>5. AtMostOnce'
  BY Stored DEF LogInv, AtMostOnce
<1>6. Provenance'
  <2>1. phase' = [phase EXCEPT ![d] = "publishing"] /\ phase \in [Delivery -> Phase]
    BY DEF StoreEvents, Goto, TypeOK
  <2>2. QED
    BY <2>1, Stored DEF LogInv, Provenance, AggregateOf
<1>7. DecidedOnLog'
  <2>1. SUFFICES ASSUME NEW e \in domainEvents'
                 PROVE  /\ \A i \in 1..Len(basis[e.delivery]) :
                             /\ basis[e.delivery][i] \in domainEvents'
                             /\ IdOf[basis[e.delivery][i].aggregate] = IdOf[e.aggregate]
                             /\ basis[e.delivery][i].revision = i
                        /\ e.revision = Len(basis[e.delivery]) + e.index
    BY <1>1 DEF DecidedOnLog, IsLogPrefix, EventsOf
  <2>2. CASE e \in domainEvents
    BY <2>2, Stored DEF LogInv, DecidedOnLog, IsLogPrefix, EventsOf
  <2>3. CASE e \in unstored[d]
    <3>1. PICK i \in 1..Len(events[d]) :
            /\ e.aggregate = AggregateOf(d) /\ e.delivery = d
            /\ e.index = i /\ e.revision = revision[d] + i
      BY <2>3, Stored
    <3>2. \A j \in 1..Len(state[d]) :
            /\ state[d][j] \in domainEvents
            /\ IdOf[state[d][j].aggregate] = IdOfTarget(d)
            /\ state[d][j].revision = j
      BY <1>2 DEF IsLogPrefix, EventsOf
    <3>3. IdOf[e.aggregate] = IdOfTarget(d) /\ basis[e.delivery] = state[d]
      BY <1>2, <3>1 DEF IdOfTarget
    <3>4. domainEvents \subseteq domainEvents'
      BY Stored
    <3>5. e.revision = Len(basis[e.delivery]) + e.index
      BY <1>2, <3>1
    <3>6. QED
      BY <3>2, <3>3, <3>4, <3>5
  <2>4. QED
    BY <2>2, <2>3, Stored
<1>8. SnapshotIsLogPrefix'
  BY <1>1, Stored DEF LogInv, SnapshotIsLogPrefix, IsLogPrefix, EventsOf
<1>9. QED
  BY <1>3, <1>4, <1>5, <1>6, <1>7, <1>8 DEF LogInv, GapFreeLog

LEMMA StoreEventsOwn ==
  ASSUME IInv, TypeOK', NEW d \in Delivery, StoreEvents(d)
  PROVE  CallInv(d)'
<1> DEFINE batch == [i \in DOMAIN events[d] |-> NewDomainEvent(d, i)]
<1>1. phase[d] = "storing" /\ phase'[d] = "publishing"
  BY DEF StoreEvents, Goto, IInv, TypeOK
<1>2. /\ Len(events[d]) \in Nat \ {0} /\ revision[d] \in Nat
      /\ DOMAIN events[d] = 1..Len(events[d])
      /\ unstored[d] = {NewDomainEvent(d, i) : i \in 1..Len(events[d])}
      /\ Len(state[d]) = revision[d] /\ IsLogPrefix(state[d], IdOfTarget(d))
  BY <1>1, AboutToStore
<1>3. state[d] \in Seq(DomainEvent) /\ batch \in Seq(DomainEvent)
      /\ Len(batch) = Len(events[d])
  BY BatchType DEF IInv, TypeOK, State
<1>4. /\ state'[d] = state[d] \o batch
      /\ revision'[d] = revision[d] + Len(events[d])
  BY DEF StoreEvents, IInv, TypeOK
<1>5. Len(state'[d]) = revision'[d]
  BY <1>2, <1>3, <1>4
<1>6. ASSUME NEW i \in 1..Len(state'[d])
      PROVE  /\ state'[d][i] \in domainEvents'
             /\ IdOf[state'[d][i].aggregate] = IdOfTarget(d)
             /\ state'[d][i].revision = i
  <2>1. CASE i <= revision[d]
    <3>1. i \in 1..Len(state[d]) /\ state'[d][i] = state[d][i]
      BY <1>2, <1>3, <1>4, <2>1
    <3>2. QED
      BY <1>2, <3>1, Stored DEF IsLogPrefix, EventsOf
  <2>2. CASE i > revision[d]
    <3>1. i - revision[d] \in 1..Len(events[d])
      BY <1>2, <1>4, <1>5, <2>2
    <3>2. state'[d][i] = batch[i - Len(state[d])]
      BY <1>2, <1>3, <1>4, <3>1, <2>2
    <3>3. state'[d][i] = NewDomainEvent(d, i - revision[d])
      BY <1>2, <3>1, <3>2
    <3>4. NewDomainEvent(d, i - revision[d]) \in unstored[d]
      BY <1>2, <3>1
    <3>5. /\ NewDomainEvent(d, i - revision[d]).aggregate = AggregateOf(d)
          /\ NewDomainEvent(d, i - revision[d]).revision = i
      BY <1>2, <1>5, <1>4, <3>1 DEF NewDomainEvent
    <3>6. QED
      BY <3>3, <3>4, <3>5, Stored DEF IdOfTarget
  <2>3. QED
    BY <1>2, <1>5, <1>4, <2>1, <2>2
<1>7. LoadedOK(d)'
  BY <1>5, <1>6 DEF LoadedOK, IsLogPrefix, EventsOf, IdOfTarget, AggregateOf
<1>8. StreamOK(d)' /\ DecidedOK(d)' /\ BatchOK(d)' /\ ConflictOK(d)'
  BY <1>1 DEF StreamOK, DecidedOK, BatchOK, ConflictOK
<1>9. QED
  BY <1>7, <1>8 DEF CallInv

\* Another delivery c, while d stores.
LEMMA StoreEventsOther ==
  ASSUME IInv, NEW d \in Delivery, StoreEvents(d), NEW c \in Delivery \ {d}
  PROVE  CallInv(c)'
<1>1. /\ phase'[c] = phase[c] /\ revision'[c] = revision[c] /\ state'[c] = state[c]
      /\ fromRevision'[c] = fromRevision[c] /\ stream'[c] = stream[c]
      /\ events'[c] = events[c] /\ unstored'[c] = unstored[c] /\ basis'[c] = basis[c]
  BY DEF StoreEvents, Goto, IInv, TypeOK
<1>2. domainEvents \subseteq domainEvents'
  BY Stored
<1>3. LoadedOK(c)'
  BY <1>1, <1>2 DEF IInv, CallInv, LoadedOK, Loaded, IsLogPrefix, EventsOf, IdOfTarget, AggregateOf
<1>4. StreamOK(c)'
  BY <1>1, <1>2 DEF IInv, CallInv, StreamOK, EventsOf, IdOfTarget, AggregateOf
<1>5. DecidedOK(c)'
  BY <1>1 DEF IInv, CallInv, DecidedOK
<1>6. BatchOK(c)'
  <2>1. SUFFICES ASSUME phase[c] = "storing", NEW e \in unstored[d],
                        e.causationId = CommandOf[c]
                 PROVE  e.revision > revision[c]
    <3>1. domainEvents' = domainEvents \cup unstored[d]
      BY Stored
    <3>2. BatchOK(c)
      BY DEF IInv, CallInv
    <3>3. QED
      BY <1>1, <3>1, <3>2 DEF BatchOK, NewDomainEvent, AggregateOf
  <2>2. PICK i \in 1..Len(events[d]) :
          /\ e.aggregate = AggregateOf(d) /\ e.causationId = CommandOf[d]
          /\ e.revision = revision[d] + i
    BY Stored
  <2>3. IdOf[e.aggregate] = IdOfTarget(c)
    BY <2>1, <2>2 DEF IdOfTarget, AggregateOf
  <2>4. revision[c] \in Nat /\ Len(state[c]) = revision[c] /\ IsLogPrefix(state[c], IdOfTarget(c))
    BY <2>1, AboutToStore
  <2>5. phase[d] = "storing"
    BY DEF StoreEvents
  <2>6. revision[d] \in Nat /\ e.revision \in Nat \ {0}
    BY <2>2, <2>5, AboutToStore
  <2>7. CASE revision[c] = 0
    BY <2>6, <2>7
  <2>8. CASE revision[c] # 0
    <3>1. revision[c] \in 1..Len(state[c])
      BY <2>4, <2>8
    <3>2. PICK f \in EventsOf(IdOfTarget(c)) : f.revision = revision[c]
      BY <2>4, <3>1 DEF IsLogPrefix
    <3>3. f \in domainEvents /\ IdOf[e.aggregate] = IdOf[f.aggregate]
      BY <2>3 DEF EventsOf
    <3>4. f.revision < e.revision
      BY <3>3, StoredAfter
    <3>5. QED
      BY <2>4, <2>6, <3>2, <3>4
  <2>9. QED
    BY <2>7, <2>8
<1>7. ConflictOK(c)'
  <2>1. ConflictOK(c)
    BY DEF IInv, CallInv
  <2>2. QED
    BY <1>1, <1>2, <2>1 DEF ConflictOK, EventsOf, IdOfTarget, AggregateOf
<1>8. QED
  BY <1>3, <1>4, <1>5, <1>6, <1>7 DEF CallInv
(***************************************************************************)
(* The two other steps that change what is said of the log.                *)
(***************************************************************************)

\* The snapshot stored is the state of the instance.
LEMMA SaveSnapshotLog ==
  ASSUME IInv, NEW d \in Delivery, SaveSnapshot(d)
  PROVE  LogInv'
<1>1. /\ phase[d] = "snapshotting" /\ phase'[d] = "loaded"
      /\ \A c \in Delivery \ {d} : phase'[c] = phase[c]
      /\ UNCHANGED <<domainEvents, basis>>
  BY DEF SaveSnapshot, Goto, IInv, TypeOK
<1>2. GapFreeLog' /\ AtMostOnce' /\ DecidedOnLog'
  BY <1>1 DEF IInv, LogInv, GapFreeLog, UniqueRevisions, NoGaps, EventsOf, AtMostOnce,
              DecidedOnLog, IsLogPrefix
<1>3. Provenance'
  BY <1>1 DEF IInv, LogInv, TypeOK, DomainEvent, Provenance, AggregateOf
<1>4. SnapshotIsLogPrefix'
  <2>1. Len(state[d]) = revision[d] /\ IsLogPrefix(state[d], IdOfTarget(d))
    BY <1>1 DEF IInv, CallInv, LoadedOK, Loaded, Running
  <2>2. ASSUME NEW s \in snapshots'
        PROVE  Len(s.state) = s.revision /\ IsLogPrefix(s.state, s.aggregateId)
    <3>1. CASE s \in snapshots
      BY <3>1 DEF IInv, LogInv, SnapshotIsLogPrefix
    <3>2. CASE s = [aggregateId |-> IdOfTarget(d), revision |-> revision[d],
                    state |-> state[d]]
      BY <2>1, <3>2
    <3>3. QED
      BY <3>1, <3>2 DEF SaveSnapshot, StoreSnapshot
  <2>3. QED
    BY <1>1, <2>2 DEF SnapshotIsLogPrefix, IsLogPrefix, EventsOf
<1>5. QED
  BY <1>2, <1>3, <1>4 DEF LogInv

\* A delivery that decides has stored nothing yet.
LEMMA HandleCommandLog ==
  ASSUME IInv, NEW d \in Delivery, HandleCommand(d)
  PROVE  LogInv'
<1>1. /\ phase[d] = "loaded"
      /\ \A c \in Delivery \ {d} : phase'[c] = phase[c] /\ basis'[c] = basis[c]
      /\ UNCHANGED <<domainEvents, snapshots>>
  BY DEF HandleCommand, Goto, storeVars, IInv, TypeOK
<1>2. GapFreeLog' /\ AtMostOnce' /\ SnapshotIsLogPrefix'
  BY <1>1 DEF IInv, LogInv, GapFreeLog, UniqueRevisions, NoGaps, EventsOf, AtMostOnce,
              SnapshotIsLogPrefix, IsLogPrefix
<1>3. \A e \in domainEvents : e.delivery \in Delivery \ {d}
  BY <1>1 DEF IInv, LogInv, Provenance, TypeOK, DomainEvent
<1>4. DecidedOnLog'
  BY <1>1, <1>3 DEF IInv, LogInv, DecidedOnLog, IsLogPrefix, EventsOf
<1>5. Provenance'
  BY <1>1, <1>3 DEF IInv, LogInv, Provenance, AggregateOf
<1>6. QED
  BY <1>2, <1>4, <1>5 DEF LogInv

(***************************************************************************)
(* Every step keeps the invariant.                                         *)
(***************************************************************************)

\* A step of d other than StoreEvents leaves the log and the other calls alone.
LEMMA StepsApart ==
  ASSUME IInv, NEW d \in Delivery, Dispatch(d) \/ Progress(d) \/ Fail(d),
         ~ StoreEvents(d)
  PROVE  /\ UNCHANGED domainEvents
         /\ \A c \in Delivery \ {d} :
              /\ phase'[c] = phase[c] /\ revision'[c] = revision[c] /\ state'[c] = state[c]
              /\ fromRevision'[c] = fromRevision[c] /\ stream'[c] = stream[c]
              /\ events'[c] = events[c] /\ unstored'[c] = unstored[c] /\ basis'[c] = basis[c]
<1> USE DEF IInv, TypeOK, Goto, storeVars, loadVars
<1>1. CASE Dispatch(d)
  BY <1>1 DEF Dispatch
<1>2. CASE LoadSnapshot(d)
  BY <1>2 DEF LoadSnapshot
<1>3. CASE ReadEvents(d)
  BY <1>3 DEF ReadEvents
<1>4. CASE ReplayEvent(d)
  BY <1>4 DEF ReplayEvent
<1>5. CASE EndReplay(d)
  BY <1>5 DEF EndReplay
<1>6. CASE SaveSnapshot(d)
  BY <1>6 DEF SaveSnapshot
<1>7. CASE HandleCommand(d)
  BY <1>7 DEF HandleCommand
<1>8. CASE ApplyCommandEvents(d)
  BY <1>8 DEF ApplyCommandEvents
<1>9. CASE StoreConflict(d)
  BY <1>9 DEF StoreConflict
<1>10. CASE PublishDomainEvent(d)
  BY <1>10 DEF PublishDomainEvent
<1>11. CASE EndPublishing(d)
  BY <1>11 DEF EndPublishing
<1>12. CASE Fail(d)
  BY <1>12 DEF Fail
<1>13. QED
  BY <1>1, <1>2, <1>3, <1>4, <1>5, <1>6, <1>7, <1>8, <1>9, <1>10, <1>11, <1>12 DEF Progress

LEMMA OwnCall ==
  ASSUME IInv, TypeOK', NEW d \in Delivery, Dispatch(d) \/ Progress(d) \/ Fail(d)
  PROVE  CallInv(d)'
BY LoadSnapshotInv, ReadEventsInv, ReplayEventInv, QuietInv, ApplyCommandEventsInv,
   StoreConflictInv, StoreEventsOwn DEF Progress

LEMMA LogNext ==
  ASSUME IInv, TypeOK', NEW d \in Delivery, Dispatch(d) \/ Progress(d) \/ Fail(d)
  PROVE  LogInv'
<1>1. CASE StoreEvents(d)
  BY <1>1, StoreEventsLog
<1>2. CASE SaveSnapshot(d)
  BY <1>2, SaveSnapshotLog
<1>3. CASE HandleCommand(d)
  BY <1>3, HandleCommandLog
<1>4. CASE ~ StoreEvents(d) /\ ~ SaveSnapshot(d) /\ ~ HandleCommand(d)
  <2>1. UNCHANGED domainEvents /\ \A c \in Delivery \ {d} : phase'[c] = phase[c]
    BY <1>4, StepsApart
  <2>2. UNCHANGED <<snapshots, basis>>
    BY <1>4 DEF Progress, Dispatch, LoadSnapshot, ReadEvents, ReplayEvent, EndReplay,
                ApplyCommandEvents, StoreConflict, PublishDomainEvent, EndPublishing,
                Fail, storeVars, loadVars
  <2>3. phase[d] \in {"publishing", "done", "failed"} =>
          phase'[d] \in {"publishing", "done", "failed"}
    BY <1>4 DEF Progress, Dispatch, LoadSnapshot, ReadEvents, ReplayEvent, EndReplay,
                ApplyCommandEvents, StoreConflict, PublishDomainEvent, EndPublishing,
                Fail, Goto, Running, IInv, TypeOK
  <2>4. QED
    BY <2>1, <2>2, <2>3, LogKept
<1>5. QED
  BY <1>1, <1>2, <1>3, <1>4

LEMMA InvNext ==
  ASSUME IInv, [Next]_vars
  PROVE  IInv'
<1>1. TypeOK'
  BY TypeNext DEF IInv
<1>2. CASE UNCHANGED vars
  <2>1. UNCHANGED <<domainEvents, snapshots, phase, revision, state, fromRevision, stream,
                    events, unstored, basis>>
    BY <1>2 DEF vars, storeVars, busVars
  <2>2. LogInv'
    BY <2>1 DEF IInv, LogInv, GapFreeLog, UniqueRevisions, NoGaps, AtMostOnce, DecidedOnLog,
                Provenance, SnapshotIsLogPrefix, IsLogPrefix, EventsOf, AggregateOf
  <2>3. \A d \in Delivery : CallInv(d)'
    BY <2>1, OtherCall
  <2>4. QED
    BY <1>1, <2>2, <2>3 DEF IInv
<1>3. ASSUME NEW d \in Delivery, Dispatch(d) \/ Progress(d) \/ Fail(d)
      PROVE  IInv'
  <2>1. LogInv'
    BY <1>1, <1>3, LogNext
  <2>2. CallInv(d)'
    BY <1>1, <1>3, OwnCall
  <2>3. ASSUME NEW c \in Delivery \ {d} PROVE CallInv(c)'
    <3>1. CASE StoreEvents(d)
      BY <3>1, StoreEventsOther
    <3>2. CASE ~ StoreEvents(d)
      BY <1>3, <3>2, StepsApart, OtherCall
    <3>3. QED
      BY <3>1, <3>2
  <2>4. QED
    BY <1>1, <2>1, <2>2, <2>3 DEF IInv
<1>4. QED
  BY <1>2, <1>3 DEF Next

\* The inductive invariant holds of every behaviour.
THEOREM InvCorrect == Spec => []IInv
BY InvInit, InvNext, PTL DEF Spec

-----------------------------------------------------------------------------
(* What follows from it *)

(***************************************************************************)
(* The revisions of each aggregate's events are 1 to n, whatever number of *)
(* applyCommandEvents race on it.                                          *)
(***************************************************************************)
THEOREM LogIsGapFree == Spec => []GapFreeLog
BY InvCorrect, PTL DEF IInv, LogInv

(***************************************************************************)
(* A command delivered any number of times is applied by one delivery at   *)
(* most: the check on the causationId and the primary key add up.          *)
(***************************************************************************)
THEOREM CommandAppliedAtMostOnce == Spec => []AtMostOnce
BY InvCorrect, PTL DEF IInv, LogInv

\* What is stored was decided on the very log it is appended to.
THEOREM DecisionsAreNotStale == Spec => []DecidedOnLog
BY InvCorrect, PTL DEF IInv, LogInv

\* AggregateInstance.create gives the state of the log at the revision it names.
THEOREM LoadedStateCorrect == Spec => []LoadedStateIsLogPrefix
<1>1. IInv => LoadedStateIsLogPrefix
  BY DEF IInv, CallInv, LoadedOK, LoadedStateIsLogPrefix
<1>2. QED
  BY <1>1, InvCorrect, PTL

\* So does every snapshot it stores.
THEOREM SnapshotCorrect == Spec => []SnapshotIsLogPrefix
BY InvCorrect, PTL DEF IInv, LogInv

\* RevisionAlreadyExists always has a winner to point at: an event of another
\* delivery, under the same id, right after those the loser's decision knew of.
THEOREM ConflictHasWinner == Spec => []ConflictIsLostRace
<1>1. IInv => ConflictIsLostRace
  BY DEF IInv, CallInv, ConflictOK, ConflictIsLostRace
<1>2. QED
  BY <1>1, InvCorrect, PTL

\* Events are only ever added, after those their aggregate has.
THEOREM LogIsAppendOnly == Spec => AppendOnly
<1>1. ASSUME IInv, Next PROVE AppendStep
  <2>1. PICK d \in Delivery : Dispatch(d) \/ Progress(d) \/ Fail(d)
    BY <1>1 DEF Next
  <2>2. CASE StoreEvents(d)
    BY <1>1, <2>2, Stored, StoredAfter DEF AppendStep
  <2>3. CASE ~ StoreEvents(d)
    <3>1. UNCHANGED domainEvents
      BY <1>1, <2>1, <2>3, StepsApart
    <3>2. QED
      BY <3>1 DEF AppendStep
  <2>4. QED
    BY <2>2, <2>3
<1>2. IInv /\ [Next]_vars => [AppendStep]_vars
  BY <1>1
<1>3. QED
  BY <1>2, InvCorrect, PTL DEF Spec, AppendOnly

\* A state is built from events of its own aggregate, where no other has its id.
THEOREM StateIsOwnCorrect == Spec => []StateIsOwnUnlessShared
<1>1. ASSUME IInv, NEW d \in Delivery, ~ SharesId(d) PROVE BuiltFromOwn(d)
  <2> SUFFICES ASSUME phase[d] \in {"loaded", "handled", "storing"}, NEW i \in 1..Len(state[d])
               PROVE  state[d][i].aggregate = AggregateOf(d)
    BY DEF BuiltFromOwn
  <2>1. state[d][i] \in EventsOf(IdOfTarget(d))
    BY <1>1 DEF IInv, CallInv, LoadedOK, Loaded, Running, IsLogPrefix
  <2>2. state[d][i].aggregate \in Aggregate /\ IdOf[state[d][i].aggregate] = IdOfTarget(d)
    BY <1>1, <2>1 DEF EventsOf, IInv, TypeOK, DomainEvent
  <2> QED
    BY <1>1, <2>2 DEF SharesId
<1>2. IInv => StateIsOwnUnlessShared
  BY <1>1 DEF StateIsOwnUnlessShared
<1> QED
  BY <1>2, InvCorrect, PTL

-----------------------------------------------------------------------------
(* What event handlers are handed *)

\* The calls a delivery has still to make are of events it stored, and come
\* after those it made.
OutboxOK(d) ==
  /\ outbox[d] # {} => phase[d] \in {"publishing", "failed"}
  /\ \A call \in outbox[d] :
       call[2] \in domainEvents /\ call[2].delivery = d /\ call \notin delivered
  /\ \A call \in delivered, other \in outbox[d] :
       call[2].delivery = d => call[2].index <= other[2].index

\* A handler has been called with an event, or is going to be, and with no others.
HandedOver ==
  /\ \A call \in delivered : call[2] \in domainEvents
  /\ \A e \in domainEvents, h \in 1..Handlers :
       Subscription[h] = e.name => <<h, e>> \in delivered \cup outbox[e.delivery]

PubInv == HandedOver /\ \A d \in Delivery : OutboxOK(d)

LEMMA PubInit == Init => PubInv
BY DEF Init, PubInv, HandedOver, OutboxOK

\* A step that neither stores nor publishes.
LEMMA QuietPub ==
  ASSUME IInv, PubInv, NEW d \in Delivery,
         UNCHANGED <<domainEvents, delivered, outbox>>,
         \A c \in Delivery \ {d} : phase'[c] = phase[c],
         outbox[d] # {} => phase'[d] \in {"publishing", "failed"}
  PROVE  PubInv'
BY DEF PubInv, HandedOver, OutboxOK

LEMMA OtherStepsPub ==
  ASSUME IInv, PubInv, NEW d \in Delivery, Dispatch(d) \/ Progress(d) \/ Fail(d),
         ~ StoreEvents(d), ~ PublishDomainEvent(d)
  PROVE  PubInv'
<1>1. UNCHANGED domainEvents /\ \A c \in Delivery \ {d} : phase'[c] = phase[c]
  BY StepsApart
<1>2. UNCHANGED <<delivered, outbox>>
  BY DEF Progress, Dispatch, LoadSnapshot, ReadEvents, ReplayEvent, EndReplay, SaveSnapshot,
         HandleCommand, ApplyCommandEvents, StoreConflict, EndPublishing, Fail
<1>3. outbox[d] # {} => phase'[d] \in {"publishing", "failed"}
  <2> SUFFICES ASSUME outbox[d] # {} PROVE phase'[d] \in {"publishing", "failed"}
    OBVIOUS
  <2>1. phase[d] \in {"publishing", "failed"}
    BY DEF PubInv, OutboxOK
  <2>2. Fail(d)
    BY <2>1 DEF Progress, Dispatch, LoadSnapshot, ReadEvents, ReplayEvent, EndReplay,
                SaveSnapshot, HandleCommand, ApplyCommandEvents, StoreEvents, StoreConflict,
                EndPublishing
  <2> QED
    BY <2>2 DEF Fail, Goto, IInv, TypeOK
<1> QED
  BY <1>1, <1>2, <1>3, QuietPub

\* The batch is handed to the publisher as it is stored: it is the first that
\* its delivery has to publish.
LEMMA StoreEventsPub ==
  ASSUME IInv, PubInv, NEW d \in Delivery, StoreEvents(d)
  PROVE  PubInv'
<1>1. /\ phase[d] = "storing" /\ UNCHANGED delivered
      /\ phase' = [phase EXCEPT ![d] = "publishing"]
      /\ outbox' = [outbox EXCEPT ![d] = HandlerCalls(unstored[d])]
  BY DEF StoreEvents, Goto
<1>2. /\ outbox'[d] = HandlerCalls(unstored[d])
      /\ \A c \in Delivery \ {d} : outbox'[c] = outbox[c] /\ phase'[c] = phase[c]
      /\ phase'[d] = "publishing"
  BY <1>1 DEF IInv, TypeOK
<1>3. /\ domainEvents' = domainEvents \cup unstored[d]
      /\ \A e \in unstored[d] : e.delivery = d
      /\ \A e \in domainEvents : e.delivery # d
  BY Stored
<1>4. HandedOver'
  <2>1. \A call \in delivered' : call[2] \in domainEvents'
    BY <1>1, <1>3 DEF PubInv, HandedOver
  <2>2. ASSUME NEW e \in domainEvents', NEW h \in 1..Handlers, Subscription[h] = e.name
        PROVE  <<h, e>> \in delivered' \cup outbox'[e.delivery]
    <3>1. CASE e \in domainEvents
      <4>1. e.delivery \in Delivery \ {d}
        BY <1>3, <3>1 DEF IInv, TypeOK, DomainEvent
      <4> QED
        BY <1>1, <1>2, <2>2, <3>1, <4>1 DEF PubInv, HandedOver
    <3>2. CASE e \in unstored[d]
      BY <1>2, <1>3, <2>2, <3>2 DEF HandlerCalls
    <3> QED
      BY <1>3, <3>1, <3>2
  <2> QED
    BY <2>1, <2>2 DEF HandedOver
<1>5. OutboxOK(d)'
  <2>1. \A call \in delivered : call[2].delivery # d
    BY <1>3 DEF PubInv, HandedOver
  <2>2. \A call \in outbox'[d] : call[2] \in domainEvents' /\ call[2].delivery = d
    BY <1>2, <1>3 DEF HandlerCalls
  <2> QED
    BY <1>1, <1>2, <2>1, <2>2 DEF OutboxOK
<1>6. \A c \in Delivery \ {d} : OutboxOK(c)'
  BY <1>1, <1>2, <1>3 DEF PubInv, OutboxOK
<1> QED
  BY <1>4, <1>5, <1>6 DEF PubInv

\* What a call of a handler changes.
LEMMA CallsAre ==
  ASSUME IInv, PubInv, NEW d \in Delivery, PublishDomainEvent(d)
  PROVE  \E call \in outbox[d] :
           /\ CalledFirst(call, outbox[d]) /\ call \notin delivered
           /\ call \in (1..Handlers) \X DomainEvent
           /\ call[2] \in domainEvents /\ call[2].delivery = d
           /\ delivered' = delivered \cup {call}
           /\ outbox'[d] = outbox[d] \ {call}
           /\ \A c \in Delivery \ {d} : outbox'[c] = outbox[c]
           /\ UNCHANGED <<domainEvents, phase>>
<1>1. PICK call \in outbox[d] :
        /\ CalledFirst(call, outbox[d])
        /\ delivered' = delivered \cup {call}
        /\ outbox' = [outbox EXCEPT ![d] = @ \ {call}]
  BY DEF PublishDomainEvent
<1>2. call \in (1..Handlers) \X DomainEvent
  BY DEF IInv, TypeOK
<1>3. call[2] \in domainEvents /\ call[2].delivery = d /\ call \notin delivered
  BY DEF PubInv, OutboxOK
<1>4. outbox'[d] = outbox[d] \ {call} /\ \A c \in Delivery \ {d} : outbox'[c] = outbox[c]
  BY <1>1 DEF IInv, TypeOK
<1> QED
  BY <1>1, <1>2, <1>3, <1>4 DEF PublishDomainEvent, storeVars

LEMMA PublishPub ==
  ASSUME IInv, PubInv, NEW d \in Delivery, PublishDomainEvent(d)
  PROVE  PubInv'
<1>1. PICK call \in outbox[d] :
        /\ CalledFirst(call, outbox[d]) /\ call[2] \in domainEvents /\ call[2].delivery = d
        /\ delivered' = delivered \cup {call}
        /\ outbox'[d] = outbox[d] \ {call}
        /\ \A c \in Delivery \ {d} : outbox'[c] = outbox[c]
        /\ UNCHANGED <<domainEvents, phase>>
  BY CallsAre
<1>2. OutboxOK(d)'
  <2>1. ASSUME NEW made \in delivered', NEW other \in outbox'[d], made[2].delivery = d
        PROVE  made[2].index <= other[2].index
    <3>1. CASE made \in delivered
      BY <1>1, <2>1, <3>1 DEF PubInv, OutboxOK
    <3>2. CASE made = call
      <4>1. other \in outbox[d]
        BY <1>1, <2>1
      <4>2. outbox[d] \subseteq (1..Handlers) \X DomainEvent
        BY DEF IInv, TypeOK
      <4>3. other[2] \in DomainEvent /\ call[2] \in DomainEvent
        BY <4>1, <4>2
      <4>4. other[2].index \in Nat /\ call[2].index \in Nat
        BY <4>3 DEF DomainEvent
      <4> QED
        BY <1>1, <3>2, <4>1, <4>4 DEF CalledFirst
    <3> QED
      BY <1>1, <3>1, <3>2
  <2>2. outbox'[d] # {} => phase'[d] \in {"publishing", "failed"}
    BY <1>1 DEF PubInv, OutboxOK
  <2>3. \A other \in outbox'[d] :
          other[2] \in domainEvents' /\ other[2].delivery = d /\ other \notin delivered'
    BY <1>1 DEF PubInv, OutboxOK
  <2> QED
    BY <2>1, <2>2, <2>3 DEF OutboxOK
<1>3. \A c \in Delivery \ {d} : OutboxOK(c)'
  BY <1>1 DEF PubInv, OutboxOK
<1>4. HandedOver'
  <2>1. \A made \in delivered' : made[2] \in domainEvents'
    BY <1>1 DEF PubInv, HandedOver
  <2>2. ASSUME NEW e \in domainEvents, NEW h \in 1..Handlers, Subscription[h] = e.name
        PROVE  <<h, e>> \in delivered' \cup outbox'[e.delivery]
    <3>1. <<h, e>> \in delivered \cup outbox[e.delivery] /\ e.delivery \in Delivery
      BY <2>2 DEF PubInv, HandedOver, IInv, TypeOK, DomainEvent
    <3> QED
      BY <1>1, <3>1
  <2> QED
    BY <1>1, <2>1, <2>2 DEF HandedOver
<1> QED
  BY <1>2, <1>3, <1>4 DEF PubInv

LEMMA PubNext == IInv /\ PubInv /\ [Next]_vars => PubInv'
<1> SUFFICES ASSUME IInv, PubInv, [Next]_vars PROVE PubInv'
  OBVIOUS
<1>1. ASSUME NEW d \in Delivery, Dispatch(d) \/ Progress(d) \/ Fail(d) PROVE PubInv'
  BY <1>1, StoreEventsPub, PublishPub, OtherStepsPub
<1>2. CASE UNCHANGED vars
  BY <1>2 DEF PubInv, HandedOver, OutboxOK, vars, storeVars, busVars
<1> QED
  BY <1>1, <1>2 DEF Next

\* The invariant holds.
THEOREM PubInvCorrect == Spec => []PubInv
BY PubInit, PubNext, InvCorrect, PTL DEF Spec

-----------------------------------------------------------------------------
(* What follows from it *)

\* A handler misses an event only as long as the call that stored it publishes, or
\* because it failed.
THEOREM GapsAreOwedCorrect == Spec => []GapsAreOwed
<1>1. ASSUME IInv, PubInv, NEW e \in domainEvents, NEW h \in 1..Handlers, Missed(h, e)
      PROVE  phase[e.delivery] \in {"publishing", "failed"}
  <2>1. outbox[e.delivery] # {} /\ e.delivery \in Delivery
    BY <1>1 DEF PubInv, HandedOver, Missed, IInv, TypeOK, DomainEvent
  <2> QED
    BY <1>1, <2>1 DEF PubInv, OutboxOK
<1>2. IInv /\ PubInv => GapsAreOwed
  BY <1>1 DEF GapsAreOwed
<1> QED
  BY <1>2, InvCorrect, PubInvCorrect, PTL

\* Handlers see the events of a command in the order they were decided, and only
\* what is stored.
THEOREM DeliveredInOrderCorrect == Spec => []DeliveredInOrder
<1>1. ASSUME IInv, PubInv, NEW call \in delivered, NEW e \in domainEvents,
             NEW h \in 1..Handlers, e.delivery = call[2].delivery, e.index < call[2].index,
             Missed(h, e)
      PROVE  FALSE
  <2>1. <<h, e>> \in outbox[e.delivery] /\ e.delivery \in Delivery
    BY <1>1 DEF PubInv, HandedOver, Missed, IInv, TypeOK, DomainEvent
  <2>2. call[2].index <= <<h, e>>[2].index
    BY <1>1, <2>1 DEF PubInv, OutboxOK
  <2>3. call[2].index \in Nat /\ e.index \in Nat
    BY <1>1 DEF PubInv, HandedOver, IInv, TypeOK, DomainEvent
  <2> QED
    BY <1>1, <2>2, <2>3
<1>2. IInv /\ PubInv => DeliveredInOrder
  BY <1>1 DEF DeliveredInOrder, PubInv, HandedOver
<1> QED
  BY <1>2, InvCorrect, PubInvCorrect, PTL

\* No handler is called twice with the same event.
THEOREM CalledOnceCorrect == Spec => CalledOnce
<1>1. IInv /\ PubInv => \A d \in Delivery : PublishDomainEvent(d) => delivered' # delivered
  BY CallsAre
<1>2. IInv /\ PubInv /\ [Next]_vars =>
        [\A d \in Delivery : PublishDomainEvent(d) => delivered' # delivered]_vars
  BY <1>1
<1> QED
  BY <1>2, InvCorrect, PubInvCorrect, PTL DEF Spec, CalledOnce

=============================================================================
