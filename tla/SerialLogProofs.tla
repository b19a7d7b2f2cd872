--------------------------- MODULE SerialLogProofs --------------------------
(***************************************************************************)
(* CommandBus implements SerialLog, for all values of the constants.       *)
(***************************************************************************)
EXTENDS CommandBusProofs, SequenceTheorems

-----------------------------------------------------------------------------
(* The log of an id as SerialLog sees it. *)

\* LastRevision and EventAt, of the set of an id's events.
LastOf(E) ==
  IF E = {} THEN 0 ELSE (CHOOSE e \in E : \A f \in E : f.revision <= e.revision).revision

At(E, r) == CHOOSE e \in E : e.revision = r

LogOf(id) == [r \in 1..LastRevision(id) |-> SerialEntry(EventAt(id, r))]

LEMMA LastIs ==
  ASSUME NEW E, NEW n \in Nat,
         \A e \in E : e.revision \in Nat \ {0} /\ e.revision <= n,
         n # 0 => \E e \in E : e.revision = n
  PROVE  LastOf(E) = n
<1>1. CASE E = {}
  BY <1>1 DEF LastOf
<1>2. CASE E # {}
  <2> DEFINE IsLast(e) == \A f \in E : f.revision <= e.revision
             last == CHOOSE e \in E : IsLast(e)
  <2>1. PICK e \in E : e.revision = n
    BY <1>2
  <2>2. IsLast(e)
    BY <2>1
  <2>3. last \in E /\ IsLast(last)
    <3> HIDE DEF IsLast
    <3> QED
      BY <2>1, <2>2
  <2>4. last.revision = n
    <3> HIDE DEF last
    <3> QED
      BY <2>1, <2>3
  <2> QED
    BY <1>2, <2>4 DEF LastOf
<1> QED
  BY <1>1, <1>2

LEMMA AtIs ==
  ASSUME NEW E, NEW r, NEW e \in E, e.revision = r,
         \A f \in E : f.revision = r => f = e
  PROVE  At(E, r) = e
<1>1. At(E, r) \in E /\ At(E, r).revision = r
  BY DEF At
<1> QED
  BY <1>1

-----------------------------------------------------------------------------
(* The invariant *)

\* n is where the log of an id ends.
Ends(id, n) ==
  /\ n \in Nat
  /\ \A e \in EventsOf(id) : e.revision <= n
  /\ n # 0 => \E e \in EventsOf(id) : e.revision = n

SerInv ==
  /\ \A id \in AggregateId : \E n \in Nat : Ends(id, n)
  /\ \A d \in Delivery : Len(events[d]) <= MaxEvents

LEMMA SerInit == Init => SerInv
<1> SUFFICES ASSUME Init PROVE SerInv
  OBVIOUS
<1>1. \A id \in AggregateId : Ends(id, 0)
  BY DEF Init, Ends, EventsOf
<1>2. \A d \in Delivery : events[d] = << >>
  BY DEF Init
<1> QED
  BY <1>1, <1>2, LimitsAssumption DEF SerInv

LEMMA IdsAre == \A d \in Delivery : IdOfTarget(d) \in AggregateId
BY IdOfAssumption, CommandOfAssumption, TargetAssumption DEF IdOfTarget, AggregateOf

\* A delivery that stores does so where the log ends.
LEMMA EndsAtStore ==
  ASSUME IInv, NEW d \in Delivery, StoreEvents(d)
  PROVE  Ends(IdOfTarget(d), revision[d])
<1>1. phase[d] = "storing"
  BY DEF StoreEvents
<1>2. /\ revision[d] \in Nat /\ Len(state[d]) = revision[d]
      /\ IsLogPrefix(state[d], IdOfTarget(d))
  BY <1>1, AboutToStore
<1>3. revision[d] # 0 => \E e \in EventsOf(IdOfTarget(d)) : e.revision = revision[d]
  <2> SUFFICES ASSUME revision[d] # 0
               PROVE  \E e \in EventsOf(IdOfTarget(d)) : e.revision = revision[d]
    OBVIOUS
  <2>1. revision[d] \in 1..Len(state[d])
    BY <1>2
  <2> QED
    BY <1>2, <2>1 DEF IsLogPrefix
<1> QED
  BY <1>2, <1>3, StoreAtTheEnd DEF Ends

\* The events of an id after the insert.
LEMMA EventsAfterStore ==
  ASSUME IInv, NEW d \in Delivery, StoreEvents(d)
  PROVE  /\ EventsOf(IdOfTarget(d))' = EventsOf(IdOfTarget(d)) \cup unstored[d]
         /\ \A id \in AggregateId \ {IdOfTarget(d)} : EventsOf(id)' = EventsOf(id)
<1>1. /\ domainEvents' = domainEvents \cup unstored[d]
      /\ \A e \in unstored[d] : IdOf[e.aggregate] = IdOfTarget(d)
  BY Stored DEF IdOfTarget
<1> QED
  BY <1>1 DEF EventsOf

LEMMA BatchIs ==
  ASSUME IInv, NEW d \in Delivery, StoreEvents(d), NEW i \in 1..Len(events[d])
  PROVE  /\ NewDomainEvent(d, i) \in unstored[d]
         /\ NewDomainEvent(d, i).revision = revision[d] + i
         /\ NewDomainEvent(d, i).causationId = CommandOf[d]
         /\ NewDomainEvent(d, i).delivery = d
         /\ NewDomainEvent(d, i).aggregate = AggregateOf(d)
<1>1. phase[d] = "storing"
  BY DEF StoreEvents
<1>2. NewDomainEvent(d, i) \in unstored[d]
  BY <1>1, AboutToStore
<1> QED
  BY <1>2 DEF NewDomainEvent

LEMMA EndsAfterStore ==
  ASSUME IInv, NEW d \in Delivery, StoreEvents(d)
  PROVE  /\ \A e \in EventsOf(IdOfTarget(d))' : e.revision <= revision[d] + Len(events[d])
         /\ \E e \in EventsOf(IdOfTarget(d))' : e.revision = revision[d] + Len(events[d])
<1>1. Len(events[d]) \in Nat \ {0} /\ revision[d] \in Nat
  BY AboutToStore DEF StoreEvents
<1>2. \A e \in EventsOf(IdOfTarget(d)) : e.revision \in Nat /\ e.revision <= revision[d]
  BY StoreAtTheEnd DEF EventsOf, IInv, TypeOK, DomainEvent
<1>3. \A e \in unstored[d] : \E i \in 1..Len(events[d]) : e.revision = revision[d] + i
  BY Stored
<1>4. NewDomainEvent(d, Len(events[d])) \in unstored[d]
      /\ NewDomainEvent(d, Len(events[d])).revision = revision[d] + Len(events[d])
  BY <1>1, BatchIs
<1> QED
  BY <1>1, <1>2, <1>3, <1>4, EventsAfterStore

LEMMA SerNext ==
  ASSUME IInv, SerInv, [Next]_vars
  PROVE  SerInv'
<1>1. ASSUME NEW d \in Delivery, StoreEvents(d)
      PROVE  SerInv'
  <2>1. UNCHANGED events
    BY <1>1 DEF StoreEvents
  <2>2. ASSUME NEW id \in AggregateId
        PROVE  \E n \in Nat : Ends(id, n)'
    <3>1. CASE id = IdOfTarget(d)
      <4>1. PICK n \in Nat : n = revision[d] + Len(events[d]) /\ n # 0
        BY <1>1, AboutToStore DEF StoreEvents
      <4> QED
        BY <1>1, <3>1, <4>1, EndsAfterStore DEF Ends
    <3>2. CASE id # IdOfTarget(d)
      <4>1. PICK n \in Nat : Ends(id, n)
        BY DEF SerInv
      <4>2. EventsOf(id)' = EventsOf(id)
        BY <1>1, <3>2, EventsAfterStore
      <4> QED
        BY <4>1, <4>2 DEF Ends
    <3> QED
      BY <3>1, <3>2
  <2> QED
    BY <2>1, <2>2 DEF SerInv
<1>2. ASSUME UNCHANGED domainEvents, \A d \in Delivery : Len(events'[d]) <= MaxEvents
      PROVE  SerInv'
  <2>1. \A id \in AggregateId : EventsOf(id)' = EventsOf(id)
    BY <1>2 DEF EventsOf
  <2> QED
    BY <1>2, <2>1 DEF SerInv, Ends
<1>3. ASSUME NEW d \in Delivery, HandleCommand(d)
      PROVE  SerInv'
  <2>1. UNCHANGED domainEvents
    BY <1>3 DEF HandleCommand, storeVars
  <2>2. CASE UNCHANGED events
    BY <1>2, <2>1, <2>2 DEF SerInv
  <2>3. CASE \E n \in 0..MaxEvents : \E names \in [1..n -> EventName] :
               events' = [events EXCEPT ![d] = names]
    <3>1. PICK n \in 0..MaxEvents : \E names \in [1..n -> EventName] :
                 events' = [events EXCEPT ![d] = names]
      BY <2>3
    <3>2. PICK names \in [1..n -> EventName] : events' = [events EXCEPT ![d] = names]
      BY <3>1
    <3>3. Len(names) = n /\ n <= MaxEvents
      BY <3>1, <3>2, LimitsAssumption
    <3>4. \A c \in Delivery : events'[c] = IF c = d THEN names ELSE events[c]
      BY <3>2 DEF IInv, TypeOK
    <3> QED
      BY <1>2, <2>1, <3>3, <3>4 DEF SerInv
  <2> QED
    BY <1>3, <2>2, <2>3 DEF HandleCommand
<1>4. CASE UNCHANGED vars
  BY <1>2, <1>4 DEF vars, storeVars, busVars, SerInv
<1>5. ASSUME NEW d \in Delivery, Dispatch(d) \/ Progress(d) \/ Fail(d),
             ~ StoreEvents(d), ~ HandleCommand(d)
      PROVE  SerInv'
  <2>1. UNCHANGED <<domainEvents, events>>
    BY <1>5 DEF Progress, Dispatch, LoadSnapshot, ReadEvents, ReplayEvent, EndReplay,
       SaveSnapshot, ApplyCommandEvents, StoreConflict, PublishDomainEvent, EndPublishing,
       Fail, storeVars
  <2> QED
    BY <1>2, <2>1 DEF SerInv
<1> QED
  BY <1>1, <1>3, <1>4, <1>5 DEF Next

-----------------------------------------------------------------------------
(* The refinement *)

\* What LastRevision and EventAt answer.
LEMMA LogIs ==
  ASSUME IInv, SerInv, NEW id \in AggregateId
  PROVE  /\ LastRevision(id) \in Nat
         /\ Ends(id, LastRevision(id))
         /\ \A n \in Nat : Ends(id, n) => LastRevision(id) = n
<1>1. PICK n \in Nat : Ends(id, n)
  BY DEF SerInv
<1>2. \A e \in EventsOf(id) : e.revision \in Nat \ {0}
  BY DEF EventsOf, IInv, TypeOK, DomainEvent
<1>3. ASSUME NEW m \in Nat, Ends(id, m)
      PROVE  LastRevision(id) = m
  <2>1. LastOf(EventsOf(id)) = m
    BY <1>2, <1>3, LastIs DEF Ends
  <2> QED
    BY <2>1 DEF LastOf, LastRevision
<1> QED
  BY <1>1, <1>3

LEMMA EventAtIs ==
  ASSUME IInv, NEW id, NEW e \in EventsOf(id)
  PROVE  EventAt(id, e.revision) = e
<1>1. \A f \in EventsOf(id) : f.revision = e.revision => f = e
  BY DEF EventsOf, IInv, LogInv, GapFreeLog, UniqueRevisions
<1>2. At(EventsOf(id), e.revision) = e
  BY <1>1, AtIs
<1> QED
  BY <1>2 DEF At, EventAt

LEMMA EntriesAre ==
  ASSUME IInv, SerInv, NEW id \in AggregateId, NEW r \in 1..LastRevision(id)
  PROVE  /\ EventAt(id, r) \in EventsOf(id)
         /\ EventAt(id, r).revision = r
         /\ LogOf(id)[r] = SerialEntry(EventAt(id, r))
         /\ LogOf(id)[r] \in Serial!Entry
<1>1. PICK e \in EventsOf(id) : e.revision = LastRevision(id)
  BY LogIs DEF Ends
<1>2. PICK f \in EventsOf(id) : f.revision = r
  BY <1>1 DEF EventsOf, IInv, LogInv, GapFreeLog, NoGaps
<1>3. EventAt(id, r) = f
  BY <1>2, EventAtIs
<1>4. LogOf(id)[r] = SerialEntry(f)
  BY <1>3 DEF LogOf
<1>5. f.causationId \in Command /\ Len(basis[f.delivery]) \in Nat
  BY DEF EventsOf, IInv, TypeOK, DomainEvent, State
<1> QED
  BY <1>2, <1>3, <1>4, <1>5 DEF SerialEntry, Serial!Entry

LEMMA LogIsSeq ==
  ASSUME IInv, SerInv, NEW id \in AggregateId
  PROVE  LogOf(id) \in Seq(Serial!Entry) /\ Len(LogOf(id)) = LastRevision(id)
<1>1. LastRevision(id) \in Nat
  BY LogIs
<1>2. LogOf(id) \in [1..LastRevision(id) -> Serial!Entry]
  BY EntriesAre DEF LogOf
<1> QED
  BY <1>1, <1>2

\* Nothing of a command is in the log when the command is stored.
LEMMA NotExecuted ==
  ASSUME IInv, SerInv, NEW d \in Delivery, StoreEvents(d)
  PROVE  \A id \in AggregateId : \A i \in DOMAIN LogOf(id) :
           LogOf(id)[i].command # CommandOf[d]
<1> SUFFICES ASSUME NEW id \in AggregateId, NEW i \in 1..LastRevision(id)
             PROVE  LogOf(id)[i].command # CommandOf[d]
  BY DEF LogOf
<1>1. EventAt(id, i) \in domainEvents
  BY EntriesAre DEF EventsOf
<1>2. LogOf(id)[i] = SerialEntry(EventAt(id, i))
  BY EntriesAre
<1>3. LogOf(id)[i].command = EventAt(id, i).causationId
  BY <1>2 DEF SerialEntry
<1> QED
  BY <1>1, <1>3, Stored

\* Steps that neither store nor touch what was stored leave the log as it is.
LEMMA LogStays ==
  ASSUME UNCHANGED domainEvents,
         \A e \in domainEvents : basis'[e.delivery] = basis[e.delivery],
         IInv, SerInv, NEW id \in AggregateId
  PROVE  LogOf(id)' = LogOf(id)
<1>1. EventsOf(id)' = EventsOf(id)
  BY DEF EventsOf
<1>2. LastRevision(id)' = LastRevision(id) /\ \A r : EventAt(id, r)' = EventAt(id, r)
  BY DEF LastRevision, EventAt, EventsOf
<1>3. ASSUME NEW r \in 1..LastRevision(id)
      PROVE  SerialEntry(EventAt(id, r))' = SerialEntry(EventAt(id, r))
  <2>1. PICK e \in domainEvents : e = EventAt(id, r)
    BY EntriesAre DEF EventsOf
  <2>2. EventAt(id, r)' = e
    BY <1>2, <2>1
  <2> QED
    BY <2>1, <2>2 DEF SerialEntry
<1> QED
  BY <1>2, <1>3 DEF LogOf

\* Where the log ends before and after the insert.
LEMMA LastAtStore ==
  ASSUME IInv, SerInv, NEW d \in Delivery, StoreEvents(d)
  PROVE  LastRevision(IdOfTarget(d)) = revision[d]
BY IdsAre, EndsAtStore, LogIs DEF IInv, TypeOK

LEMMA LastAfterStore ==
  ASSUME IInv, TypeOK', NEW d \in Delivery, StoreEvents(d)
  PROVE  LastRevision(IdOfTarget(d))' = revision[d] + Len(events[d])
<1>1. PICK n \in Nat : n = revision[d] + Len(events[d])
  BY AboutToStore DEF StoreEvents
<1>2. \A e \in EventsOf(IdOfTarget(d))' : e.revision \in Nat \ {0}
  BY DEF EventsOf, TypeOK, DomainEvent
<1>3. /\ \A e \in EventsOf(IdOfTarget(d))' : e.revision <= n
      /\ \E e \in EventsOf(IdOfTarget(d))' : e.revision = n
  BY <1>1, EndsAfterStore
<1>4. LastOf(EventsOf(IdOfTarget(d))') = n
  BY <1>2, <1>3, LastIs
<1> QED
  BY <1>1, <1>4 DEF LastOf, LastRevision

\* The event of a revision after the insert.
LEMMA EventAfterStore ==
  ASSUME LogInv', NEW id, NEW r, NEW e \in EventsOf(id)', e.revision = r
  PROVE  EventAt(id, r)' = e
<1>1. \A f \in EventsOf(id)' : f.revision = r => f = e
  BY DEF EventsOf, LogInv, GapFreeLog, UniqueRevisions
<1>2. At(EventsOf(id)', r) = e
  BY <1>1, AtIs
<1> QED
  BY <1>2 DEF At, EventAt

Appended(d) ==
  [i \in 1..Len(events[d]) |->
     [command |-> CommandOf[d], decidedAt |-> Len(LogOf(IdOfTarget(d)))]]

LEMMA AppendedIsSeq ==
  ASSUME IInv, SerInv, NEW d \in Delivery, StoreEvents(d)
  PROVE  Appended(d) \in Seq(Serial!Entry) /\ Len(Appended(d)) = Len(events[d])
<1>1. Len(LogOf(IdOfTarget(d))) \in Nat /\ CommandOf[d] \in Command
  BY IdsAre, LogIsSeq, CommandOfAssumption
<1>2. Len(events[d]) \in Nat
  BY AboutToStore DEF StoreEvents
<1>3. Appended(d) \in [1..Len(events[d]) -> Serial!Entry]
  BY <1>1 DEF Appended, Serial!Entry
<1> QED
  BY <1>2, <1>3

LEMMA LogAppended ==
  ASSUME IInv, IInv', SerInv, SerInv', NEW d \in Delivery, StoreEvents(d)
  PROVE  LogOf(IdOfTarget(d))' = LogOf(IdOfTarget(d)) \o Appended(d)
<1> DEFINE id == IdOfTarget(d)
<1>1. PICK N \in Nat, n \in Nat : N = revision[d] /\ n = Len(events[d])
  BY AboutToStore DEF StoreEvents
<1>2. id \in AggregateId /\ UNCHANGED basis
  BY IdsAre DEF StoreEvents
<1>3. LastRevision(id) = N /\ LastRevision(id)' = N + n
  BY <1>1, LastAtStore, LastAfterStore DEF IInv
<1>4. PICK old \in Seq(Serial!Entry) : old = LogOf(id) /\ Len(old) = N
  BY <1>2, <1>3, LogIsSeq
<1>5. PICK new \in Seq(Serial!Entry) : new = Appended(d) /\ Len(new) = n
  BY <1>1, AppendedIsSeq
<1>6. old \o new \in Seq(Serial!Entry) /\ Len(old \o new) = N + n
      /\ \A r \in 1..(N + n) : (old \o new)[r] = IF r <= N THEN old[r] ELSE new[r - N]
  BY <1>4, <1>5, ConcatProperties
<1>7. ASSUME NEW r \in 1..(N + n), r <= N
      PROVE  LogOf(id)'[r] = old[r]
  <2>1. PICK e \in EventsOf(id) : e = EventAt(id, r) /\ e.revision = r
    BY <1>2, <1>3, <1>7, EntriesAre
  <2>2. EventAt(id, r)' = e
    BY <2>1, EventsAfterStore, EventAfterStore DEF IInv
  <2>3. LogOf(id)'[r] = SerialEntry(EventAt(id, r))'
    BY <1>3 DEF LogOf
  <2>4. old[r] = SerialEntry(e)
    BY <1>2, <1>3, <1>4, <1>7, <2>1, EntriesAre
  <2> QED
    BY <1>2, <2>2, <2>3, <2>4 DEF SerialEntry
<1>8. ASSUME NEW r \in 1..(N + n), r > N
      PROVE  LogOf(id)'[r] = new[r - N]
  <2>1. r - N \in 1..n
    BY <1>1, <1>8
  <2>2. PICK e \in unstored[d] : /\ e = NewDomainEvent(d, r - N)
                                 /\ e.revision = N + (r - N)
                                 /\ e.causationId = CommandOf[d] /\ e.delivery = d
    BY <1>1, <2>1, BatchIs
  <2>3. e.revision = r
    BY <2>2
  <2>4. EventAt(id, r)' = e
    BY <2>2, <2>3, EventsAfterStore, EventAfterStore DEF IInv
  <2>5. LogOf(id)'[r] = SerialEntry(EventAt(id, r))'
    BY <1>3 DEF LogOf
  <2>6. LogOf(id)'[r] = [command |-> CommandOf[d], decidedAt |-> Len(basis[d])]
    BY <1>2, <2>2, <2>4, <2>5 DEF SerialEntry
  <2>7. Len(basis[d]) = N
    BY <1>1, AboutToStore DEF StoreEvents
  <2> QED
    BY <1>1, <1>4, <1>5, <2>1, <2>6, <2>7 DEF Appended
<1>9. LogOf(id)' = [r \in 1..(N + n) |-> LogOf(id)'[r]]
  BY <1>3 DEF LogOf
<1>10. old \o new = [r \in 1..(N + n) |-> (old \o new)[r]]
  <2>1. PICK both \in Seq(Serial!Entry) : both = old \o new
    BY <1>6
  <2>2. Len(both) = N + n /\ both \in [1..Len(both) -> Serial!Entry]
    BY <1>6, <2>1, LenProperties
  <2>3. both = [r \in 1..(N + n) |-> both[r]]
    BY <2>2
  <2> QED
    BY <2>1, <2>3
<1>11. LogOf(id)' = old \o new
  <2>1. \A r \in 1..(N + n) : LogOf(id)'[r] = (old \o new)[r]
    BY <1>6, <1>7, <1>8
  <2> QED
    BY <1>9, <1>10, <2>1
<1> QED
  BY <1>4, <1>5, <1>11

\* The logs of the other ids stay.
LEMMA OtherLogsStay ==
  ASSUME IInv, IInv', SerInv, NEW d \in Delivery, StoreEvents(d),
         NEW id \in AggregateId \ {IdOfTarget(d)}
  PROVE  LogOf(id)' = LogOf(id)
<1>1. EventsOf(id)' = EventsOf(id) /\ UNCHANGED basis
  BY EventsAfterStore DEF StoreEvents
<1>2. LastRevision(id)' = LastRevision(id) /\ \A r : EventAt(id, r)' = EventAt(id, r)
  BY <1>1 DEF LastRevision, EventAt
<1>3. \A r : SerialEntry(EventAt(id, r))' = SerialEntry(EventAt(id, r))
  BY <1>1, <1>2 DEF SerialEntry
<1> QED
  BY <1>2, <1>3 DEF LogOf

Logs == [id \in AggregateId |-> LogOf(id)]

LEMMA StoreIsExecute ==
  ASSUME IInv, IInv', SerInv, SerInv', NEW d \in Delivery, StoreEvents(d)
  PROVE  Serial!Next
<1> DEFINE target == IdOfTarget(d)
<1>1. target \in AggregateId /\ CommandOf[d] \in Command
  BY IdsAre, CommandOfAssumption
<1>2. ~ Serial!Executed(CommandOf[d])
  BY NotExecuted DEF Serial!Executed, LogOf
<1>3. Len(events[d]) \in 1..MaxEvents
  BY AboutToStore, LimitsAssumption DEF StoreEvents, SerInv
<1>4. LogOf(target)' =
        LogOf(target) \o [i \in 1..Len(events[d]) |->
                            [command |-> CommandOf[d], decidedAt |-> Len(LogOf(target))]]
  BY LogAppended DEF Appended
<1>5. Logs' = [Logs EXCEPT ![target] =
                 @ \o [i \in 1..Len(events[d]) |->
                         [command |-> CommandOf[d], decidedAt |-> Len(@)]]]
  BY <1>1, <1>4, OtherLogsStay DEF Logs
<1>6. Serial!Execute(target, CommandOf[d])
  BY <1>2, <1>3, <1>5 DEF Serial!Execute, Logs, LogOf
<1> QED
  BY <1>1, <1>6 DEF Serial!Next

LEMMA OtherStepsStutter ==
  ASSUME IInv, SerInv, NEW d \in Delivery, Dispatch(d) \/ Progress(d) \/ Fail(d),
         ~ StoreEvents(d)
  PROVE  Logs' = Logs
<1>1. UNCHANGED domainEvents
  BY StepsApart
<1>2. \A e \in domainEvents : basis'[e.delivery] = basis[e.delivery]
  <2>1. CASE HandleCommand(d)
    <3>1. phase[d] = "loaded" /\ \A c \in Delivery \ {d} : basis'[c] = basis[c]
      BY <2>1 DEF HandleCommand, IInv, TypeOK
    <3>2. \A e \in domainEvents : e.delivery \in Delivery \ {d}
      BY <3>1 DEF IInv, TypeOK, LogInv, Provenance, DomainEvent
    <3> QED
      BY <3>1, <3>2
  <2>2. CASE ~ HandleCommand(d)
    BY <2>2 DEF Progress, Dispatch, LoadSnapshot, ReadEvents, ReplayEvent, EndReplay,
       SaveSnapshot, ApplyCommandEvents, StoreConflict, PublishDomainEvent, EndPublishing,
       Fail
  <2> QED
    BY <2>1, <2>2
<1> QED
  BY <1>1, <1>2, LogStays DEF Logs

LEMMA InitIsSerial == Init => Serial!Init
<1> SUFFICES ASSUME Init PROVE Serial!Init
  OBVIOUS
<1>1. \A id \in AggregateId : LastRevision(id) = 0
  BY DEF Init, LastRevision, EventsOf
<1>2. \A id \in AggregateId : LogOf(id) = << >>
  BY <1>1 DEF LogOf
<1> QED
  BY <1>2 DEF Serial!Init, LogOf

\* Commands happen as if they were executed one after the other, each at most once.
THEOREM ImplementsSerialLogCorrect == Spec => ImplementsSerialLog
<1>1. Init => Serial!Init
  BY InitIsSerial
<1>2. IInv /\ IInv' /\ SerInv /\ SerInv' /\ [Next]_vars =>
        [Serial!Next]_([id \in AggregateId |->
                          [r \in 1..LastRevision(id) |-> SerialEntry(EventAt(id, r))]])
  <2> SUFFICES ASSUME IInv, IInv', SerInv, SerInv', [Next]_vars, Logs' # Logs
               PROVE  Serial!Next
    BY DEF Logs, LogOf
  <2>1. ASSUME UNCHANGED vars PROVE FALSE
    <3>1. UNCHANGED <<domainEvents, basis>>
      BY <2>1 DEF vars, storeVars, busVars
    <3>2. \A id \in AggregateId : LogOf(id)' = LogOf(id)
      BY <3>1, LogStays
    <3> QED
      BY <3>2 DEF Logs
  <2>2. PICK d \in Delivery : Dispatch(d) \/ Progress(d) \/ Fail(d)
    BY <2>1 DEF Next
  <2> QED
    BY <2>2, StoreIsExecute, OtherStepsStutter
<1>3. IInv /\ SerInv /\ [Next]_vars => SerInv'
  BY SerNext
<1> QED
  BY <1>1, <1>2, <1>3, SerInit, InvCorrect, PTL DEF Spec, ImplementsSerialLog, Serial!Spec

=============================================================================
