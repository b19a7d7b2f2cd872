SPECIFICATION Spec
CONSTANTS
  Aggregate <- OneAggregate
  AggregateId <- OneId
  IdOf <- OneIdOf
  Command = {"c1", "c2"}
  Delivery = {1, 2, 3}
  EventName <- OneName
  CommandOf <- Redelivered
  Target <- OneTarget
  Dispatchable = {"c1", "c2"}
  Handlers = 1
  Subscription <- OneSubscription
  MaxEvents = 2
  SnapshotLimit = 1
INVARIANTS
  TypeOK
  GapFreeLog
  AtMostOnce
  DecidedOnLog
  LoadedStateIsLogPrefix
  SnapshotIsLogPrefix
  ConflictIsLostRace
PROPERTIES
  AppendOnly
  CalledOnce
  ImplementsSerialLog
CHECK_DEADLOCK FALSE
