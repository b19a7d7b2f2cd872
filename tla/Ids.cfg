SPECIFICATION Spec
CONSTANTS
  Aggregate <- ThreeAggregates
  AggregateId <- TwoIds
  IdOf <- SomeIdOf
  Command = {"c1", "c2", "c3", "c4"}
  Delivery = {1, 2, 3, 4}
  EventName <- OneName
  CommandOf <- FourCommands
  Target <- CartOrderOrUser
  Dispatchable = {"c1", "c2", "c3", "c4"}
  Handlers = 0
  Subscription <- NoSubscription
  MaxEvents = 2
  SnapshotLimit = 1
INVARIANTS
  StateIsOwnUnlessShared
  GapFreeLog
  DecidedOnLog
  ConflictIsLostRace
CHECK_DEADLOCK FALSE
