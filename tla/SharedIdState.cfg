SPECIFICATION Spec
CONSTANTS
  Aggregate <- TwoAggregates
  AggregateId <- OneId
  IdOf <- SharedIdOf
  Command = {"c1", "c2", "c3"}
  Delivery = {1, 2, 3}
  EventName <- OneName
  CommandOf <- ThreeCommands
  Target <- CartOrOrder
  Dispatchable = {"c1", "c2", "c3"}
  Handlers = 0
  Subscription <- NoSubscription
  MaxEvents = 1
  SnapshotLimit = 1
INVARIANTS
  StateIsOwn
CHECK_DEADLOCK FALSE
