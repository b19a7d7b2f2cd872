SPECIFICATION FairSpec
CONSTANTS
  Aggregate <- OneAggregate
  AggregateId <- OneId
  IdOf <- OneIdOf
  Command = {"c1", "c2", "c3"}
  Delivery = {1, 2, 3}
  EventName <- TwoNames
  CommandOf <- ThreeCommands
  Target <- OneTarget
  Dispatchable = {"c1", "c2"}
  Handlers = 3
  Subscription <- ThreeSubscriptions
  MaxEvents = 2
  SnapshotLimit = 2
INVARIANTS
  GapsAreOwed
  DeliveredInOrder
PROPERTIES
  StoredIsDelivered
CHECK_DEADLOCK FALSE
