SPECIFICATION OrderSpec
CONSTANTS
  Discriminator = {"d", "e", "f", "g"}
  Item <- Items
  DiscriminatorsOf <- ThreeOrFourQueues
  Priority = {1, 2}
  PriorityOf <- TwoPriorities
  Removable = {"i1"}
  Token = {t1, t2}
  None = None
  MaxSafeInteger = 9
  ExpirationTime = 1
INVARIANTS
  HeapIsDense
  QueuesAreDense
  Ordered
  RepairsFindQueues
PROPERTIES
  MostUrgentFirst
  RepairsEnd
SYMMETRY TokenSymmetry
CHECK_DEADLOCK FALSE
