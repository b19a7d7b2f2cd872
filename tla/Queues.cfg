SPECIFICATION FairSpec
CONSTANTS
  Discriminator = {"d", "e"}
  Item <- Items
  DiscriminatorsOf <- TwoQueues
  Priority = {1, 2}
  PriorityOf <- Descending
  Removable = {}
  Token = {t1, t2}
  None = None
  MaxSafeInteger = 9
  ExpirationTime = 1
INVARIANTS
  TypeOK
  NothingLost
  TakesOwnItem
PROPERTIES
  ImplementsLeasedQueues
  CallsEnd
CHECK_DEADLOCK FALSE
