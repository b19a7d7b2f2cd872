SPECIFICATION Spec
CONSTANTS
  Discriminator = {"d", "e"}
  Item <- Items
  DiscriminatorsOf <- TwoQueues
  Priority = {1, 2}
  PriorityOf <- Descending
  Removable <- Items
  Token = {t1}
  None = None
  MaxSafeInteger = 9
  ExpirationTime = 1
INVARIANT
  RemovedForGood
CHECK_DEADLOCK FALSE
