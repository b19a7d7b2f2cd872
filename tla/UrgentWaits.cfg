SPECIFICATION Spec
CONSTANTS
  Discriminator = {"d", "e"}
  Item <- Items
  DiscriminatorsOf <- TwoQueues
  Priority = {1, 2}
  PriorityOf <- OneFirst
  Removable = {}
  Token = {t1}
  None = None
  MaxSafeInteger = 9
  ExpirationTime = 1
PROPERTY
  MostUrgentOfMany
CHECK_DEADLOCK FALSE
