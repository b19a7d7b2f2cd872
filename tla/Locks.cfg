SPECIFICATION FairSpec
CONSTANTS
  Client = {"p", "q"}
  Key = {"a", "b"}
  Wanted <- Both
  Expiry <- Times
  MaxTime = 2
  NoClient = NoClient
  NoRow = NoRow
INVARIANTS
  TypeOK
  OneHolder
  RefusedMetALock
PROPERTIES
  ImplementsLeases
  CallsEnd
