SPECIFICATION FairSpec
CONSTANTS
  Client = {"p", "q"}
  Key <- Keys
  Consumer = {"x", "y"}
  ConsumerOf <- Consumers
  Wanted = {"xa"}
  Revision = {1, 2}
  Range <- Ranges
  NoRange = NoRange
  EarlierRow <- One
  NoClient = NoClient
  NoRow = NoRow
INVARIANTS
  TypeOK
  RefusedForAReason
PROPERTIES
  RevisionNeverFalls
  ReplayNotReplaced
  ImplementsProgress
  CallsEnd
