SPECIFICATION Spec
CONSTANTS
  Client = {"p", "q", "r"}
  Value = {"a", "b"}
  MaxPending = 3
INVARIANTS
  LocksAreHeld
