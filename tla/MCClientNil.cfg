SPECIFICATION Spec
CONSTANTS
  MaxFaults = 1
  Calls = {c1, c2}
  Closer = closer
  NoCall = NoCall
INVARIANTS
  NilOnlyWhenExpired
CHECK_DEADLOCK FALSE
