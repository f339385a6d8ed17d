SPECIFICATION Spec
CONSTANTS
  MaxFaults = 1
  Calls = {c1, c2}
  Closer = closer
  NoCall = NoCall
INVARIANTS
  NoOrphans
  ServersMatch
PROPERTIES
  OnlyFailedReplaced
  CallsGetThrough
  PluginCloses
CHECK_DEADLOCK FALSE
