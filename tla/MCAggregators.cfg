SPECIFICATION Spec
CONSTANTS
  Oracles = {o1, o2, o3}
  Faulty = {o3}
  F = 1
  IDs = {"a", "b"}
  Prices <- MCPrices
  Heartbeat <- MCHeartbeat
  Deviation <- MCDeviation
  Partial = 50
  MaxTime = 3
  Method <- MCMethod
  ModeQuorum <- MCModeQuorum
  DeviationType <- MCDeviationType
  ValueType <- MCValueType
  FaultyValues <- MCFaultyValues
  BigIntScale = 2
  FaultyPrices = {120}
  MaxEntries = 2
INVARIANTS
  OutcomeUnique
  ReportsGenuine
  HonestValues
  DriftBounded
CHECK_DEADLOCK FALSE
