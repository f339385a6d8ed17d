\* Four oracles, one of which may be out of step (F = 1); one execution.
SPECIFICATION Spec
CONSTANTS
  o1 = o1
  o2 = o2
  o3 = o3
  o4 = o4
  w1 = w1
  e1 = e1
  e2 = e2
  v1 = v1
  v2 = v2
  x1 = x1
  x2 = x2
  Oracles = {o1, o2, o3, o4}
  F = 1
  Workflows = {w1}
  Execs = {e1}
  WorkflowOf <- MCWorkflowOf
  Values = {v1, v2}
  Encoders = {x1, x2}
  NoEncoder = NoEncoder
  Observed <- MCObserved
  BatchSize = 1
  OutcomePruningThreshold = 1
  MaxSeqNr = 2
  MaxChanges = 2
  NoOutcome = NoOutcome
ACTION_CONSTRAINT MCStoresAtRest
SYMMETRY MCSymmetry
INVARIANTS
  TypeOK
  ReportsAgree
  ReportsSupported
  OutcomeDeterministic
  LastSeenAtBounded
CHECK_DEADLOCK FALSE
