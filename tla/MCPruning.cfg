\* The smallest DON: one oracle (N = 1, F = 0), two executions of a workflow.
SPECIFICATION Spec
CONSTANTS
  o1 = o1
  o2 = o2
  o3 = o3
  o4 = o4
  w1 = w1
  e1 = e1
  e2 = e2
  v1 = v1
  v2 = v2
  x1 = x1
  x2 = x2
  Oracles = {o1}
  F = 0
  Workflows = {w1}
  Execs = {e1, e2}
  WorkflowOf <- MCWorkflowOf
  Values = {v1, v2}
  Encoders = {x1, x2}
  NoEncoder = NoEncoder
  Observed <- MCObserved
  BatchSize = 1
  OutcomePruningThreshold = 1
  MaxSeqNr = 4
  MaxChanges = 1
  NoOutcome = NoOutcome
PROPERTY
  ReportedWorkflowsKeepOutcome
CHECK_DEADLOCK FALSE
