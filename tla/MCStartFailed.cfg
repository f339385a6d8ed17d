\* A Start hook that fails after the sub-services were started.
SPECIFICATION Spec
CONSTANTS
  s1 = s1
  s2 = s2
  t1 = t1
  t2 = t2
  r1 = r1
  n1 = n1
  Starters = {s1, s2}
  Closers = {t1, t2}
  IfStartedCalls = {r1}
  IfNotStoppedCalls = {n1}
  NoOne = NoOne
  NumSubs = 2
  Goroutines = {"g1", "g2"}
INVARIANT
  FailedStartClosesSubs
CHECK_DEADLOCK FALSE
