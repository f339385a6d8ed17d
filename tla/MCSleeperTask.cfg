\* Three deliveries to a mailbox of two; every notification can be forwarded,
\* one more WakeUp and two Stops race with them.
SPECIFICATION Spec
CONSTANTS
  w1 = w1
  f1 = f1
  f2 = f2
  f3 = f3
  t1 = t1
  t2 = t2
  Starters = {}
  Closers = {t1, t2}
  IfStartedCalls = {w1, f1, f2, f3}
  IfNotStoppedCalls = {}
  Forwards = {f1, f2, f3}
  NoOne = NoOne
  Capacity = 2
  MaxDeliveries = 3
INVARIANTS
  MailboxFresh
  StopQuiet
PROPERTIES
  DeliveredHandled
CHECK_DEADLOCK FALSE
