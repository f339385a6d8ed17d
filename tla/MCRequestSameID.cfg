\* Two requests with the same execution ID.
SPECIFICATION LiveSpec
CONSTANTS
  c1 = c1
  c2 = c2
  d1 = d1
  d2 = d2
  x = x
  y = y
  Calls = {c1, c2}
  Deliveries = {d1}
  IDs = {x}
  ReqID <- MCSameID
  RespID <- MCRespX
  Timeouts = {0, 1}
  CacheExpiry = 1
  MaxTime = 2
  BufferSizes = {1}
  NoCall = NoCall
  NoMsg = NoMsg
  Timeout = Timeout
PROPERTY
  AcceptedAreAnswered
CHECK_DEADLOCK FALSE
