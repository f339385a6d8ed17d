\* Two requests with different execution IDs, one response sent twice.
SPECIFICATION LiveSpec
CONSTANTS
  c1 = c1
  c2 = c2
  d1 = d1
  d2 = d2
  x = x
  y = y
  Calls = {c1, c2}
  Deliveries = {d1, d2}
  IDs = {x, y}
  ReqID <- MCReqID
  RespID <- MCRespID
  Timeouts = {0, 1}
  CacheExpiry = 1
  MaxTime = 2
  BufferSizes = {0, 1}
  NoCall = NoCall
  NoMsg = NoMsg
  Timeout = Timeout
INVARIANTS
  TypeOK
  StoreConsistent
  NoSendOnClosedChannel
  StoredRequestsExpire
  AnswersFit
  UnansweredArePending
PROPERTIES
  ExecuteReturns
  CloseReturns
  ImplementsRequestService
CHECK_DEADLOCK FALSE
