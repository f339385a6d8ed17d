--------------------------- MODULE RequestHandler ---------------------------
(***************************************************************************)
(* The path of a consensus request through one node's OCR3 capability:     *)
(* capability.Execute (pkg/capabilities/consensus/ocr3/capability.go), the *)
(* request handler's single worker goroutine and the Store the reporting   *)
(* plugin reads (pkg/capabilities/consensus/ocr3/requests).                *)
(*                                                                         *)
(* A call is one Execute(start_request): it is the identity of the         *)
(* goroutine, of its *Request and of the request's CallbackCh.  A delivery *)
(* is one Execute(send_response), as the contract transmitter makes it.    *)
(* Payloads are abstracted: a response is the delivery that carried it.    *)
(*                                                                         *)
(* One unit of `now' is one second, the period of the pending-request      *)
(* ticker.  CallbackCh has the capability's buffer size: at least one when *)
(* NewOCR3 configures it (0 becomes 10), and then a send on it never       *)
(* waits; NewCapability also takes 0, and then a send waits for the        *)
(* receive of its own Execute.                                             *)
(***************************************************************************)
EXTENDS RequestStore

CONSTANTS
  Calls,         \* Execute(start_request) calls
  Deliveries,    \* Execute(send_response) calls
  IDs,           \* workflow execution IDs
  ReqID,         \* the workflow execution ID of each call
  RespID,        \* the workflow execution ID of each delivery
  Timeouts,      \* request timeouts: the capability's own and per-request ones
  CacheExpiry,   \* cacheExpiryTime, also the period of the cache ticker
  MaxTime,       \* bound on the clock
  BufferSizes,   \* callbackChannelBufferSize, as the capability may be built
  NoCall, NoMsg, Timeout

ASSUME HandlerAssumption ==
  /\ ReqID \in [Calls -> IDs]
  /\ RespID \in [Deliveries -> IDs]
  /\ Timeouts \subseteq Nat
  /\ CacheExpiry \in Nat \ {0}
  /\ MaxTime \in Nat
  /\ BufferSizes \subseteq Nat
  /\ NoCall \notin Calls
  /\ NoMsg \notin Deliveries
  /\ Timeout \notin Deliveries
  /\ Timeout # NoMsg

Responses == Deliveries \cup {Timeout}

\* responseCacheEntry, and the absent entry of the response cache.
CacheEntries == [response : Deliveries \cup {NoMsg}, entryTime : Nat]
NoEntry == [response |-> NoMsg, entryTime |-> 0]

VARIABLES
  buffer,           \* the capability's callbackChannelBufferSize, never assigned
  pc,               \* pc[c]: where the Execute goroutine of call c is
  expiresAt,        \* expiresAt[c]: Request.ExpiresAt
  callbackCh,       \* NoMsg: open and unused; else: that response sent, closed
  returned,         \* the deliveries whose Execute has returned
  requestIDs,       \* Store.requestIDs
  requests,         \* Store.requests, NoCall where there is no entry
  pendingRequests,  \* Handler.pendingRequests, NoCall where there is no entry
  responseCache,    \* Handler.responseCache, response NoMsg where no entry
  wpc,              \* where the worker goroutine is
  wcall, wresp,     \* arguments of the sendResponse the worker is in
  wtodo,            \* expired IDs the running expirePendingRequests still has
  closing,          \* the engine's StopChan is closed
  now,              \* the clock
  pendingTick,      \* a tick waits in pendingRequestsExpiryTicker
  cacheTick,        \* a tick waits in responseCacheExpiryTicker
  accepted          \* history: the calls whose request the worker received

callVars   == <<buffer, pc, expiresAt>>
storeVars  == <<requestIDs, requests>>
workerVars == <<wpc, wcall, wresp, wtodo>>
clockVars  == <<now, pendingTick, cacheTick>>

vars == <<callVars, callbackCh, returned, storeVars, pendingRequests, responseCache,
          workerVars, closing, clockVars, accepted>>

-----------------------------------------------------------------------------
(* The store.                                                              *)

Add(c) ==
  IF requests[ReqID[c]] # NoCall
    THEN UNCHANGED storeVars        \* "already exists": the handler only logs
    ELSE /\ requestIDs' = Append(requestIDs, ReqID[c])
         /\ requests' = [requests EXCEPT ![ReqID[c]] = c]

WasPresent(id) == requests[id] # NoCall \/ InSeq(requestIDs, id)

\* Mutants of evict: it forgets the map, the list, or to evict at all.
evictListOnly(id) ==
  requestIDs' = Without(requestIDs, id) /\ UNCHANGED requests
evictMapOnly(id) ==
  requests' = [requests EXCEPT ![id] = NoCall] /\ UNCHANGED requestIDs
evictNothing(id) == UNCHANGED storeVars

evict(id) ==
  /\ requestIDs' = Without(requestIDs, id)
  /\ requests' = [requests EXCEPT ![id] = NoCall]

-----------------------------------------------------------------------------
(* capability.Execute, one goroutine per call.                             *)

\* Mutant of ExpiresAt: off by one.
ExpiresAtShort(t) == now + t - 1

\* Request.ExpiresAt of a request that is built now.
ExpiresAt(t) == now + t

\* start_request with valid inputs and config: the request is built and the
\* goroutine offers it to the worker.  The bound leaves time for the expiry.
Execute(c) ==
  /\ pc[c] = "idle"
  /\ \E t \in Timeouts :
       /\ now + t < MaxTime
       /\ expiresAt' = [expiresAt EXCEPT ![c] = ExpiresAt(t)]
  /\ pc' = [pc EXCEPT ![c] = "sendRequest"]
  /\ UNCHANGED <<buffer, callbackCh, returned, storeVars, pendingRequests,
                 responseCache, workerVars, closing, clockVars, accepted>>

\* Inputs or config fail validation: Execute returns before it queues anything.
ExecuteRejected(c) ==
  /\ pc[c] = "idle"
  /\ pc' = [pc EXCEPT ![c] = "failed"]
  /\ UNCHANGED <<buffer, expiresAt, callbackCh, returned, storeVars,
                 pendingRequests, responseCache, workerVars, closing, clockVars, accepted>>

\* The caller's context ends, while the request is offered or while its
\* answer is awaited: Execute returns the context's error.
ExecuteCancelled(c) ==
  /\ pc[c] \in {"sendRequest", "await"}
  /\ pc' = [pc EXCEPT ![c] = "failed"]
  /\ UNCHANGED <<buffer, expiresAt, callbackCh, returned, storeVars,
                 pendingRequests, responseCache, workerVars, closing, clockVars, accepted>>

ExecuteReceive(c) ==
  /\ pc[c] = "await"
  /\ callbackCh[c] # NoMsg
  /\ pc' = [pc EXCEPT ![c] = "answered"]
  /\ UNCHANGED <<buffer, expiresAt, callbackCh, returned, storeVars,
                 pendingRequests, responseCache, workerVars, closing, clockVars, accepted>>

\* send_response: the transmitter's goroutine offers a response from the
\* beginning; its context may end before the worker takes it.
SendResponseCancelled(d) ==
  /\ d \notin returned
  /\ returned' = returned \cup {d}
  /\ UNCHANGED <<callVars, callbackCh, storeVars, pendingRequests,
                 responseCache, workerVars, closing, clockVars, accepted>>

-----------------------------------------------------------------------------
(* The worker goroutine.                                                   *)

Start ==
  /\ wpc = "unstarted"
  /\ wpc' = "select"
  /\ UNCHANGED <<callVars, callbackCh, returned, storeVars, pendingRequests,
                 responseCache, wcall, wresp, wtodo, closing, clockVars,
                 accepted>>

\* case req := <-h.requestCh
WorkerRequest(c) ==
  LET id == ReqID[c] IN
  /\ wpc = "select"
  /\ pc[c] = "sendRequest"
  /\ pc' = [pc EXCEPT ![c] = "await"]
  /\ accepted' = accepted \cup {c}
  /\ pendingRequests' = [pendingRequests EXCEPT ![id] = c]
  /\ IF responseCache[id].response # NoMsg
       THEN /\ responseCache' = [responseCache EXCEPT ![id] = NoEntry]
            /\ wpc' = "send"
            /\ wcall' = c
            /\ wresp' = responseCache[id].response
            /\ UNCHANGED storeVars
       ELSE /\ Add(c)
            /\ UNCHANGED <<responseCache, wpc, wcall, wresp>>
  /\ UNCHANGED <<buffer, expiresAt, callbackCh, returned, wtodo, closing,
                 clockVars>>

\* case resp := <-h.responseCh
WorkerResponse(d) ==
  LET id == RespID[d] IN
  /\ wpc = "select"
  /\ d \notin returned
  /\ returned' = returned \cup {d}
  /\ evict(id)
  /\ IF WasPresent(id)
       THEN /\ wpc' = "send"
            /\ wcall' = requests[id]
            /\ wresp' = d
            /\ UNCHANGED responseCache
       ELSE /\ responseCache' = [responseCache EXCEPT
                 ![id] = [response |-> d, entryTime |-> now]]
            /\ UNCHANGED <<wpc, wcall, wresp>>
  /\ UNCHANGED <<callVars, callbackCh, pendingRequests, wtodo, closing,
                 clockVars, accepted>>

\* Where the worker goes after sendResponse: on with the expiry loop it is
\* in, or back to its select.
SendReturns ==
  /\ wpc' = IF wtodo = {} THEN "select" ELSE "expire"
  /\ wcall' = NoCall
  /\ wresp' = NoMsg
  /\ UNCHANGED wtodo

\* sendResponse, the branch that sends: send, close the channel, delete the
\* pending entry.  On a channel without a buffer the send needs the Execute
\* that receives it, which has its answer in the same step.
SendCallback ==
  /\ wpc = "send"
  /\ \/ buffer > 0 /\ UNCHANGED pc
     \/ buffer = 0 /\ pc[wcall] = "await" /\ pc' = [pc EXCEPT ![wcall] = "answered"]
  /\ callbackCh' = [callbackCh EXCEPT ![wcall] = wresp]
  /\ pendingRequests' = [pendingRequests EXCEPT ![ReqID[wcall]] = NoCall]
  /\ SendReturns
  /\ UNCHANGED <<buffer, expiresAt, returned, storeVars, responseCache, closing,
                 clockVars, accepted>>

\* Mutants of SendAbandoned: sendResponse is a plain send, without a case for
\* ctx.Done(); and the pending entry is deleted on every path.
SendAbandonedNever == FALSE
SendAbandonedDeletes ==
  /\ wpc = "send"
  /\ closing
  /\ pendingRequests' = [pendingRequests EXCEPT ![ReqID[wcall]] = NoCall]
  /\ SendReturns
  /\ UNCHANGED <<callVars, callbackCh, returned, storeVars, responseCache,
                 closing, clockVars, accepted>>

\* sendResponse, the branch taken when the handler is closing.
SendAbandoned ==
  /\ wpc = "send"
  /\ closing
  /\ SendReturns
  /\ UNCHANGED <<callVars, callbackCh, returned, storeVars, pendingRequests,
                 responseCache, closing, clockVars, accepted>>

\* Mutants of Expired: a tick too early, and Before for After.
ExpiredEarly(c) == now >= expiresAt[c]
ExpiredReversed(c) == now < expiresAt[c]

\* now.After(req.ExpiresAt)
Expired(c) == now > expiresAt[c]

\* case <-pendingRequestsExpiryTicker.Chan(): expirePendingRequests reads the
\* clock once and walks the map; the loop's body is ExpireOne.
ExpirePendingRequests ==
  LET todo == {id \in IDs : /\ pendingRequests[id] # NoCall
                            /\ Expired(pendingRequests[id])}
  IN
  /\ wpc = "select"
  /\ pendingTick
  /\ pendingTick' = FALSE
  /\ wtodo' = todo
  /\ wpc' = IF todo = {} THEN "select" ELSE "expire"
  /\ UNCHANGED <<callVars, callbackCh, returned, storeVars, pendingRequests,
                 responseCache, wcall, wresp, closing, now, cacheTick,
                 accepted>>

ExpireOne(id) ==
  /\ wpc = "expire"
  /\ id \in wtodo
  /\ evict(id)
  /\ wcall' = pendingRequests[id]
  /\ wresp' = Timeout
  /\ wtodo' = wtodo \ {id}
  /\ wpc' = "send"
  /\ UNCHANGED <<callVars, callbackCh, returned, pendingRequests, responseCache,
                 closing, clockVars, accepted>>

\* case <-responseCacheExpiryTicker.Chan()
ExpireCachedResponses ==
  /\ wpc = "select"
  /\ cacheTick
  /\ cacheTick' = FALSE
  /\ responseCache' = [id \in IDs |->
       IF now - responseCache[id].entryTime > CacheExpiry
         THEN NoEntry
         ELSE responseCache[id]]
  /\ UNCHANGED <<callVars, callbackCh, returned, storeVars, pendingRequests,
                 workerVars, closing, now, pendingTick, accepted>>

\* case <-ctx.Done()
WorkerExit ==
  /\ wpc = "select"
  /\ closing
  /\ wpc' = "exited"
  /\ UNCHANGED <<callVars, callbackCh, returned, storeVars, pendingRequests,
                 responseCache, wcall, wresp, wtodo, closing, clockVars,
                 accepted>>

\* Close of the handler's service closes the StopChan and waits for the
\* worker to exit.
Close ==
  /\ wpc # "unstarted"
  /\ ~closing
  /\ closing' = TRUE
  /\ UNCHANGED <<callVars, callbackCh, returned, storeVars, pendingRequests,
                 responseCache, workerVars, clockVars, accepted>>

\* A second passes.  A ticker's channel holds one tick: a tick the worker has
\* not read yet absorbs the next one.  The clock stays at its bound MaxTime,
\* where every request there can be has expired, but the tickers go on.
Advance ==
  /\ wpc # "unstarted"
  /\ now' = IF now < MaxTime THEN now + 1 ELSE now
  /\ pendingTick' = TRUE
  /\ cacheTick' = (cacheTick \/ (now + 1) % CacheExpiry = 0)
  /\ UNCHANGED <<callVars, callbackCh, returned, storeVars, pendingRequests,
                 responseCache, workerVars, closing, accepted>>

-----------------------------------------------------------------------------

Init ==
  /\ buffer \in BufferSizes
  /\ pc = [c \in Calls |-> "idle"]
  /\ expiresAt = [c \in Calls |-> 0]
  /\ callbackCh = [c \in Calls |-> NoMsg]
  /\ returned = {}
  /\ requestIDs = << >>
  /\ requests = [id \in IDs |-> NoCall]
  /\ pendingRequests = [id \in IDs |-> NoCall]
  /\ responseCache = [id \in IDs |-> NoEntry]
  /\ wpc = "unstarted"
  /\ wcall = NoCall
  /\ wresp = NoMsg
  /\ wtodo = {}
  /\ closing = FALSE
  /\ now = 0
  /\ pendingTick = FALSE
  /\ cacheTick = FALSE
  /\ accepted = {}

CallNext(c) ==
  \/ Execute(c)
  \/ ExecuteRejected(c)
  \/ ExecuteCancelled(c)
  \/ ExecuteReceive(c)
  \/ WorkerRequest(c)

DeliveryNext(d) ==
  \/ SendResponseCancelled(d)
  \/ WorkerResponse(d)

Next ==
  \/ \E c \in Calls : CallNext(c)
  \/ \E d \in Deliveries : DeliveryNext(d)
  \/ \E id \in IDs : ExpireOne(id)
  \/ Start
  \/ SendCallback
  \/ SendAbandoned
  \/ ExpirePendingRequests
  \/ ExpireCachedResponses
  \/ WorkerExit
  \/ Close
  \/ Advance

Spec == Init /\ [][Next]_vars

(* The goroutines run and time passes.  Go's select picks at random among  *)
(* the branches that are ready, so a branch that is ready again and again  *)
(* is taken: strong fairness for the branches that compete with the        *)
(* tickers, which never fall silent.  No fairness is assumed of callers,   *)
(* of the transmitter or of Close.                                         *)
Fairness ==
  /\ WF_vars(Advance)
  /\ WF_vars(SendCallback \/ SendAbandoned)
  /\ WF_vars(ExpirePendingRequests)
  /\ WF_vars(\E id \in IDs : ExpireOne(id))
  /\ SF_vars(WorkerExit)
  /\ \A c \in Calls : SF_vars(WorkerRequest(c)) /\ WF_vars(ExecuteReceive(c))

LiveSpec == Spec /\ Fairness

-----------------------------------------------------------------------------
(* Properties.                                                             *)

\* Every variable has its type.
TypeOK ==
  /\ buffer \in Nat
  /\ pc \in [Calls -> {"idle", "sendRequest", "await", "answered", "failed"}]
  /\ expiresAt \in [Calls -> Nat]
  /\ callbackCh \in [Calls -> Responses \cup {NoMsg}]
  /\ returned \subseteq Deliveries
  /\ requestIDs \in Seq(IDs)
  /\ requests \in [IDs -> Calls \cup {NoCall}]
  /\ pendingRequests \in [IDs -> Calls \cup {NoCall}]
  /\ responseCache \in [IDs -> CacheEntries]
  /\ wpc \in {"unstarted", "select", "send", "expire", "exited"}
  /\ wcall \in Calls \cup {NoCall}
  /\ wresp \in Responses \cup {NoMsg}
  /\ wtodo \subseteq IDs
  /\ closing \in BOOLEAN
  /\ now \in Nat
  /\ pendingTick \in BOOLEAN
  /\ cacheTick \in BOOLEAN
  /\ accepted \subseteq Calls

\* The store's list and its map hold the same IDs and the list holds none
\* twice: what Store.evict reports as present it can also hand out (it never
\* returns a nil request as found), and Query's batch never repeats an ID.
StoreConsistent ==
  /\ \A i, j \in 1..Len(requestIDs) : requestIDs[i] = requestIDs[j] => i = j
  /\ \A id \in IDs : requests[id] # NoCall <=> InSeq(requestIDs, id)

\* sendResponse never runs on a request whose CallbackCh it has already used
\* and closed (a send on a closed channel would panic the worker), whatever
\* the execution IDs are and however responses, retries and expiries mix.
NoSendOnClosedChannel ==
  wpc = "send" => wcall \in Calls /\ callbackCh[wcall] = NoMsg

\* A request the reporting plugin can see is always within reach of
\* expirePendingRequests, so no request stays in the store for ever; and a
\* response is never cached while a request that it answers is stored.
StoredRequestsExpire ==
  \A id \in IDs : requests[id] # NoCall =>
    /\ pendingRequests[id] # NoCall
    /\ responseCache[id].response = NoMsg

\* An answer fits its request: a response carries the request's execution ID,
\* and a timeout is only ever sent after ExpiresAt.
AnswersFit ==
  \A c \in Calls : callbackCh[c] # NoMsg =>
    \/ callbackCh[c] = Timeout /\ now > expiresAt[c]
    \/ callbackCh[c] \in Deliveries /\ RespID[callbackCh[c]] = ReqID[c]

\* No two calls carry the same workflow execution ID.
UniqueIDs == \A c1, c2 \in Calls : ReqID[c1] = ReqID[c2] => c1 = c2

\* A request the worker accepted and has not answered is the pending request
\* of its ID, so the expiry timer has it.  Holds when IDs are unique.
UnansweredArePending ==
  \A c \in accepted : callbackCh[c] = NoMsg => pendingRequests[ReqID[c]] = c

\* The worker waits for a receiver that is gone: the channel has no buffer and
\* the Execute that would read it has returned.  Only Close ends this wait.
SendBlocked ==
  /\ buffer = 0
  /\ wpc = "send"
  /\ pc[wcall] # "await"

\* While the handler runs, every accepted request is answered: the "timer"
\* of queueRequestForProcessing's comment.
AcceptedAreAnswered ==
  \A c \in Calls : c \in accepted ~> callbackCh[c] # NoMsg \/ closing

\* While the handler runs, every Execute that offered a request returns; only
\* a worker that an unbuffered channel holds up for a caller that gave up can
\* leave the others waiting.
ExecuteReturns ==
  \A c \in Calls : pc[c] = "sendRequest" /\ wpc # "unstarted"
                     ~> pc[c] \in {"answered", "failed"} \/ closing \/ SendBlocked

\* Close returns: the worker leaves its loop whatever it is doing, in the
\* middle of an expiry and in a send that nobody receives included.
CloseReturns == closing ~> wpc = "exited"

\* The handler gives its callers the abstract request service, which is at an
\* end when the handler closes or its worker waits for a caller that is gone.
Service == INSTANCE RequestService
  WITH queued <- accepted, answer <- callbackCh, stopped <- closing \/ SendBlocked

\* The handler implements the request service, its liveness included: one
\* answer per accepted call, for the call's own ID, and eventually so.
ImplementsRequestService == Service!Spec
=============================================================================
