------------------------ MODULE RequestHandlerProofs ------------------------
(***************************************************************************)
(* Theorems about RequestHandler, for every set of calls, deliveries and   *)
(* IDs and every assignment of IDs to calls: type correctness, the safety  *)
(* invariants, and that the handler implements the safety part of          *)
(* RequestService.  The inductive invariant IInv adds to the properties    *)
(* what ties the worker's local state to the maps.                         *)
(***************************************************************************)
EXTENDS RequestHandler, SequenceTheorems, TLAPS

-----------------------------------------------------------------------------
(* The store's list operators, for every list.                             *)

NoRepeats(s) == \A i, j \in 1..Len(s) : s[i] = s[j] => i = j

\* Without returns a sequence over the same set.
LEMMA WithoutType ==
  ASSUME NEW S, NEW s \in Seq(S), NEW id
  PROVE  Without(s, id) \in Seq(S)
<1>1. CASE InSeq(s, id)
  <2>1. PICK i \in 1..Len(s) : i = CHOOSE j \in 1..Len(s) : s[j] = id
    BY <1>1 DEF InSeq
  <2>2. Without(s, id) = SubSeq(s, 1, i - 1) \o SubSeq(s, i + 1, Len(s))
    BY <1>1, <2>1 DEF Without, InSeq
  <2>3. SubSeq(s, 1, i - 1) \in Seq(S) /\ SubSeq(s, i + 1, Len(s)) \in Seq(S)
    BY SubSeqProperties, LenProperties
  <2> QED BY <2>2, <2>3, ConcatProperties
<1>2. CASE ~InSeq(s, id)
  BY <1>2 DEF Without, InSeq
<1> QED BY <1>1, <1>2

\* Removing an ID from a list without repetitions leaves a list without
\* repetitions that holds exactly the other IDs.
LEMMA WithoutProperties ==
  ASSUME NEW S, NEW s \in Seq(S), NEW id, NoRepeats(s)
  PROVE  /\ NoRepeats(Without(s, id))
         /\ \A x \in S : InSeq(Without(s, id), x) <=> InSeq(s, x) /\ x # id
<1>1. CASE InSeq(s, id)
  <2>1. PICK i \in 1..Len(s) : /\ i = CHOOSE j \in 1..Len(s) : s[j] = id
                               /\ s[i] = id
    BY <1>1 DEF InSeq
  <2> DEFINE a == SubSeq(s, 1, i - 1)
             b == SubSeq(s, i + 1, Len(s))
             t == a \o b
             n == Len(s)
  <2>2. Without(s, id) = t
    BY <1>1, <2>1 DEF Without, InSeq
  <2>3. n \in Nat /\ i \in 1..n
    BY LenProperties
  <2>4. /\ a \in Seq(S) /\ Len(a) = i - 1
        /\ \A k \in 1..(i - 1) : a[k] = s[k]
    BY <2>3, SubSeqProperties
  <2>5. /\ b \in Seq(S) /\ Len(b) = n - i
        /\ \A k \in 1..(n - i) : b[k] = s[i + k]
    BY <2>3, SubSeqProperties
  <2>6. /\ t \in Seq(S) /\ Len(t) = n - 1
        /\ \A k \in 1..(n - 1) : t[k] = IF k < i THEN s[k] ELSE s[k + 1]
    <3>1. /\ Len(t) = Len(a) + Len(b)
          /\ \A k \in 1..(Len(a) + Len(b)) :
               t[k] = IF k <= Len(a) THEN a[k] ELSE b[k - Len(a)]
      BY <2>4, <2>5, ConcatProperties
    <3>2. t \in Seq(S)
      BY <2>4, <2>5, ConcatProperties
    <3> HIDE DEF a, b, t
    <3>3. Len(t) = n - 1
      BY <3>1, <2>3, <2>4, <2>5
    <3>4. ASSUME NEW k \in 1..(n - 1)
          PROVE  t[k] = IF k < i THEN s[k] ELSE s[k + 1]
      <4>1. CASE k < i
        BY <3>1, <4>1, <2>3, <2>4, <2>5
      <4>2. CASE ~(k < i)
        <5>1. k - (i - 1) \in 1..(n - i) /\ i + (k - (i - 1)) = k + 1
          BY <4>2, <2>3
        <5>2. t[k] = b[k - (i - 1)]
          BY <3>1, <4>2, <2>3, <2>4, <2>5
        <5> QED BY <5>1, <5>2, <4>2, <2>5
      <4> QED BY <4>1, <4>2
    <3> QED BY <3>2, <3>3, <3>4
  <2> HIDE DEF a, b, t
  <2>7. NoRepeats(t)
    BY <2>3, <2>6 DEF NoRepeats
  <2>8. ASSUME NEW x \in S PROVE InSeq(t, x) <=> InSeq(s, x) /\ x # id
    <3>1. ASSUME InSeq(t, x) PROVE InSeq(s, x) /\ x # id
      <4>1. PICK k \in 1..(n - 1) : t[k] = x
        BY <3>1, <2>6 DEF InSeq
      <4>2. PICK m \in 1..n : m # i /\ s[m] = x
        BY <4>1, <2>3, <2>6
      <4> QED BY <4>2, <2>1, <2>3 DEF InSeq, NoRepeats
    <3>2. ASSUME InSeq(s, x), x # id PROVE InSeq(t, x)
      <4>1. PICK m \in 1..n : s[m] = x
        BY <3>2 DEF InSeq
      <4>2. m # i
        BY <4>1, <3>2, <2>1
      <4>3. CASE m < i
        <5>1. m \in 1..(n - 1)
          BY <4>3, <2>3
        <5>2. t[m] = x
          BY <5>1, <4>1, <4>3, <2>6
        <5> QED BY <5>1, <5>2, <2>6 DEF InSeq
      <4>4. CASE m > i
        <5>1. m - 1 \in 1..(n - 1) /\ ~(m - 1 < i) /\ (m - 1) + 1 = m
          BY <4>4, <2>3
        <5>2. t[m - 1] = x
          BY <5>1, <4>1, <2>6
        <5> QED BY <5>1, <5>2, <2>6 DEF InSeq
      <4> QED BY <4>2, <4>3, <4>4, <2>3
    <3> QED BY <3>1, <3>2
  <2> QED BY <2>2, <2>7, <2>8
<1>2. CASE ~InSeq(s, id)
  BY <1>2 DEF Without, InSeq
<1> QED BY <1>1, <1>2

\* Appending an ID that the list does not hold.
LEMMA AppendNew ==
  ASSUME NEW S, NEW s \in Seq(S), NEW id \in S, NoRepeats(s), ~InSeq(s, id)
  PROVE  /\ NoRepeats(Append(s, id))
         /\ \A x \in S : InSeq(Append(s, id), x) <=> InSeq(s, x) \/ x = id
<1> DEFINE t == Append(s, id)
           n == Len(s)
<1>1. /\ n \in Nat /\ Len(t) = n + 1 /\ t[n + 1] = id
      /\ \A k \in 1..n : t[k] = s[k]
  BY AppendProperties, LenProperties
<1> HIDE DEF t
<1>2. NoRepeats(t)
  BY <1>1 DEF NoRepeats, InSeq
<1>3. ASSUME NEW x \in S PROVE InSeq(t, x) <=> InSeq(s, x) \/ x = id
  BY <1>1 DEF InSeq
<1> QED BY <1>2, <1>3 DEF t

-----------------------------------------------------------------------------

USE DEF Responses

\* What the worker puts into the response cache is a cache entry.
LEMMA CacheEntryType ==
  /\ NoEntry \in CacheEntries
  /\ NoEntry.response = NoMsg
  /\ \A d \in Deliveries, t \in Nat :
       /\ [response |-> d, entryTime |-> t] \in CacheEntries
       /\ [response |-> d, entryTime |-> t].response = d
  /\ \A e \in CacheEntries :
       e.response \in Deliveries \cup {NoMsg} /\ e.entryTime \in Nat
BY DEF NoEntry, CacheEntries

-----------------------------------------------------------------------------
(* The inductive invariant.                                                *)

\* What the store and the pending map hold under an ID is an accepted, still
\* unanswered call with that ID.
HoldsOwn(m) ==
  \A id \in IDs : m[id] # NoCall =>
    /\ m[id] \in accepted
    /\ ReqID[m[id]] = id
    /\ callbackCh[m[id]] = NoMsg

\* A cached response sits under its own ID.
CacheKeyed ==
  \A id \in IDs : responseCache[id].response # NoMsg =>
    RespID[responseCache[id].response] = id

\* The request the worker is answering is accepted, unanswered, no longer
\* stored, and not in the rest of the running expiry loop.
Sending ==
  wpc = "send" =>
    /\ wcall \in accepted
    /\ callbackCh[wcall] = NoMsg
    /\ requests[ReqID[wcall]] = NoCall
    /\ ReqID[wcall] \notin wtodo
    /\ \/ wresp = Timeout /\ Expired(wcall)
       \/ wresp \in Deliveries /\ RespID[wresp] = ReqID[wcall]

\* The rest of the expiry loop is pending and expired.
Expiring ==
  /\ \A id \in wtodo : pendingRequests[id] # NoCall /\ Expired(pendingRequests[id])
  /\ wtodo # {} => wpc \in {"send", "expire"}

\* An accepted call is past SendRequest; only accepted calls are answered.
AcceptedCalls ==
  /\ \A c \in accepted : pc[c] \notin {"idle", "sendRequest"}
  /\ \A c \in Calls : callbackCh[c] # NoMsg => c \in accepted

IInv ==
  /\ TypeOK
  /\ StoreConsistent
  /\ HoldsOwn(requests)
  /\ HoldsOwn(pendingRequests)
  /\ StoredRequestsExpire
  /\ CacheKeyed
  /\ Sending
  /\ Expiring
  /\ AcceptedCalls
  /\ AnswersFit

-----------------------------------------------------------------------------
(* Type correctness.                                                       *)

\* Every step of the handler, of a call or of the transmitter keeps the types.
LEMMA TypeStep == TypeOK /\ [Next]_vars => TypeOK'
<1> SUFFICES ASSUME TypeOK, [Next]_vars PROVE TypeOK'
  OBVIOUS
<1> USE HandlerAssumption DEF TypeOK, callVars, storeVars, workerVars, clockVars
<1>1. ASSUME NEW c \in Calls, Execute(c) PROVE TypeOK'
  BY <1>1 DEF Execute, ExpiresAt
<1>2. ASSUME NEW c \in Calls, ExecuteRejected(c) PROVE TypeOK'
  BY <1>2 DEF ExecuteRejected
<1>3. ASSUME NEW c \in Calls, ExecuteCancelled(c) PROVE TypeOK'
  BY <1>3 DEF ExecuteCancelled
<1>4. ASSUME NEW c \in Calls, ExecuteReceive(c) PROVE TypeOK'
  BY <1>4 DEF ExecuteReceive
<1>5. ASSUME NEW c \in Calls, WorkerRequest(c) PROVE TypeOK'
  <2>1. ReqID[c] \in IDs
    OBVIOUS
  <2>2. requestIDs' \in Seq(IDs) /\ requests' \in [IDs -> Calls \cup {NoCall}]
    <3>1. Append(requestIDs, ReqID[c]) \in Seq(IDs)
      BY <2>1, AppendProperties
    <3> QED BY <3>1, <2>1, <1>5 DEF WorkerRequest, Add
  <2>3. /\ responseCache' \in [IDs -> CacheEntries]
        /\ wresp' \in Responses \cup {NoMsg}
    <3>1. /\ responseCache[ReqID[c]] \in CacheEntries
          /\ responseCache[ReqID[c]].response \in Deliveries \cup {NoMsg}
      BY <2>1, CacheEntryType
    <3>2. CASE responseCache[ReqID[c]].response # NoMsg
      <4>1. /\ responseCache' = [responseCache EXCEPT ![ReqID[c]] = NoEntry]
            /\ wresp' = responseCache[ReqID[c]].response
        BY <3>2, <1>5 DEF WorkerRequest
      <4>2. NoEntry \in CacheEntries
        BY CacheEntryType
      <4> QED BY <4>1, <4>2, <3>1
    <3>3. CASE responseCache[ReqID[c]].response = NoMsg
      BY <3>3, <1>5 DEF WorkerRequest
    <3> QED BY <3>2, <3>3
  <2> QED BY <2>1, <2>2, <2>3, <1>5 DEF WorkerRequest
<1>6. ASSUME NEW d \in Deliveries, SendResponseCancelled(d) PROVE TypeOK'
  BY <1>6 DEF SendResponseCancelled
<1>7. ASSUME NEW d \in Deliveries, WorkerResponse(d) PROVE TypeOK'
  <2>1. RespID[d] \in IDs
    OBVIOUS
  <2>2. requestIDs' \in Seq(IDs) /\ requests' \in [IDs -> Calls \cup {NoCall}]
    BY <2>1, <1>7, WithoutType DEF WorkerResponse, evict
  <2>3. /\ responseCache' \in [IDs -> CacheEntries]
        /\ wcall' \in Calls \cup {NoCall}
        /\ wresp' \in Responses \cup {NoMsg}
    <3>1. [response |-> d, entryTime |-> now] \in CacheEntries
      BY CacheEntryType
    <3>2. CASE WasPresent(RespID[d])
      BY <3>2, <2>1, <1>7 DEF WorkerResponse
    <3>3. CASE ~WasPresent(RespID[d])
      <4>1. /\ responseCache' = [responseCache EXCEPT
                  ![RespID[d]] = [response |-> d, entryTime |-> now]]
            /\ UNCHANGED <<wcall, wresp>>
        BY <3>3, <1>7 DEF WorkerResponse
      <4> QED BY <4>1, <3>1, <2>1
    <3> QED BY <3>2, <3>3
  <2> QED BY <2>1, <2>2, <2>3, <1>7 DEF WorkerResponse
<1>8. ASSUME NEW id \in IDs, ExpireOne(id) PROVE TypeOK'
  BY <1>8, WithoutType DEF ExpireOne, evict
<1>9. CASE Start
  BY <1>9 DEF Start
<1>10. CASE SendCallback
  BY <1>10 DEF SendCallback, SendReturns
<1>11. CASE SendAbandoned
  BY <1>11 DEF SendAbandoned, SendReturns
<1>12. CASE ExpirePendingRequests
  BY <1>12 DEF ExpirePendingRequests
<1>13. CASE ExpireCachedResponses
  BY <1>13, CacheEntryType DEF ExpireCachedResponses
<1>14. CASE WorkerExit
  BY <1>14 DEF WorkerExit
<1>15. CASE Close
  BY <1>15 DEF Close
<1>16. CASE Advance
  BY <1>16 DEF Advance
<1>17. CASE UNCHANGED vars
  BY <1>17 DEF vars
<1> QED BY <1>1, <1>2, <1>3, <1>4, <1>5, <1>6, <1>7, <1>8, <1>9, <1>10, <1>11, <1>12, <1>13, <1>14, <1>15, <1>16, <1>17
     DEF Next, CallNext, DeliveryNext

\* The handler starts well typed.
LEMMA InitType == Init => TypeOK
<1> SUFFICES ASSUME Init PROVE TypeOK
  OBVIOUS
<1>1. NoEntry \in CacheEntries /\ << >> \in Seq(IDs)
  BY CacheEntryType, EmptySeq
<1> QED BY <1>1, HandlerAssumption DEF Init, TypeOK

\* Type correctness of the request handler, for every instance.
THEOREM TypeCorrect == Spec => []TypeOK
BY InitType, TypeStep, PTL DEF Spec

-----------------------------------------------------------------------------
(* The inductive invariant is inductive.                                   *)

\* The invariant holds before anything is requested.
LEMMA InitIInv == Init => IInv
<1> SUFFICES ASSUME Init PROVE IInv
  OBVIOUS
<1>1. TypeOK
  BY InitType
<1>2. StoreConsistent
  BY EmptySeq DEF Init, StoreConsistent, InSeq
<1>3. /\ HoldsOwn(requests) /\ HoldsOwn(pendingRequests)
      /\ StoredRequestsExpire /\ Sending /\ Expiring /\ AcceptedCalls
      /\ AnswersFit
  BY DEF Init, HoldsOwn, StoredRequestsExpire, Sending, Expiring,
         AcceptedCalls, AnswersFit
<1>4. CacheKeyed
  BY CacheEntryType DEF Init, CacheKeyed
<1> QED BY <1>1, <1>2, <1>3, <1>4 DEF IInv

\* The parts of the invariant that only speak of the store, the pending map
\* and the cache survive any step that leaves those, the accepted calls and
\* the answers alone.
LEMMA MapsUnchanged ==
  ASSUME IInv, UNCHANGED <<storeVars, pendingRequests, responseCache,
                           accepted, callbackCh>>
  PROVE  /\ StoreConsistent'
         /\ HoldsOwn(requests)' /\ HoldsOwn(pendingRequests)'
         /\ StoredRequestsExpire'
         /\ CacheKeyed'
BY DEF IInv, StoreConsistent, HoldsOwn, StoredRequestsExpire, CacheKeyed,
       storeVars, InSeq

\* Eviction keeps the store's list and map together.
LEMMA EvictConsistent ==
  ASSUME TypeOK, StoreConsistent, NEW id \in IDs, evict(id)
  PROVE  StoreConsistent'
<1>1. NoRepeats(requestIDs)
  BY DEF StoreConsistent, NoRepeats
<1>2. /\ requestIDs' = Without(requestIDs, id)
      /\ requests' = [requests EXCEPT ![id] = NoCall]
      /\ requestIDs \in Seq(IDs)
      /\ requests \in [IDs -> Calls \cup {NoCall}]
  BY DEF evict, TypeOK
<1>3. /\ NoRepeats(requestIDs')
      /\ \A x \in IDs : InSeq(requestIDs', x) <=> InSeq(requestIDs, x) /\ x # id
  BY <1>1, <1>2, WithoutProperties
<1>4. \A x \in IDs : requests'[x] # NoCall <=> requests[x] # NoCall /\ x # id
  BY <1>2
<1>5. \A x \in IDs : requests[x] # NoCall <=> InSeq(requestIDs, x)
  BY DEF StoreConsistent
<1>6. \A x \in IDs : requests'[x] # NoCall <=> InSeq(requestIDs', x)
  BY <1>3, <1>4, <1>5
<1> QED BY <1>3, <1>6 DEF StoreConsistent, NoRepeats, InSeq

\* Every step of the callers, the worker and the clock preserves it.
LEMMA StepIInv == IInv /\ [Next]_vars => IInv'
<1> SUFFICES ASSUME IInv, [Next]_vars PROVE IInv'
  OBVIOUS
<1> USE HandlerAssumption DEF callVars, workerVars, clockVars
<1>t. TypeOK /\ TypeOK'
  BY TypeStep DEF IInv
<1>1. ASSUME NEW c \in Calls, Execute(c) PROVE IInv'
  <2>1. UNCHANGED <<storeVars, pendingRequests, responseCache, accepted, callbackCh>>
    BY <1>1 DEF Execute, ExpiresAt
  <2>2. /\ c \notin accepted
        /\ \A b \in accepted : expiresAt'[b] = expiresAt[b] /\ pc'[b] = pc[b]
        /\ UNCHANGED <<wpc, wcall, wresp, wtodo, now>>
    BY <1>t, <1>1 DEF Execute, IInv, AcceptedCalls, TypeOK
  <2>3. Sending'
    BY <2>1, <2>2 DEF IInv, Sending, Expired, storeVars
  <2>4. Expiring'
    BY <1>t, <2>1, <2>2 DEF IInv, Expiring, HoldsOwn, Expired, TypeOK
  <2>5. AcceptedCalls' /\ AnswersFit'
    BY <2>1, <2>2 DEF IInv, AcceptedCalls, AnswersFit, Expired
  <2> QED BY <1>t, <2>1, <2>3, <2>4, <2>5, MapsUnchanged DEF IInv
<1>2. ASSUME NEW c \in Calls, ExecuteRejected(c) PROVE IInv'
  <2>1. UNCHANGED <<storeVars, pendingRequests, responseCache, accepted, callbackCh>>
    BY <1>2 DEF ExecuteRejected
  <2>2. Sending' /\ Expiring' /\ AcceptedCalls' /\ AnswersFit'
    BY <1>t, <1>2, <2>1 DEF ExecuteRejected, IInv, TypeOK, Sending, Expiring,
       AcceptedCalls, AnswersFit, Expired, storeVars
  <2> QED BY <1>t, <2>1, <2>2, MapsUnchanged DEF IInv
<1>3. ASSUME NEW c \in Calls, ExecuteCancelled(c) PROVE IInv'
  <2>1. UNCHANGED <<storeVars, pendingRequests, responseCache, accepted, callbackCh>>
    BY <1>3 DEF ExecuteCancelled
  <2>2. Sending' /\ Expiring' /\ AcceptedCalls' /\ AnswersFit'
    BY <1>t, <1>3, <2>1 DEF ExecuteCancelled, IInv, TypeOK, Sending, Expiring,
       AcceptedCalls, AnswersFit, Expired, storeVars
  <2> QED BY <1>t, <2>1, <2>2, MapsUnchanged DEF IInv
<1>4. ASSUME NEW c \in Calls, ExecuteReceive(c) PROVE IInv'
  <2>1. UNCHANGED <<storeVars, pendingRequests, responseCache, accepted, callbackCh>>
    BY <1>4 DEF ExecuteReceive
  <2>2. Sending' /\ Expiring' /\ AcceptedCalls' /\ AnswersFit'
    BY <1>t, <1>4, <2>1 DEF ExecuteReceive, IInv, TypeOK, Sending, Expiring,
       AcceptedCalls, AnswersFit, Expired, storeVars
  <2> QED BY <1>t, <2>1, <2>2, MapsUnchanged DEF IInv
<1>5. ASSUME NEW d \in Deliveries, SendResponseCancelled(d) PROVE IInv'
  <2>1. UNCHANGED <<storeVars, pendingRequests, responseCache, accepted, callbackCh>>
    BY <1>5 DEF SendResponseCancelled
  <2>2. Sending' /\ Expiring' /\ AcceptedCalls' /\ AnswersFit'
    BY <1>t, <1>5, <2>1 DEF SendResponseCancelled, IInv, TypeOK, Sending, Expiring,
       AcceptedCalls, AnswersFit, Expired, storeVars
  <2> QED BY <1>t, <2>1, <2>2, MapsUnchanged DEF IInv
<1>6. CASE Start
  <2>1. UNCHANGED <<storeVars, pendingRequests, responseCache, accepted, callbackCh>>
    BY <1>6 DEF Start
  <2>2. Sending' /\ Expiring' /\ AcceptedCalls' /\ AnswersFit'
    BY <1>t, <1>6, <2>1 DEF Start, IInv, TypeOK, Sending, Expiring,
       AcceptedCalls, AnswersFit, Expired, storeVars
  <2> QED BY <1>t, <2>1, <2>2, MapsUnchanged DEF IInv
<1>7. CASE SendAbandoned
  <2>1. UNCHANGED <<storeVars, pendingRequests, responseCache, accepted, callbackCh>>
    BY <1>7 DEF SendAbandoned, SendReturns
  <2>2. Sending' /\ Expiring' /\ AcceptedCalls' /\ AnswersFit'
    BY <1>t, <1>7, <2>1 DEF SendAbandoned, SendReturns, IInv, TypeOK, Sending, Expiring,
       AcceptedCalls, AnswersFit, Expired, storeVars
  <2> QED BY <1>t, <2>1, <2>2, MapsUnchanged DEF IInv
<1>8. CASE ExpirePendingRequests
  <2>1. UNCHANGED <<storeVars, pendingRequests, responseCache, accepted, callbackCh>>
    BY <1>8 DEF ExpirePendingRequests
  <2>2. Sending' /\ Expiring' /\ AcceptedCalls' /\ AnswersFit'
    BY <1>t, <1>8, <2>1 DEF ExpirePendingRequests, IInv, TypeOK, Sending, Expiring,
       AcceptedCalls, AnswersFit, Expired, storeVars
  <2> QED BY <1>t, <2>1, <2>2, MapsUnchanged DEF IInv
<1>9. CASE WorkerExit
  <2>1. UNCHANGED <<storeVars, pendingRequests, responseCache, accepted, callbackCh>>
    BY <1>9 DEF WorkerExit
  <2>2. Sending' /\ Expiring' /\ AcceptedCalls' /\ AnswersFit'
    BY <1>t, <1>9, <2>1 DEF WorkerExit, IInv, TypeOK, Sending, Expiring,
       AcceptedCalls, AnswersFit, Expired, storeVars
  <2> QED BY <1>t, <2>1, <2>2, MapsUnchanged DEF IInv
<1>10. CASE Close
  <2>1. UNCHANGED <<storeVars, pendingRequests, responseCache, accepted, callbackCh>>
    BY <1>10 DEF Close
  <2>2. Sending' /\ Expiring' /\ AcceptedCalls' /\ AnswersFit'
    BY <1>t, <1>10, <2>1 DEF Close, IInv, TypeOK, Sending, Expiring,
       AcceptedCalls, AnswersFit, Expired, storeVars
  <2> QED BY <1>t, <2>1, <2>2, MapsUnchanged DEF IInv
<1>11. CASE Advance
  <2>1. UNCHANGED <<storeVars, pendingRequests, responseCache, accepted, callbackCh>>
    BY <1>11 DEF Advance
  <2>2. Sending' /\ Expiring' /\ AcceptedCalls' /\ AnswersFit'
    BY <1>t, <1>11, <2>1 DEF Advance, IInv, TypeOK, Sending, Expiring,
       AcceptedCalls, AnswersFit, Expired, storeVars
  <2> QED BY <1>t, <2>1, <2>2, MapsUnchanged DEF IInv
<1>12. CASE UNCHANGED vars
  <2>1. UNCHANGED <<storeVars, pendingRequests, responseCache, accepted, callbackCh>>
    BY <1>12 DEF vars
  <2>2. Sending' /\ Expiring' /\ AcceptedCalls' /\ AnswersFit'
    BY <1>t, <1>12, <2>1 DEF vars, IInv, TypeOK, Sending, Expiring,
       AcceptedCalls, AnswersFit, Expired, storeVars
  <2> QED BY <1>t, <2>1, <2>2, MapsUnchanged DEF IInv
<1>13. CASE ExpireCachedResponses
  <2>1. UNCHANGED <<storeVars, pendingRequests, accepted, callbackCh>>
    BY <1>13 DEF ExpireCachedResponses
  <2>2. \A id \in IDs : \/ responseCache'[id] = responseCache[id]
                         \/ responseCache'[id].response = NoMsg
    BY <1>13, CacheEntryType DEF ExpireCachedResponses
  <2>3. StoreConsistent' /\ HoldsOwn(requests)' /\ HoldsOwn(pendingRequests)'
    BY <2>1 DEF IInv, StoreConsistent, HoldsOwn, storeVars, InSeq
  <2>4. StoredRequestsExpire' /\ CacheKeyed'
    BY <2>1, <2>2 DEF IInv, StoredRequestsExpire, CacheKeyed, storeVars
  <2>5. Sending' /\ Expiring' /\ AcceptedCalls' /\ AnswersFit'
    BY <1>t, <1>13, <2>1 DEF ExpireCachedResponses, IInv, TypeOK, Sending,
       Expiring, AcceptedCalls, AnswersFit, Expired, storeVars
  <2> QED BY <1>t, <2>3, <2>4, <2>5 DEF IInv
<1>14. CASE SendCallback
  <2>1. /\ wcall \in Calls /\ wcall \in accepted /\ callbackCh[wcall] = NoMsg
        /\ requests[ReqID[wcall]] = NoCall /\ ReqID[wcall] \in IDs
        /\ ReqID[wcall] \notin wtodo
        /\ \/ wresp = Timeout /\ Expired(wcall)
           \/ wresp \in Deliveries /\ RespID[wresp] = ReqID[wcall]
    BY <1>t, <1>14 DEF SendCallback, IInv, Sending, TypeOK
  <2>2. /\ callbackCh' = [callbackCh EXCEPT ![wcall] = wresp]
        /\ pendingRequests' = [pendingRequests EXCEPT ![ReqID[wcall]] = NoCall]
        /\ UNCHANGED <<storeVars, responseCache, accepted, expiresAt, now, wtodo>>
        /\ pc' \in {pc, [pc EXCEPT ![wcall] = "answered"]}
        /\ wpc' = IF wtodo = {} THEN "select" ELSE "expire"
    BY <1>14 DEF SendCallback, SendReturns
  <2>3. StoreConsistent' /\ CacheKeyed'
    BY <2>2 DEF IInv, StoreConsistent, CacheKeyed, storeVars, InSeq
  <2>4. HoldsOwn(requests)'
    BY <1>t, <2>1, <2>2 DEF IInv, HoldsOwn, storeVars, TypeOK
  <2>5. HoldsOwn(pendingRequests)'
    BY <1>t, <2>1, <2>2 DEF IInv, HoldsOwn, TypeOK
  <2>6. StoredRequestsExpire'
    BY <1>t, <2>1, <2>2 DEF IInv, StoredRequestsExpire, storeVars, TypeOK
  <2>7. Sending'
    BY <2>2 DEF Sending
  <2>8. Expiring'
    BY <1>t, <2>1, <2>2 DEF IInv, Expiring, Expired, TypeOK
  <2>9. AcceptedCalls'
    BY <1>t, <2>1, <2>2 DEF IInv, AcceptedCalls, TypeOK
  <2>10. AnswersFit'
    BY <1>t, <2>1, <2>2 DEF IInv, AnswersFit, Expired, TypeOK
  <2> QED BY <1>t, <2>3, <2>4, <2>5, <2>6, <2>7, <2>8, <2>9, <2>10 DEF IInv
<1>15. ASSUME NEW id \in IDs, ExpireOne(id) PROVE IInv'
  <2>1. /\ pendingRequests[id] \in accepted /\ ReqID[pendingRequests[id]] = id
        /\ callbackCh[pendingRequests[id]] = NoMsg
        /\ Expired(pendingRequests[id])
        /\ id \in wtodo
    BY <1>15 DEF ExpireOne, IInv, Expiring, HoldsOwn
  <2>2. /\ evict(id)
        /\ requests' = [requests EXCEPT ![id] = NoCall]
        /\ UNCHANGED <<responseCache, accepted, pc, expiresAt, now, callbackCh,
                       pendingRequests>>
        /\ wpc' = "send" /\ wcall' = pendingRequests[id] /\ wresp' = Timeout
        /\ wtodo' = wtodo \ {id}
    BY <1>15 DEF ExpireOne, evict
  <2>3. StoreConsistent'
    BY <1>t, <2>2, EvictConsistent DEF IInv
  <2>4. CacheKeyed' /\ AcceptedCalls' /\ AnswersFit' /\ HoldsOwn(pendingRequests)'
    BY <2>2 DEF IInv, CacheKeyed, AcceptedCalls, AnswersFit, HoldsOwn, Expired
  <2>5. HoldsOwn(requests)' /\ StoredRequestsExpire'
    BY <1>t, <2>2 DEF IInv, HoldsOwn, StoredRequestsExpire, TypeOK
  <2>6. Sending'
    BY <1>t, <2>1, <2>2 DEF Sending, Expired, TypeOK
  <2>7. Expiring'
    BY <2>2 DEF IInv, Expiring, Expired
  <2> QED BY <1>t, <2>3, <2>4, <2>5, <2>6, <2>7 DEF IInv
<1>16. ASSUME NEW c \in Calls, WorkerRequest(c) PROVE IInv'
  <2> DEFINE id == ReqID[c]
  <2>1. /\ id \in IDs /\ c \notin accepted /\ callbackCh[c] = NoMsg
        /\ wtodo = {} /\ c # NoCall
    BY <1>t, <1>16 DEF WorkerRequest, IInv, AcceptedCalls, Expiring, TypeOK
  <2>2. /\ accepted' = accepted \cup {c}
        /\ pc' = [pc EXCEPT ![c] = "await"]
        /\ pendingRequests' = [pendingRequests EXCEPT ![id] = c]
        /\ UNCHANGED <<callbackCh, expiresAt, now, wtodo>>
    BY <1>16 DEF WorkerRequest
  <2>3. AcceptedCalls' /\ AnswersFit' /\ Expiring'
    BY <1>t, <2>1, <2>2 DEF IInv, AcceptedCalls, AnswersFit, Expiring, Expired,
       TypeOK
  <2>4. HoldsOwn(pendingRequests)'
    BY <1>t, <2>1, <2>2 DEF IInv, HoldsOwn, TypeOK
  <2>5. CASE responseCache[id].response # NoMsg
    <3>1. /\ responseCache' = [responseCache EXCEPT ![id] = NoEntry]
          /\ wcall' = c /\ wresp' = responseCache[id].response
          /\ UNCHANGED storeVars
      BY <1>16, <2>5 DEF WorkerRequest
    <3>2. \A k \in IDs : \/ responseCache'[k] = responseCache[k]
                          \/ responseCache'[k].response = NoMsg
      BY <1>t, <3>1, CacheEntryType DEF TypeOK
    <3>3. StoreConsistent' /\ HoldsOwn(requests)'
      BY <2>2, <3>1 DEF IInv, StoreConsistent, HoldsOwn, storeVars, InSeq
    <3>4. StoredRequestsExpire' /\ CacheKeyed'
      BY <1>t, <2>1, <2>2, <3>1, <3>2 DEF IInv, StoredRequestsExpire, CacheKeyed,
         storeVars, TypeOK
    <3>5. requests[id] = NoCall
      BY <2>1, <2>5 DEF IInv, StoredRequestsExpire
    <3>6. wresp' \in Deliveries /\ RespID[wresp'] = id
      <4>1. responseCache[id] \in CacheEntries
        BY <1>t, <2>1 DEF TypeOK
      <4>2. responseCache[id].response \in Deliveries
        BY <4>1, <2>5, CacheEntryType
      <4> QED BY <4>2, <3>1, <2>1, <2>5 DEF IInv, CacheKeyed
    <3>7. Sending'
      BY <2>1, <2>2, <3>1, <3>5, <3>6 DEF Sending, storeVars
    <3> QED BY <1>t, <2>3, <2>4, <3>3, <3>4, <3>7 DEF IInv
  <2>6. CASE responseCache[id].response = NoMsg
    <3>1. Add(c) /\ UNCHANGED <<responseCache, wpc, wcall, wresp>>
      BY <1>16, <2>6 DEF WorkerRequest
    <3>2. wpc # "send"
      BY <1>16 DEF WorkerRequest
    <3>3. CacheKeyed' /\ Sending'
      BY <3>1, <3>2 DEF IInv, CacheKeyed, Sending
    <3>4. CASE requests[id] # NoCall
      <4>1. UNCHANGED storeVars
        BY <3>1, <3>4 DEF Add
      <4>2. StoreConsistent' /\ HoldsOwn(requests)'
        BY <2>2, <4>1 DEF IInv, StoreConsistent, HoldsOwn, storeVars, InSeq
      <4>3. StoredRequestsExpire'
        BY <1>t, <2>1, <2>2, <3>1, <4>1 DEF IInv, StoredRequestsExpire,
           storeVars, TypeOK
      <4> QED BY <1>t, <2>3, <2>4, <3>3, <4>2, <4>3 DEF IInv
    <3>5. CASE requests[id] = NoCall
      <4>1. /\ requestIDs' = Append(requestIDs, id)
            /\ requests' = [requests EXCEPT ![id] = c]
        BY <3>1, <3>5 DEF Add
      <4>2. StoreConsistent'
        <5>1. NoRepeats(requestIDs) /\ ~InSeq(requestIDs, id)
          BY <2>1, <3>5 DEF IInv, StoreConsistent, NoRepeats
        <5>2. /\ NoRepeats(requestIDs')
              /\ \A x \in IDs : InSeq(requestIDs', x)
                                 <=> InSeq(requestIDs, x) \/ x = id
          BY <1>t, <2>1, <4>1, <5>1, AppendNew DEF TypeOK
        <5>3. \A x \in IDs : requests[x] # NoCall <=> InSeq(requestIDs, x)
          BY DEF IInv, StoreConsistent
        <5>4. \A x \in IDs : requests'[x] # NoCall
                             <=> requests[x] # NoCall \/ x = id
          BY <1>t, <2>1, <4>1 DEF TypeOK
        <5>5. \A x \in IDs : requests'[x] # NoCall <=> InSeq(requestIDs', x)
          BY <5>2, <5>3, <5>4
        <5> QED BY <5>2, <5>5 DEF StoreConsistent, NoRepeats, InSeq
      <4>3. HoldsOwn(requests)'
        BY <1>t, <2>1, <2>2, <4>1 DEF IInv, HoldsOwn, TypeOK
      <4>4. StoredRequestsExpire'
        BY <1>t, <2>1, <2>2, <2>6, <3>1, <4>1 DEF IInv, StoredRequestsExpire,
           TypeOK
      <4> QED BY <1>t, <2>3, <2>4, <3>3, <4>2, <4>3, <4>4 DEF IInv
    <3> QED BY <3>4, <3>5
  <2> QED BY <2>5, <2>6
<1>17. ASSUME NEW d \in Deliveries, WorkerResponse(d) PROVE IInv'
  <2> DEFINE id == RespID[d]
  <2>1. /\ id \in IDs /\ wtodo = {} /\ wpc = "select"
    BY <1>t, <1>17 DEF WorkerResponse, IInv, Expiring, TypeOK
  <2>2. /\ evict(id)
        /\ requests' = [requests EXCEPT ![id] = NoCall]
        /\ UNCHANGED <<callbackCh, pc, expiresAt, pendingRequests, wtodo, now,
                       accepted>>
    BY <1>17 DEF WorkerResponse, evict
  <2>3. StoreConsistent'
    BY <1>t, <2>1, <2>2, EvictConsistent DEF IInv
  <2>4. HoldsOwn(requests)'
    BY <1>t, <2>1, <2>2 DEF IInv, HoldsOwn, TypeOK
  <2>5. HoldsOwn(pendingRequests)' /\ AcceptedCalls' /\ AnswersFit' /\ Expiring'
    BY <2>1, <2>2 DEF IInv, HoldsOwn, AcceptedCalls, AnswersFit, Expiring, Expired
  <2>6. CASE WasPresent(id)
    <3>1. /\ wpc' = "send" /\ wcall' = requests[id] /\ wresp' = d
          /\ UNCHANGED responseCache
      BY <1>17, <2>6 DEF WorkerResponse
    <3>2. requests[id] # NoCall
      BY <2>1, <2>6 DEF WasPresent, IInv, StoreConsistent
    <3>3. /\ requests[id] \in accepted /\ ReqID[requests[id]] = id
          /\ callbackCh[requests[id]] = NoMsg
      BY <2>1, <3>2 DEF IInv, HoldsOwn
    <3>4. Sending'
      BY <1>t, <2>1, <2>2, <3>1, <3>3 DEF Sending, TypeOK
    <3>5. CacheKeyed' /\ StoredRequestsExpire'
      BY <1>t, <2>1, <2>2, <3>1 DEF IInv, CacheKeyed, StoredRequestsExpire, TypeOK
    <3> QED BY <1>t, <2>3, <2>4, <2>5, <3>4, <3>5 DEF IInv
  <2>7. CASE ~WasPresent(id)
    <3> DEFINE e == [response |-> d, entryTime |-> now]
    <3>1. /\ responseCache' = [responseCache EXCEPT ![id] = e]
          /\ UNCHANGED <<wpc, wcall, wresp>>
      BY <1>17, <2>7 DEF WorkerResponse
    <3>2. e.response = d
      OBVIOUS
    <3> HIDE DEF e
    <3>3. CacheKeyed'
      BY <1>t, <2>1, <3>1, <3>2 DEF IInv, CacheKeyed, TypeOK
    <3>4. StoredRequestsExpire'
      BY <1>t, <2>1, <2>2, <3>1 DEF IInv, StoredRequestsExpire, TypeOK
    <3>5. Sending'
      BY <2>1, <3>1 DEF Sending
    <3> QED BY <1>t, <2>3, <2>4, <2>5, <3>3, <3>4, <3>5 DEF IInv
  <2> QED BY <2>6, <2>7
<1> QED
  BY <1>1, <1>2, <1>3, <1>4, <1>5, <1>6, <1>7, <1>8, <1>9, <1>10, <1>11, <1>12,
     <1>13, <1>14, <1>15, <1>16, <1>17
  DEF Next, CallNext, DeliveryNext

\* IInv is an invariant of the handler.
THEOREM Invariance == Spec => []IInv
BY InitIInv, StepIInv, PTL DEF Spec

\* In every instance the store's list and map agree, so evict never hands out
\* a nil request as found.
THEOREM StoreCorrect == Spec => []StoreConsistent
<1>1. IInv => StoreConsistent
  BY DEF IInv
<1> QED BY <1>1, Invariance, PTL

\* The worker never sends on a channel it has closed, whether or not execution
\* IDs are reused.
THEOREM NoPanic == Spec => []NoSendOnClosedChannel
<1>1. IInv => NoSendOnClosedChannel
  BY DEF IInv, NoSendOnClosedChannel, Sending, TypeOK
<1> QED BY <1>1, Invariance, PTL

\* Nothing the reporting plugin can see is out of the expiry loop's reach.
THEOREM StoredReachable == Spec => []StoredRequestsExpire
<1>1. IInv => StoredRequestsExpire
  BY DEF IInv
<1> QED BY <1>1, Invariance, PTL

\* Every answer fits its request.
THEOREM AnswersCorrect == Spec => []AnswersFit
<1>1. IInv => AnswersFit
  BY DEF IInv
<1> QED BY <1>1, Invariance, PTL

-----------------------------------------------------------------------------
(* No accepted request is out of the timer's reach.                        *)

\* When no two calls carry the same execution ID, every accepted request that
\* is still unanswered is the pending request of its ID.
THEOREM UnansweredReachable ==
  ASSUME UniqueIDs
  PROVE  Spec => []UnansweredArePending
<1>1. Init => UnansweredArePending
  BY DEF Init, UnansweredArePending
<1>2. IInv /\ UnansweredArePending /\ [Next]_vars => UnansweredArePending'
  <2> SUFFICES ASSUME IInv, UnansweredArePending, [Next]_vars
               PROVE  UnansweredArePending'
    OBVIOUS
  <2> USE HandlerAssumption
  <2>1. TypeOK
    BY DEF IInv
  <2>2. ASSUME NEW c \in Calls, WorkerRequest(c) PROVE UnansweredArePending'
    <3>1. /\ accepted' = accepted \cup {c}
          /\ pendingRequests' = [pendingRequests EXCEPT ![ReqID[c]] = c]
          /\ UNCHANGED callbackCh
      BY <2>2 DEF WorkerRequest
    <3>2. c \notin accepted
      BY <2>2 DEF WorkerRequest, IInv, AcceptedCalls
    <3>3. \A b \in accepted : ReqID[b] # ReqID[c]
      BY <2>1, <3>2 DEF UniqueIDs, TypeOK
    <3> QED BY <2>1, <3>1, <3>3 DEF UnansweredArePending, TypeOK
  <2>3. CASE SendCallback
    <3>1. /\ wcall \in accepted
          /\ callbackCh' = [callbackCh EXCEPT ![wcall] = wresp]
          /\ pendingRequests' = [pendingRequests EXCEPT ![ReqID[wcall]] = NoCall]
          /\ UNCHANGED accepted
          /\ wresp # NoMsg
      BY <2>3 DEF SendCallback, IInv, Sending
    <3>2. \A b \in accepted : b # wcall => ReqID[b] # ReqID[wcall]
      BY <2>1, <3>1 DEF UniqueIDs, TypeOK
    <3> QED BY <2>1, <3>1, <3>2 DEF UnansweredArePending, TypeOK
  <2>4. CASE UNCHANGED <<accepted, callbackCh, pendingRequests>>
    BY <2>4 DEF UnansweredArePending
  <2> QED BY <2>2, <2>3, <2>4
    DEF Next, CallNext, DeliveryNext, vars, Execute, ExecuteRejected,
        ExecuteCancelled, ExecuteReceive, SendResponseCancelled, WorkerResponse,
        ExpireOne, Start, SendAbandoned, ExpirePendingRequests,
        ExpireCachedResponses, WorkerExit, Close, Advance
<1> QED BY <1>1, <1>2, Invariance, PTL DEF Spec

-----------------------------------------------------------------------------
(* Refinement of the abstract request service.                             *)

\* Only Close ends the worker's wait for a receiver that is gone.
LEMMA BlockedUntilClosing ==
  ASSUME IInv, [Next]_vars, closing \/ SendBlocked
  PROVE  (closing \/ SendBlocked)'
<1>1. TypeOK
  BY DEF IInv
<1>2. CASE closing
  BY <1>2 DEF Next, CallNext, DeliveryNext, vars, Execute, ExecuteRejected,
     ExecuteCancelled, ExecuteReceive, SendResponseCancelled, WorkerRequest,
     WorkerResponse, ExpireOne, Start, SendCallback, SendAbandoned,
     ExpirePendingRequests, ExpireCachedResponses, WorkerExit, Close, Advance
<1>3. CASE ~closing
  <2>1. SendBlocked /\ ~closing /\ buffer = 0 /\ wpc = "send"
    BY <1>3 DEF SendBlocked
  <2>2. wcall \in Calls
    BY <1>1, <2>1 DEF IInv, Sending, TypeOK
  <2>3. ASSUME NEW c \in Calls, CallNext(c)
        PROVE  UNCHANGED <<buffer, wpc, wcall>> /\ pc'[wcall] # "await"
    BY <1>1, <2>1, <2>2, <2>3 DEF CallNext, workerVars, Execute, ExecuteRejected,
       ExecuteCancelled, ExecuteReceive, WorkerRequest, SendBlocked, TypeOK
  <2>4. CASE UNCHANGED <<buffer, wpc, wcall, pc>>
    BY <2>1, <2>4 DEF SendBlocked
  <2>5. (\A c \in Calls : ~CallNext(c)) =>
          UNCHANGED <<buffer, wpc, wcall, pc>> \/ closing'
    BY <2>1 DEF Next, DeliveryNext, vars, callVars, workerVars,
       SendResponseCancelled, WorkerResponse, ExpireOne, Start, SendCallback,
       SendAbandoned, ExpirePendingRequests, ExpireCachedResponses, WorkerExit,
       Close, Advance, SendBlocked
  <2> QED BY <2>1, <2>3, <2>4, <2>5 DEF SendBlocked
<1> QED BY <1>2, <1>3

\* The handler implements the safety part of RequestService: accepting a
\* request is Queue, a send on CallbackCh is Answer, Close is Stop, as is the
\* step that leaves the worker of an unbuffered capability with a receiver
\* that is gone, and every other step is invisible to the service's clients.
THEOREM Refinement == Spec => Service!SafeSpec
<1>1. Init => Service!Init
  BY DEF Init, Service!Init, SendBlocked
<1>2. IInv /\ [Next]_vars => [Service!Next]_(Service!rsVars)
  <2> SUFFICES ASSUME IInv, [Next]_vars
               PROVE  [Service!Next]_(Service!rsVars)
    OBVIOUS
  <2> USE HandlerAssumption
  <2>1. TypeOK
    BY DEF IInv
  <2>2. ASSUME NEW c \in Calls, WorkerRequest(c) PROVE Service!Next
    <3>1. /\ c \notin accepted /\ accepted' = accepted \cup {c}
          /\ UNCHANGED <<callbackCh, closing>>
      BY <2>2 DEF WorkerRequest, IInv, AcceptedCalls
    <3>2. ~SendBlocked /\ ~SendBlocked'
      BY <2>1, <2>2 DEF WorkerRequest, SendBlocked, TypeOK
    <3>3. Service!Queue(c)
      BY <3>1, <3>2 DEF Service!Queue
    <3> QED BY <3>3 DEF Service!Next
  <2>3. CASE SendCallback
    <3>1. /\ wcall \in Calls /\ wcall \in accepted /\ callbackCh[wcall] = NoMsg
          /\ \/ wresp = Timeout
             \/ wresp \in Deliveries /\ RespID[wresp] = ReqID[wcall]
      BY <2>1, <2>3 DEF SendCallback, IInv, Sending, TypeOK
    <3>2. /\ callbackCh' = [callbackCh EXCEPT ![wcall] = wresp]
          /\ UNCHANGED <<accepted, closing>>
          /\ ~SendBlocked /\ ~SendBlocked'
      BY <2>3 DEF SendCallback, SendReturns, SendBlocked
    <3>3. Service!Answer(wcall)
      BY <3>1, <3>2 DEF Service!Answer, Service!Answers
    <3> QED BY <3>1, <3>3 DEF Service!Next
  <2>4. CASE UNCHANGED <<accepted, callbackCh>>
    <3>1. CASE ~(closing \/ SendBlocked) /\ (closing \/ SendBlocked)'
      <4>1. Service!Stop
        BY <2>4, <3>1 DEF Service!Stop
      <4> QED BY <4>1 DEF Service!Next
    <3>2. CASE (closing \/ SendBlocked)' = (closing \/ SendBlocked)
      BY <2>4, <3>2 DEF Service!rsVars
    <3> QED BY <3>1, <3>2, BlockedUntilClosing
  <2> QED BY <2>2, <2>3, <2>4
    DEF Next, CallNext, DeliveryNext, vars, Execute, ExecuteRejected,
        ExecuteCancelled, ExecuteReceive, SendResponseCancelled, WorkerResponse,
        ExpireOne, Start, SendAbandoned, ExpirePendingRequests,
        ExpireCachedResponses, WorkerExit, Close, Advance
<1> QED BY <1>1, <1>2, Invariance, PTL DEF Spec, Service!SafeSpec

=============================================================================
