--------------------------- MODULE RequestService ---------------------------
(***************************************************************************)
(* What the OCR3 consensus capability promises the workflow engine about   *)
(* one Execute(start_request) call that its request handler has accepted:  *)
(* the call gets exactly one answer, the answer is either a consensus      *)
(* response for the call's own workflow execution or a timeout, and, until *)
(* the service is stopped, the answer does come.                           *)
(***************************************************************************)

CONSTANTS
  Calls,        \* Execute(start_request) calls
  Deliveries,   \* consensus responses handed over by the contract transmitter
  ReqID,        \* ReqID[c]: the workflow execution ID of call c
  RespID,       \* RespID[d]: the workflow execution ID of response d
  Timeout,      \* the answer of a request that expired
  NoMsg         \* no answer yet

VARIABLES
  queued,       \* the calls the service has accepted
  answer,       \* answer[c]: what call c was answered, or NoMsg
  stopped       \* the service was told to stop

rsVars == <<queued, answer, stopped>>

Answers(c) == {d \in Deliveries : RespID[d] = ReqID[c]} \cup {Timeout}

Init ==
  /\ queued = {}
  /\ answer = [c \in Calls |-> NoMsg]
  /\ stopped = FALSE

Queue(c) ==
  /\ c \notin queued
  /\ queued' = queued \cup {c}
  /\ UNCHANGED <<answer, stopped>>

Answer(c) ==
  /\ c \in queued
  /\ answer[c] = NoMsg
  /\ \E r \in Answers(c) : answer' = [answer EXCEPT ![c] = r]
  /\ UNCHANGED <<queued, stopped>>

Stop ==
  /\ ~stopped
  /\ stopped' = TRUE
  /\ UNCHANGED <<queued, answer>>

Next ==
  \/ \E c \in Calls : Queue(c) \/ Answer(c)
  \/ Stop

SafeSpec == Init /\ [][Next]_rsVars

\* Until it is stopped, the service does not leave an accepted call waiting.
AnswerWhileRunning(c) == ~stopped /\ Answer(c)

Spec == SafeSpec /\ \A c \in Calls : WF_rsVars(AnswerWhileRunning(c))
=============================================================================
