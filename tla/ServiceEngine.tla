---------------------------- MODULE ServiceEngine ----------------------------
(***************************************************************************)
(* A service built with services.Config: StateMachine with the functions   *)
(* that service.Start and service.Close pass to it, the Engine's tracked   *)
(* goroutines and the sub-services (pkg/services/service.go, multi.go,     *)
(* stop.go).                                                               *)
(*                                                                         *)
(* A sub-service is what its parent sees of it: started, failed to start,  *)
(* or closed (with or without an error).                                   *)
(***************************************************************************)
EXTENDS StateMachine

CONSTANTS
  NumSubs,       \* sub-services 1..NumSubs, in the order of NewSubServices
  Goroutines     \* goroutines the Start hook may run with Engine.Go

ASSUME SubsAssumption == NumSubs \in Nat

Subs == 1..NumSubs

VARIABLES
  step,         \* where the running start or stop function is
  sub,          \* sub[i]: "Unstarted", "Started", "StartFailed", "Closed"
  running,      \* the tracked goroutines that run: Engine.wg counts them
  stopChan,     \* StopChan is closed
  errs          \* the running stop function has met an error

engVars == <<step, sub, running, stopChan, errs>>
vars == <<smVars, engVars>>

\* The running start function has started every sub-service before i.
StartedBefore(i) == \A j \in 1..(i - 1) : sub[j] = "Started"

-----------------------------------------------------------------------------
(* service.Start                                                           *)

StartCall(t) ==
  /\ StartRun(t)
  /\ step' = "startSubs"
  /\ UNCHANGED <<sub, running, stopChan, errs>>

\* MultiStart.Start: the next sub-service's Start returns nil ...
StartSub(t, i) ==
  /\ pc[t] = "fn"
  /\ step = "startSubs"
  /\ sub[i] = "Unstarted" /\ StartedBefore(i)
  /\ sub' = [sub EXCEPT ![i] = "Started"]
  /\ UNCHANGED <<smVars, step, running, stopChan, errs>>

\* ... or an error, and the ones started so far are closed.
StartSubFails(t, i) ==
  /\ pc[t] = "fn"
  /\ step = "startSubs"
  /\ sub[i] = "Unstarted" /\ StartedBefore(i)
  /\ sub' = [sub EXCEPT ![i] = "StartFailed"]
  /\ step' = "unwind"
  /\ UNCHANGED <<smVars, running, stopChan, errs>>

\* MultiStart.Close, in reverse order; an error of one does not stop it.
UnwindSub(t, i) ==
  /\ pc[t] = "fn"
  /\ step = "unwind"
  /\ sub[i] = "Started" /\ \A j \in Subs : j > i => sub[j] # "Started"
  /\ sub' = [sub EXCEPT ![i] = "Closed"]
  /\ UNCHANGED <<smVars, step, running, stopChan, errs>>

StartUnwound(t) ==
  /\ step = "unwind"
  /\ \A i \in Subs : sub[i] # "Started"
  /\ StartReturn(t, FALSE)
  /\ step' = "none"
  /\ UNCHANGED <<sub, running, stopChan, errs>>

\* The Start hook runs Engine.Go.
Go(t, g) ==
  /\ pc[t] = "fn"
  /\ step = "startSubs"
  /\ \A i \in Subs : sub[i] = "Started"
  /\ g \notin running
  /\ running' = running \cup {g}
  /\ UNCHANGED <<smVars, step, sub, stopChan, errs>>

\* Mutant of StartHook: the hook comes before the sub-services.
StartHookFirst(t, ok) ==
  /\ step = "startSubs"
  /\ StartReturn(t, ok)
  /\ step' = "none"
  /\ UNCHANGED <<sub, running, stopChan, errs>>

\* The Start hook returns.
StartHook(t, ok) ==
  /\ step = "startSubs"
  /\ \A i \in Subs : sub[i] = "Started"
  /\ StartReturn(t, ok)
  /\ step' = "none"
  /\ UNCHANGED <<sub, running, stopChan, errs>>

-----------------------------------------------------------------------------
(* Tracked goroutines.                                                     *)

\* fn returns: by itself, or because StopChan cancelled its context.
GoroutineReturns(g) ==
  /\ g \in running
  /\ running' = running \ {g}
  /\ UNCHANGED <<smVars, step, sub, stopChan, errs>>

-----------------------------------------------------------------------------
(* service.Close                                                           *)

\* close(s.eng.StopChan)
CloseCall(t) ==
  /\ StopRun(t)
  /\ step' = "wait"
  /\ stopChan' = TRUE
  /\ UNCHANGED <<sub, running, errs>>

\* Mutant of CloseHook: no wg.Wait().
CloseHookNoWait(t, ok) ==
  /\ pc[t] = "fn"
  /\ step = "wait"
  /\ errs' = ~ok
  /\ step' = "closeSubs"
  /\ UNCHANGED <<smVars, sub, running, stopChan>>

\* wg.Wait() has returned; the Close hook runs.
CloseHook(t, ok) ==
  /\ pc[t] = "fn"
  /\ step = "wait"
  /\ running = {}
  /\ errs' = ~ok
  /\ step' = "closeSubs"
  /\ UNCHANGED <<smVars, sub, running, stopChan>>

\* multiCloser.Close: one goroutine per sub-service, in any order.
CloseSub(t, i, ok) ==
  /\ pc[t] = "fn"
  /\ step = "closeSubs"
  /\ sub[i] # "Closed"
  /\ sub' = [sub EXCEPT ![i] = "Closed"]
  /\ errs' = (errs \/ ~ok)
  /\ UNCHANGED <<smVars, step, running, stopChan>>

\* Mutant of CloseReturn: the first error ends it.
CloseReturnOnError(t) ==
  /\ step = "closeSubs"
  /\ errs \/ \A i \in Subs : sub[i] = "Closed"
  /\ StopReturn(t, ~errs)
  /\ step' = "none"
  /\ UNCHANGED <<sub, running, stopChan, errs>>

CloseReturn(t) ==
  /\ step = "closeSubs"
  /\ \A i \in Subs : sub[i] = "Closed"
  /\ StopReturn(t, ~errs)
  /\ step' = "none"
  /\ UNCHANGED <<sub, running, stopChan, errs>>

-----------------------------------------------------------------------------

Init ==
  /\ SMInit
  /\ step = "none"
  /\ sub = [i \in Subs |-> "Unstarted"]
  /\ running = {}
  /\ stopChan = FALSE
  /\ errs = FALSE

StartNext(t) ==
  \/ StartCall(t)
  \/ \E i \in Subs : StartSub(t, i) \/ StartSubFails(t, i) \/ UnwindSub(t, i)
  \/ StartUnwound(t)
  \/ \E ok \in BOOLEAN : StartHook(t, ok)

CloseNext(t) ==
  \/ CloseCall(t)
  \/ \E ok \in BOOLEAN : CloseHook(t, ok)
  \/ \E i \in Subs, ok \in BOOLEAN : CloseSub(t, i, ok)
  \/ CloseReturn(t)

\* The calls' steps outside of the start and stop functions.
WriterNext(t) == Lock(t) /\ UNCHANGED engVars
StarterCall(t) == StartOnce(t) /\ UNCHANGED engVars
CloserCall(t) == (StopOnce(t) \/ StopRefused(t)) /\ UNCHANGED engVars
ReaderCall(t) == IfCall(t) /\ UNCHANGED engVars
ReaderNext(t) == (IfRun(t) \/ IfRefused(t) \/ IfReturn(t)) /\ UNCHANGED engVars

Next ==
  \/ \E t \in Starters : StarterCall(t) \/ WriterNext(t) \/ StartNext(t)
  \/ \E t \in Closers : CloserCall(t) \/ WriterNext(t) \/ CloseNext(t)
  \/ \E t \in Readers : ReaderCall(t) \/ ReaderNext(t)
  \/ \E t \in Starters, g \in Goroutines : Go(t, g)
  \/ \E g \in Goroutines : GoroutineReturns(g)

Spec == Init /\ [][Next]_vars

(* Goroutines run, mutexes are handed over (strong fairness: sync.Mutex    *)
(* puts a waiting writer first after at most a millisecond), hooks return, *)
(* and a tracked goroutine returns once its context is cancelled.  Nobody  *)
(* has to call anything.                                                   *)
Fairness ==
  /\ \A t \in Writers : SF_vars(WriterNext(t))
  /\ \A t \in Starters : WF_vars(StartNext(t))
  /\ \A t \in Closers : WF_vars(CloseNext(t)) /\ WF_vars(StopRefused(t) /\ UNCHANGED engVars)
  /\ \A t \in Readers : WF_vars(ReaderNext(t))
  /\ \A g \in Goroutines : WF_vars(stopChan /\ GoroutineReturns(g))

LiveSpec == Spec /\ Fairness

-----------------------------------------------------------------------------
(* Properties.                                                             *)

\* Every variable has its type.
TypeOK ==
  /\ SMTypeOK
  /\ step \in {"none", "startSubs", "unwind", "wait", "closeSubs"}
  /\ sub \in [Subs -> {"Unstarted", "Started", "StartFailed", "Closed"}]
  /\ running \subseteq Goroutines
  /\ stopChan \in BOOLEAN
  /\ errs \in BOOLEAN

\* While a service is started, all of its sub-services are.
StartedWithSubs == state = "Started" => \A i \in Subs : sub[i] = "Started"

\* A tracked goroutine never outlives the sub-services it may use: Close waits
\* for the goroutines before it closes any of them, and MultiStart only closes
\* them when the Start hook has not run.
GoroutinesHaveSubs == running # {} => \A i \in Subs : sub[i] = "Started"

\* Once Close has run, with or without errors, nothing of the service is left.
ClosedIsQuiet ==
  state \in {"Stopped", "StopFailed"} =>
    running = {} /\ stopChan /\ \A i \in Subs : sub[i] = "Closed"

\* Every call returns: no order of racing starts, stops and guarded calls
\* leaves one waiting for the lock.
CallsReturn ==
  \A t \in Callers : pc[t] # "idle" ~> pc[t] \in {"ok", "err"}

\* Sub-services "Start and Close along with this one": when a start has failed,
\* no sub-service is left running.
FailedStartClosesSubs ==
  state = "StartFailed" => \A i \in Subs : sub[i] # "Started"
=============================================================================
