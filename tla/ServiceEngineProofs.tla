------------------------- MODULE ServiceEngineProofs -------------------------
(***************************************************************************)
(* Proofs about services.Config services, for any number of sub-services,  *)
(* goroutines and concurrent calls.  They use what StateMachineProofs      *)
(* proves of the state machine underneath.                                 *)
(***************************************************************************)
EXTENDS ServiceEngine, StateMachineProofs

\* Every step of the service is a step of its state machine, or none.
LEMMA StepSimulation ==
  ASSUME [Next]_vars PROVE [SMNext]_smVars
BY DEF Next, StarterCall, CloserCall, WriterNext, ReaderCall, ReaderNext,
       StartNext, CloseNext, StartCall, StartSub, StartSubFails, UnwindSub,
       StartUnwound, Go, StartHook, GoroutineReturns, CloseCall, CloseHook,
       CloseSub, CloseReturn, SMNext, SMCall, Writers, vars

\* A service built with services.Config implements services.StateMachine: what
\* is proved of SMSpec holds of it.
THEOREM Refinement == Spec => SMSpec
<1>1. Init => SMInit
  BY DEF Init
<1>2. [Next]_vars => [SMNext]_smVars
  BY StepSimulation
<1> QED BY <1>1, <1>2, PTL DEF Spec, SMSpec

-----------------------------------------------------------------------------
(* The inductive invariant.                                                *)

\* The running function, if any, is where step says.
StepInv ==
  /\ \A t \in Starters : pc[t] = "fn" => step \in {"startSubs", "unwind"}
  /\ \A t \in Closers : pc[t] = "fn" => step \in {"wait", "closeSubs"}
  /\ step = "unwind" => \E i \in Subs : sub[i] = "StartFailed"
  /\ step \in {"wait", "closeSubs"} => stopChan
  /\ step = "closeSubs" => running = {}

IInv ==
  /\ SMInv /\ TypeOK /\ StepInv
  /\ StartedWithSubs /\ GoroutinesHaveSubs /\ ClosedIsQuiet

\* The invariant holds before the service is started.
LEMMA InitIInv ==
  ASSUME CallersAssumption, SubsAssumption, Init PROVE IInv
<1>1. SMInv
  BY SMInitInv DEF Init
<1> QED
  BY <1>1 DEF Init, SMInit, IInv, SMInv, TypeOK, StepInv, StartedWithSubs,
     GoroutinesHaveSubs, ClosedIsQuiet, Callers, Writers, Readers

\* Every step preserves it.
LEMMA StepIInv ==
  ASSUME CallersAssumption, SubsAssumption, IInv, [Next]_vars PROVE IInv'
<1>1. SMInv'
  BY StepSimulation, SMStepInv DEF IInv
<1>2. SMInv /\ SMTypeOK'
  BY <1>1 DEF IInv, SMInv
<1> USE <1>1, <1>2 DEF IInv, TypeOK, StepInv, StartedWithSubs,
                  GoroutinesHaveSubs, ClosedIsQuiet
<1> USE DEF Callers, Writers, Readers, CallersAssumption
<1>3. ASSUME NEW t \in Starters, StartCall(t) PROVE IInv'
  BY <1>3 DEF StartCall, StartRun, SMInv, SMTypeOK, StateInv, LockInv
<1>4. ASSUME NEW t \in Starters, NEW i \in Subs, StartSub(t, i) PROVE IInv'
  BY <1>4 DEF StartSub, smVars, SMInv, StateInv
<1>5. ASSUME NEW t \in Starters, NEW i \in Subs, StartSubFails(t, i) PROVE IInv'
  BY <1>5 DEF StartSubFails, smVars, SMInv, StateInv, LockInv, SMTypeOK
<1>6. ASSUME NEW t \in Starters, NEW i \in Subs, UnwindSub(t, i) PROVE IInv'
  BY <1>6 DEF UnwindSub, smVars, SMInv, StateInv
<1>7. ASSUME NEW t \in Starters, StartUnwound(t) PROVE IInv'
  BY <1>7 DEF StartUnwound, StartReturn, Unlock, SMInv, StateInv, LockInv, SMTypeOK
<1>8. ASSUME NEW t \in Starters, NEW g \in Goroutines, Go(t, g) PROVE IInv'
  BY <1>8 DEF Go, smVars, SMInv, StateInv
<1>9. ASSUME NEW t \in Starters, NEW ok \in BOOLEAN, StartHook(t, ok) PROVE IInv'
  BY <1>9 DEF StartHook, StartReturn, Unlock, SMInv, StateInv, LockInv, SMTypeOK
<1>10. ASSUME NEW g \in Goroutines, GoroutineReturns(g) PROVE IInv'
  BY <1>10 DEF GoroutineReturns, smVars
<1>11. ASSUME NEW t \in Closers, CloseCall(t) PROVE IInv'
  BY <1>11 DEF CloseCall, StopRun, Locked, SMInv, StateInv, LockInv, SMTypeOK
<1>12. ASSUME NEW t \in Closers, NEW ok \in BOOLEAN, CloseHook(t, ok) PROVE IInv'
  BY <1>12 DEF CloseHook, smVars, SMInv, StateInv, LockInv
<1>13. ASSUME NEW t \in Closers, NEW i \in Subs, NEW ok \in BOOLEAN,
              CloseSub(t, i, ok)
       PROVE  IInv'
  BY <1>13 DEF CloseSub, smVars, SMInv, StateInv
<1>14. ASSUME NEW t \in Closers, CloseReturn(t) PROVE IInv'
  BY <1>14 DEF CloseReturn, StopReturn, Unlock, SMInv, StateInv, LockInv, SMTypeOK
<1>15. ASSUME UNCHANGED engVars,
              \/ \E t \in Starters : StarterCall(t)
              \/ \E t \in Closers : CloserCall(t)
              \/ \E t \in Writers : WriterNext(t)
              \/ \E t \in Readers : ReaderCall(t) \/ ReaderNext(t)
       PROVE  IInv'
  BY <1>15 DEF engVars, StarterCall, CloserCall, WriterNext, ReaderCall, ReaderNext,
     StartOnce, StopOnce, StopRefused, Lock, IfCall, RLock, IfRun, IfRefused, IfReturn,
     RUnlock, Unlock, SMInv, SMTypeOK
<1>16. CASE UNCHANGED vars
  BY <1>16 DEF vars, smVars, engVars
<1> QED
  BY <1>3, <1>4, <1>5, <1>6, <1>7, <1>8, <1>9, <1>10, <1>11, <1>12, <1>13, <1>14,
     <1>15, <1>16 DEF Next, StartNext, CloseNext, StarterCall, CloserCall,
     WriterNext, ReaderCall, ReaderNext

\* The invariant holds in every reachable state.
THEOREM Invariance ==
  ASSUME CallersAssumption, SubsAssumption PROVE Spec => []IInv
<1>1. Init => IInv
  BY InitIInv
<1>2. IInv /\ [Next]_vars => IInv'
  BY StepIInv
<1> QED BY <1>1, <1>2, PTL DEF Spec

\* Every variable of the service keeps its type.
THEOREM TypeCorrect ==
  ASSUME CallersAssumption, SubsAssumption PROVE Spec => []TypeOK
<1>1. IInv => TypeOK
  BY DEF IInv
<1> QED BY <1>1, Invariance, PTL

\* service.Start leaves a started service with all of its sub-services started,
\* and they stay so until Close takes over.
THEOREM StartedCorrect ==
  ASSUME CallersAssumption, SubsAssumption PROVE Spec => []StartedWithSubs
<1>1. IInv => StartedWithSubs
  BY DEF IInv
<1> QED BY <1>1, Invariance, PTL

\* A goroutine run with Engine.Go has its sub-services as long as it runs.
THEOREM GoroutinesCorrect ==
  ASSUME CallersAssumption, SubsAssumption PROVE Spec => []GoroutinesHaveSubs
<1>1. IInv => GoroutinesHaveSubs
  BY DEF IInv
<1> QED BY <1>1, Invariance, PTL

\* A closed service has no goroutine and no sub-service left running.
THEOREM ClosedCorrect ==
  ASSUME CallersAssumption, SubsAssumption PROVE Spec => []ClosedIsQuiet
<1>1. IInv => ClosedIsQuiet
  BY DEF IInv
<1> QED BY <1>1, Invariance, PTL

\* The state machine's guarantees hold of the service: its functions exclude
\* each other and its panics are unreachable.
THEOREM LifecycleCorrect ==
  ASSUME CallersAssumption
  PROVE  Spec => [](FunctionsExclusive /\ AdmissionHolds /\ RunOnce /\ NoPanic)
BY Refinement, FunctionsExclude, AdmissionCorrect, RunOnceCorrect,
   PanicsUnreachable, PTL

\* A Close of the service that is turned away leaves no teardown running behind
\* it, and the calls of the service never all wait for its lock.
THEOREM CloseSettles ==
  ASSUME CallersAssumption PROVE Spec => StopReturnsSettled /\ []WaitersFollow
BY Refinement, StopSettles, NoLockDeadlock, PTL
=============================================================================
