-------------------------- MODULE StateMachineProofs --------------------------
(***************************************************************************)
(* Proofs about services.StateMachine, for any number of concurrent calls. *)
(***************************************************************************)
EXTENDS StateMachine, TLAPS

\* Writers are never among the calls that wait for or hold the read lock, and
\* readers are never among the calls that wait for the write lock.
Roles ==
  /\ \A t \in Writers : pc[t] \notin {"rwait", "rlocked"}
  /\ \A t \in Readers : pc[t] \notin {"lock", "drain"}

\* The RWMutex: its variables tell who is in, and a function that runs under
\* the write lock runs alone.
LockInv ==
  /\ readers = {t \in Readers : pc[t] \in {"rlocked", "fn"}}
  /\ \A t \in Writers : pc[t] \in {"drain", "fn"} <=> writer = t
  /\ \A t \in Writers : pc[t] = "fn" => readers = {}

\* What the progress of the calls says about the state.
StateInv ==
  /\ \A t \in Starters : /\ pc[t] \in {"lock", "drain", "fn"} => state = "Starting"
                         /\ pc[t] = "ok" => state \notin {"Unstarted", "Starting"}
  /\ \A t \in Closers : /\ pc[t] = "fn" => state = "Stopping"
                        /\ pc[t] = "ok" => state = "Stopped"
  /\ state = "Stopping" => \E t \in Closers : pc[t] = "fn"

SMInv ==
  /\ SMTypeOK /\ Roles /\ LockInv /\ StateInv
  /\ AdmissionHolds /\ RunOnce /\ NoPanic

\* The invariant holds before any call is made.
LEMMA SMInitInv ==
  ASSUME CallersAssumption, SMInit PROVE SMInv
BY DEF SMInit, SMInv, SMTypeOK, Roles, LockInv, StateInv, AdmissionHolds,
       RunOnce, NoPanic, States, Callers, Writers, Readers, CallersAssumption

\* Every step of every call preserves it.
LEMMA SMStepInv ==
  ASSUME CallersAssumption, SMInv, [SMNext]_smVars PROVE SMInv'
<1> USE DEF SMInv, SMTypeOK, Roles, LockInv, StateInv, AdmissionHolds, RunOnce,
            NoPanic, States, Callers, Writers, Readers, CallersAssumption,
            Admitted
<1>1. ASSUME NEW t \in Writers, Lock(t) PROVE SMInv'
  BY <1>1 DEF Lock
<1>2. ASSUME NEW t \in Starters, StartOnce(t) PROVE SMInv'
  BY <1>2 DEF StartOnce
<1>3. ASSUME NEW t \in Starters, StartRun(t) PROVE SMInv'
  BY <1>3 DEF StartRun, Locked
<1>4. ASSUME NEW t \in Starters, NEW ok \in BOOLEAN, StartReturn(t, ok) PROVE SMInv'
  BY <1>4 DEF StartReturn, Unlock
<1>5. ASSUME NEW t \in Closers, StopOnce(t) PROVE SMInv'
  BY <1>5 DEF StopOnce
<1>6. ASSUME NEW t \in Closers, StopRun(t) PROVE SMInv'
  BY <1>6 DEF StopRun, Locked
<1>7. ASSUME NEW t \in Closers, StopRefused(t) PROVE SMInv'
  BY <1>7 DEF StopRefused, Locked, Unlock
<1>8. ASSUME NEW t \in Closers, NEW ok \in BOOLEAN, StopReturn(t, ok) PROVE SMInv'
  BY <1>8 DEF StopReturn, Unlock
<1>9. ASSUME NEW t \in Readers, IfCall(t) PROVE SMInv'
  BY <1>9 DEF IfCall, RLock
<1>10. ASSUME NEW t \in Readers, IfRun(t) PROVE SMInv'
  BY <1>10 DEF IfRun
<1>11. ASSUME NEW t \in Readers, IfRefused(t) PROVE SMInv'
  BY <1>11 DEF IfRefused, RUnlock
<1>12. ASSUME NEW t \in Readers, IfReturn(t) PROVE SMInv'
  BY <1>12 DEF IfReturn, RUnlock
<1>13. CASE UNCHANGED smVars
  BY <1>13 DEF smVars
<1> QED
  BY <1>1, <1>2, <1>3, <1>4, <1>5, <1>6, <1>7, <1>8, <1>9, <1>10, <1>11,
     <1>12, <1>13 DEF SMNext, SMCall

\* The invariant holds in every reachable state.
THEOREM SMInvariance == ASSUME CallersAssumption PROVE SMSpec => []SMInv
<1>1. SMInit => SMInv
  BY SMInitInv
<1>2. SMInv /\ [SMNext]_smVars => SMInv'
  BY SMStepInv
<1> QED BY <1>1, <1>2, PTL DEF SMSpec

\* A start or stop function that runs is the only function that runs.
LEMMA Exclusive ==
  ASSUME CallersAssumption, SMInv PROVE FunctionsExclusive
BY DEF SMInv, LockInv, FunctionsExclusive, Callers, CallersAssumption

\* StartOnce and StopOnce run their functions one at a time and alone.
THEOREM FunctionsExclude ==
  ASSUME CallersAssumption PROVE SMSpec => []FunctionsExclusive
<1>1. SMInv => FunctionsExclusive
  BY Exclusive
<1> QED BY <1>1, SMInvariance, PTL

\* IfStarted and IfNotStopped run their functions only in the states they
\* promise, from beginning to end.
THEOREM AdmissionCorrect ==
  ASSUME CallersAssumption PROVE SMSpec => []AdmissionHolds
<1>1. SMInv => AdmissionHolds
  BY DEF SMInv
<1> QED BY <1>1, SMInvariance, PTL

\* StartOnce and StopOnce run at most one function each.
THEOREM RunOnceCorrect ==
  ASSUME CallersAssumption PROVE SMSpec => []RunOnce
<1>1. SMInv => RunOnce
  BY DEF SMInv
<1> QED BY <1>1, SMInvariance, PTL

\* The "unreachable state" panics of StartOnce and StopOnce are unreachable.
THEOREM PanicsUnreachable ==
  ASSUME CallersAssumption PROVE SMSpec => []NoPanic
<1>1. SMInv => NoPanic
  BY DEF SMInv
<1> QED BY <1>1, SMInvariance, PTL

\* No StopOnce returns while a teardown is under way.
THEOREM StopSettles ==
  ASSUME CallersAssumption PROVE SMSpec => StopReturnsSettled
<1>1. ASSUME SMInv, SMNext, NEW t \in Closers,
             pc[t] # pc'[t], pc'[t] \in {"ok", "err"}
      PROVE  state' # "Stopping"
  <2> USE DEF SMInv, SMTypeOK, Roles, LockInv, StateInv, Callers, Writers,
              Readers, CallersAssumption
  <2>1. CASE StopRefused(t)
    BY <1>1, <2>1 DEF StopRefused, Locked
  <2>2. ASSUME NEW ok \in BOOLEAN, StopReturn(t, ok) PROVE state' # "Stopping"
    BY <1>1, <2>2 DEF StopReturn, Unlock
  <2>3. StopRefused(t) \/ \E ok \in BOOLEAN : StopReturn(t, ok)
    BY <1>1 DEF SMNext, SMCall, Lock, StartOnce, StartRun, StartReturn, StopOnce,
       StopRun, StopRefused, StopReturn, IfCall, RLock, IfRun, IfRefused, IfReturn,
       RUnlock, Unlock
  <2> QED BY <2>1, <2>2, <2>3
<1>2. SMInv /\ [SMNext]_smVars =>
        [\A t \in Closers : pc[t] # pc'[t] /\ pc'[t] \in {"ok", "err"}
                             => state' # "Stopping"]_smVars
  BY <1>1
<1> QED BY <1>2, SMInvariance, PTL DEF StopReturnsSettled, SMSpec

-----------------------------------------------------------------------------
(* The calls never all wait for each other.                                *)

\* Whenever a call waits for the lock, some call is not waiting: it runs its
\* function or checks the state under the lock, or the lock is its to take.
WaitersFollow ==
  \A t \in Callers : pc[t] \in {"lock", "drain", "rwait"} =>
    \E u \in Callers : \/ pc[u] \in {"rlocked", "fn"}
                       \/ pc[u] = "lock" /\ writer = NoOne
                       \/ Locked(u)

\* A reader queues up behind a writer only: whoever unlocks lets it in, so none
\* is left behind when the lock is free.
ReadersQueued == \A t \in Readers : pc[t] = "rwait" => writer # NoOne

\* Every step preserves it.
LEMMA ReadersQueuedStep ==
  ASSUME CallersAssumption, SMInv, ReadersQueued, [SMNext]_smVars PROVE ReadersQueued'
<1> USE DEF ReadersQueued, SMInv, SMTypeOK, Roles, LockInv, Callers, Writers, Readers,
            CallersAssumption
<1>1. ASSUME NEW t \in Writers, Lock(t) PROVE ReadersQueued'
  BY <1>1 DEF Lock
<1>2. ASSUME NEW t \in Starters, StartOnce(t) \/ StartRun(t) PROVE ReadersQueued'
  BY <1>2 DEF StartOnce, StartRun
<1>3. ASSUME NEW t \in Closers, StopOnce(t) \/ StopRun(t) PROVE ReadersQueued'
  BY <1>3 DEF StopOnce, StopRun
<1>4. ASSUME NEW t \in Writers, NEW res \in {"ok", "err", "panic"}, Unlock(t, res)
      PROVE  ReadersQueued'
  BY <1>4 DEF Unlock
<1>5. ASSUME NEW t \in Readers, IfCall(t) PROVE ReadersQueued'
  BY <1>5 DEF IfCall, RLock
<1>6. ASSUME NEW t \in Readers, IfRun(t) \/ IfRefused(t) \/ IfReturn(t)
      PROVE  ReadersQueued'
  BY <1>6 DEF IfRun, IfRefused, IfReturn, RUnlock
<1>7. CASE UNCHANGED smVars
  BY <1>7 DEF smVars
<1> QED
  BY <1>1, <1>2, <1>3, <1>4, <1>5, <1>6, <1>7
  DEF SMNext, SMCall, StartReturn, StopReturn, StopRefused

\* Who waits for whom: behind a writer that drains the readers there is a reader
\* that is in, and behind one that is past that, a function that runs.
LEMMA Followed ==
  ASSUME CallersAssumption, SMInv, ReadersQueued PROVE WaitersFollow
<1> SUFFICES ASSUME NEW t \in Callers, pc[t] \in {"lock", "drain", "rwait"}
             PROVE  \E u \in Callers : \/ pc[u] \in {"rlocked", "fn"}
                                       \/ pc[u] = "lock" /\ writer = NoOne
                                       \/ Locked(u)
  BY DEF WaitersFollow
<1> USE DEF SMInv, SMTypeOK, Roles, LockInv, Callers, Writers, Readers, CallersAssumption
<1>1. CASE writer = NoOne
  BY <1>1 DEF ReadersQueued
<1>2. CASE writer # NoOne
  <2>1. writer \in Writers /\ pc[writer] \in {"drain", "fn"}
    BY <1>2
  <2>2. CASE readers = {}
    <3>1. Locked(writer) \/ pc[writer] = "fn"
      BY <2>1, <2>2 DEF Locked
    <3>2. writer \in Callers
      BY <2>1
    <3> HIDE DEF Callers
    <3> QED BY <3>1, <3>2
  <2>3. CASE readers # {}
    <3>1. PICK r \in Readers : pc[r] \in {"rlocked", "fn"}
      BY <2>3
    <3>2. r \in Callers
      OBVIOUS
    <3> HIDE DEF Callers
    <3> QED BY <3>1, <3>2
  <2> QED BY <2>2, <2>3
<1> QED BY <1>1, <1>2

\* StartOnce, StopOnce, IfStarted and IfNotStopped never end up all waiting for
\* the lock, however many of them race.
THEOREM NoLockDeadlock == ASSUME CallersAssumption PROVE SMSpec => []WaitersFollow
<1>1. SMInit => ReadersQueued
  BY DEF SMInit, ReadersQueued, Callers
<1>2. SMInv /\ ReadersQueued /\ [SMNext]_smVars => ReadersQueued'
  BY ReadersQueuedStep
<1>3. SMInv /\ ReadersQueued => WaitersFollow
  BY Followed
<1> QED BY <1>1, <1>2, <1>3, SMInvariance, PTL DEF SMSpec
=============================================================================
