---------------------------- MODULE StateMachine ----------------------------
(***************************************************************************)
(* services.StateMachine (pkg/services/state.go): StartOnce, StopOnce,     *)
(* IfStarted and IfNotStopped called concurrently on one service.          *)
(*                                                                         *)
(* A call is one goroutine's call of one of these methods.  The functions  *)
(* passed to them run between an action that takes the lock and one that   *)
(* returns; what they do is left open here (see ServiceEngine).            *)
(*                                                                         *)
(* The lock is a sync.RWMutex: a writer first keeps other writers and new  *)
(* readers out, then waits for the readers that are in; when it unlocks,   *)
(* the readers that queued up meanwhile get in before the next writer.     *)
(***************************************************************************)
EXTENDS Naturals

CONSTANTS
  Starters,         \* StartOnce calls
  Closers,          \* StopOnce calls
  IfStartedCalls,
  IfNotStoppedCalls,
  NoOne

Readers == IfStartedCalls \cup IfNotStoppedCalls
Writers == Starters \cup Closers
Callers == Writers \cup Readers

ASSUME CallersAssumption ==
  /\ NoOne \notin Callers
  /\ Starters \cap Closers = {}
  /\ IfStartedCalls \cap IfNotStoppedCalls = {}
  /\ Writers \cap Readers = {}

VARIABLES
  state,    \* StateMachine.state
  pc,       \* pc[t]: where call t is
  writer,   \* the call that keeps others out of the RWMutex, or NoOne
  readers   \* the calls that hold the RWMutex for reading

smVars == <<state, pc, writer, readers>>

-----------------------------------------------------------------------------
(* sync.RWMutex.                                                           *)

\* Lock, first half: no other writer, no new readers.
Lock(t) ==
  /\ pc[t] = "lock"
  /\ writer = NoOne
  /\ writer' = t
  /\ pc' = [pc EXCEPT ![t] = "drain"]
  /\ UNCHANGED <<state, readers>>

\* Lock, second half: the readers are gone.
Locked(t) == pc[t] = "drain" /\ readers = {}

\* Unlock by call t, which returns res: waiting readers get in.
Unlock(t, res) ==
  /\ writer' = NoOne
  /\ readers' = {r \in Readers : pc[r] = "rwait"}
  /\ pc' = [u \in Callers |-> IF u = t THEN res
                              ELSE IF pc[u] = "rwait" THEN "rlocked" ELSE pc[u]]

RLock(t) ==
  /\ pc[t] = "idle"
  /\ IF writer = NoOne
       THEN /\ readers' = readers \cup {t}
            /\ pc' = [pc EXCEPT ![t] = "rlocked"]
       ELSE /\ pc' = [pc EXCEPT ![t] = "rwait"]
            /\ UNCHANGED readers
  /\ UNCHANGED <<state, writer>>

RUnlock(t, res) ==
  /\ readers' = readers \ {t}
  /\ pc' = [pc EXCEPT ![t] = res]
  /\ UNCHANGED <<state, writer>>

-----------------------------------------------------------------------------
(* StartOnce.                                                              *)

\* Mutants of StartOnce: without the lock, and without the compare.
StartOnceUnlocked(t) ==
  /\ pc[t] = "idle"
  /\ state = "Unstarted"
  /\ state' = "Starting"
  /\ pc' = [pc EXCEPT ![t] = "fn"]
  /\ UNCHANGED <<writer, readers>>
StartOnceUnchecked(t) ==
  /\ pc[t] = "idle"
  /\ state' = "Starting"
  /\ pc' = [pc EXCEPT ![t] = "lock"]
  /\ UNCHANGED <<writer, readers>>

\* The compare-and-swap outside of the lock.
StartOnce(t) ==
  /\ pc[t] = "idle"
  /\ IF state = "Unstarted"
       THEN state' = "Starting" /\ pc' = [pc EXCEPT ![t] = "lock"]
       ELSE pc' = [pc EXCEPT ![t] = "err"] /\ UNCHANGED state
  /\ UNCHANGED <<writer, readers>>

StartRun(t) ==
  /\ Locked(t)
  /\ pc' = [pc EXCEPT ![t] = "fn"]
  /\ UNCHANGED <<state, writer, readers>>

\* fn has returned, nil if ok.
StartReturn(t, ok) ==
  /\ pc[t] = "fn"
  /\ IF state = "Starting"
       THEN /\ state' = IF ok THEN "Started" ELSE "StartFailed"
            /\ Unlock(t, IF ok THEN "ok" ELSE "err")
       ELSE Unlock(t, "panic") /\ UNCHANGED state

-----------------------------------------------------------------------------
(* StopOnce.                                                               *)

\* Mutant of StopOnce: it takes the lock for reading.
StopOnceReading(t) == RLock(t)

StopOnce(t) ==
  /\ pc[t] = "idle"
  /\ pc' = [pc EXCEPT ![t] = "lock"]
  /\ UNCHANGED <<state, writer, readers>>

StopRun(t) ==
  /\ Locked(t)
  /\ state = "Started"
  /\ state' = "Stopping"
  /\ pc' = [pc EXCEPT ![t] = "fn"]
  /\ UNCHANGED <<writer, readers>>

\* Mutants of StopRefused: the state is checked before the lock is taken; the
\* lock is not released.
StopRefusedEarly(t) ==
  /\ pc[t] = "lock"
  /\ state # "Started"
  /\ pc' = [pc EXCEPT ![t] = "err"]
  /\ UNCHANGED <<state, writer, readers>>
StopRefusedLocked(t) ==
  /\ Locked(t)
  /\ state # "Started"
  /\ pc' = [pc EXCEPT ![t] = "err"]
  /\ UNCHANGED <<state, writer, readers>>

\* Already stopped, not started, or in some other state: an error.
StopRefused(t) ==
  /\ Locked(t)
  /\ state # "Started"
  /\ Unlock(t, "err")
  /\ UNCHANGED state

StopReturn(t, ok) ==
  /\ pc[t] = "fn"
  /\ IF state = "Stopping"
       THEN /\ state' = IF ok THEN "Stopped" ELSE "StopFailed"
            /\ Unlock(t, IF ok THEN "ok" ELSE "err")
       ELSE Unlock(t, "panic") /\ UNCHANGED state

-----------------------------------------------------------------------------
(* IfStarted and IfNotStopped.                                             *)

\* Mutant of IfCall: no lock is taken.
IfCallUnlocked(t) ==
  /\ pc[t] = "idle"
  /\ pc' = [pc EXCEPT ![t] = "rlocked"]
  /\ UNCHANGED <<state, writer, readers>>

IfCall(t) == RLock(t)

\* The condition the call checks once it holds the lock.
Admitted(t) == IF t \in IfStartedCalls THEN state = "Started" ELSE state # "Stopped"

IfRun(t) ==
  /\ pc[t] = "rlocked"
  /\ Admitted(t)
  /\ pc' = [pc EXCEPT ![t] = "fn"]
  /\ UNCHANGED <<state, writer, readers>>

IfRefused(t) ==
  /\ pc[t] = "rlocked"
  /\ ~Admitted(t)
  /\ RUnlock(t, "err")

IfReturn(t) ==
  /\ pc[t] = "fn"
  /\ RUnlock(t, "ok")

-----------------------------------------------------------------------------

SMInit ==
  /\ state = "Unstarted"
  /\ pc = [t \in Callers |-> "idle"]
  /\ writer = NoOne
  /\ readers = {}

\* The steps that run none of the functions passed in.
SMCall ==
  \/ \E t \in Writers : Lock(t)
  \/ \E t \in Starters : StartOnce(t) \/ StartRun(t)
  \/ \E t \in Closers : StopOnce(t) \/ StopRun(t) \/ StopRefused(t)
  \/ \E t \in Readers : IfCall(t) \/ IfRun(t) \/ IfRefused(t) \/ IfReturn(t)

SMNext ==
  \/ SMCall
  \/ \E ok \in BOOLEAN : \/ \E t \in Starters : StartReturn(t, ok)
                         \/ \E t \in Closers : StopReturn(t, ok)

SMSpec == SMInit /\ [][SMNext]_smVars

-----------------------------------------------------------------------------
(* Properties.                                                             *)

States == {"Unstarted", "Starting", "Started", "StartFailed", "Stopping",
           "Stopped", "StopFailed"}

\* Every variable has its type.
SMTypeOK ==
  /\ state \in States
  /\ pc \in [Callers -> {"idle", "lock", "drain", "rwait", "rlocked", "fn",
                         "ok", "err", "panic"}]
  /\ writer \in Writers \cup {NoOne}
  /\ readers \subseteq Readers

\* While a start or stop function runs, no other function does: the lock is
\* held for it alone, although StartOnce changes the state without the lock.
FunctionsExclusive ==
  \A t \in Writers : pc[t] = "fn" => \A u \in Callers \ {t} : pc[u] # "fn"

\* A function that IfStarted admitted runs in the started state until it
\* returns, and one that IfNotStopped admitted never sees the service stopped:
\* the check is not stale when it is used.
AdmissionHolds == \A t \in Readers : pc[t] = "fn" => Admitted(t)

\* However many calls race, one StartOnce and one StopOnce at most get to run
\* their function.
RunOnce ==
  /\ \A t, u \in Starters :
       {pc[t], pc[u]} \subseteq {"lock", "drain", "fn", "ok"} => t = u
  /\ \A t, u \in Closers : {pc[t], pc[u]} \subseteq {"fn", "ok"} => t = u

\* The panics "entered unreachable state" are unreachable.
NoPanic == \A t \in Callers : pc[t] # "panic"

\* A StopOnce that is turned away never leaves a teardown running behind
\* it: whenever one returns, the service is not being stopped.
StopReturnsSettled ==
  [][\A t \in Closers : pc[t] # pc'[t] /\ pc'[t] \in {"ok", "err"}
                        => state' # "Stopping"]_smVars

\* "Stop blocks until StartOnce executes": once a StartOnce has begun, no
\* StopOnce is turned away before it is done.
StopWaitsForStart ==
  [][\A t \in Closers : pc[t] # pc'[t] /\ pc'[t] = "err"
                        => state # "Starting"]_smVars
=============================================================================
