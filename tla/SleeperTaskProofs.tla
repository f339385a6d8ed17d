-------------------------- MODULE SleeperTaskProofs --------------------------
(***************************************************************************)
(* Proofs about Mailbox and SleeperTask, for any capacity, and any number  *)
(* of deliveries, wake-ups and stops.                                      *)
(***************************************************************************)
EXTENDS SleeperTask, StateMachineProofs, SequenceTheorems, TLAPS

-----------------------------------------------------------------------------
(* Mailbox.                                                                *)

MBInv == MBTypeOK /\ MailboxFresh

\* What a queue is after its oldest item has been dropped.
LEMMA DropOldestProperties ==
  ASSUME NEW q \in Seq(Nat), Len(q) > 0
  PROVE  /\ DropOldest(q) \in Seq(Nat)
         /\ Len(DropOldest(q)) = Len(q) - 1
         /\ \A i \in 1..(Len(q) - 1) : DropOldest(q)[i] = q[i]
<1>1. Len(q) \in Nat /\ Len(q) - 1 \in 0..Len(q)
  BY LenProperties
<1>2. \A i \in 1..Len(q) : q[i] \in Nat
  BY LenProperties
<1> DEFINE n == Len(q) - 1
<1>3. n \in Nat /\ \A i \in 1..n : q[i] \in Nat
  BY <1>1, <1>2
<1>4. /\ SubSeq(q, 1, n) \in Seq(Nat)
      /\ Len(SubSeq(q, 1, n)) = IF 1 <= n THEN n - 1 + 1 ELSE 0
      /\ \A i \in 1..(n - 1 + 1) : SubSeq(q, 1, n)[i] = q[1 + i - 1]
  <2> HIDE DEF n
  <2> QED BY <1>3, SubSeqProperties
<1>5. Len(SubSeq(q, 1, n)) = n /\ \A i \in 1..n : SubSeq(q, 1, n)[i] = q[i]
  <2> HIDE DEF n
  <2> QED BY <1>3, <1>4
<1> QED BY <1>4, <1>5 DEF DropOldest

\* What a queue is after an item has been put in front.
LEMMA LongerProperties ==
  ASSUME NEW q \in Seq(Nat), NEW x \in Nat
  PROVE  /\ <<x>> \o q \in Seq(Nat)
         /\ Len(<<x>> \o q) = Len(q) + 1
         /\ (<<x>> \o q)[1] = x
         /\ \A i \in 2..(Len(q) + 1) : (<<x>> \o q)[i] = q[i - 1]
BY ConcatProperties

\* Every operation keeps the queue the sequence of the items delivered last.
LEMMA MBStepInv ==
  ASSUME MailboxAssumption, MBInv, [MBNext]_mbVars PROVE MBInv'
<1> USE DEF MBInv, MBTypeOK, MailboxFresh, MailboxAssumption
<1>1. CASE Deliver
  <2> DEFINE longer == <<delivered'>> \o queue
  <2>1. /\ delivered' = delivered + 1 /\ delivered' \in 0..MaxDeliveries
        /\ retrieved' = retrieved /\ chNotify' \in BOOLEAN
    BY <1>1 DEF Deliver
  <2>2. /\ longer \in Seq(Nat) /\ Len(longer) = Len(queue) + 1
        /\ longer[1] = delivered + 1
        /\ \A i \in 2..(Len(queue) + 1) : longer[i] = queue[i - 1]
    BY <2>1, LongerProperties
  <2>3. \A i \in 1..Len(longer) : longer[i] + i = delivered' + 1
    <3> SUFFICES ASSUME NEW i \in 1..Len(longer) PROVE longer[i] + i = delivered' + 1
      OBVIOUS
    <3>1. CASE i = 1
      BY <2>1, <2>2, <3>1
    <3>2. CASE i # 1
      <4>1. i \in 2..(Len(queue) + 1) /\ i - 1 \in 1..Len(queue)
        BY <2>2, <3>2
      <4>2. queue[i - 1] + (i - 1) = delivered + 1 /\ queue[i - 1] \in Nat
        BY <4>1
      <4> HIDE DEF longer
      <4>3. longer[i] = queue[i - 1] /\ i \in Nat /\ delivered \in Nat
        BY <2>2, <4>1
      <4> QED BY ONLY <2>1, <4>2, <4>3
    <3> QED BY <3>1, <3>2
  <2>4. CASE Capacity > 0 /\ Len(longer) > Capacity
    <3>1. queue' = DropOldest(longer) /\ queueLen' = queueLen
      BY <1>1, <2>4 DEF Deliver
    <3>2. /\ queue' \in Seq(Nat) /\ Len(queue') = Len(queue)
          /\ \A i \in 1..Len(queue) : queue'[i] = longer[i]
      <4> HIDE DEF longer
      <4>1. Len(longer) > 0 /\ Len(longer) - 1 = Len(queue)
        BY <2>2
      <4> QED BY <2>2, <3>1, <4>1, DropOldestProperties
    <3> HIDE DEF longer
    <3>3. \A i \in 1..Len(queue') : queue'[i] + i = delivered' + 1
      <4>1. Len(queue) \in Nat /\ \A i \in 1..Len(queue) : i \in 1..Len(longer)
        BY <2>2, LenProperties
      <4> QED BY ONLY <2>3, <3>2, <4>1
    <3> QED BY <2>1, <3>1, <3>2, <3>3
  <2>5. CASE ~(Capacity > 0 /\ Len(longer) > Capacity)
    <3>1. queue' = longer /\ queueLen' = queueLen + 1
      BY <1>1, <2>5 DEF Deliver
    <3> HIDE DEF longer
    <3> QED BY <2>1, <2>2, <2>3, <2>5, <3>1
  <2> QED BY <2>4, <2>5
<1>2. CASE Notify
  BY <1>2 DEF Notify
<1>3. CASE Retrieve
  <2>1. Len(queue) \in Nat /\ Len(queue) > 0
    BY <1>3, EmptySeq DEF Retrieve
  <2>2. /\ queue' \in Seq(Nat) /\ Len(queue') = Len(queue) - 1
        /\ \A i \in 1..(Len(queue) - 1) : queue'[i] = queue[i]
    BY <1>3, <2>1, DropOldestProperties DEF Retrieve
  <2>3. retrieved' + Len(queue) = delivered + 1 /\ retrieved' \in Nat
    BY <1>3, <2>1 DEF Retrieve, Oldest
  <2>4. /\ queueLen' = queueLen - 1 /\ delivered' = delivered /\ chNotify' = chNotify
    BY <1>3 DEF Retrieve
  <2>5. \A i \in 1..Len(queue') : queue'[i] + i = delivered' + 1
    <3>1. \A i \in 1..(Len(queue) - 1) : queue[i] + i = delivered + 1
      BY <2>1
    <3> QED BY ONLY <2>2, <2>4, <3>1
  <2> QED BY <2>1, <2>2, <2>3, <2>4, <2>5
<1>4. CASE RetrieveAll
  <2>1. Len(queue) \in Nat /\ Len(queue) > 0
    BY <1>4, EmptySeq DEF RetrieveAll
  <2>2. retrieved' = queue[1] /\ queue[1] = delivered
    BY <1>4, <2>1, HeadTailProperties DEF RetrieveAll
  <2>3. queue' = <<>> /\ Len(queue') = 0 /\ queue' \in Seq(Nat)
    BY <1>4 DEF RetrieveAll
  <2> QED BY <1>4, <2>2, <2>3 DEF RetrieveAll
<1>5. CASE UNCHANGED mbVars
  BY <1>5 DEF mbVars
<1> QED BY <1>1, <1>2, <1>3, <1>4, <1>5 DEF MBNext

\* The invariant holds of a new mailbox.
LEMMA MBInitInv == ASSUME MailboxAssumption, MBInit PROVE MBInv
<1>1. chNotify \in BOOLEAN
  BY DEF MBInit
<1>2. queue \in Seq(Nat) /\ Len(queue) = 0
  BY DEF MBInit
<1> QED
  BY <1>1, <1>2 DEF MailboxAssumption, MBInit, MBInv, MBTypeOK, MailboxFresh

\* A mailbox, whoever uses it, holds the items delivered last.
THEOREM MailboxCorrect == ASSUME MailboxAssumption PROVE MBSpec => []MailboxFresh
<1>1. MBInit => MBInv
  BY MBInitInv
<1>2. MBInv /\ [MBNext]_mbVars => MBInv'
  BY MBStepInv
<1>3. MBInv => MailboxFresh
  BY DEF MBInv
<1> QED BY <1>1, <1>2, <1>3, PTL DEF MBSpec

-----------------------------------------------------------------------------
(* SleeperTask.                                                            *)

\* The task uses its mailbox through the mailbox's operations.
THEOREM UsesMailbox == Spec => MBSpec
<1>1. Init => MBInit
  BY DEF Init
<1>2. [Next]_vars => [MBNext]_mbVars
  BY DEF Next, MBNext, WakeUp, WakeUpStep, Forward, WakeUpAdmission, Enqueue, Stop,
     StopStep, CloseStop, StopDone, StopTimesOut, WorkerStep, TakeWakeUp, Work,
     WorkReturns, WorkerStops, RetrieveNone, vars
<1> QED BY <1>1, <1>2, PTL DEF Spec, MBSpec

\* The mailbox of a task holds the items delivered last.
THEOREM TaskMailboxCorrect == ASSUME MailboxAssumption PROVE Spec => []MailboxFresh
BY UsesMailbox, MailboxCorrect, PTL

\* The calls' part of the types, and the worker after a Stop.
QuietInv ==
  /\ pc \in [Callers -> {"idle", "lock", "drain", "rwait", "rlocked", "fn",
                         "ok", "err", "panic"}]
  /\ StopQuiet

\* Once a Stop has returned without an error workerLoop is over, for good.
THEOREM StopCorrect == ASSUME CallersAssumption PROVE Spec => []StopQuiet
<1> USE DEF QuietInv, StopQuiet, Callers, Writers, Readers, CallersAssumption
<1>1. Init => QuietInv
  BY DEF Init
<1>2. ASSUME QuietInv, [Next]_vars PROVE QuietInv'
  <2>1. ASSUME NEW t \in IfStartedCalls, WakeUp(t) \/ WakeUpStep(t) PROVE QuietInv'
    BY <1>2, <2>1 DEF WakeUp, WakeUpStep, Forward, WakeUpAdmission, Enqueue, IfCall, RLock,
       IfRun, IfRefused, IfReturn, RUnlock, taskVars
  <2>2. ASSUME NEW t \in Closers, Stop(t) PROVE QuietInv'
    BY <1>2, <2>2 DEF Stop, StopOnce, Lock, StopRun, StopRefused, Locked, Unlock, taskVars
  <2>3. ASSUME NEW t \in Closers, StopStep(t) PROVE QuietInv'
    BY <1>2, <2>3 DEF StopStep, CloseStop, StopDone, StopTimesOut, StopReturn, Unlock,
       taskVars, smVars
  <2>4. CASE WorkerStep
    BY <1>2, <2>4 DEF WorkerStep, TakeWakeUp, Work, WorkReturns, WorkerStops, smVars
  <2>5. CASE UNCHANGED <<smVars, taskVars>>
    BY <1>2, <2>5 DEF smVars, taskVars
  <2> QED BY <1>2, <2>1, <2>2, <2>3, <2>4, <2>5 DEF Next, vars
<1>3. QuietInv => StopQuiet
  OBVIOUS
<1> QED BY <1>1, <1>2, <1>3, PTL DEF Spec

\* While the task is started an item in the mailbox has a signal on its way to
\* Work: the notification, a WakeUpIfStarted that has begun, the wake-up in
\* chQueue, or Work itself, which goes on until the mailbox is empty.  It is
\* the safety half of DeliveredHandled: fairness moves the signal along.
SignalPending ==
  state = "Started" /\ queue # <<>> =>
    \/ chNotify
    \/ \E t \in Forwards : pc[t] \in {"rwait", "rlocked", "fn"}
    \/ chQueue
    \/ wpc = "work"

SignalInv ==
  /\ pc \in [Callers -> {"idle", "lock", "drain", "rwait", "rlocked", "fn",
                         "ok", "err", "panic"}]
  /\ SignalPending

\* However deliveries, notifications, wake-ups and Work overlap, neither the
\* mailbox's nor the task's channel of capacity one loses the last signal.
THEOREM NoSignalLost ==
  ASSUME CallersAssumption, ForwardsAssumption PROVE Spec => []SignalPending
<1> USE DEF SignalInv, SignalPending, Callers, Writers, Readers, CallersAssumption,
            ForwardsAssumption
<1>1. Init => SignalInv
  BY DEF Init, MBInit
<1>2. ASSUME SignalInv, [Next]_vars PROVE SignalInv'
  <2>1. CASE Deliver /\ UNCHANGED <<smVars, taskVars>>
    BY <1>2, <2>1 DEF Deliver, smVars, taskVars
  <2>2. ASSUME NEW t \in IfStartedCalls, WakeUp(t) PROVE SignalInv'
    BY <1>2, <2>2 DEF WakeUp, IfCall, RLock, mbVars, taskVars
  <2>3. ASSUME NEW t \in IfStartedCalls, Forward(t) PROVE SignalInv'
    BY <1>2, <2>3 DEF Forward, Notify, IfCall, RLock, taskVars
  <2>4. ASSUME NEW t \in IfStartedCalls, WakeUpAdmission(t) PROVE SignalInv'
    BY <1>2, <2>4 DEF WakeUpAdmission, IfRun, IfRefused, Admitted, RUnlock, mbVars, taskVars
  <2>5. ASSUME NEW t \in IfStartedCalls, Enqueue(t) PROVE SignalInv'
    BY <1>2, <2>5 DEF Enqueue, IfReturn, RUnlock, mbVars
  <2>6. ASSUME NEW t \in Closers, Stop(t) PROVE SignalInv'
    BY <1>2, <2>6 DEF Stop, StopOnce, Lock, StopRun, StopRefused, Locked, Unlock,
       mbVars, taskVars
  <2>7. ASSUME NEW t \in Closers, StopStep(t) PROVE SignalInv'
    BY <1>2, <2>7 DEF StopStep, CloseStop, StopDone, StopTimesOut, StopReturn, Unlock,
       mbVars, taskVars, smVars
  <2>8. CASE WorkerStep
    BY <1>2, <2>8 DEF WorkerStep, TakeWakeUp, Work, WorkReturns, WorkerStops, Retrieve,
       RetrieveNone, RetrieveAll, smVars, mbVars
  <2>9. CASE UNCHANGED vars
    BY <1>2, <2>9 DEF vars, smVars, mbVars, taskVars
  <2> QED
    BY <1>2, <2>1, <2>2, <2>3, <2>4, <2>5, <2>6, <2>7, <2>8, <2>9 DEF Next, WakeUpStep
<1>3. SignalInv => SignalPending
  OBVIOUS
<1> QED BY <1>1, <1>2, <1>3, PTL DEF Spec

-----------------------------------------------------------------------------
(* The task uses its state machine through StopOnce and IfStarted.          *)

\* A stop that is under way or over has taken the task out of "Started".
TaskInv == SMInv /\ (chStop => state # "Started")

\* The invariant holds when the constructor has returned, and every step
\* preserves it.
LEMMA TaskInvariance ==
  ASSUME CallersAssumption, ConstructorAssumption PROVE Spec => []TaskInv
<1>1. Init => TaskInv
  BY DEF Init, TaskInv, SMInv, SMTypeOK, Roles, LockInv, StateInv, AdmissionHolds,
     RunOnce, NoPanic, States, Callers, Writers, Readers, CallersAssumption,
     ConstructorAssumption
<1>2. [Next]_vars => [SMNext]_smVars
  BY DEF Next, SMNext, SMCall, Writers, Readers, WakeUp, WakeUpStep, Forward,
     WakeUpAdmission, Enqueue, Stop, StopStep, CloseStop, StopDone, StopTimesOut,
     WorkerStep, TakeWakeUp, Work, WorkReturns, WorkerStops, vars
<1>3. ASSUME TaskInv, [Next]_vars PROVE TaskInv'
  <2>1. SMInv'
    BY <1>2, <1>3, SMStepInv DEF TaskInv
  <2>2. ASSUME NEW t \in Closers, CloseStop(t) PROVE state' # "Started"
    BY <1>3, <2>2 DEF CloseStop, TaskInv, SMInv, StateInv, smVars
  <2>3. ASSUME NEW t \in Closers, Stop(t) \/ StopDone(t) \/ StopTimesOut(t)
        PROVE  chStop' = chStop /\ (state' = "Started" => state = "Started")
    BY <2>3 DEF Stop, StopOnce, Lock, StopRun, StopRefused, StopDone, StopTimesOut,
       StopReturn, taskVars
  <2>4. ASSUME NEW t \in IfStartedCalls, WakeUp(t) \/ WakeUpStep(t)
        PROVE  chStop' = chStop /\ state' = state
    BY <2>4 DEF WakeUp, WakeUpStep, Forward, WakeUpAdmission, Enqueue, IfCall, RLock,
       IfRun, IfRefused, IfReturn, RUnlock, taskVars
  <2>5. CASE WorkerStep \/ UNCHANGED <<smVars, taskVars>>
    BY <1>3, <2>1, <2>5 DEF WorkerStep, TakeWakeUp, Work, WorkReturns, WorkerStops,
       smVars, taskVars, TaskInv
  <2>6. chStop' => state' # "Started"
    BY <1>3, <2>2, <2>3, <2>4, <2>5 DEF TaskInv, Next, StopStep, vars
  <2> QED BY <2>1, <2>6 DEF TaskInv
<1> QED BY <1>1, <1>3, PTL DEF Spec

\* The state machine's guarantees hold of the task: Stop's function runs once
\* and alone, a wake-up is only enqueued by a task that is started for the
\* whole of the call, and no "unreachable state" panic is reached.
THEOREM TaskLifecycleCorrect ==
  ASSUME CallersAssumption, ConstructorAssumption
  PROVE  Spec => [](FunctionsExclusive /\ AdmissionHolds /\ RunOnce /\ NoPanic)
<1>1. TaskInv => FunctionsExclusive
  BY Exclusive DEF TaskInv
<1>2. TaskInv => AdmissionHolds /\ RunOnce /\ NoPanic
  BY DEF TaskInv, SMInv
<1> QED BY <1>1, <1>2, TaskInvariance, PTL

\* Stop has closed chStop: it stays closed and no wake-up gets in any more, so
\* workerLoop begins at most the one Work that was queued before.
NoWakeUpAfterStop == [][chStop => chStop' /\ (chQueue' => chQueue)]_vars

\* A WakeUp that raced with Stop cannot enqueue once chStop is closed: IfStarted
\* holds the read lock around the send, and Stop closes under the write lock.
THEOREM WakeUpsEnd ==
  ASSUME CallersAssumption, ConstructorAssumption PROVE Spec => NoWakeUpAfterStop
<1>1. ASSUME TaskInv, Next, chStop PROVE chStop' /\ (chQueue' => chQueue)
  <2>1. ASSUME NEW t \in IfStartedCalls PROVE ~Enqueue(t)
    BY <1>1 DEF Enqueue, IfReturn, TaskInv, SMInv, AdmissionHolds, Admitted, Readers
  <2>2. ASSUME NEW t \in Closers, CloseStop(t) PROVE FALSE
    BY <1>1, <2>2 DEF CloseStop
  <2>3. CASE TakeWakeUp
    BY <1>1, <2>3 DEF TakeWakeUp
  <2>4. CASE UNCHANGED <<chStop, chQueue>>
    BY <1>1, <2>4
  <2>5. ASSUME NEW t \in Closers, Stop(t) \/ StopDone(t) \/ StopTimesOut(t)
        PROVE  UNCHANGED <<chStop, chQueue>>
    BY <2>5 DEF Stop, StopDone, StopTimesOut, taskVars
  <2>6. ASSUME NEW t \in IfStartedCalls, WakeUp(t) \/ Forward(t) \/ WakeUpAdmission(t)
        PROVE  UNCHANGED <<chStop, chQueue>>
    BY <2>6 DEF WakeUp, Forward, WakeUpAdmission, taskVars
  <2>7. CASE Work \/ WorkReturns \/ WorkerStops
    BY <2>4, <2>7 DEF Work, WorkReturns, WorkerStops
  <2> QED
    BY <1>1, <2>1, <2>2, <2>3, <2>4, <2>5, <2>6, <2>7
    DEF Next, WakeUpStep, StopStep, WorkerStep, taskVars
<1>2. TaskInv /\ [Next]_vars => [chStop => chStop' /\ (chQueue' => chQueue)]_vars
  BY <1>1
<1> QED BY <1>2, TaskInvariance, PTL DEF Spec, NoWakeUpAfterStop
=============================================================================
