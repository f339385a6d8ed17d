---------------------------- MODULE SleeperTask ----------------------------
(***************************************************************************)
(* utils.SleeperTask (pkg/utils/sleeper_task.go) on top of StateMachine,   *)
(* with a worker that empties a Mailbox.  The task wakes up through a      *)
(* queue of capacity one; so does a reader of the mailbox, and here the    *)
(* one drives the other: whoever receives the mailbox's notification calls *)
(* WakeUpIfStarted.  An item gets through if no signal is lost on the way. *)
(*                                                                         *)
(* The worker and the callers are external to the two components.          *)
(***************************************************************************)
EXTENDS StateMachine, Mailbox

CONSTANT Forwards   \* the IfStarted calls made on a notification

ASSUME ForwardsAssumption == Forwards \subseteq IfStartedCalls

\* Only NewSleeperTaskCtx calls StartOnce, and once.
ASSUME ConstructorAssumption == \A t, u \in Starters : t = u

VARIABLES
  chQueue,  \* chQueue holds a wake-up
  chStop,   \* closed
  wpc       \* where workerLoop is; chDone is closed when it is done

taskVars == <<chQueue, chStop, wpc>>
vars == <<smVars, mbVars, taskVars>>

-----------------------------------------------------------------------------
(* WakeUp and WakeUpIfStarted: a WakeUp that is refused panics.            *)

\* WakeUp, by anyone at any time.
WakeUp(t) ==
  /\ t \notin Forwards
  /\ IfCall(t)
  /\ UNCHANGED <<mbVars, taskVars>>

\* A reader of the mailbox is notified and calls WakeUpIfStarted.
Forward(t) ==
  /\ t \in Forwards
  /\ Notify
  /\ IfCall(t)
  /\ UNCHANGED taskVars

WakeUpAdmission(t) ==
  /\ IfRun(t) \/ IfRefused(t)
  /\ UNCHANGED <<mbVars, taskVars>>

\* Mutant of Enqueue: a busy worker is not woken up again.
EnqueueIdle(t) ==
  /\ IfReturn(t)
  /\ chQueue' = (chQueue \/ wpc = "select")
  /\ UNCHANGED <<mbVars, chStop, wpc>>

\* The function passed to IfStarted; the send has a default.
Enqueue(t) ==
  /\ IfReturn(t)
  /\ chQueue' = TRUE
  /\ UNCHANGED <<mbVars, chStop, wpc>>

-----------------------------------------------------------------------------
(* workerLoop.                                                             *)

TakeWakeUp ==
  /\ wpc = "select"
  /\ chQueue
  /\ chQueue' = FALSE
  /\ wpc' = "work"
  /\ UNCHANGED <<smVars, mbVars, chStop>>

\* Work retrieves one item after the other until nothing is left, or all of
\* them at once.
Work ==
  /\ wpc = "work"
  /\ \/ Retrieve /\ UNCHANGED wpc
     \/ (RetrieveNone \/ RetrieveAll) /\ wpc' = "worked"
  /\ UNCHANGED <<smVars, chQueue, chStop>>

WorkReturns ==
  /\ wpc = "worked"
  /\ wpc' = "select"
  /\ UNCHANGED <<smVars, mbVars, chQueue, chStop>>

WorkerStops ==
  /\ wpc = "select"
  /\ chStop
  /\ wpc' = "done"
  /\ UNCHANGED <<smVars, mbVars, chQueue, chStop>>

-----------------------------------------------------------------------------
(* Stop.                                                                   *)

Stop(t) ==
  /\ StopOnce(t) \/ Lock(t) \/ StopRun(t) \/ StopRefused(t)
  /\ UNCHANGED <<mbVars, taskVars>>

CloseStop(t) ==
  /\ pc[t] = "fn"
  /\ ~chStop
  /\ chStop' = TRUE
  /\ UNCHANGED <<smVars, mbVars, chQueue, wpc>>

\* Mutant of StopDone: chDone is not waited for when no wake-up is queued.
StopDoneIdle(t) ==
  /\ chStop
  /\ wpc = "done" \/ ~chQueue
  /\ StopReturn(t, TRUE)
  /\ UNCHANGED <<mbVars, taskVars>>

StopDone(t) ==
  /\ chStop
  /\ wpc = "done"
  /\ StopReturn(t, TRUE)
  /\ UNCHANGED <<mbVars, taskVars>>

\* The 15 seconds are over.
StopTimesOut(t) ==
  /\ chStop
  /\ StopReturn(t, FALSE)
  /\ UNCHANGED <<mbVars, taskVars>>

-----------------------------------------------------------------------------

\* NewSleeperTaskCtx has returned: StartOnce is over, workerLoop runs.
Init ==
  /\ state = "Started"
  /\ pc = [t \in Callers |-> IF t \in Starters THEN "ok" ELSE "idle"]
  /\ writer = NoOne
  /\ readers = {}
  /\ MBInit
  /\ chQueue = FALSE
  /\ chStop = FALSE
  /\ wpc = "select"

WakeUpStep(t) == Forward(t) \/ WakeUpAdmission(t) \/ Enqueue(t)
StopStep(t) == CloseStop(t) \/ StopDone(t) \/ StopTimesOut(t)
WorkerStep == TakeWakeUp \/ Work \/ WorkReturns \/ WorkerStops

Next ==
  \/ Deliver /\ UNCHANGED <<smVars, taskVars>>
  \/ \E t \in IfStartedCalls : WakeUp(t) \/ WakeUpStep(t)
  \/ \E t \in Closers : Stop(t) \/ StopStep(t)
  \/ WorkerStep

\* The goroutines go on: a notification is received, a call that has begun
\* proceeds (Stop at the latest when its time is over), and Work returns.
Fairness ==
  /\ \A t \in IfStartedCalls : WF_vars(WakeUpStep(t))
  /\ \A t \in Closers : WF_vars(pc[t] # "idle" /\ Stop(t)) /\ WF_vars(StopStep(t))
  /\ WF_vars(WorkerStep)

Spec == Init /\ [][Next]_vars /\ Fairness

-----------------------------------------------------------------------------
(* Properties.                                                             *)

\* Every item leaves the mailbox, taken by Work or pushed out by newer items, as
\* long as the task is not being stopped: however deliveries, notifications,
\* wake-ups and Work overlap, none of the two signals is lost for good.  The
\* promise ends with chStop: a wake-up that is queued then may be dropped.
DeliveredHandled ==
  \A x \in 1..MaxDeliveries :
    (\E i \in 1..Len(queue) : queue[i] = x) ~>
      (chStop \/ \A i \in 1..Len(queue) : queue[i] # x)

\* Once a Stop has returned without an error no Work is running and none will:
\* workerLoop is over, however the wake-ups, Work and the other Stop raced.
StopQuiet == \A t \in Closers : pc[t] = "ok" => wpc = "done"
=============================================================================
