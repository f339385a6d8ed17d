-------------------------- MODULE MonitoringProofs --------------------------
(***************************************************************************)
(* Proofs about the monitoring pipeline, for any set of feeds and of       *)
(* configurations, and any number of changes, exporters and updates.       *)
(***************************************************************************)
EXTENDS Monitoring, TLAPS

\* The constants' assumptions.
Assumptions == MonitorAssumption /\ ConfigsAssumption

\* Every generation is due to a change of the configuration that has been seen:
\* one that has not been fetched, and one that has not been sent, are not.
CountInv ==
  gen + (IF mpc = "drain" THEN 1 ELSE 0)
      + (IF fetched # currentData THEN 1 ELSE 0)
      + (IF rdd # fetched THEN 1 ELSE 0) <= changes + 1

IInv == TypeOK /\ CountInv /\ OneGeneration /\ CleanupLast

\* The invariant holds at first.
LEMMA InitIInv == ASSUME Assumptions, Init PROVE IInv
BY DEF Assumptions, MonitorAssumption, ConfigsAssumption, Init, IInv, TypeOK, CountInv,
       OneGeneration, CleanupLast, Quiet, Stopped, Generations

\* The steps of the environment and of the configuration's poller preserve it.
LEMMA OuterIInv ==
  ASSUME Assumptions, IInv,
         \/ \E d \in Configs : ChangeConfig(d)
         \/ Shutdown \/ RDDStep
  PROVE  IInv'
<1>1. UNCHANGED <<mon, canceled, mpc, currentData, gen>>
  BY DEF ChangeConfig, Shutdown, RDDStep, RDDFetched, RDDFetchFailed, RDDTick,
     RDDStopped, managerVars
<1>2. OneGeneration' /\ CleanupLast'
  BY <1>1 DEF IInv, OneGeneration, CleanupLast, Quiet
<1>3. TypeOK'
  <2> USE <1>1 DEF IInv, TypeOK, Assumptions, ConfigsAssumption
  <2>1. ASSUME NEW d \in Configs, ChangeConfig(d) PROVE TypeOK'
    BY <2>1 DEF ChangeConfig, pollerVars
  <2>2. CASE Shutdown
    BY <2>2 DEF Shutdown, pollerVars
  <2>3. CASE RDDStep
    BY <2>3 DEF RDDStep, RDDFetched, RDDFetchFailed, RDDTick, RDDStopped, envVars
  <2> QED BY <2>1, <2>2, <2>3
<1>4. CountInv'
  BY <1>1 DEF IInv, TypeOK, CountInv, Assumptions, ConfigsAssumption, ChangeConfig,
     Shutdown, RDDStep, RDDFetched, RDDFetchFailed, RDDTick, RDDStopped, envVars,
     pollerVars
<1> QED BY <1>2, <1>3, <1>4 DEF IInv

\* The manager's steps preserve it: it starts a generation when the one before
\* is over.
LEMMA ManagerIInv ==
  ASSUME Assumptions, IInv, ManagerStep \/ StopManager PROVE IInv'
<1> USE DEF IInv, Assumptions, MonitorAssumption, ConfigsAssumption
<1>1. CASE Update
  <2>1. TypeOK' /\ CountInv'
    <3> USE <1>1 DEF Update, TypeOK, CountInv, envVars
    <3>1. CASE fetched = currentData
      BY <3>1
    <3>2. CASE fetched # currentData
      <4>0. /\ canceled \subseteq 0..gen /\ gen \in Nat
            /\ canceled' = canceled \cup {gen} /\ gen' = gen
        BY <3>2
      <4>1. canceled' \subseteq 0..gen'
        BY ONLY <4>0
      <4>2. TypeOK'
        BY <3>2, <4>1
      <4>3. CountInv'
        BY <3>2
      <4> QED BY <4>2, <4>3
    <3> QED BY <3>1, <3>2
  <2>2. OneGeneration' /\ CleanupLast'
    BY <1>1 DEF Update, OneGeneration, CleanupLast, Quiet
  <2> QED BY <2>1, <2>2
<1>2. CASE StartGeneration
  <2>1. gen' = gen + 1 /\ gen' \in Generations /\ mpc' = "select"
    BY <1>2 DEF StartGeneration, TypeOK, CountInv, Generations
  <2>2. PICK tracked \in SUBSET currentData :
          mon' = [mon EXCEPT ![gen'] = [f \in Feeds |-> IF f \in tracked THEN Started ELSE Stopped]]
    BY <1>2 DEF StartGeneration
  <2>3. \A g \in Generations : g # gen' => mon'[g] = mon[g] /\ Quiet(g)
    BY <1>2, <2>1, <2>2 DEF StartGeneration, Drained, OneGeneration, TypeOK, Generations
  <2>4. OneGeneration' /\ CleanupLast'
    BY <2>1, <2>2, <2>3 DEF OneGeneration, CleanupLast, Quiet, TypeOK, Started, Stopped
  <2>5. TypeOK'
    BY <1>2, <2>1, <2>2 DEF StartGeneration, TypeOK, envVars, pollerVars, Started, Stopped,
       Generations
  <2>6. CountInv'
    BY <1>2 DEF StartGeneration, TypeOK, CountInv, envVars, pollerVars
  <2> QED BY <2>4, <2>5, <2>6
<1>3. CASE StopManager
  BY <1>3 DEF StopManager, TypeOK, CountInv, OneGeneration, CleanupLast, Quiet, envVars,
     pollerVars
<1>4. CASE ManagerStopped
  BY <1>4 DEF ManagerStopped, Drained, TypeOK, CountInv, OneGeneration, CleanupLast, Quiet,
     envVars, pollerVars
<1> QED BY <1>1, <1>2, <1>3, <1>4 DEF ManagerStep

\* A step of a monitor: the monitor is of the running generation.
LEMMA MonitorIInv ==
  ASSUME Assumptions, IInv, NEW g \in Generations, NEW f \in Feeds,
         Poll(g, f) \/ Fan(g, f) \/ Loop(g, f) \/ Export(g, f)
  PROVE  IInv'
<1> DEFINE Monitors == [poll : {"fetch", "send", "tick", "done"}, fan : {"recv", "hold", "done"},
        loop : {"consume", "wait", "cleanup", "done"}, buf : 0..BufferCapacity,
        exports : 0..MaxExports, cleanups : 0..Exporters]
           ok(m) == m.loop \in {"cleanup", "done"} => m.exports = 0
<1>1. mon[g][f] \in Monitors /\ ok(mon[g][f])
  BY DEF IInv, TypeOK, CleanupLast
<1>2. g = gen /\ mpc # "done"
  <2>1. ~Quiet(g)
    <3> SUFFICES ASSUME mon[g][f] = [Stopped EXCEPT !.buf = mon[g][f].buf] PROVE FALSE
      BY DEF Quiet
    <3>1. /\ mon[g][f].poll = "done" /\ mon[g][f].fan = "done" /\ mon[g][f].loop = "done"
          /\ mon[g][f].exports = 0 /\ mon[g][f].cleanups = 0
      BY DEF Stopped
    <3> QED
      BY <3>1 DEF Poll, PollStep, Fetched, PollerStopped, Send, PollerTick, Fan, FanStep,
         FanIn, FanStopped, Loop, LoopStep, Consume, BreakLoop, StartCleanup,
         MonitorReturns, Export, ExporterStep, ExportReturns, CleanupReturns
  <2> QED BY <2>1 DEF IInv, OneGeneration
<1>3. \E m \in Monitors : ok(m) /\ Become(g, f, m)
  <2> USE <1>1 DEF Assumptions, MonitorAssumption
  <2>1. CASE Fetched(g, f, Live(g))
    BY <2>1 DEF Fetched
  <2>2. CASE PollerStopped(g, f, Live(g))
    BY <2>2 DEF PollerStopped
  <2>3. CASE Send(g, f)
    <3> DEFINE m == [mon[g][f] EXCEPT !.poll = "tick", !.buf = @ + 1]
    <3>0. mon[g][f].buf + 1 \in 0..BufferCapacity
      BY <2>3 DEF Send
    <3>1. m \in Monitors /\ ok(m)
      BY ONLY <1>1, <3>0
    <3>2. Become(g, f, m)
      BY <2>3 DEF Send
    <3> QED BY <3>1, <3>2
  <2>4. CASE PollerTick(g, f)
    BY <2>4 DEF PollerTick
  <2>5. CASE FanIn(g, f)
    <3> DEFINE m == [mon[g][f] EXCEPT !.fan = "hold", !.buf = @ - 1]
    <3>0. mon[g][f].buf - 1 \in 0..BufferCapacity
      BY <2>5 DEF FanIn
    <3>1. m \in Monitors /\ ok(m)
      BY ONLY <1>1, <3>0
    <3>2. Become(g, f, m)
      BY <2>5 DEF FanIn
    <3> QED BY <3>1, <3>2
  <2>6. CASE FanStopped(g, f, Live(g))
    BY <2>6 DEF FanStopped
  <2>7. CASE Consume(g, f)
    <3> DEFINE m == [mon[g][f] EXCEPT !.fan = "recv", !.exports = @ + Exporters]
    <3>0. mon[g][f].exports + Exporters \in 0..MaxExports /\ mon[g][f].loop = "consume"
      BY <2>7 DEF Consume
    <3>1. m \in Monitors /\ ok(m)
      BY ONLY <1>1, <3>0
    <3>2. Become(g, f, m)
      BY <2>7 DEF Consume
    <3> QED BY <3>1, <3>2
  <2>8. CASE BreakLoop(g, f, Live(g))
    BY <2>8 DEF BreakLoop
  <2>9. CASE StartCleanup(g, f)
    <3> DEFINE m == [mon[g][f] EXCEPT !.loop = "cleanup", !.cleanups = Exporters]
    <3>0. Exporters \in 0..Exporters /\ mon[g][f].exports = 0
      BY <2>9 DEF StartCleanup
    <3>1. m \in Monitors /\ ok(m)
      BY ONLY <1>1, <3>0
    <3>2. Become(g, f, m)
      BY <2>9 DEF StartCleanup
    <3> QED BY <3>1, <3>2
  <2>10. CASE MonitorReturns(g, f)
    BY <2>10 DEF MonitorReturns
  <2>11. CASE ExportReturns(g, f)
    BY <2>11 DEF ExportReturns
  <2>12. CASE CleanupReturns(g, f)
    BY <2>12 DEF CleanupReturns
  <2> QED
    BY <2>1, <2>2, <2>3, <2>4, <2>5, <2>6, <2>7, <2>8, <2>9, <2>10, <2>11, <2>12
       DEF Poll, PollStep, Fan, FanStep, Loop, LoopStep, Export, ExporterStep
<1>4. UNCHANGED others
  BY DEF Poll, Fan, Loop, Export
<1>5. PICK m \in Monitors : ok(m) /\ Become(g, f, m)
  BY <1>3
<1>6. TypeOK' /\ CountInv'
  BY <1>4, <1>5 DEF IInv, TypeOK, CountInv, Become, others, envVars, pollerVars, managerVars
<1>7. OneGeneration'
  BY <1>2, <1>4, <1>5 DEF IInv, TypeOK, OneGeneration, Quiet, Become, others, managerVars
<1>8. CleanupLast'
  BY <1>5 DEF IInv, TypeOK, CleanupLast, Become
<1> QED BY <1>6, <1>7, <1>8 DEF IInv

\* The invariant holds in every reachable state.
THEOREM Invariance == ASSUME Assumptions PROVE Spec => []IInv
<1>1. Init => IInv
  BY InitIInv
<1>2. IInv /\ [Next]_vars => IInv'
  <2> SUFFICES ASSUME IInv, [Next]_vars PROVE IInv'
    OBVIOUS
  <2>1. CASE Next
    BY <2>1, OuterIInv, ManagerIInv, MonitorIInv DEF Next
  <2>2. CASE UNCHANGED vars
    BY <2>2 DEF vars, envVars, pollerVars, managerVars, IInv, TypeOK, CountInv,
       OneGeneration, CleanupLast, Quiet
  <2> QED BY <2>1, <2>2
<1> QED BY <1>1, <1>2, PTL DEF Spec

\* Every variable keeps its type: the buffers and the goroutines in flight stay
\* within their bounds, and no more generations start than configurations seen.
THEOREM TypeCorrect == ASSUME Assumptions PROVE Spec => []TypeOK
<1>1. IInv => TypeOK
  BY DEF IInv
<1> QED BY <1>1, Invariance, PTL

\* The monitors of two configurations never run at the same time, and none is
\* left when the manager has returned.
THEOREM OneGenerationCorrect == ASSUME Assumptions PROVE Spec => []OneGeneration
<1>1. IInv => OneGeneration
  BY DEF IInv
<1> QED BY <1>1, Invariance, PTL

\* Cleanup runs after all Exports.
THEOREM CleanupCorrect == ASSUME Assumptions PROVE Spec => []CleanupLast
<1>1. IInv => CleanupLast
  BY DEF IInv
<1> QED BY <1>1, Invariance, PTL
=============================================================================
