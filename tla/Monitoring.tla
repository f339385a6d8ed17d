----------------------------- MODULE Monitoring -----------------------------
(***************************************************************************)
(* Monitor.Run (pkg/monitoring/monitor.go): the poller of the feeds'       *)
(* configuration (source_rdd.go, poller.go), the manager that replaces the *)
(* generation of monitors when the configuration changes (manager.go), and *)
(* the monitors of each generation (multi_feed_monitor.go, FeedMonitor).   *)
(*                                                                         *)
(* A configuration is the set of feeds.  The network monitor is one more   *)
(* monitor of the same kind and is left out.                               *)
(***************************************************************************)
EXTENDS FeedMonitor

CONSTANTS
  Configs,      \* the configurations: sets of feeds
  NoConfig,     \* RDDData{}, before the first update
  MaxChanges    \* bound on the changes of the configuration

ASSUME ConfigsAssumption ==
  /\ \A d \in Configs : d \subseteq Feeds
  /\ NoConfig \notin Configs
  /\ MaxChanges \in Nat /\ MaxChanges < MaxGenerations

VARIABLES
  rdd,          \* the configuration at its URLs
  changes,      \* the number of changes so far
  root,         \* rootCtx is alive
  ppc,          \* where the configuration's poller is
  fetched,      \* the configuration it has fetched
  mpc,          \* where Manager.Run is
  currentData,  \* m.currentData
  gen           \* the generation of monitors started last, 0 for none

envVars == <<rdd, changes, root>>
pollerVars == <<ppc, fetched>>
managerVars == <<mpc, currentData, gen>>
vars == <<mon, canceled, envVars, pollerVars, managerVars>>

\* A generation's context is a child of rootCtx.
Live(g) == root /\ g \notin canceled

-----------------------------------------------------------------------------
(* The environment.                                                        *)

ChangeConfig(d) ==
  /\ changes < MaxChanges
  /\ d # rdd
  /\ rdd' = d
  /\ changes' = changes + 1
  /\ UNCHANGED <<mon, canceled, root, pollerVars, managerVars>>

\* A signal of the operating system, or StopCh.
Shutdown ==
  /\ root
  /\ root' = FALSE
  /\ UNCHANGED <<mon, canceled, rdd, changes, pollerVars, managerVars>>

-----------------------------------------------------------------------------
(* The configuration's poller; its channel has no buffer.                  *)

RDDFetched ==
  /\ ppc = "fetch"
  /\ fetched' = rdd
  /\ ppc' = "send"
  /\ UNCHANGED <<mon, canceled, envVars, managerVars>>

\* Fetching the feeds or the nodes fails.
RDDFetchFailed ==
  /\ ppc = "fetch"
  /\ ppc' = "tick"
  /\ UNCHANGED <<mon, canceled, envVars, fetched, managerVars>>

RDDTick ==
  /\ ppc = "tick"
  /\ ppc' = "fetch"
  /\ UNCHANGED <<mon, canceled, envVars, fetched, managerVars>>

\* Also the fetch that returns context.Canceled.
RDDStopped ==
  /\ ppc \in {"fetch", "send", "tick"}
  /\ ~root
  /\ ppc' = "done"
  /\ UNCHANGED <<mon, canceled, envVars, fetched, managerVars>>

-----------------------------------------------------------------------------
(* Manager.Run.                                                            *)

\* Mutant of Update: only more feeds count as a change.
UpdateGrown ==
  /\ mpc = "select"
  /\ ppc = "send"
  /\ ppc' = "tick"
  /\ IF currentData # NoConfig /\ fetched \subseteq currentData
       THEN UNCHANGED <<mpc, currentData, canceled>>
       ELSE /\ currentData' = fetched
            /\ canceled' = canceled \cup {gen}
            /\ mpc' = "drain"
  /\ UNCHANGED <<mon, envVars, fetched, gen>>

\* An update that differs from the current data ends the running generation.
Update ==
  /\ mpc = "select"
  /\ ppc = "send"
  /\ ppc' = "tick"
  /\ IF fetched = currentData
       THEN UNCHANGED <<mpc, currentData, canceled>>
       ELSE /\ currentData' = fetched
            /\ canceled' = canceled \cup {gen}
            /\ mpc' = "drain"
  /\ UNCHANGED <<mon, envVars, fetched, gen>>

Drained == \A g \in Generations : g = gen => Quiet(g)

\* Mutant of StartGeneration: localSubs.Wait is missing.
StartGenerationNow ==
  /\ mpc = "drain"
  /\ gen' = gen + 1
  /\ \E tracked \in SUBSET currentData :
       mon' = [mon EXCEPT ![gen'] = [f \in Feeds |-> IF f \in tracked THEN Started ELSE Stopped]]
  /\ mpc' = "select"
  /\ UNCHANGED <<canceled, envVars, pollerVars, currentData>>

\* Once the running generation is over, the next one starts, with the monitors
\* of the feeds whose sources and exporters can be made.
StartGeneration ==
  /\ mpc = "drain"
  /\ Drained
  /\ gen' = gen + 1
  /\ \E tracked \in SUBSET currentData :
       mon' = [mon EXCEPT ![gen'] = [f \in Feeds |-> IF f \in tracked THEN Started ELSE Stopped]]
  /\ mpc' = "select"
  /\ UNCHANGED <<canceled, envVars, pollerVars, currentData>>

StopManager ==
  /\ mpc = "select"
  /\ ~root
  /\ canceled' = canceled \cup {gen}
  /\ mpc' = "stopping"
  /\ UNCHANGED <<mon, envVars, pollerVars, currentData, gen>>

ManagerStopped ==
  /\ mpc = "stopping"
  /\ Drained
  /\ mpc' = "done"
  /\ UNCHANGED <<mon, canceled, envVars, pollerVars, currentData, gen>>

-----------------------------------------------------------------------------

Init ==
  /\ mon = [g \in Generations |-> [f \in Feeds |-> Stopped]]
  /\ canceled = {}
  /\ rdd \in Configs
  /\ changes = 0
  /\ root = TRUE
  /\ ppc = "fetch"
  /\ fetched = NoConfig
  /\ mpc = "select"
  /\ currentData = NoConfig
  /\ gen = 0

others == <<envVars, pollerVars, managerVars>>

RDDStep == RDDFetched \/ RDDFetchFailed \/ RDDTick \/ RDDStopped
ManagerStep == Update \/ StartGeneration \/ ManagerStopped
Poll(g, f)   == PollStep(g, f, Live(g)) /\ UNCHANGED others
Fan(g, f)    == FanStep(g, f, Live(g)) /\ UNCHANGED others
Loop(g, f)   == LoopStep(g, f, Live(g)) /\ UNCHANGED others
Export(g, f) == ExporterStep(g, f) /\ UNCHANGED others

Next ==
  \/ \E d \in Configs : ChangeConfig(d)
  \/ Shutdown
  \/ RDDStep
  \/ ManagerStep \/ StopManager
  \/ \E g \in Generations, f \in Feeds :
       Poll(g, f) \/ Fan(g, f) \/ Loop(g, f) \/ Export(g, f)

\* The steps that end a monitor's goroutines.
StopPolling(g, f) ==
  /\ Fetched(g, f, Live(g)) \/ PollerStopped(g, f, Live(g))
  /\ mon'[g][f].poll = "done"
  /\ UNCHANGED others
StopConsuming(g, f) ==
  /\ FanStopped(g, f, Live(g)) \/ BreakLoop(g, f, Live(g))
  /\ UNCHANGED others

\* Every goroutine goes on; a select that finds ctx.Done closed again and again
\* takes it; fetching the configuration does not fail for ever; Export and
\* Cleanup return.
Fairness ==
  /\ WF_vars(RDDStep) /\ SF_vars(RDDFetched) /\ SF_vars(RDDStopped)
  /\ SF_vars(Update)
  /\ WF_vars(ManagerStep) /\ WF_vars(StopManager)
  /\ \A f \in Feeds :
       /\ SF_vars(\E g \in Generations : StopPolling(g, f))
       /\ SF_vars(\E g \in Generations : StopConsuming(g, f))
       /\ WF_vars(\E g \in Generations : Poll(g, f) \/ Loop(g, f))
       /\ WF_vars(\E g \in Generations : Export(g, f))

Spec == Init /\ [][Next]_vars /\ Fairness

-----------------------------------------------------------------------------
(* Properties.                                                             *)

TypeOK ==
  /\ mon \in [Generations -> [Feeds ->
       [poll : {"fetch", "send", "tick", "done"}, fan : {"recv", "hold", "done"},
        loop : {"consume", "wait", "cleanup", "done"}, buf : 0..BufferCapacity,
        exports : 0..MaxExports, cleanups : 0..Exporters]]]
  /\ canceled \subseteq 0..gen
  /\ rdd \in Configs /\ fetched \in Configs \cup {NoConfig}
  /\ changes \in 0..MaxChanges
  /\ root \in BOOLEAN
  /\ ppc \in {"fetch", "send", "tick", "done"}
  /\ mpc \in {"select", "drain", "stopping", "done"}
  /\ currentData \in Configs \cup {NoConfig}
  /\ gen \in 0..MaxGenerations

\* The monitors of two configurations never run at the same time, and when the
\* manager has returned none is left: every goroutine of the previous
\* generation, exports and cleanups included, is over before the next starts.
OneGeneration ==
  \A g \in Generations : g # gen \/ mpc = "done" => Quiet(g)

\* "Cleanup happens after all the exporters have finished": no Export is in
\* flight when a Cleanup starts or after it.
CleanupLast ==
  \A g \in Generations, f \in Feeds :
    mon[g][f].loop \in {"cleanup", "done"} => mon[g][f].exports = 0

\* Unless the monitor is shut down, it ends up with the generation of the
\* configuration that the URLs have in the end, whatever fails and however the
\* changes fall between two fetches or into a restart.
ConfigFollowed ==
  <>(~root) \/ <>[](currentData = rdd /\ gen \notin canceled /\ mpc = "select")

\* Once the context is cancelled, Monitor.Run returns: the poller, the manager
\* and all monitors stop wherever they are.
ShutdownCompletes == ~root ~> (ppc = "done" /\ mpc = "done")
=============================================================================
