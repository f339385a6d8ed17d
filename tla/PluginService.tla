--------------------------- MODULE PluginService ---------------------------
(***************************************************************************)
(* goplugin.PluginService (pkg/loop/internal/goplugin/plugin_service.go):  *)
(* the supervision of one LOOP plugin process.  The keepAlive goroutine    *)
(* launches the process, pings it and launches another one when it is      *)
(* gone; Close stops the goroutine, closes the service and kills the       *)
(* process.  Calls through the plugin are modelled in ClientConn.          *)
(*                                                                         *)
(* Processes are numbered in the order they are launched, 0 is nil.  A     *)
(* process may crash at any time, and every call of the go-plugin library  *)
(* may fail; MaxFaults bounds the number of such faults.                   *)
(***************************************************************************)
EXTENDS Naturals

CONSTANT MaxFaults

ASSUME MaxFaultsAssumption == MaxFaults \in Nat

VARIABLES
  running,     \* the plugin processes that are alive
  launches,    \* the number of processes launched so far
  client,      \* s.client and s.clientProtocol: the process supervised, or 0
  launching,   \* launch's client: the process being launched, or 0
  pluginConn,  \* PluginClient: the process its broker and connection lead to
  kpc,         \* where keepAlive is
  serviceCh,   \* closed: Service is available
  stopCh,      \* closed: Close has begun
  spc,         \* where Close is
  faults       \* the number of faults so far

procVars == <<running, launches, client, launching, pluginConn, faults>>
psVars == <<procVars, kpc, serviceCh, stopCh, spc>>

Fault == faults < MaxFaults /\ faults' = faults + 1

\* A plugin process dies by itself.
Crash(p) ==
  /\ p \in running
  /\ Fault
  /\ running' = running \ {p}
  /\ UNCHANGED <<launches, client, launching, pluginConn, kpc, serviceCh,
                 stopCh, spc>>

-----------------------------------------------------------------------------
(* Start and keepAlive.                                                    *)

Start ==
  /\ kpc = "idle"
  /\ kpc' = "check"
  /\ UNCHANGED <<procVars, serviceCh, stopCh, spc>>

\* The process runs and answers Ping.
CheckHealthy ==
  /\ kpc = "check"
  /\ client \in running
  /\ kpc' = "select"
  /\ UNCHANGED <<procVars, serviceCh, stopCh, spc>>

\* It was never launched, has exited, or does not answer: tryLaunch closes the
\* old client (closeClient) and launches another one.
CheckFailed ==
  /\ kpc = "check"
  /\ IF client \in running THEN Fault ELSE UNCHANGED faults
  /\ running' = running \ {client}
  /\ kpc' = "launch"
  /\ UNCHANGED <<launches, client, launching, pluginConn, serviceCh, stopCh,
                 spc>>

\* launch: client.Client() starts the process.
LaunchProcess ==
  /\ kpc = "launch"
  /\ launches' = launches + 1
  /\ launching' = launches'
  /\ running' = running \cup {launches'}
  /\ kpc' = "dispense"
  /\ UNCHANGED <<client, pluginConn, serviceCh, stopCh, spc, faults>>

LaunchFails ==
  /\ kpc = "launch"
  /\ Fault
  /\ client' = 0
  /\ kpc' = "select"
  /\ UNCHANGED <<running, launches, launching, pluginConn, serviceCh, stopCh,
                 spc>>

\* launch returns its client, and tryLaunch stores it.
Launched ==
  /\ client' = launching
  /\ launching' = 0
  /\ kpc' = "select"

\* Mutant of Dispense: the PluginClient keeps its first connection.
DispenseOnce ==
  /\ kpc = "dispense"
  /\ launching \in running
  /\ pluginConn' = IF serviceCh THEN pluginConn ELSE launching
  /\ IF serviceCh THEN Launched
                  ELSE kpc' = "newService" /\ UNCHANGED <<client, launching>>
  /\ UNCHANGED <<running, launches, serviceCh, stopCh, spc, faults>>

\* Dispense calls GRPCClient, which refreshes the PluginClient.
Dispense ==
  /\ kpc = "dispense"
  /\ launching \in running
  /\ pluginConn' = launching
  /\ IF serviceCh THEN Launched
                  ELSE kpc' = "newService" /\ UNCHANGED <<client, launching>>
  /\ UNCHANGED <<running, launches, serviceCh, stopCh, spc, faults>>

NewService ==
  /\ kpc = "newService"
  /\ serviceCh' = TRUE
  /\ Launched
  /\ UNCHANGED <<running, launches, pluginConn, stopCh, spc, faults>>

\* Mutant of Abort: the process is left running.
AbortNoKill ==
  /\ kpc \in {"dispense", "newService"}
  /\ IF launching \in running THEN Fault ELSE UNCHANGED faults
  /\ launching' = 0
  /\ client' = 0
  /\ kpc' = "select"
  /\ UNCHANGED <<running, launches, pluginConn, serviceCh, stopCh, spc>>

\* Dispense or newService fails: abort kills the process.
Abort ==
  /\ kpc \in {"dispense", "newService"}
  /\ IF launching \in running THEN Fault ELSE UNCHANGED faults
  /\ running' = running \ {launching}
  /\ launching' = 0
  /\ client' = 0
  /\ kpc' = "select"
  /\ UNCHANGED <<launches, pluginConn, serviceCh, stopCh, spc>>

KeepAliveTick ==
  /\ kpc = "select"
  /\ kpc' = "check"
  /\ UNCHANGED <<procVars, serviceCh, stopCh, spc>>

KeepAliveStop ==
  /\ kpc = "select"
  /\ stopCh
  /\ kpc' = "done"
  /\ UNCHANGED <<procVars, serviceCh, stopCh, spc>>

-----------------------------------------------------------------------------
(* Close.                                                                  *)

\* StopOnce lets one call in, once started.
Close ==
  /\ spc = "idle"
  /\ kpc # "idle"
  /\ stopCh' = TRUE
  /\ spc' = "wait"
  /\ UNCHANGED <<procVars, kpc, serviceCh>>

\* wg.Wait returns.
CloseWaited ==
  /\ spc = "wait"
  /\ kpc = "done"
  /\ spc' = IF serviceCh THEN "service" ELSE "kill"
  /\ UNCHANGED <<procVars, kpc, serviceCh, stopCh>>

\* Service.Close has returned.
ServiceClosed ==
  /\ spc = "service"
  /\ spc' = "kill"
  /\ UNCHANGED <<procVars, kpc, serviceCh, stopCh>>

\* closeClient.
CloseClient ==
  /\ spc = "kill"
  /\ running' = running \ {client}
  /\ spc' = "done"
  /\ UNCHANGED <<launches, client, launching, pluginConn, faults, kpc,
                 serviceCh, stopCh>>

-----------------------------------------------------------------------------

PSInit ==
  /\ running = {}
  /\ launches = 0
  /\ client = 0
  /\ launching = 0
  /\ pluginConn = 0
  /\ kpc = "idle"
  /\ serviceCh = FALSE
  /\ stopCh = FALSE
  /\ spc = "idle"
  /\ faults = 0

\* What keepAlive does between two selects.
KeepAliveStep ==
  \/ CheckHealthy \/ CheckFailed
  \/ LaunchProcess \/ LaunchFails \/ Dispense \/ NewService \/ Abort
  \/ KeepAliveTick

\* Every step but those of Service.Close.
PSCall ==
  \/ Start \/ KeepAliveStep \/ KeepAliveStop
  \/ Close \/ CloseWaited \/ CloseClient
  \/ \E p \in running : Crash(p)

PSNext == PSCall \/ ServiceClosed

PSSpec == PSInit /\ [][PSNext]_psVars

-----------------------------------------------------------------------------
(* Properties.                                                             *)

PSTypeOK ==
  /\ launches \in Nat
  /\ running \subseteq 1..launches
  /\ client \in 0..launches /\ launching \in 0..launches
  /\ pluginConn \in 0..launches
  /\ kpc \in {"idle", "check", "launch", "dispense", "newService", "select",
              "done"}
  /\ spc \in {"idle", "wait", "service", "kill", "done"}
  /\ serviceCh \in BOOLEAN
  /\ stopCh \in BOOLEAN
  /\ faults \in 0..MaxFaults

\* Whatever fails during a launch, and however Close meets it, at most one
\* plugin process runs; it is the one supervised or being launched; and when
\* Close has returned no process is left behind.
NoOrphans ==
  /\ \A p, q \in running : p = q
  /\ running \subseteq {client, launching}
  /\ spc = "done" => running = {}
=============================================================================
