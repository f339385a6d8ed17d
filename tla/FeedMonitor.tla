---------------------------- MODULE FeedMonitor ----------------------------
(***************************************************************************)
(* The monitors of one generation of feeds (pkg/monitoring: run_monitor.go,*)
(* poller.go, feed_monitor.go).  A tracked feed has a goroutine that polls *)
(* its source, one that fans the updates in, the loop of FeedMonitor.Run   *)
(* that starts an Export per exporter and update, and the Cleanups after   *)
(* it.                                                                     *)
(*                                                                         *)
(* Updates are counted, not told apart.  live(g) is the generation's       *)
(* context; it is defined by the module that extends this one.             *)
(***************************************************************************)
EXTENDS Naturals

CONSTANTS
  Feeds,
  MaxGenerations,
  Exporters,        \* the number of exporters of a feed
  BufferCapacity,   \* of a source's updates
  MaxExports        \* bound on the Export goroutines in flight

ASSUME MonitorAssumption ==
  /\ Exporters \in Nat \ {0} /\ BufferCapacity \in Nat
  /\ MaxExports \in Nat /\ Exporters <= MaxExports
  /\ MaxGenerations \in Nat

VARIABLES
  mon,      \* mon[g][f]: the monitor of feed f in generation g
  canceled  \* the generations whose context the manager has cancelled

Generations == 1..MaxGenerations

\* A monitor: where its three goroutines are, the updates buffered, and the
\* Export and Cleanup goroutines in flight.
Stopped == [poll |-> "done", fan |-> "done", loop |-> "done",
            buf |-> 0, exports |-> 0, cleanups |-> 0]
Started == [poll |-> "fetch", fan |-> "recv", loop |-> "consume",
            buf |-> 0, exports |-> 0, cleanups |-> 0]

Quiet(g) == \A f \in Feeds : mon[g][f] = [Stopped EXCEPT !.buf = mon[g][f].buf]

\* The fields of a monitor that a step changes.
Become(g, f, m) == mon' = [mon EXCEPT ![g][f] = m] /\ UNCHANGED canceled

-----------------------------------------------------------------------------
(* sourcePoller.Run.                                                       *)

\* Fetch returns: data, an error or ErrNoUpdate (a panic is an error too), or
\* the cancellation.
Fetched(g, f, live) ==
  /\ mon[g][f].poll = "fetch"
  /\ \E next \in {"send", "tick"} \cup (IF live THEN {} ELSE {"done"}) :
       Become(g, f, [mon[g][f] EXCEPT !.poll = next])

\* Mutant of PollerStopped: a poller that waits for room does not look at ctx.
PollerStoppedTick(g, f, live) ==
  /\ mon[g][f].poll = "tick"
  /\ ~live
  /\ Become(g, f, [mon[g][f] EXCEPT !.poll = "done"])

PollerStopped(g, f, live) ==
  /\ mon[g][f].poll \in {"send", "tick"}
  /\ ~live
  /\ Become(g, f, [mon[g][f] EXCEPT !.poll = "done"])

Send(g, f) ==
  /\ mon[g][f].poll = "send"
  /\ mon[g][f].buf < BufferCapacity
  /\ Become(g, f, [mon[g][f] EXCEPT !.poll = "tick", !.buf = @ + 1])

PollerTick(g, f) ==
  /\ mon[g][f].poll = "tick"
  /\ Become(g, f, [mon[g][f] EXCEPT !.poll = "fetch"])

-----------------------------------------------------------------------------
(* feedMonitor.Run.                                                        *)

FanIn(g, f) ==
  /\ mon[g][f].fan = "recv"
  /\ mon[g][f].buf > 0
  /\ Become(g, f, [mon[g][f] EXCEPT !.fan = "hold", !.buf = @ - 1])

FanStopped(g, f, live) ==
  /\ mon[g][f].fan \in {"recv", "hold"}
  /\ ~live
  /\ Become(g, f, [mon[g][f] EXCEPT !.fan = "done"])

\* updatesFanIn has no buffer: the loop takes the update, and starts the Exports.
Consume(g, f) ==
  /\ mon[g][f].loop = "consume"
  /\ mon[g][f].fan = "hold"
  /\ mon[g][f].exports + Exporters <= MaxExports
  /\ Become(g, f, [mon[g][f] EXCEPT !.fan = "recv", !.exports = @ + Exporters])

ExportReturns(g, f) ==
  /\ mon[g][f].exports > 0
  /\ Become(g, f, [mon[g][f] EXCEPT !.exports = @ - 1])

BreakLoop(g, f, live) ==
  /\ mon[g][f].loop = "consume"
  /\ ~live
  /\ Become(g, f, [mon[g][f] EXCEPT !.loop = "wait"])

\* Mutant of StartCleanup: it waits for the fan-in goroutines alone.
StartCleanupEarly(g, f) ==
  /\ mon[g][f].loop = "wait"
  /\ mon[g][f].fan = "done"
  /\ Become(g, f, [mon[g][f] EXCEPT !.loop = "cleanup", !.cleanups = Exporters])

\* subs.Wait has returned.
StartCleanup(g, f) ==
  /\ mon[g][f].loop = "wait"
  /\ mon[g][f].fan = "done"
  /\ mon[g][f].exports = 0
  /\ Become(g, f, [mon[g][f] EXCEPT !.loop = "cleanup", !.cleanups = Exporters])

CleanupReturns(g, f) ==
  /\ mon[g][f].cleanups > 0
  /\ Become(g, f, [mon[g][f] EXCEPT !.cleanups = @ - 1])

MonitorReturns(g, f) ==
  /\ mon[g][f].loop = "cleanup"
  /\ mon[g][f].cleanups = 0
  /\ Become(g, f, [mon[g][f] EXCEPT !.loop = "done"])

PollStep(g, f, live) ==
  Fetched(g, f, live) \/ PollerStopped(g, f, live) \/ Send(g, f) \/ PollerTick(g, f)

FanStep(g, f, live) == FanIn(g, f) \/ FanStopped(g, f, live)

LoopStep(g, f, live) ==
  Consume(g, f) \/ BreakLoop(g, f, live) \/ StartCleanup(g, f) \/ MonitorReturns(g, f)

ExporterStep(g, f) == ExportReturns(g, f) \/ CleanupReturns(g, f)
=============================================================================
