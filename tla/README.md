# A TLA+ model of chainlink-common

chainlink-common is the Go library that the Chainlink node, its relayers and its
LOOP plugins share.  Most of its 80,000 lines are interfaces, gRPC proxies,
conversions and generated code.  What it has of behaviour of its own is a handful
of concurrent components; this project models them in TLA+, model-checks them on
small instances with TLC and proves their main properties, for all instances,
with TLAPS.

Contents: the system and its hard parts; the modules; the runs; the proofs; what
is not modelled; the plan.

## 1. The system

| Component | State | Operations | What is hard | What makes it correct |
|---|---|---|---|---|
| OCR3 request handler and store (`pkg/capabilities/consensus/ocr3/requests`, `capability.go` Execute) | requests by execution ID (list and map), pending requests, cached responses, one callback channel per call | Execute(start_request), Execute(send_response), expiry of requests and of cached responses, Close | requests, responses, two tickers, cancellation and Close meet in one `select`; a response may come early, late or twice | one answer per call, the right one, in time; no send on a closed channel; list and map agree |
| OCR3 reporting plugin (`reporting_plugin.go`, `aggregators/identical.go`, registrations in `capability.go`) | per node: store, registered workflows, aggregators, encoders; replicated: outcome per workflow with LastSeenAt | Query, Observation, Outcome, Reports, RegisterToWorkflow, UnregisterFromWorkflow, Transmit | nodes disagree on what they have; rounds are retried; Outcome has a side effect on the node it runs on | reports are agreed on and backed by a quorum; outcomes are deterministic; only workflows that are gone are pruned |
| Service state machine (`pkg/services/state.go`) | state, RWMutex, error buffer | StartOnce, StopOnce, IfStarted, IfNotStopped, Healthy | the state changes partly outside of the lock | functions run once and alone; a checked state is not stale; no panic |
| Service engine (`service.go`, `multi.go`, `stop.go`) | StopChan, tracked goroutines, sub-services, health conditions | Start, Close, Go | one step of several fails; shutdown order | nothing outlives what it uses; a closed service is quiet |
| HealthChecker (`health.go`) | services, their last health | Register, Unregister, update loop | registration during an update | no stale entries |
| OCR3 data feeds, LLO and reduce aggregators (`ocr3/datafeeds`, `ocr3/aggregators`) | metadata of the last outcome: what was recorded per feed, stream or field | Aggregate, once per round | faulty oracles; Go's map order; what is reported and what is recorded may differ | one outcome for all nodes; no value chosen by the faulty (both with an exception, section 2); bounded drift |
| SleeperTask, Mailbox (`pkg/utils`) | a queue of one wake-up; a bounded queue with a notification | WakeUp, Stop, worker loop; Deliver, Retrieve | wake-ups against Stop; overflow against notification | nothing left behind unnoticed; no work after Stop |
| LOOP plugin supervision and connections (`pkg/loop/internal/goplugin`, `net`) | the plugin process, its client, `clientConn` and the servers behind it | keepAlive, launch, Close, Invoke, refresh | crashes; refresh by several callers; Close against both | relaunch until closed; no process left; working connections are kept; calls get through |
| Triggers (`pkg/capabilities/triggers`) | subscriptions, channels | RegisterTrigger, UnregisterTrigger, process | a slow subscriber; unregistration during delivery | others are not held up; no send on a closed channel |
| Monitoring (`pkg/monitoring`) | feeds, pollers, monitors | Manager.Run, pollers, exporters | restart of everything on a change of feeds | one generation at a time; cleanup last; the last configuration wins; shutdown ends |
| WASM host, dependency graph (`pkg/workflows`), Merkle multi-proofs | mostly pure | | | |
| Codec, values, SQL, loggers, beholder, config, assets, billing, observability-lib | none worth a model | conversions and I/O | | |

How they interact: the workflow engine (outside of this repository) calls
`capability.Execute`, which offers the request to the handler's worker over an
unbuffered channel and waits on the request's own channel.  The worker puts it into
the store.  The reporting plugin, driven by the OCR3 protocol (external), reads the
store in Query and Observation, and the contract transmitter brings the result back
through `Execute(send_response)`, again to the worker, which evicts the request and
answers.  The handler is a service with one tracked goroutine; the capability is a
service with the handler as its sub-service: both are instances of what
`ServiceEngine` models.  Outcome calls the aggregator of each workflow, whose metadata
come back with the previous outcome.  A LOOP plugin is a process of its own: its
`PluginService` launches it, and calls go through a `clientConn` that asks the plugin for
a new connection, through the process's current `PluginClient`, when the old one breaks.

`PROJECT.json` lists every component with its sources, and the hazards: the places
where this code is hard to test, each with the properties that would catch it.

## 2. The modules

| Module | Models |
|---|---|
| `RequestStore` | the list operations of `store.go` (GetByIDs, evict, FirstN) as operators |
| `RequestService` | abstract: one right answer per accepted request, and it comes |
| `RequestHandler` | `capability.Execute`, the handler's worker, the store, the clock; refines `RequestService` |
| `ReportingPlugin` | N nodes' registrations and stores, and the rounds of the plugin |
| `StateMachine` | `state.go` and the RWMutex underneath, for concurrent calls |
| `ServiceEngine` | composes `StateMachine` with the start and stop functions of `service.go`, the goroutines and the sub-services |
| `PluginService` | `plugin_service.go`: the supervision of a plugin process |
| `ClientConn` | composes `PluginService` with the calls and the refreshes of `net/client.go` |
| `AggregationRound` | what the three stateful aggregators share: thresholds, batching, a round |
| `FeedsAggregator`, `LLOAggregator`, `ReduceAggregator` | Aggregate of each, as operators, and its rounds |
| `Aggregators` | a workflow with one of the three |
| `FeedMonitor` | one monitored feed: poller, fan-in, exports, cleanups |
| `Monitoring` | composes the monitors with the configuration's poller and the manager |
| `Mailbox` | `mailbox.go` |
| `SleeperTask` | composes `StateMachine`, `Mailbox` and `sleeper_task.go` |
| `*Proofs` | theorems about the module they are named after |
| `MC*` | instances for TLC |

The operators named after a mutation (`evictListOnly`, `ExpiredEarly`, ...) are not
part of any specification.  Each says what a plausible bug in the definition below it
would do; with it in place TLC finds the property it is paired with in
`PROJECT.json` violated, which shows that the property depends on that code.

### RequestHandler

A call is one `Execute(start_request)`: `pc[c]` is where its goroutine is,
`callbackCh[c]` its channel (a response sent also closes it), `expiresAt[c]` the
deadline.  A delivery is one `Execute(send_response)`.  The worker is at its `select`,
in `sendResponse` (`send`), in the loop of `expirePendingRequests` (`expire`), or gone.
Each branch of the `select` is an action (`WorkerRequest`, `WorkerResponse`,
`ExpirePendingRequests`, `ExpireCachedResponses`, `WorkerExit`), and so are the two
branches of `sendResponse` (`SendCallback`, `SendAbandoned`): between two steps of
the worker callers may be cancelled, time passes and the handler may be closed.  The
store's methods run under its mutex and are parts of these actions.  The reporting
plugin only reads the store.

Abstracted: payloads (a response is the delivery that carried it), validation (a
nondeterministic rejection), metering, logging.  Time is counted in seconds, the
period of the expiry ticker; a ticker's channel holds one tick.

`buffer` is the capability's `callbackChannelBufferSize`, any member of `BufferSizes`.
`NewOCR3` replaces 0 by 10, and a send on a channel with a buffer never waits, as there is
one per request.  `NewCapability` takes 0 as it is: then `SendCallback` is a rendezvous with
the receive of the request's Execute, and if that has been cancelled the worker waits in
`sendResponse` until the handler closes (`SendBlocked`).  `ExecuteReturns` and the mapping
to `RequestService` name this state, in which other calls wait too; `CloseReturns` shows
that Close ends it, which needs the `ctx.Done` branch of `sendResponse` (its mutant drops
the branch).

### ReportingPlugin

Per node: `store`, `registered`, `aggregators`, `encoders`.  Per round: the leader's
`query`, the `observers` whose observations were used, their `observations`, and the
outcomes the nodes have `computed`.  `Outcome(o)` runs at a node and includes its side
effect, `UnregisterWorkflowID` on what it pruned.  An outcome keeps LastSeenAt, the
only part of it that the next round reads for pruning; a report keeps the execution,
the aggregated value and the encoder.  Where the code walks a Go map and takes the
first entry that qualifies, the model has all of them to choose from.

External: the OCR3 protocol.  It commits an outcome that more than (N+F)/2 nodes have
computed, and may abandon a round at any point and start over with the same sequence
number.  All nodes are honest, but any of them may be slow, miss rounds, have other
data, or never get its reports transmitted.

### StateMachine and ServiceEngine

A call is one goroutine's call of StartOnce, StopOnce, IfStarted or IfNotStopped.  The
RWMutex is external and modelled as Go documents it: a waiting writer keeps new
readers out, and readers that queued during a write get in before the next writer.
The compare-and-swap of StartOnce is a step of its own, before the lock.

`ServiceEngine` gives the functions a body.  Every one of its steps is a step of
`StateMachine` or leaves it alone, so it implements `StateMachine` (theorem
`ServiceEngineProofs!Refinement`).  A sub-service is what its parent sees of it.

### PluginService and ClientConn

Processes and connections are numbered as they are made.  `kpc` is where `keepAlive` is:
one action per outcome of `check` and of each call of `launch` that can fail.  `spc` is
where Close is.  `pluginConn` is the process that the `PluginClient` was refreshed with
last.  A process may crash at any step, and every call of the go-plugin library may fail;
`MaxFaults` bounds crashes and failures together.

A call is one Invoke or NewStream: it waits for the service, reads `c.cc` under the lock
(`Load`), and is answered, fails for good, or asks for a refresh.  `refresh` holds `c.mu`
from its first step to its last, its back-off included, and is modelled attempt by
attempt.  The context of a call may end, by cancellation or deadline, at any step;
`isErrTerminal` takes a cancelled context for a broken connection, and so does the model,
so one cancelled call makes the connection that others use be replaced.  A live plugin
may also answer with a terminal code itself; such an answer counts as one of `MaxFaults`.
`Closer` is the Service.Close inside PluginService.Close.  `failed` is a history variable.

`newClient` is what a LOOP's factory makes of it: it serves some resources, then asks the
plugin for a connection.  When it fails, every factory of the repository returns nil `deps`
with the error, also after it has served something (the Mercury ones a data source and a
provider, `mercury.go:83-89`), so that `CloseAll(deps...)` in `refresh` closes nothing.
`NewClientFails` may therefore leave servers behind (`leaked`), and only the broker's stop
signal ends them (`StopServers`).  `ServersMatch` is about the servers of connections that
were made; `PluginCloses` includes that none of either kind is up in the end.

### The aggregators

Where the code ranges over a map, the model has the set of the outcomes that some order
gives.  Faulty oracles send any of what makes a difference (forged reports and foreign
signers, the lists of `FaultyPrices`, the `FaultyValues`, or nothing), honest ones what data
providers signed or what they measured.  `onchain` is a history variable: what was last reported.

`lloStreamPrices` counts the entries of the payloads, not the oracles, and nothing rejects
a payload that names a stream several times.  The model does the same: a faulty oracle's
event lists up to `MaxEntries` prices of a stream, and each is a vote (`Entries`).  One
faulty oracle alone can then give a price F+1 votes, and the order of the map chooses
between it and the honest one; "We can trust any price that appears at least f+1 times"
(`llo_aggregator.go:371`) does not hold.  `OutcomeUnique` and `HonestValues` say what is left:
the agreed time is unique and an honest oracle's in any case, the price if no payload
repeats the stream (`Repeated`).  Without this condition TLC finds both violated.  A stream
without F+1 votes for a price is reported as 0, as the code does.

A value of the reduce aggregator is an int64 or a big.Int.  Honest oracles, which run the
same workflow, have one type per field, faulty ones send either.  `toDecimal` gives a
big.Int ten decimal places more than an int64 of the same value (`reduce_aggregator.go:415`;
`BigIntScale` stands for the factor), so that a median is between honest values in the order
of the decimals only, and may be of another type.  With deviation type "any" a big.Int is
compared as a pointer that Unwrap has just made, so that every round reports
(`PointersDiffer`), against the comment in line 225.  A value that `toDecimal` rejects makes
Aggregate fail, which is a round without an outcome, and is left out.

### FeedMonitor and Monitoring

A monitor is a record of where its goroutines are, the updates in its buffer and the
number of exports and cleanups in flight; `mon[g][f]` is the one of feed f in generation
g.  A feed whose sources or exporters cannot be made has no monitor in that generation,
and the code does not try again before the next change.  `canceled` and `root` are the
contexts.  A configuration is its set of feeds.

### Mailbox and SleeperTask

Items are numbered as they are delivered.  WakeUp runs under IfStarted and Stop under
StopOnce, with the steps of `StateMachine`.  The worker, external, empties the mailbox,
one by one or all at once; whoever receives the mailbox's notification calls
WakeUpIfStarted.

## 3. The runs

| Run | Config | Shows |
|---|---|---|
| `requests` | `MCRequestHandler.cfg` | store consistency, no panic, one fitting answer per call, every Execute and Close returns; refinement of `RequestService` with its liveness |
| `requests_same_id` | `MCRequestSameID.cfg` | violation: two requests with one execution ID, one is never answered |
| `plugin` | `MCReportingPlugin.cfg` | agreement, support, determinism, LastSeenAt bound |
| `plugin_pruning` | `MCPruning.cfg` | violation: a workflow in use is pruned |
| `lifecycle` | `MCServiceEngine.cfg` | exclusion, admission, run-once, no panic, sub-services and goroutines, every call returns |
| `lifecycle_stop` | `MCStopOnce.cfg` | violation: Stop is turned away while a start is beginning |
| `lifecycle_start_failed` | `MCStartFailed.cfg` | violation: a failed Start hook leaks the sub-services |
| `loop` | `MCClientConn.cfg` | no orphaned process, servers match connections, only failed connections are replaced, calls get through, Close ends and all servers with it |
| `loop_nil` | `MCClientNil.cfg` | violation: refresh returns nil to a call whose context is alive, and Invoke reports success |
| `aggregation` | `MCAggregators.cfg` | outcomes are unique, genuine and honest, but for streams that a payload repeats; recorded and reported values stay close |
| `monitoring` | `MCMonitoring.cfg` | generations do not overlap, cleanup comes last, the configuration is followed, shutdown ends |
| `sleeper` | `MCSleeperTask.cfg` | the mailbox keeps the newest items, each is handled, nothing runs after Stop |

The five violations are disagreements between the code and what its comments say;
`PROJECT.json` quotes them.

**Bounds.**  `requests`: two calls with IDs of their own and two deliveries for the
first, so that a response can be early, late, doubled or missing; timeouts of 0 and 1
and a clock that saturates at 2 (named `MaxTime`), where everything has expired, while
the tickers go on; callback buffers of 0 and 1 (a larger one is never used further).  `plugin`: N = 4 and F = 1, the smallest fault-tolerant network,
with one node that observes another value and asks for another encoder; two committed
rounds, which with a threshold of 1 are enough to reach pruning, and any number of
abandoned ones; two failed registrations, unregistrations or expiries
(`MaxChanges`).  Its action constraint keeps the stores at rest between the
observations and the end of a round: nothing in between reads them, so a change made
there can be made after the round instead.  Left out is only an arrival whose
workflow is unregistered before the round ends; the theorems of section 4 do not have
this restriction.  Symmetry is over the three nodes that observe the same.  `lifecycle`: two calls
of StartOnce and StopOnce each, one of each guard, two sub-services (so that one can
fail after another has started) and two goroutines.  `plugin_pruning` uses one node,
where the race needs the fewest steps.  `loop`: two calls, which both find a connection
broken, besides Close, and one fault, which may be a crash, any failed call or a terminal
answer of a live plugin; the loss of
a process by itself gives a relaunch, a refresh and a Close in any order.  `aggregation`:
three oracles, one of them faulty (2F+1 with F = 1, the least that Aggregate accepts), two
IDs, prices on both sides of the deviation threshold, and three units of time (`MaxTime`)
for heartbeats of 2 and 1, so that records become candidates and overdue.  The faulty oracle
lists up to two entries of a stream (`MaxEntries` = F+1, which is what a price needs) and
values of both types; `BigIntScale` is 2 instead of 10^10, enough to change the order.  Prices
are positive, what honest oracles measure too.  `OutcomeUnique`,
`ReportsGenuine` and `HonestValues` quantify over every observation of a round, in every
reachable state.  `OutcomeUnique` does not speak of the reduce aggregator: of several most
frequent values its mode takes the one that the map yields first ("If more than one mode
found, choose first", `reduce_aggregator.go:465`), and nodes may differ.  `monitoring`: one feed, which
the configuration has or not, two changes (three generations), two exporters, a buffer of
1 and at most three exports in flight (`MaxExports`, a bound of the model, not of the
code).  `sleeper`: three deliveries into a mailbox of two, so that it overflows, each with
a notification to forward, one more wake-up, two Stops.

**Deadlock** checking is off in every config: a system whose callers have all returned
may stop, and the bounded runs end.  That nobody waits for ever is what the liveness
properties say.

**Fairness.**  `requests`: the clock advances; the worker takes the step it is in;
Go's `select` picks at random among the branches that are ready, so a request that is
offered again and again is taken, and so is the stop signal (strong fairness); a
`sendResponse` that can take one of its branches does.  Nothing
is assumed of callers, of the transmitter or of Close.  `lifecycle`: goroutines run,
hooks return, a tracked goroutine returns once its context is cancelled, and a writer
that waits for the mutex gets it (Go's mutex turns to first-come-first-served after a
millisecond: strong fairness).  Nobody has to call anything.  `loop`: `keepAlive` and Close go on; `keepAlive`'s select,
which has a ticker and the stop signal, takes the stop signal in the end; a call that can go
on does, also when it has to wait for `c.mu` among others (strong fairness, for the reason
above).  The goroutine beside each server notices the
stop signal.  Faults are bounded, so a plugin stays up in the end; nobody has to end a context.
`monitoring`: goroutines go on, a `select` that meets a closed `ctx.Done` again and again
takes it, fetching the configuration does not fail for ever, Export and Cleanup return.
`sleeper`: a notification is received, calls and Work proceed and return; Stop may time out
at any moment.

## 4. The proofs

TLAPS proves the following for every value of the constants that satisfies the
modules' ASSUMEs.

`RequestHandlerProofs`.  The invariant `IInv` adds to the properties: the store and the
worker's pending map hold accepted, unanswered calls under their own IDs (`HoldsOwn`);
a cached response belongs to its key (`CacheKeyed`); the call the worker is about to
answer is accepted, unanswered, no longer stored and not among those its expiry loop
has left (`Sending`); the calls that loop has left are pending and expired
(`Expiring`); accepted calls are past SendRequest, and only accepted calls are
answered (`AcceptedCalls`).  `NoSendOnClosedChannel` alone is not inductive: a stored request
must be known to be unanswered, or evict could hand out an answered one.  From it
follow `StoreCorrect`, `NoPanic`, `StoredReachable`, `AnswersCorrect`, and
`UnansweredReachable` under the assumption `UniqueIDs`; the run `requests_same_id`
shows that the assumption is needed.  `Refinement` proves the safety part of
`RequestService`; it needs that a worker that waits for a caller that is gone does so until
the handler closes (`BlockedUntilClosing`), since the mapped service must not start again.  The module begins with the lemmas about the store's list that this needs.

`ReportingPluginProofs`.  The invariant says that stores and observations only hold
requests that arrived (`HeldArrived`) and that every report, computed or committed,
has a quorum of oracles that were given its value and its encoder (`AllSupported`).
Since requests only ever arrive, support is never lost.  `Agreement` then follows by
quorum intersection, for at most 4F+1 oracles; with more, two disjoint sets of 2F+1
oracles exist and the code's choice between them depends on the order of a Go map.
`LastSeenAtCorrect` shows that `SeqNr - LastSeenAt` cannot wrap around.

`OutcomeDeterministic` speaks of outcomes that nodes have computed and kept while
registrations went on changing, so it needs an invariant of its own: every computed
outcome is still determined by the round's observations and by the reports in it
(`ComputedInv`; a node's aggregators only decide which executions it reports).
`OneAggregate` shows, again by quorum intersection and for at most 4F+1 oracles, that an
execution has one value and one encoder; `DeterminismCorrect` follows.  The same invariant
gives the action property `OutcomesKept` (`PruningCorrect`), for any number of oracles: a
round drops a workflow's outcome only if fewer than F+1 observers are registered to the
workflow and the outcome is older than the threshold.  The run `plugin_pruning` shows what
this does not promise: there the workflow is in use, but its registration was dropped by
the side effect of an earlier Outcome, so that no observer names it.

`AggregatorsProofs`.  The four properties of the run `aggregation`, for any number of
oracles of which at most F are faulty, any IDs, thresholds, prices and times.  The
argument of the first three is counting: F+1 equal votes contain an honest one
(`HonestVoter`), and honest oracles agree on what the properties need.  Votes for a stream's
price are entries of payloads: `EntriesAreVoters` maps them injectively to oracles, which is
possible only when no payload repeats the stream, and this is why `UniqueCorrect` and
`HonestCorrect` have that condition for a stream's price.  `OneChoice` and
`AtMostOne` turn this into uniqueness of the outcome although the code ranges over maps
(`FeedsUnique`, `LLOTimeUnique`, `LLOUnique`); `LatestGenuine` and `HonestReportCounts` give
`GenuineCorrect`; `AgreedTime` and `AgreedPrice` (LLO), `MedianHonest` and `ModeHonest`
(reduce: a median of 2F+1 values is between honest ones, as decimals) give `HonestCorrect`.
`DriftBounded` is about sequences of rounds.  Its inductive invariant `DriftInv` adds
that what the providers signed now and a moment ago is a price (`SignedOK`) and that a stream's
recorded time is a number: a deviation is measured against what earlier rounds recorded.
For streams the step is that a batched stream that is reported without being recorded has
neither deviated nor passed its heartbeat, and for fields that a value that is not
recorded has not deviated.  `ReduceAssumption` (every field has one of the four deviation
types, which is what `ParseConfigReduceAggregator` lets through, and integer values) and
`EntriesAssumption` (faulty oracles send natural numbers as prices, and at most `MaxEntries`
of a stream, for any `MaxEntries`) bound the observations.

`StateMachineProofs`.  The invariant relates the mutex's variables to the calls
(`LockInv`), the progress of calls to the state (`StateInv`), and keeps readers and
writers apart (`Roles`).  It gives `FunctionsExclude`, `AdmissionCorrect`,
`RunOnceCorrect`, `PanicsUnreachable` and the action property `StopSettles`.
`NoLockDeadlock` is the safety half of "every call returns": with one more inductive fact,
that a reader waits only while a writer is in (`ReadersQueued`), some call can always move
when another one waits.

`ServiceEngineProofs`.  By refinement all of these hold of every service; the
invariant adds where the running function is (`StepInv`), and gives
`StartedCorrect`, `GoroutinesCorrect` and `ClosedCorrect` for any number of
sub-services and goroutines.  `LifecycleCorrect` and `CloseSettles` restate the state
machine's results for services.

`ClientConnProofs`.  `ConnInv` consists of the supervision's own invariant (which processes
can be alive at each point of `keepAlive` and Close; `PSInv`), the types with the lock's
extent, and three parts about connections: while a call refreshes, the old connection is
closed and the one it makes is known to no other call (`RefreshInv`); the current
connection is served until Close begins (`ServedInv`); and a call that wants to replace a
connection has failed on it (`FailedInv`).
`OnlyFailedReplaced` is an action property and follows from `FailedInv`: a call that is
about to replace `c.cc` has compared it with the connection it failed on.  It gives
`NoOrphansCorrect`, `ServersCorrect` and `ReplacementCorrect` for any number of calls and
faults; `SupervisionCorrect` is the supervision without the calls.

`MonitoringProofs`.  `IInv` is the type invariant, `CountInv` and the two properties.
`CountInv` counts generations against changes of the configuration: every restart of the
manager, under way or still to come, is paid for by a change, so that there is always a
next generation to start and `gen` keeps its type.  `OneGeneration` is inductive because
the manager starts a generation only when the previous one is at rest.

`SleeperTaskProofs`.  `MailboxCorrect` is proved of the mailbox alone, for every capacity;
`UsesMailbox` shows that the composed system implements it, so `TaskMailboxCorrect` follows.
`StopCorrect` carries the places of the calls along (`QuietInv`): a Stop succeeds only in
`StopDone`, and a worker that is gone stays gone.
`NoSignalLost` is the safety half of `DeliveredHandled`: while the task is started and the
mailbox holds an item, one of the four places a signal can be in holds one; fairness only
has to move it along.  The task's steps are also steps of its state machine, which gives
`TaskLifecycleCorrect`; with `TaskInv` (a closed `chStop` means the task has left
"Started") `WakeUpsEnd` shows that no WakeUp enqueues after Stop has closed `chStop`.
`ConstructorAssumption` (one StartOnce) is what `NewSleeperTaskCtx` does.

**Only model-checked**: everything under fairness (`ExecuteReturns`, `CloseReturns`,
`CallsReturn`, `CallsGetThrough`, `PluginCloses`, `ConfigFollowed`, `ShutdownCompletes`,
`DeliveredHandled`, the liveness part of `RequestService`), which is out of the prover's
reach.  Every invariant and every action property of the passing runs is proved.  The
types of `ClientConn` and `Monitoring` are proved and not among the runs' invariants, and
`OutcomesKept`, `WaitersFollow`, `SignalPending` and `NoWakeUpAfterStop` are defined
beside their proofs.

## 5. Not modelled

Of the modelled components: the unsynchronised map reads of `GetAggregator` and
`GetEncoderByWorkflowID`; Byzantine oracles in the plugin's rounds (the aggregators have
them); timestamps and encoded bytes of reports; lists of several observations per request;
health conditions, the error buffer and tracing of services; tracked goroutines that call
back into IfStarted (none does); Ready and HealthReport of `PluginService`; `AtomicClient`
and the go-plugin broker; changes of an aggregator's configuration between rounds, and its
parsing; the vote of oracles without an encoder override (which changes nothing for at most
4F+1 oracles); the network monitor (one more monitor of the same kind), the HTTP server that
`Monitor.Run` also waits for, exporters and sources.  A monitored feed has one source, where
the code has several and merges their updates.  Its cleanups run under a context that may be
cancelled already, as defers run last-in first-out (`feed_monitor.go:84-86`); the model has no such
context, and every Cleanup of the repository ignores it.

Components without a module, with their reasons, are in `PROJECT.json`.  By far the most of
the repository is generated (protobuf, gRPC, schemas, mocks) or converts between
representations: LOOP proxies, codecs, values, configuration, SQL wrappers.  It has no
state of its own that steps could interleave on.  The Mercury and on-demand triggers hold
one mutex through every operation and send without blocking, so that each is a sequence of
atomic steps without a race.

Some promises hold with a restriction that the properties state: a wake-up that is queued
when Stop is called may not lead to Work (`DeliveredHandled` ends with the stop signal),
and PluginService.Close waits for a refresh whose caller's context stays alive, since
refresh does not look at the stop signal (`PluginCloses`); a stream's price is not protected
against a payload that repeats the stream (`OutcomeUnique`, `HonestValues`); and refresh does
not close what a failed `newClient` has served (`ServersMatch`).

## 6. Plan

Done: the request path, the reporting plugin, the service lifecycle, plugin supervision
with its connections, the aggregators, monitoring, the sleeper task with the mailbox, and
their proofs.  Next, in this order:

1. Proofs of the safety halves of the remaining liveness properties: who waits for whom
   in the request handler, in `ClientConn` and in `Monitoring`.
2. `HealthChecker` and `ErrorBuffer`: probes against registration and stop.
3. The request store of the WASM host; pure algorithms (dependency graph, Merkle
   multi-proofs) against reference definitions.
