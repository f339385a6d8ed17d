--------------------------- MODULE ReportingPlugin ---------------------------
(***************************************************************************)
(* The OCR3 reporting plugin on N oracles: rounds of Query, Observation,   *)
(* Outcome and Reports over the nodes' request stores and workflow         *)
(* registrations (pkg/capabilities/consensus/ocr3/reporting_plugin.go,     *)
(* capability.go, transmitter.go, aggregators/identical.go).               *)
(*                                                                         *)
(* All oracles are honest; they may lag, miss rounds, lose transmissions   *)
(* and see different data.  The OCR3 protocol that drives the plugin is    *)
(* external: a leader's query, a set of observations that reaches the      *)
(* plugin's quorum, an outcome that is committed once enough oracles have  *)
(* computed it, and rounds that are abandoned and retried under the same   *)
(* sequence number.                                                        *)
(*                                                                         *)
(* An outcome keeps what pruning reads, LastSeenAt; a report keeps its     *)
(* execution ID, the aggregated value and the encoder override.            *)
(***************************************************************************)
EXTENDS RequestStore, FiniteSets

CONSTANTS
  Oracles, F,
  Workflows,
  Execs,            \* workflow execution IDs
  WorkflowOf,       \* the workflow of each execution
  Values, Encoders, \* observed values; encoder overrides
  NoEncoder,        \* no override asked for, or none agreed on
  Observed,         \* Observed[o][e]: what oracle o's Execute call was given
  BatchSize,
  OutcomePruningThreshold,
  MaxSeqNr,         \* bound on the number of committed rounds
  MaxChanges,       \* bound on failed registrations, unregistrations, expiries
  NoOutcome

ASSUME PluginAssumption ==
  /\ IsFiniteSet(Oracles)
  /\ F \in Nat
  /\ Cardinality(Oracles) >= 3 * F + 1
  /\ WorkflowOf \in [Execs -> Workflows]
  /\ Observed \in [Oracles ->
       [Execs -> [val : Values, enc : Encoders \cup {NoEncoder}]]]
  /\ BatchSize \in Nat \ {0}
  /\ OutcomePruningThreshold \in Nat \ {0}
  /\ MaxSeqNr \in Nat
  /\ MaxChanges \in Nat
  /\ NoOutcome \notin Nat

VARIABLES
  store,        \* store[o]: requestIDs of oracle o's Store
  arrived,      \* arrived[o]: executions whose request ever reached oracle o
  registered,   \* registered[o]: registeredWorkflowsIDs
  aggregators,  \* aggregators[o]: workflows that have an aggregator
  encoders,     \* encoders[o]: workflows that have an encoder
  seqNr,        \* sequence number of the last committed round
  outcomes,     \* committed: LastSeenAt of each workflow's outcome, or NoOutcome
  phase,        \* where the current round is
  query,        \* the leader's query
  observers,    \* the oracles whose observations the round uses
  observations, \* observations[o]: execution IDs in o's observation
  seen,         \* seen[o]: RegisteredWorkflowIds in o's observation
  computed,     \* computed[o]: the outcomes o has computed in this round
  transmits,    \* transmits[o]: executions o has a report to transmit for
  reported,     \* history: every report of a committed outcome
  touched,      \* history: workflows (un)registered anywhere since the round began
  changes       \* failed registrations, unregistrations, expiries so far

nodeVars  == <<store, arrived>>
regVars   == <<registered, aggregators, encoders>>
roundVars == <<phase, query, observers, observations, seen, computed, touched>>
vars == <<nodeVars, regVars, seqNr, outcomes, roundVars, transmits, reported,
          changes>>

Quorum == 2 * F + 1

\* External: how many oracles must have computed the same outcome before OCR3
\* commits it.
CommitQuorum == (Cardinality(Oracles) + F) \div 2 + 1

-----------------------------------------------------------------------------
(* One node: registrations and its request store.                          *)

Touch(w) == touched' = IF phase = "idle" THEN {} ELSE touched \cup {w}

\* Registering again to a workflow changes nothing.
RegisterToWorkflow(o, w) ==
  /\ ~(w \in aggregators[o] \cap encoders[o] \cap registered[o])
  /\ aggregators' = [aggregators EXCEPT ![o] = @ \cup {w}]
  /\ encoders' = [encoders EXCEPT ![o] = @ \cup {w}]
  /\ registered' = [registered EXCEPT ![o] = @ \cup {w}]
  /\ Touch(w)
  /\ UNCHANGED <<nodeVars, seqNr, outcomes, phase, query, observers,
                 observations, seen, computed, transmits, reported, changes>>

\* The encoder factory fails: the aggregator has been set by then.
RegisterEncoderFails(o, w) ==
  /\ changes < MaxChanges
  /\ changes' = changes + 1
  /\ aggregators' = [aggregators EXCEPT ![o] = @ \cup {w}]
  /\ UNCHANGED <<encoders, registered, nodeVars, seqNr, outcomes, roundVars,
                 transmits, reported>>

UnregisterFromWorkflow(o, w) ==
  /\ w \in aggregators[o]
  /\ changes < MaxChanges
  /\ changes' = changes + 1
  /\ aggregators' = [aggregators EXCEPT ![o] = @ \ {w}]
  /\ encoders' = [encoders EXCEPT ![o] = @ \ {w}]
  /\ registered' = [registered EXCEPT ![o] = @ \ {w}]
  /\ Touch(w)
  /\ UNCHANGED <<nodeVars, seqNr, outcomes, phase, query, observers,
                 observations, seen, computed, transmits, reported>>

\* The workflow engine of oracle o runs execution e and its request enters the
\* store; the engine registers to the workflow first.
RequestArrives(o, e) ==
  /\ WorkflowOf[e] \in encoders[o]
  /\ e \notin arrived[o]
  /\ arrived' = [arrived EXCEPT ![o] = @ \cup {e}]
  /\ store' = [store EXCEPT ![o] = Append(@, e)]
  /\ UNCHANGED <<regVars, seqNr, outcomes, roundVars, transmits, reported,
                 changes>>

RequestExpires(o, e) ==
  /\ InSeq(store[o], e)
  /\ changes < MaxChanges
  /\ changes' = changes + 1
  /\ store' = [store EXCEPT ![o] = Without(@, e)]
  /\ UNCHANGED <<arrived, regVars, seqNr, outcomes, roundVars, transmits,
                 reported>>

-----------------------------------------------------------------------------
(* A round.                                                                *)

\* The leader's Query.
Query(leader) ==
  /\ phase = "idle"
  /\ seqNr < MaxSeqNr
  /\ phase' = "queried"
  /\ query' = FirstN(store[leader], BatchSize)
  /\ touched' = {}
  /\ UNCHANGED <<nodeVars, regVars, seqNr, outcomes, observers, observations,
                 seen, computed, transmits, reported, changes>>

\* The oracles in S each make their Observation, and ObservationQuorum accepts
\* them.  An observation depends on its own oracle's state alone.
Observe(S) ==
  /\ phase = "queried"
  /\ Cardinality(S) >= Quorum
  /\ phase' = "observed"
  /\ observers' = S
  /\ observations' = [o \in Oracles |->
       IF o \in S THEN {e \in Execs : InSeq(query, e) /\ InSeq(store[o], e)}
                  ELSE {}]
  /\ seen' = [o \in Oracles |-> IF o \in S THEN registered[o] ELSE {}]
  /\ UNCHANGED <<nodeVars, regVars, seqNr, outcomes, query, computed, touched,
                 transmits, reported, changes>>

\* execIDToOracleObservations[e], by oracle.
Backers(e) == {o \in observers : e \in observations[o]}

ValueCount(e, v) == Cardinality({o \in Backers(e) : Observed[o][e].val = v})
EncoderCount(e, x) == Cardinality({o \in Backers(e) : Observed[o][e].enc = x})

\* Mutant of Aggregate: F+1 identical observations are enough.
AggregateWeak(e) == {v \in Values : ValueCount(e, v) >= F + 1}

\* identicalAggregator: the value with the highest count, if 2F+1 oracles
\* observed it.  Which of several equally frequent ones is up to the order in
\* which Go walks a map.
Aggregate(e) ==
  {v \in Values : /\ ValueCount(e, v) >= Quorum
                  /\ \A u \in Values : ValueCount(e, u) <= ValueCount(e, v)}

\* Mutant of EncoderOverride: F oracles are enough.
EncoderOverrideWeak(e) ==
  LET agreed == {x \in Encoders : EncoderCount(e, x) >= F}
  IN  IF agreed = {} THEN {NoEncoder} ELSE agreed

\* The overridden encoder that 2F+1 oracles asked for; again in map order.
EncoderOverride(e) ==
  LET agreed == {x \in Encoders : EncoderCount(e, x) >= Quorum}
  IN  IF agreed = {} THEN {NoEncoder} ELSE agreed

\* The executions of the query that oracle o reports: enough observations, an
\* aggregator at this node, and a value the aggregator agrees on.
Reportable(o) ==
  {e \in Execs : /\ InSeq(query, e)
                 /\ Cardinality(Backers(e)) >= Quorum
                 /\ WorkflowOf[e] \in aggregators[o]
                 /\ Aggregate(e) # {}}

\* LastSeenAt after the query was processed: an outcome that did not exist
\* before starts at zero, an existing one keeps its own.
Refreshed(o, w) ==
  IF outcomes[w] = NoOutcome /\ \E e \in Reportable(o) : WorkflowOf[e] = w
    THEN 0
    ELSE outcomes[w]

SeenCount(w) == Cardinality({o \in observers : w \in seen[o]})

\* Mutant of Pruned: the node's own registrations decide.
PrunedLocally(o, w) ==
  /\ Refreshed(o, w) # NoOutcome
  /\ w \notin registered[o]
  /\ seqNr + 1 - Refreshed(o, w) > OutcomePruningThreshold

\* The pruning loop at the end of Outcome, for one workflow.
Pruned(o, w) ==
  /\ Refreshed(o, w) # NoOutcome
  /\ SeenCount(w) < F + 1
  /\ seqNr + 1 - Refreshed(o, w) > OutcomePruningThreshold

\* Mutants of NewLastSeenAt: a sequence number too far back, or ahead.
NewLastSeenAtBack(o, w) ==
  IF Refreshed(o, w) = NoOutcome \/ Pruned(o, w) THEN NoOutcome ELSE seqNr - 1
NewLastSeenAtAhead(o, w) ==
  IF Refreshed(o, w) = NoOutcome \/ Pruned(o, w) THEN NoOutcome ELSE seqNr + 2

\* LastSeenAt of w in the outcome of this round.
NewLastSeenAt(o, w) ==
  IF Refreshed(o, w) = NoOutcome \/ Pruned(o, w) THEN NoOutcome
  ELSE IF SeenCount(w) >= F + 1 THEN seqNr + 1
  ELSE Refreshed(o, w)

\* What Outcome can return at oracle o.
PossibleOutcomes(o) ==
  {[outcomes |-> [w \in Workflows |-> NewLastSeenAt(o, w)], reports |-> R] :
     R \in {{[id |-> e, val |-> f[e].val, enc |-> f[e].enc] : e \in Reportable(o)} :
        f \in {g \in [Reportable(o) -> [val : Values, enc : Encoders \cup {NoEncoder}]] :
                 \A e \in Reportable(o) : /\ g[e].val \in Aggregate(e)
                                          /\ g[e].enc \in EncoderOverride(e)}}}

\* Outcome at oracle o, with its side effect: a pruned workflow is also
\* unregistered at this node (but keeps its aggregator and encoder).
Outcome(o) ==
  /\ phase = "observed"
  /\ computed[o] = {}
  /\ \E r \in PossibleOutcomes(o) : computed' = [computed EXCEPT ![o] = {r}]
  /\ registered' = [registered EXCEPT ![o] = {w \in @ : ~Pruned(o, w)}]
  /\ UNCHANGED <<nodeVars, aggregators, encoders, seqNr, outcomes, phase, query,
                 observers, observations, seen, touched, transmits, reported,
                 changes>>

\* The round is over; whatever it left behind is forgotten.
RoundEnds ==
  /\ phase' = "idle"
  /\ query' = << >>
  /\ observers' = {}
  /\ observations' = [o \in Oracles |-> {}]
  /\ seen' = [o \in Oracles |-> {}]
  /\ computed' = [o \in Oracles |-> {}]
  /\ touched' = {}

\* Reports at oracle o: a report without an encoder override needs the
\* workflow's own encoder, and is skipped where there is none.  One that fails
\* to encode is one that is never transmitted.
Reports(o, R) ==
  {r.id : r \in {r \in R : r.enc # NoEncoder \/ WorkflowOf[r.id] \in encoders[o]}}

\* Enough oracles computed the same outcome r: OCR3 commits it and every
\* oracle gets its reports to transmit.
Commit(r) ==
  /\ phase = "observed"
  /\ Cardinality({o \in Oracles : r \in computed[o]}) >= CommitQuorum
  /\ seqNr' = seqNr + 1
  /\ outcomes' = r.outcomes
  /\ transmits' = [o \in Oracles |-> transmits[o] \cup Reports(o, r.reports)]
  /\ reported' = reported \cup r.reports
  /\ RoundEnds
  /\ UNCHANGED <<nodeVars, regVars, changes>>

\* The leader fails or the oracles disagree: the next leader starts over.
Abandon ==
  /\ phase # "idle"
  /\ RoundEnds
  /\ UNCHANGED <<nodeVars, regVars, seqNr, outcomes, transmits, reported, changes>>

\* Transmit at oracle o: Execute(send_response) makes the request handler evict
\* the request, if it is still there, and answer it.
Transmit(o, e) ==
  /\ e \in transmits[o]
  /\ transmits' = [transmits EXCEPT ![o] = @ \ {e}]
  /\ store' = [store EXCEPT ![o] = Without(@, e)]
  /\ UNCHANGED <<arrived, regVars, seqNr, outcomes, roundVars, reported, changes>>

-----------------------------------------------------------------------------

Init ==
  /\ store = [o \in Oracles |-> << >>]
  /\ arrived = [o \in Oracles |-> {}]
  /\ registered = [o \in Oracles |-> {}]
  /\ aggregators = [o \in Oracles |-> {}]
  /\ encoders = [o \in Oracles |-> {}]
  /\ seqNr = 0
  /\ outcomes = [w \in Workflows |-> NoOutcome]
  /\ phase = "idle"
  /\ query = << >>
  /\ observers = {}
  /\ observations = [o \in Oracles |-> {}]
  /\ seen = [o \in Oracles |-> {}]
  /\ computed = [o \in Oracles |-> {}]
  /\ touched = {}
  /\ transmits = [o \in Oracles |-> {}]
  /\ reported = {}
  /\ changes = 0

NodeNext(o) ==
  \/ \E w \in Workflows : \/ RegisterToWorkflow(o, w)
                          \/ RegisterEncoderFails(o, w)
                          \/ UnregisterFromWorkflow(o, w)
  \/ \E e \in Execs : \/ RequestArrives(o, e)
                      \/ RequestExpires(o, e)
                      \/ Transmit(o, e)

RoundNext ==
  \/ \E o \in Oracles : Query(o) \/ Outcome(o)
  \/ \E S \in SUBSET Oracles : Observe(S)
  \/ \E r \in UNION {computed[o] : o \in Oracles} : Commit(r)
  \/ Abandon

Next == RoundNext \/ \E o \in Oracles : NodeNext(o)

Spec == Init /\ [][Next]_vars

-----------------------------------------------------------------------------
(* Properties.                                                             *)

ReportRecords ==
  [id : Execs, val : Values, enc : Encoders \cup {NoEncoder}]

OutcomeRecords ==
  [outcomes : [Workflows -> Nat \cup {NoOutcome}], reports : SUBSET ReportRecords]

\* Every variable has its type.
TypeOK ==
  /\ store \in [Oracles -> Seq(Execs)]
  /\ arrived \in [Oracles -> SUBSET Execs]
  /\ registered \in [Oracles -> SUBSET Workflows]
  /\ aggregators \in [Oracles -> SUBSET Workflows]
  /\ encoders \in [Oracles -> SUBSET Workflows]
  /\ seqNr \in Nat
  /\ outcomes \in [Workflows -> Nat \cup {NoOutcome}]
  /\ phase \in {"idle", "queried", "observed"}
  /\ query \in Seq(Execs)
  /\ observers \subseteq Oracles
  /\ observations \in [Oracles -> SUBSET Execs]
  /\ seen \in [Oracles -> SUBSET Workflows]
  /\ computed \in [Oracles -> SUBSET OutcomeRecords]
  /\ transmits \in [Oracles -> SUBSET Execs]
  /\ reported \subseteq ReportRecords
  /\ touched \subseteq Workflows
  /\ changes \in Nat

\* Whatever rounds report an execution, on whatever sets of observers, they
\* report one value, and never two different encoder overrides.  Rounds are
\* retried, requests stay in the stores until the responses come back, so an
\* execution may well be reported twice.
ReportsAgree ==
  \A r1, r2 \in reported : r1.id = r2.id =>
    /\ r1.val = r2.val
    /\ r1.enc = r2.enc \/ NoEncoder \in {r1.enc, r2.enc}

\* A reported value was observed by 2F+1 oracles that really had the request.
ReportsSupported ==
  \A r \in reported :
    Cardinality({o \in Oracles : r.id \in arrived[o]
                                 /\ Observed[o][r.id].val = r.val}) >= Quorum

\* Outcome depends on the node it runs on only through the aggregators that
\* node has: two oracles that report the same executions compute the same
\* outcome, so OCR3 can commit it.
OutcomeDeterministic ==
  \A o1, o2 \in Oracles : \A r1 \in computed[o1], r2 \in computed[o2] :
    {r.id : r \in r1.reports} = {r.id : r \in r2.reports} => r1 = r2

\* LastSeenAt never runs ahead of the sequence number: the pruning loop's
\* unsigned SeqNr - LastSeenAt never wraps around.
LastSeenAtBounded ==
  /\ \A w \in Workflows : outcomes[w] # NoOutcome => outcomes[w] <= seqNr
  /\ \A o \in Oracles : \A r \in computed[o] : \A w \in Workflows :
       r.outcomes[w] # NoOutcome => r.outcomes[w] <= seqNr + 1

\* A workflow whose execution a round reports, and to which 2F+1 oracles have
\* been registered ever since the round began, still has its outcome when
\* the round is committed: pruning is for workflows that are gone.
ReportedWorkflowsKeepOutcome ==
  [][\A r \in reported' \ reported :
       LET w == WorkflowOf[r.id] IN
       /\ w \notin touched
       /\ Cardinality({o \in Oracles : w \in encoders[o]}) >= Quorum
       => outcomes'[w] # NoOutcome]_vars
=============================================================================
