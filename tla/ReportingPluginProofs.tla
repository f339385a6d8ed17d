------------------------ MODULE ReportingPluginProofs ------------------------
(***************************************************************************)
(* Proofs about the OCR3 reporting plugin, for every number of oracles,    *)
(* every workload and every assignment of observed values.                 *)
(***************************************************************************)
EXTENDS ReportingPlugin, SequenceTheorems, FiniteSetTheorems, TLAPS

\* Without returns a sequence over the same set.
LEMMA WithoutType ==
  ASSUME NEW S, NEW s \in Seq(S), NEW id
  PROVE  Without(s, id) \in Seq(S)
<1>1. CASE InSeq(s, id)
  <2>1. PICK i \in 1..Len(s) : i = CHOOSE j \in 1..Len(s) : s[j] = id
    BY <1>1 DEF InSeq
  <2>2. Without(s, id) = SubSeq(s, 1, i - 1) \o SubSeq(s, i + 1, Len(s))
    BY <1>1, <2>1 DEF Without, InSeq
  <2>3. SubSeq(s, 1, i - 1) \in Seq(S) /\ SubSeq(s, i + 1, Len(s)) \in Seq(S)
    BY SubSeqProperties, LenProperties
  <2> QED BY <2>2, <2>3, ConcatProperties
<1>2. CASE ~InSeq(s, id)
  BY <1>2 DEF Without, InSeq
<1> QED BY <1>1, <1>2

\* Removing an ID brings in no other, with or without repetitions.
LEMMA WithoutShrinks ==
  ASSUME NEW S, NEW s \in Seq(S), NEW id, NEW x, InSeq(Without(s, id), x)
  PROVE  InSeq(s, x)
<1>1. CASE InSeq(s, id)
  <2>1. PICK i \in 1..Len(s) : i = CHOOSE j \in 1..Len(s) : s[j] = id
    BY <1>1 DEF InSeq
  <2> DEFINE a == SubSeq(s, 1, i - 1)
             b == SubSeq(s, i + 1, Len(s))
             n == Len(s)
  <2>2. n \in Nat /\ i \in 1..n
    BY LenProperties
  <2>3. /\ a \in Seq(S) /\ Len(a) = i - 1
        /\ \A k \in 1..(i - 1) : a[k] = s[k]
    BY <2>2, SubSeqProperties
  <2>4. /\ b \in Seq(S) /\ Len(b) = n - i
        /\ \A k \in 1..(n - i) : b[k] = s[i + k]
    BY <2>2, SubSeqProperties
  <2>5. Without(s, id) = a \o b
    BY <1>1, <2>1 DEF Without
  <2>6. PICK k \in 1..Len(a \o b) : (a \o b)[k] = x
    BY <2>5 DEF InSeq
  <2>7. /\ Len(a \o b) = Len(a) + Len(b)
        /\ (a \o b)[k] = IF k <= Len(a) THEN a[k] ELSE b[k - Len(a)]
    <3> HIDE DEF a, b
    <3>1. /\ Len(a \o b) = Len(a) + Len(b)
          /\ \A j \in 1..(Len(a) + Len(b)) :
               (a \o b)[j] = IF j <= Len(a) THEN a[j] ELSE b[j - Len(a)]
      BY <2>3, <2>4, ConcatProperties
    <3> QED BY <3>1, <2>6
  <2> HIDE DEF a, b
  <2>8. CASE k <= Len(a)
    <3>1. k \in 1..n /\ s[k] = x
      BY <2>2, <2>3, <2>6, <2>7, <2>8
    <3> QED BY <3>1 DEF InSeq
  <2>9. CASE ~(k <= Len(a))
    <3>1. k - (i - 1) \in 1..(n - i) /\ b[k - (i - 1)] = x
      BY <2>2, <2>3, <2>4, <2>6, <2>7, <2>9
    <3>2. i + (k - (i - 1)) \in 1..n /\ s[i + (k - (i - 1))] = x
      BY <2>2, <2>4, <3>1
    <3> QED BY <3>2 DEF InSeq
  <2> QED BY <2>8, <2>9
<1>2. CASE ~InSeq(s, id)
  BY <1>2 DEF Without
<1> QED BY <1>1, <1>2

\* Everything a node can compute as the outcome of a round is an outcome.
LEMMA OutcomesTyped ==
  ASSUME PluginAssumption, TypeOK, NEW o \in Oracles
  PROVE  PossibleOutcomes(o) \subseteq OutcomeRecords
<1>1. ASSUME NEW w \in Workflows
      PROVE  NewLastSeenAt(o, w) \in Nat \cup {NoOutcome}
  BY DEF TypeOK, NewLastSeenAt, Refreshed
<1>2. Reportable(o) \subseteq Execs
  BY DEF Reportable
<1>3. ASSUME NEW r \in PossibleOutcomes(o) PROVE r \in OutcomeRecords
  <2>1. PICK f \in [Reportable(o) -> [val : Values, enc : Encoders \cup {NoEncoder}]] :
           r = [outcomes |-> [w \in Workflows |-> NewLastSeenAt(o, w)],
                reports |-> {[id |-> e, val |-> f[e].val, enc |-> f[e].enc] :
                               e \in Reportable(o)}]
    BY <1>3 DEF PossibleOutcomes
  <2>2. r.reports \subseteq ReportRecords
    BY <2>1, <1>2 DEF ReportRecords
  <2>3. r.outcomes \in [Workflows -> Nat \cup {NoOutcome}]
    BY <2>1, <1>1
  <2> QED BY <2>1, <2>2, <2>3 DEF OutcomeRecords
<1> QED BY <1>3

\* The type invariant is inductive.
LEMMA TypeStep ==
  ASSUME PluginAssumption, TypeOK, [Next]_vars
  PROVE  TypeOK'
<1> USE DEF TypeOK
<1>1. ASSUME NEW o \in Oracles, NEW w \in Workflows, RegisterToWorkflow(o, w)
      PROVE  TypeOK'
  BY <1>1 DEF RegisterToWorkflow, Touch, nodeVars
<1>2. ASSUME NEW o \in Oracles, NEW w \in Workflows, RegisterEncoderFails(o, w)
      PROVE  TypeOK'
  BY <1>2 DEF RegisterEncoderFails, nodeVars, roundVars
<1>3. ASSUME NEW o \in Oracles, NEW w \in Workflows, UnregisterFromWorkflow(o, w)
      PROVE  TypeOK'
  BY <1>3 DEF UnregisterFromWorkflow, Touch, nodeVars
<1>4. ASSUME NEW o \in Oracles, NEW e \in Execs, RequestArrives(o, e)
      PROVE  TypeOK'
  BY <1>4 DEF RequestArrives, regVars, roundVars
<1>5. ASSUME NEW o \in Oracles, NEW e \in Execs, RequestExpires(o, e)
      PROVE  TypeOK'
  BY <1>5, WithoutType DEF RequestExpires, regVars, roundVars
<1>6. ASSUME NEW o \in Oracles, NEW e \in Execs, Transmit(o, e)
      PROVE  TypeOK'
  BY <1>6, WithoutType DEF Transmit, regVars, roundVars
<1>7. ASSUME NEW o \in Oracles, Query(o)
      PROVE  TypeOK'
  <2>1. FirstN(store[o], BatchSize) \in Seq(Execs)
    BY SubSeqProperties, LenProperties DEF FirstN, PluginAssumption
  <2> QED BY <1>7, <2>1 DEF Query, nodeVars, regVars
<1>8. ASSUME NEW S \in SUBSET Oracles, Observe(S)
      PROVE  TypeOK'
  BY <1>8 DEF Observe, nodeVars, regVars
<1>9. ASSUME NEW o \in Oracles, Outcome(o)
      PROVE  TypeOK'
  <2>1. computed' \in [Oracles -> SUBSET OutcomeRecords]
    BY <1>9, OutcomesTyped DEF Outcome
  <2> QED BY <1>9, <2>1 DEF Outcome, nodeVars
<1>10. ASSUME NEW o \in Oracles, NEW r \in computed[o], Commit(r)
       PROVE  TypeOK'
  <2>1. r \in OutcomeRecords
    OBVIOUS
  <2>2. r.reports \subseteq ReportRecords
    BY <2>1 DEF OutcomeRecords
  <2>3. r.outcomes \in [Workflows -> Nat \cup {NoOutcome}]
    BY <2>1 DEF OutcomeRecords
  <2>4. ASSUME NEW p \in Oracles PROVE Reports(p, r.reports) \subseteq Execs
    BY <2>2 DEF Reports, ReportRecords
  <2>5. transmits' \in [Oracles -> SUBSET Execs]
    BY <1>10, <2>4 DEF Commit
  <2> QED BY <1>10, <2>2, <2>3, <2>5 DEF Commit, RoundEnds, nodeVars, regVars
<1>11. ASSUME Abandon PROVE TypeOK'
  BY <1>11 DEF Abandon, RoundEnds, nodeVars, regVars
<1>12. CASE UNCHANGED vars
  BY <1>12 DEF vars, nodeVars, regVars, roundVars
<1> QED
  BY <1>1, <1>2, <1>3, <1>4, <1>5, <1>6, <1>7, <1>8, <1>9, <1>10, <1>11, <1>12
  DEF Next, RoundNext, NodeNext

\* The plugin starts well typed.
LEMMA InitType ==
  ASSUME PluginAssumption, Init PROVE TypeOK
BY DEF Init, TypeOK, ReportRecords

\* Every variable of the plugin's nodes and of the round keeps its type.
THEOREM TypeCorrect == ASSUME PluginAssumption PROVE Spec => []TypeOK
<1>1. Init => TypeOK
  BY InitType
<1>2. TypeOK /\ [Next]_vars => TypeOK'
  BY TypeStep
<1> QED BY <1>1, <1>2, PTL DEF Spec

-----------------------------------------------------------------------------
(* Where a report's support comes from.                                    *)

\* The oracles that had request e and were given value v, or encoder x.
ValueWitnesses(e, v) ==
  {o \in Oracles : e \in arrived[o] /\ Observed[o][e].val = v}
EncoderWitnesses(e, x) ==
  {o \in Oracles : e \in arrived[o] /\ Observed[o][e].enc = x}

\* A report whose value, and whose encoder override if it has one, a quorum of
\* oracles asked for.
Supported(r) ==
  /\ Cardinality(ValueWitnesses(r.id, r.val)) >= Quorum
  /\ r.enc # NoEncoder => Cardinality(EncoderWitnesses(r.id, r.enc)) >= Quorum

\* A store holds only requests that arrived; an observation only names those.
HeldArrived ==
  /\ \A o \in Oracles, e \in Execs : InSeq(store[o], e) => e \in arrived[o]
  /\ \A o \in Oracles : observations[o] \subseteq arrived[o]

AllSupported ==
  /\ \A r \in reported : Supported(r)
  /\ \A o \in Oracles : \A out \in computed[o] : \A r \in out.reports : Supported(r)

IInv == TypeOK /\ HeldArrived /\ AllSupported /\ LastSeenAtBounded

\* A set of oracles is finite, and a larger one does not have fewer members.
LEMMA OracleSets ==
  ASSUME PluginAssumption, NEW B \in SUBSET Oracles, NEW A \in SUBSET B
  PROVE  /\ Cardinality(A) \in Nat /\ Cardinality(B) \in Nat
         /\ Cardinality(A) <= Cardinality(B)
<1>1. IsFiniteSet(B)
  BY FS_Subset DEF PluginAssumption
<1>2. IsFiniteSet(A) /\ Cardinality(A) <= Cardinality(B)
  BY <1>1, FS_Subset
<1> QED BY <1>1, <1>2, FS_CardinalityType

\* What a node computes is supported: Outcome counts the observations of
\* oracles that hold the request.
LEMMA OutcomeSupported ==
  ASSUME PluginAssumption, TypeOK, HeldArrived, NEW o \in Oracles,
         NEW out \in PossibleOutcomes(o), NEW r \in out.reports
  PROVE  Supported(r)
<1>1. PICK f \in [Reportable(o) -> [val : Values, enc : Encoders \cup {NoEncoder}]] :
        /\ out = [outcomes |-> [w \in Workflows |-> NewLastSeenAt(o, w)],
                  reports |-> {[id |-> e, val |-> f[e].val, enc |-> f[e].enc] :
                                 e \in Reportable(o)}]
        /\ \A e \in Reportable(o) : /\ f[e].val \in Aggregate(e)
                                     /\ f[e].enc \in EncoderOverride(e)
  BY DEF PossibleOutcomes
<1>2. PICK e \in Reportable(o) :
        r = [id |-> e, val |-> f[e].val, enc |-> f[e].enc]
  BY <1>1
<1>3. /\ r.id = e /\ e \in Execs
      /\ r.val \in Aggregate(e) /\ r.enc \in EncoderOverride(e)
  BY <1>1, <1>2 DEF Reportable
<1>4. Quorum \in Nat
  BY DEF Quorum, PluginAssumption
<1>5. Cardinality(ValueWitnesses(e, r.val)) >= Quorum
  <2> DEFINE A == {p \in Backers(e) : Observed[p][e].val = r.val}
             B == ValueWitnesses(e, r.val)
  <2>1. A \in SUBSET B
    BY <1>3 DEF Backers, ValueWitnesses, HeldArrived, TypeOK
  <2>2. B \in SUBSET Oracles
    BY DEF ValueWitnesses
  <2>3. Cardinality(A) >= Quorum
    BY <1>3 DEF Aggregate, ValueCount
  <2> HIDE DEF A, B
  <2>4. /\ Cardinality(A) \in Nat /\ Cardinality(B) \in Nat
        /\ Cardinality(A) <= Cardinality(B)
    BY <2>1, <2>2, OracleSets
  <2>5. Cardinality(B) >= Quorum
    BY <2>3, <2>4, <1>4
  <2> QED BY <2>5 DEF B
<1>6. ASSUME r.enc # NoEncoder
      PROVE  Cardinality(EncoderWitnesses(e, r.enc)) >= Quorum
  <2> DEFINE A == {p \in Backers(e) : Observed[p][e].enc = r.enc}
             B == EncoderWitnesses(e, r.enc)
  <2>1. A \in SUBSET B
    BY <1>3 DEF Backers, EncoderWitnesses, HeldArrived, TypeOK
  <2>2. B \in SUBSET Oracles
    BY DEF EncoderWitnesses
  <2>3. Cardinality(A) >= Quorum
    BY <1>3, <1>6 DEF EncoderOverride, EncoderCount
  <2> HIDE DEF A, B
  <2>4. /\ Cardinality(A) \in Nat /\ Cardinality(B) \in Nat
        /\ Cardinality(A) <= Cardinality(B)
    BY <2>1, <2>2, OracleSets
  <2>5. Cardinality(B) >= Quorum
    BY <2>3, <2>4, <1>4
  <2> QED BY <2>5 DEF B
<1> QED BY <1>3, <1>5, <1>6 DEF Supported

\* Requests only ever arrive, so support is never lost.
LEMMA SupportKept ==
  ASSUME PluginAssumption, NEW r, Supported(r),
         \A o \in Oracles : arrived[o] \subseteq arrived'[o]
  PROVE  Supported(r)'
<1>1. Quorum \in Nat /\ Quorum' = Quorum
  BY DEF Quorum, PluginAssumption
<1>2. /\ ValueWitnesses(r.id, r.val) \in SUBSET ValueWitnesses(r.id, r.val)'
      /\ ValueWitnesses(r.id, r.val)' \in SUBSET Oracles
  BY DEF ValueWitnesses
<1>3. /\ EncoderWitnesses(r.id, r.enc) \in SUBSET EncoderWitnesses(r.id, r.enc)'
      /\ EncoderWitnesses(r.id, r.enc)' \in SUBSET Oracles
  BY DEF EncoderWitnesses
<1>4. Cardinality(ValueWitnesses(r.id, r.val)') >= Quorum
  BY <1>1, <1>2, OracleSets DEF Supported
<1>5. ASSUME r.enc # NoEncoder
      PROVE  Cardinality(EncoderWitnesses(r.id, r.enc)') >= Quorum
  BY <1>1, <1>3, <1>5, OracleSets DEF Supported
<1> QED BY <1>1, <1>4, <1>5 DEF Supported

-----------------------------------------------------------------------------
(* The inductive invariant.                                                *)

\* LastSeenAt of what a node computes does not run ahead of the round.
LEMMA OutcomeBounded ==
  ASSUME PluginAssumption, TypeOK, LastSeenAtBounded, NEW o \in Oracles,
         NEW out \in PossibleOutcomes(o), NEW w \in Workflows,
         out.outcomes[w] # NoOutcome
  PROVE  out.outcomes[w] <= seqNr + 1
<1>1. out.outcomes[w] = NewLastSeenAt(o, w)
  BY DEF PossibleOutcomes
<1>2. Refreshed(o, w) # NoOutcome => Refreshed(o, w) \in Nat /\ Refreshed(o, w) <= seqNr
  BY DEF Refreshed, LastSeenAtBounded, TypeOK
<1> QED BY <1>1, <1>2 DEF NewLastSeenAt, TypeOK

\* The invariant holds before the first round.
LEMMA InitIInv ==
  ASSUME PluginAssumption, Init PROVE IInv
<1>1. TypeOK
  BY InitType
<1>2. HeldArrived
  BY DEF Init, HeldArrived, InSeq
<1>3. AllSupported
  BY DEF Init, AllSupported
<1>4. LastSeenAtBounded
  BY DEF Init, LastSeenAtBounded
<1> QED BY <1>1, <1>2, <1>3, <1>4 DEF IInv

\* No step takes an arrived request back.
LEMMA ArrivedGrows ==
  ASSUME PluginAssumption, TypeOK, [Next]_vars, NEW o \in Oracles
  PROVE  arrived[o] \subseteq arrived'[o]
<1>1. ASSUME NEW p \in Oracles, NEW e \in Execs, RequestArrives(p, e)
      PROVE  arrived[o] \subseteq arrived'[o]
  BY <1>1 DEF RequestArrives, TypeOK
<1>2. CASE UNCHANGED arrived
  BY <1>2
<1> QED
  BY <1>1, <1>2 DEF Next, RoundNext, NodeNext, RegisterToWorkflow,
     RegisterEncoderFails, UnregisterFromWorkflow, RequestExpires, Transmit,
     Query, Observe, Outcome, Commit, Abandon, vars, nodeVars

\* Every step preserves the invariant.
LEMMA StepIInv ==
  ASSUME PluginAssumption, IInv, [Next]_vars PROVE IInv'
<1>1. TypeOK /\ TypeOK'
  BY TypeStep DEF IInv
<1>2. HeldArrived'
  <2>1. ASSUME NEW o \in Oracles, NEW e \in Execs, RequestArrives(o, e)
        PROVE  HeldArrived'
    BY <2>1, <1>1, AppendProperties, LenProperties
       DEF RequestArrives, HeldArrived, IInv, TypeOK, InSeq, roundVars
  <2>2. ASSUME NEW o \in Oracles, NEW e \in Execs,
               store' = [store EXCEPT ![o] = Without(@, e)],
               UNCHANGED <<arrived, observations>>
        PROVE  HeldArrived'
    BY <2>2, <1>1, WithoutShrinks DEF HeldArrived, IInv, TypeOK
  <2>3. ASSUME NEW S \in SUBSET Oracles, Observe(S)
        PROVE  HeldArrived'
    BY <2>3, <1>1 DEF Observe, HeldArrived, IInv, TypeOK, nodeVars
  <2>4. ASSUME RoundEnds, UNCHANGED nodeVars
        PROVE  HeldArrived'
    BY <2>4, <1>1 DEF RoundEnds, HeldArrived, IInv, nodeVars
  <2>5. CASE UNCHANGED <<store, arrived, observations>>
    BY <2>5 DEF HeldArrived, IInv
  <2> QED
    BY <2>1, <2>2, <2>3, <2>4, <2>5 DEF Next, RoundNext, NodeNext,
       RegisterToWorkflow, RegisterEncoderFails, UnregisterFromWorkflow,
       RequestExpires, Transmit, Query, Outcome, Commit, Abandon, vars,
       nodeVars, roundVars
<1>3. AllSupported'
  <2>1. ASSUME NEW r, Supported(r) PROVE Supported(r)'
    BY <2>1, <1>1, ArrivedGrows, SupportKept
  <2>2. ASSUME NEW o \in Oracles, Outcome(o) PROVE AllSupported'
    <3>1. ASSUME NEW p \in Oracles, NEW out \in computed'[p], NEW r \in out.reports
          PROVE  Supported(r)
      BY <2>2, <3>1, <1>1, OutcomeSupported DEF Outcome, IInv, AllSupported, TypeOK
    <3> QED BY <3>1, <2>1, <2>2 DEF Outcome, AllSupported, IInv
  <2>3. ASSUME NEW o \in Oracles, NEW out \in computed[o], Commit(out)
        PROVE  AllSupported'
    <3>1. \A r \in reported' : Supported(r)
      BY <2>3 DEF Commit, AllSupported, IInv
    <3>2. \A p \in Oracles : computed'[p] = {}
      BY <2>3 DEF Commit, RoundEnds
    <3> QED BY <3>1, <3>2, <2>1 DEF AllSupported
  <2>4. CASE Abandon
    <3>1. \A p \in Oracles : computed'[p] = {}
      BY <2>4 DEF Abandon, RoundEnds
    <3>2. UNCHANGED reported
      BY <2>4 DEF Abandon
    <3> QED BY <3>1, <3>2, <2>1 DEF AllSupported, IInv
  <2>5. CASE UNCHANGED <<reported, computed>>
    BY <2>5, <2>1 DEF AllSupported, IInv
  <2> QED
    BY <2>2, <2>3, <2>4, <2>5 DEF Next, RoundNext, NodeNext,
       RegisterToWorkflow, RegisterEncoderFails, UnregisterFromWorkflow,
       RequestArrives, RequestExpires, Transmit, Query, Observe, vars, roundVars
<1>4. LastSeenAtBounded'
  <2>1. ASSUME NEW o \in Oracles, Outcome(o) PROVE LastSeenAtBounded'
    BY <2>1, <1>1, OutcomeBounded DEF Outcome, IInv, LastSeenAtBounded, TypeOK
  <2>2. ASSUME NEW o \in Oracles, NEW out \in computed[o], Commit(out)
        PROVE  LastSeenAtBounded'
    BY <2>2, <1>1 DEF Commit, RoundEnds, IInv, LastSeenAtBounded, TypeOK
  <2>3. CASE Abandon
    BY <2>3, <1>1 DEF Abandon, RoundEnds, IInv, LastSeenAtBounded
  <2>4. CASE UNCHANGED <<seqNr, outcomes, computed>>
    BY <2>4 DEF LastSeenAtBounded, IInv
  <2> QED
    BY <2>1, <2>2, <2>3, <2>4 DEF Next, RoundNext, NodeNext,
       RegisterToWorkflow, RegisterEncoderFails, UnregisterFromWorkflow,
       RequestArrives, RequestExpires, Transmit, Query, Observe, vars, roundVars
<1> QED BY <1>1, <1>2, <1>3, <1>4 DEF IInv

\* The invariant holds in every reachable state.
THEOREM Invariance == ASSUME PluginAssumption PROVE Spec => []IInv
<1>1. Init => IInv
  BY InitIInv
<1>2. IInv /\ [Next]_vars => IInv'
  BY StepIInv
<1> QED BY <1>1, <1>2, PTL DEF Spec

\* The reporting plugin only reports values that 2F+1 oracles were given
\* for that execution (reporting_plugin.go's Outcome with identicalAggregator).
THEOREM SupportCorrect == ASSUME PluginAssumption PROVE Spec => []ReportsSupported
<1>1. IInv => ReportsSupported
  BY DEF IInv, AllSupported, Supported, ValueWitnesses, ReportsSupported
<1> QED BY <1>1, Invariance, PTL

\* Outcome's unsigned SeqNr - LastSeenAt never wraps around.
THEOREM LastSeenAtCorrect == ASSUME PluginAssumption PROVE Spec => []LastSeenAtBounded
<1>1. IInv => LastSeenAtBounded
  BY DEF IInv
<1> QED BY <1>1, Invariance, PTL

\* Two quorums of oracles meet when there are at most 4F+1 oracles.
LEMMA QuorumsMeet ==
  ASSUME PluginAssumption, Cardinality(Oracles) <= 4 * F + 1,
         NEW A \in SUBSET Oracles, NEW B \in SUBSET Oracles,
         Cardinality(A) >= Quorum, Cardinality(B) >= Quorum
  PROVE  A \cap B # {}
<1>1. SUFFICES ASSUME A \cap B = {} PROVE FALSE
  OBVIOUS
<1>2. IsFiniteSet(A) /\ IsFiniteSet(B) /\ IsFiniteSet(Oracles)
  BY FS_Subset DEF PluginAssumption
<1>3. /\ Cardinality(A) \in Nat /\ Cardinality(B) \in Nat
      /\ Cardinality(A \cup B) \in Nat /\ Cardinality(Oracles) \in Nat
  BY <1>2, FS_Union, FS_CardinalityType
<1>4. Cardinality(A \cup B) = Cardinality(A) + Cardinality(B)
  <2>1. Cardinality(A \cup B) = Cardinality(A) + Cardinality(B) - Cardinality(A \cap B)
    BY <1>2, FS_Union
  <2>2. Cardinality(A \cap B) = 0
    BY <1>1, FS_EmptySet
  <2> QED BY <2>1, <2>2, <1>3
<1>5. Cardinality(A \cup B) <= Cardinality(Oracles)
  BY <1>2, FS_Subset
<1> QED BY <1>3, <1>4, <1>5 DEF Quorum, PluginAssumption

\* On at most 4F+1 oracles (OCR's own n = 3F+1 is one of them) no two rounds
\* ever report different values, or different encoders, for an execution.
THEOREM Agreement ==
  ASSUME PluginAssumption, Cardinality(Oracles) <= 4 * F + 1
  PROVE  Spec => []ReportsAgree
<1>1. IInv => ReportsAgree
  <2> SUFFICES ASSUME IInv, NEW r1 \in reported, NEW r2 \in reported,
                      r1.id = r2.id
               PROVE  /\ r1.val = r2.val
                      /\ r1.enc = r2.enc \/ NoEncoder \in {r1.enc, r2.enc}
    BY DEF ReportsAgree
  <2>1. Supported(r1) /\ Supported(r2)
    BY DEF IInv, AllSupported
  <2>2. r1.val = r2.val
    <3>1. ValueWitnesses(r1.id, r1.val) \cap ValueWitnesses(r2.id, r2.val) # {}
      BY <2>1, QuorumsMeet DEF Supported, ValueWitnesses
    <3> QED BY <3>1 DEF ValueWitnesses
  <2>3. ASSUME r1.enc # NoEncoder, r2.enc # NoEncoder PROVE r1.enc = r2.enc
    <3>1. EncoderWitnesses(r1.id, r1.enc) \cap EncoderWitnesses(r2.id, r2.enc) # {}
      BY <2>1, <2>3, QuorumsMeet DEF Supported, EncoderWitnesses
    <3> QED BY <3>1 DEF EncoderWitnesses
  <2> QED BY <2>2, <2>3
<1> QED BY <1>1, Invariance, PTL

-----------------------------------------------------------------------------
(* What a computed outcome depends on.  An outcome that a node has computed *)
(* is determined by the round and by the executions it reports; the node's  *)
(* own aggregators only decide which executions these are.                  *)

\* Refreshed, Pruned and NewLastSeenAt, read off the reports R of an outcome.
RefreshedBy(R, w) ==
  IF outcomes[w] = NoOutcome /\ \E q \in R : WorkflowOf[q.id] = w
    THEN 0
    ELSE outcomes[w]

PrunedBy(R, w) ==
  /\ RefreshedBy(R, w) # NoOutcome
  /\ SeenCount(w) < F + 1
  /\ seqNr + 1 - RefreshedBy(R, w) > OutcomePruningThreshold

LastSeenBy(R, w) ==
  IF RefreshedBy(R, w) = NoOutcome \/ PrunedBy(R, w) THEN NoOutcome
  ELSE IF SeenCount(w) >= F + 1 THEN seqNr + 1
  ELSE RefreshedBy(R, w)

Determined(r) ==
  /\ r.outcomes = [w \in Workflows |-> LastSeenBy(r.reports, w)]
  /\ \A q \in r.reports : /\ q.val \in Aggregate(q.id)
                          /\ q.enc \in EncoderOverride(q.id)

ComputedInv ==
  /\ phase # "observed" => \A o \in Oracles : computed[o] = {}
  /\ \A o \in Oracles : \A r \in computed[o] : Determined(r)

\* What Outcome returns is determined by the reports in it.
LEMMA OutcomeDetermined ==
  ASSUME PluginAssumption, NEW o \in Oracles, NEW out \in PossibleOutcomes(o)
  PROVE  Determined(out)
<1>1. PICK f \in [Reportable(o) -> [val : Values, enc : Encoders \cup {NoEncoder}]] :
        /\ out = [outcomes |-> [w \in Workflows |-> NewLastSeenAt(o, w)],
                  reports |-> {[id |-> e, val |-> f[e].val, enc |-> f[e].enc] :
                                 e \in Reportable(o)}]
        /\ \A e \in Reportable(o) : /\ f[e].val \in Aggregate(e)
                                     /\ f[e].enc \in EncoderOverride(e)
  BY DEF PossibleOutcomes
<1>2. ASSUME NEW w \in Workflows
      PROVE  (\E q \in out.reports : WorkflowOf[q.id] = w)
               <=> \E e \in Reportable(o) : WorkflowOf[e] = w
  <2>1. out.reports = {[id |-> e, val |-> f[e].val, enc |-> f[e].enc] :
                         e \in Reportable(o)}
    BY <1>1
  <2>2. ASSUME NEW q \in out.reports, WorkflowOf[q.id] = w
        PROVE  \E e \in Reportable(o) : WorkflowOf[e] = w
    BY <2>1, <2>2
  <2>3. ASSUME NEW e \in Reportable(o), WorkflowOf[e] = w
        PROVE  \E q \in out.reports : WorkflowOf[q.id] = w
    <3> DEFINE q == [id |-> e, val |-> f[e].val, enc |-> f[e].enc]
    <3>1. q \in out.reports /\ q.id = e
      BY <2>1
    <3> QED BY <3>1, <2>3
  <2> QED BY <2>2, <2>3
<1>3. ASSUME NEW w \in Workflows
      PROVE  NewLastSeenAt(o, w) = LastSeenBy(out.reports, w)
  <2>1. Refreshed(o, w) = RefreshedBy(out.reports, w)
    BY <1>2 DEF Refreshed, RefreshedBy
  <2> QED BY <2>1 DEF NewLastSeenAt, LastSeenBy, Pruned, PrunedBy
<1>4. out.outcomes = [w \in Workflows |-> LastSeenBy(out.reports, w)]
  BY <1>1, <1>3
<1>5. \A q \in out.reports : q.val \in Aggregate(q.id) /\ q.enc \in EncoderOverride(q.id)
  BY <1>1
<1> QED BY <1>4, <1>5 DEF Determined

\* The invariant of the computed outcomes is inductive: the committed outcome,
\* the sequence number and the observations stay as they are while a round has
\* computed outcomes.
LEMMA ComputedStep ==
  ASSUME PluginAssumption, TypeOK, ComputedInv, [Next]_vars
  PROVE  ComputedInv'
<1>1. ASSUME NEW o \in Oracles, Outcome(o) PROVE ComputedInv'
  <2>1. UNCHANGED <<seqNr, outcomes, observers, observations, seen>>
    BY <1>1 DEF Outcome
  <2>2. \A r : Determined(r)' <=> Determined(r)
    BY <2>1 DEF Determined, LastSeenBy, PrunedBy, RefreshedBy, SeenCount,
       Aggregate, ValueCount, EncoderOverride, EncoderCount, Backers, Quorum
  <2>3. \A p \in Oracles : \A r \in computed'[p] : Determined(r)
    BY <1>1, OutcomeDetermined DEF Outcome, ComputedInv, TypeOK
  <2>4. phase' = "observed"
    BY <1>1 DEF Outcome
  <2> QED BY <2>2, <2>3, <2>4 DEF ComputedInv
<1>2. CASE RoundEnds
  BY <1>2 DEF RoundEnds, ComputedInv
<1>3. CASE phase # "observed" /\ UNCHANGED computed
  BY <1>3 DEF ComputedInv
<1>4. CASE UNCHANGED <<phase, computed, seqNr, outcomes, observers, observations, seen>>
  <2>1. \A r : Determined(r)' <=> Determined(r)
    BY <1>4 DEF Determined, LastSeenBy, PrunedBy, RefreshedBy, SeenCount,
       Aggregate, ValueCount, EncoderOverride, EncoderCount, Backers, Quorum
  <2> QED BY <1>4, <2>1 DEF ComputedInv
<1> QED
  BY <1>1, <1>2, <1>3, <1>4 DEF Next, RoundNext, NodeNext, RegisterToWorkflow,
     RegisterEncoderFails, UnregisterFromWorkflow, RequestArrives,
     RequestExpires, Transmit, Query, Observe, Commit, Abandon, vars, roundVars

\* No two values, and no two encoders, have 2F+1 of the round's observations.
LEMMA OneAggregate ==
  ASSUME PluginAssumption, Cardinality(Oracles) <= 4 * F + 1, TypeOK,
         NEW e \in Execs
  PROVE  /\ \A v1, v2 \in Aggregate(e) : v1 = v2
         /\ \A x1, x2 \in EncoderOverride(e) : x1 = x2
<1>1. Backers(e) \subseteq Oracles
  BY DEF Backers, TypeOK
<1>2. ASSUME NEW v1 \in Aggregate(e), NEW v2 \in Aggregate(e) PROVE v1 = v2
  <2> DEFINE A(v) == {o \in Backers(e) : Observed[o][e].val = v}
  <2>1. Cardinality(A(v1)) >= Quorum /\ Cardinality(A(v2)) >= Quorum
    BY DEF Aggregate, ValueCount
  <2>2. A(v1) \cap A(v2) # {}
    <3>1. A(v1) \in SUBSET Oracles /\ A(v2) \in SUBSET Oracles
      BY <1>1
    <3> HIDE DEF A
    <3> QED BY <3>1, <2>1, QuorumsMeet
  <2> QED BY <2>2
<1>3. ASSUME NEW x1 \in EncoderOverride(e), NEW x2 \in EncoderOverride(e)
      PROVE  x1 = x2
  <2> DEFINE A(x) == {o \in Backers(e) : Observed[o][e].enc = x}
             agreed == {x \in Encoders : EncoderCount(e, x) >= Quorum}
  <2>1. CASE agreed = {}
    BY <2>1 DEF EncoderOverride
  <2>2. CASE agreed # {}
    <3>1. x1 \in agreed /\ x2 \in agreed
      BY <2>2 DEF EncoderOverride
    <3>2. Cardinality(A(x1)) >= Quorum /\ Cardinality(A(x2)) >= Quorum
      BY <3>1 DEF EncoderCount
    <3>3. A(x1) \cap A(x2) # {}
      <4>1. A(x1) \in SUBSET Oracles /\ A(x2) \in SUBSET Oracles
        BY <1>1
      <4> HIDE DEF A
      <4> QED BY <4>1, <3>2, QuorumsMeet
    <3> QED BY <3>3
  <2> QED BY <2>1, <2>2
<1> QED BY <1>2, <1>3

\* On at most 4F+1 oracles, two nodes that report the same executions compute
\* the same outcome, whatever they were told by their own registrations and in
\* whatever order Go walks the maps: OCR3 can commit it.
THEOREM DeterminismCorrect ==
  ASSUME PluginAssumption, Cardinality(Oracles) <= 4 * F + 1
  PROVE  Spec => []OutcomeDeterministic
<1>1. Init => ComputedInv
  BY DEF Init, ComputedInv
<1>2. IInv /\ ComputedInv /\ [Next]_vars => ComputedInv'
  BY ComputedStep DEF IInv
<1>3. IInv /\ ComputedInv => OutcomeDeterministic
  <2> SUFFICES ASSUME IInv, ComputedInv, NEW o1 \in Oracles, NEW o2 \in Oracles,
                      NEW r1 \in computed[o1], NEW r2 \in computed[o2],
                      {r.id : r \in r1.reports} = {r.id : r \in r2.reports}
               PROVE  r1 = r2
    BY DEF OutcomeDeterministic
  <2>1. TypeOK /\ Determined(r1) /\ Determined(r2)
    BY DEF IInv, ComputedInv
  <2>2. r1 \in OutcomeRecords /\ r2 \in OutcomeRecords
    BY <2>1 DEF TypeOK
  <2>3. r1.reports \subseteq ReportRecords /\ r2.reports \subseteq ReportRecords
    BY <2>2 DEF OutcomeRecords
  <2>4. ASSUME NEW q1 \in r1.reports, NEW q2 \in r2.reports, q1.id = q2.id
        PROVE  q1 = q2
    <3>1. q1 \in ReportRecords /\ q2 \in ReportRecords /\ q1.id \in Execs
      BY <2>3 DEF ReportRecords
    <3>2. q1.val = q2.val /\ q1.enc = q2.enc
      BY <2>1, <2>4, <3>1, OneAggregate DEF Determined
    <3> QED BY <2>4, <3>1, <3>2 DEF ReportRecords
  <2>5. r1.reports = r2.reports
    <3>1. ASSUME NEW q1 \in r1.reports PROVE q1 \in r2.reports
      <4>1. q1.id \in {r.id : r \in r2.reports}
        OBVIOUS
      <4>2. PICK q2 \in r2.reports : q2.id = q1.id
        BY <4>1
      <4> QED BY <4>2, <2>4
    <3>2. ASSUME NEW q2 \in r2.reports PROVE q2 \in r1.reports
      <4>1. q2.id \in {r.id : r \in r1.reports}
        OBVIOUS
      <4>2. PICK q1 \in r1.reports : q1.id = q2.id
        BY <4>1
      <4> QED BY <4>2, <2>4
    <3> QED BY <3>1, <3>2
  <2>6. r1.outcomes = r2.outcomes
    BY <2>1, <2>5 DEF Determined
  <2>7. /\ r1 = [outcomes |-> r1.outcomes, reports |-> r1.reports]
        /\ r2 = [outcomes |-> r2.outcomes, reports |-> r2.reports]
    BY <2>2, Zenon DEF OutcomeRecords
  <2> QED BY <2>5, <2>6, <2>7
<1> QED BY <1>1, <1>2, <1>3, Invariance, PTL DEF Spec

-----------------------------------------------------------------------------
(* What a committed round may do to the outcomes it inherits.               *)

\* An outcome that a workflow has stays as it is while F+1 observers do not see
\* the workflow, moves to the round's sequence number when they do, and is
\* dropped only when they do not and it is more than the threshold old.
OutcomesKept ==
  [][\A w \in Workflows : outcomes[w] # NoOutcome =>
       IF SeenCount(w) >= F + 1
         THEN outcomes'[w] \in {outcomes[w], seqNr'}
         ELSE outcomes'[w] = outcomes[w]
              \/ /\ outcomes'[w] = NoOutcome
                 /\ seqNr' - outcomes[w] > OutcomePruningThreshold]_vars

\* A workflow that F+1 of a round's observers are registered to never loses its
\* outcome in that round, and one that is gone keeps it for the threshold's
\* number of rounds, whichever node computed the outcome that is committed.
THEOREM PruningCorrect == ASSUME PluginAssumption PROVE Spec => OutcomesKept
<1> DEFINE Kept(w) == IF SeenCount(w) >= F + 1
                        THEN outcomes'[w] \in {outcomes[w], seqNr'}
                        ELSE outcomes'[w] = outcomes[w]
                             \/ /\ outcomes'[w] = NoOutcome
                                /\ seqNr' - outcomes[w] > OutcomePruningThreshold
           Step == \A w \in Workflows : outcomes[w] # NoOutcome => Kept(w)
<1>1. Init => ComputedInv
  BY DEF Init, ComputedInv
<1>2. IInv /\ ComputedInv /\ [Next]_vars => ComputedInv'
  BY ComputedStep DEF IInv
<1>3. ASSUME IInv, ComputedInv, Next, NEW w \in Workflows, outcomes[w] # NoOutcome
      PROVE  Kept(w)
  <2>1. ASSUME NEW o \in Oracles, NEW r \in computed[o], Commit(r) PROVE Kept(w)
    <3>1. /\ seqNr' = seqNr + 1 /\ outcomes' = r.outcomes
          /\ r.outcomes = [v \in Workflows |-> LastSeenBy(r.reports, v)]
      BY <1>3, <2>1 DEF Commit, ComputedInv, Determined
    <3>2. outcomes'[w] = LastSeenBy(r.reports, w)
      BY <3>1
    <3>3. RefreshedBy(r.reports, w) = outcomes[w]
      BY <1>3 DEF RefreshedBy
    <3>4. F \in Nat /\ SeenCount(w) \in Nat
      <4>1. {p \in observers : w \in seen[p]} \in SUBSET Oracles
        BY <1>3 DEF IInv, TypeOK
      <4>2. SeenCount(w) \in Nat
        BY <4>1, OracleSets DEF SeenCount
      <4> QED BY <4>2 DEF PluginAssumption
    <3>5. CASE SeenCount(w) >= F + 1
      BY <3>1, <3>2, <3>3, <3>4, <3>5, <1>3 DEF LastSeenBy, PrunedBy
    <3>6. CASE ~(SeenCount(w) >= F + 1)
      <4>1. seqNr + 1 - RefreshedBy(r.reports, w) = seqNr' - outcomes[w]
        <5>1. seqNr' = seqNr + 1
          BY <3>1
        <5>2. seqNr \in Nat /\ outcomes[w] \in Nat
          BY <1>3 DEF IInv, TypeOK
        <5>3. seqNr + 1 - outcomes[w] = seqNr' - outcomes[w]
          BY ONLY <5>1, <5>2
        <5> QED BY <3>3, <5>3, Zenon
      <4>2. CASE PrunedBy(r.reports, w)
        BY <3>2, <3>6, <4>1, <4>2 DEF LastSeenBy, PrunedBy
      <4>3. CASE ~PrunedBy(r.reports, w)
        <5>1. outcomes'[w] = outcomes[w]
          BY <1>3, <3>2, <3>3, <3>6, <4>3 DEF LastSeenBy
        <5> QED BY <5>1, <3>6
      <4> QED BY <4>2, <4>3
    <3> QED BY <3>5, <3>6
  <2>2. CASE UNCHANGED outcomes
    BY <2>2
  <2> QED
    BY <1>3, <2>1, <2>2 DEF Next, RoundNext, NodeNext, RegisterToWorkflow,
       RegisterEncoderFails, UnregisterFromWorkflow, RequestArrives,
       RequestExpires, Transmit, Query, Observe, Outcome, Abandon
<1>4. IInv /\ ComputedInv /\ [Next]_vars => [Step]_vars
  BY <1>3
<1> QED BY <1>1, <1>2, <1>4, Invariance, PTL DEF Spec, OutcomesKept
=============================================================================
