------------------------- MODULE AggregatorsProofs -------------------------
(***************************************************************************)
(* Proofs about the data feeds, LLO and reduce aggregators, for every      *)
(* number of oracles with at most F faulty ones among the 2F+1 or more     *)
(* that observed, every set of feeds and every configuration.              *)
(***************************************************************************)
EXTENDS Aggregators, FiniteSetTheorems, TLAPS

-----------------------------------------------------------------------------
(* Votes, observations and choices.                                        *)

\* F+1 votes are never those of faulty oracles alone.
LEMMA HonestVoter ==
  ASSUME OraclesAssumption, NEW S \in SUBSET Oracles, Supported(S)
  PROVE  \E o \in S : o \in Honest
<1>1. SUFFICES ASSUME S \subseteq Faulty PROVE FALSE
  BY DEF Honest
<1>2. IsFiniteSet(Faulty)
  BY FS_Subset DEF OraclesAssumption
<1>3. Cardinality(S) <= Cardinality(Faulty) /\ IsFiniteSet(S)
  BY <1>1, <1>2, FS_Subset
<1>4. Cardinality(S) \in Nat /\ Cardinality(Faulty) \in Nat
  BY <1>2, <1>3, FS_CardinalityType
<1> QED BY <1>3, <1>4 DEF Supported, OraclesAssumption

\* A larger set of oracles has no fewer votes.
LEMMA SupportGrows ==
  ASSUME OraclesAssumption, NEW T \in SUBSET Oracles, NEW S \in SUBSET T,
         Supported(S)
  PROVE  Supported(T)
<1>1. IsFiniteSet(T)
  BY FS_Subset DEF OraclesAssumption
<1>2. Cardinality(S) <= Cardinality(T) /\ IsFiniteSet(S)
  BY <1>1, FS_Subset
<1>3. Cardinality(S) \in Nat /\ Cardinality(T) \in Nat
  BY <1>1, <1>2, FS_CardinalityType
<1> QED BY <1>2, <1>3 DEF Supported, OraclesAssumption

\* What honest and faulty oracles observe.
LEMMA ObservationsOf ==
  ASSUME OraclesAssumption, NEW hs, NEW fs, NEW obs \in Observations(hs, fs)
  PROVE  /\ \A o \in Honest : obs[o] \in hs
         /\ \A o \in Faulty : obs[o] \in fs
BY DEF Observations, Honest, OraclesAssumption

\* One choice per ID leaves one function.
LEMMA OneChoice ==
  ASSUME NEW ids, NEW S, NEW g \in Choices(ids, S), NEW h \in Choices(ids, S),
         \A id \in ids : \A x, y \in S[id] : x = y
  PROVE  g = h
BY DEF Choices

\* A set without two different members.
LEMMA AtMostOne ==
  ASSUME NEW T, \A x, y \in T : x = y
  PROVE  Cardinality(T) <= 1
<1>1. CASE T = {}
  BY <1>1, FS_EmptySet
<1>2. CASE T # {}
  <2>1. PICK x : T = {x}
    BY <1>2
  <2>2. Cardinality({x}) = 1
    BY FS_Singleton
  <2> QED BY <2>1, <2>2
<1> QED BY <1>1, <1>2

-----------------------------------------------------------------------------
(* The data feeds aggregator.                                              *)

\* The records that the data providers' signatures are on, by time.
Records(id) == {[ts |-> t, price |-> Signed(id, t)] : t \in Times}

\* What the events of honest and of faulty oracles are.
LEMMA FeedsEvents ==
  ASSUME OraclesAssumption, NEW obs \in FeedsObservations, NEW o \in EventsOf(obs)
  PROVE  /\ o \in Honest => /\ obs[o].signers = {"don"} /\ obs[o].min = 1
                            /\ \A id \in IDs : \/ obs[o].reports[id] = NoEvent
                                               \/ \E t \in Times : obs[o].reports[id] = Genuine(id, t)
         /\ o \in Faulty => /\ obs[o].min = 2
                            /\ \A id \in IDs : obs[o].reports[id] \in {NoEvent, Forged}
<1>1. o \in Oracles /\ obs[o] # NoEvent
  BY DEF EventsOf
<1>2. /\ o \in Honest => obs[o] \in HonestFeedsEvents
      /\ o \in Faulty => obs[o] \in FaultyFeedsEvents
  BY <1>1, ObservationsOf DEF FeedsObservations
<1>3. ASSUME o \in Honest
      PROVE  /\ obs[o].signers = {"don"} /\ obs[o].min = 1
             /\ \A id \in IDs : \/ obs[o].reports[id] = NoEvent
                                \/ \E t \in Times : obs[o].reports[id] = Genuine(id, t)
  <2>1. PICK t \in [IDs -> Times \cup {0}] :
          obs[o] = [kind |-> "event", signers |-> {"don"}, min |-> 1,
                    reports |-> [id \in IDs |->
                       IF t[id] = 0 THEN NoEvent ELSE Genuine(id, t[id])]]
    BY <1>2, <1>3 DEF HonestFeedsEvents
  <2>2. ASSUME NEW id \in IDs
        PROVE  \/ obs[o].reports[id] = NoEvent
               \/ \E u \in Times : obs[o].reports[id] = Genuine(id, u)
    BY <2>1
  <2> QED BY <2>1, <2>2
<1>4. ASSUME o \in Faulty
      PROVE  /\ obs[o].min = 2
             /\ \A id \in IDs : obs[o].reports[id] \in {NoEvent, Forged}
  BY <1>2, <1>4 DEF FaultyFeedsEvents
<1> QED BY <1>3, <1>4

\* F+1 oracles never name the signers, or the number of signatures, that only
\* faulty ones ask for.
LEMMA AgreedSigners ==
  ASSUME OraclesAssumption, NEW obs \in FeedsObservations
  PROVE  /\ allowedSigners(obs) \subseteq {"don"}
         /\ minRequired(obs) \in {0, 1}
<1>1. EventsOf(obs) \subseteq Oracles
  BY DEF EventsOf
<1>2. "rogue" \notin allowedSigners(obs)
  <2>1. SUFFICES ASSUME Supported({o \in EventsOf(obs) : "rogue" \in obs[o].signers})
                 PROVE  FALSE
    BY DEF allowedSigners
  <2>2. PICK o \in EventsOf(obs) : "rogue" \in obs[o].signers /\ o \in Honest
    BY <1>1, <2>1, HonestVoter
  <2> QED BY <2>2, FeedsEvents
<1>3. ASSUME NEW m, Supported({o \in EventsOf(obs) : obs[o].min = m})
      PROVE  m = 1
  <2>1. PICK o \in EventsOf(obs) : obs[o].min = m /\ o \in Honest
    BY <1>1, <1>3, HonestVoter
  <2> QED BY <2>1, FeedsEvents
<1>4. minRequired(obs) \in {0, 1}
  <2> DEFINE mins == {0} \cup {m \in {obs[o].min : o \in EventsOf(obs)} :
                          Supported({o \in EventsOf(obs) : obs[o].min = m})}
  <2>1. mins = {0} \/ mins = {0, 1}
    BY <1>3
  <2>2. minRequired(obs) = CHOOSE m \in mins : \A n \in mins : n <= m
    BY DEF minRequired
  <2> HIDE DEF mins
  <2>3. \E m \in mins : \A n \in mins : n <= m
    <3>1. CASE mins = {0}
      <4>1. 0 \in mins /\ \A n \in mins : n <= 0
        BY <3>1
      <4> QED BY <4>1
    <3>2. CASE mins = {0, 1}
      <4>1. 1 \in mins /\ \A n \in mins : n <= 1
        BY <3>2
      <4> QED BY <4>1
    <3> QED BY <2>1, <3>1, <3>2
  <2> QED BY <2>1, <2>2, <2>3
<1> QED BY <1>2, <1>4 DEF allowedSigners, Signers

\* With one signature required, only reports of the data providers are valid;
\* the newest of them is one record.
LEMMA LatestGenuine ==
  ASSUME OraclesAssumption, now \in Nat, NEW obs \in FeedsObservations, NEW id \in IDs
  PROVE  LET latest == LatestReports(obs, id, allowedSigners(obs), 1)
         IN /\ latest \subseteq Records(id)
            /\ \A x, y \in latest : x = y
<1> DEFINE signers == allowedSigners(obs)
           all     == {obs[o].reports[id] : o \in EventsOf(obs)} \ {NoEvent}
           valid   == {r \in all : Validate(r, signers, 1)}
           newest  == {v \in valid : \A w \in valid : w.ts <= v.ts}
           latest  == LatestReports(obs, id, signers, 1)
<1>1. latest = {[ts |-> r.ts, price |-> r.price] : r \in newest}
  BY DEF LatestReports
<1>2. ASSUME NEW r \in valid
      PROVE  \E t \in Times : r = Genuine(id, t)
  <2>1. PICK o \in EventsOf(obs) : r = obs[o].reports[id] /\ r # NoEvent
    OBVIOUS
  <2>2. o \in Honest \/ o \in Faulty
    BY DEF EventsOf, Honest
  <2>3. CASE o \in Honest
    BY <2>1, <2>3, FeedsEvents
  <2>4. CASE o \in Faulty
    <3>1. r = Forged
      BY <2>1, <2>4, FeedsEvents
    <3>2. r.sigs \cap signers = {}
      BY <3>1, AgreedSigners DEF Forged
    <3>3. Cardinality(r.sigs \cap signers) = 0
      BY <3>2, FS_EmptySet, Zenon
    <3>4. Validate(r, signers, 1)
      OBVIOUS
    <3> QED BY <3>3, <3>4 DEF Validate
  <2> QED BY <2>2, <2>3, <2>4
<1>3. Times \subseteq Int
  BY DEF Times
<1>4. ASSUME NEW r \in newest
      PROVE  \E t \in Times : r = Genuine(id, t) /\ r.ts = t /\ r.price = Signed(id, t)
  BY <1>2 DEF Genuine
<1>5. ASSUME NEW r \in newest, NEW s \in newest
      PROVE  r.ts = s.ts /\ r.price = s.price
  <2>1. PICK t \in Times : r.ts = t /\ r.price = Signed(id, t)
    BY <1>4
  <2>2. PICK u \in Times : s.ts = u /\ s.price = Signed(id, u)
    BY <1>4
  <2>3. r.ts <= s.ts /\ s.ts <= r.ts
    OBVIOUS
  <2> QED BY <2>1, <2>2, <2>3, <1>3
<1> HIDE DEF newest, latest
<1>6. latest \subseteq Records(id)
  BY <1>1, <1>4 DEF Records
<1>7. \A x, y \in latest : x = y
  BY <1>1, <1>5
<1> QED BY <1>6, <1>7 DEF latest

\* The newest valid reports of each feed, when one signature is required.
Newest(obs) == [id \in IDs |-> LatestReports(obs, id, allowedSigners(obs), 1)]

\* Unless it fails, Aggregate requires one signature, or has no reports at all.
LEMMA FeedsOutcomesFrom ==
  ASSUME OraclesAssumption, NEW obs \in FeedsObservations, NEW st,
         NEW out \in FeedsOutcomes(st, obs)
  PROVE  \E new \in Choices({id \in IDs : Newest(obs)[id] # {}}, Newest(obs)) :
           out = FeedsOutcome(st, new)
<1> DEFINE signers == allowedSigners(obs)
           min     == minRequired(obs)
           latest  == [id \in IDs |-> LatestReports(obs, id, signers, min)]
<1>1. /\ EventsOf(obs) = {} \/ min # 0
      /\ \E new \in Choices({id \in IDs : latest[id] # {}}, latest) :
           out = FeedsOutcome(st, new)
  BY DEF FeedsOutcomes
<1>2. latest = Newest(obs)
  <2>1. CASE min = 1
    BY <2>1 DEF Newest
  <2>2. CASE EventsOf(obs) = {}
    <3>1. \A id \in IDs : LatestReports(obs, id, signers, min) = {}
      BY <2>2 DEF LatestReports
    <3>2. \A id \in IDs : LatestReports(obs, id, signers, 1) = {}
      BY <2>2 DEF LatestReports
    <3> QED BY <3>1, <3>2 DEF Newest
  <2> QED BY <1>1, <2>1, <2>2, AgreedSigners
<1> HIDE DEF latest
<1> QED BY <1>1, <1>2

\* Whatever the faulty oracles send, all nodes compute one outcome.
LEMMA FeedsUnique ==
  ASSUME OraclesAssumption, now \in Nat, NEW obs \in FeedsObservations, NEW st
  PROVE  Cardinality(FeedsOutcomes(st, obs)) <= 1
<1>1. ASSUME NEW x \in FeedsOutcomes(st, obs), NEW y \in FeedsOutcomes(st, obs)
      PROVE  x = y
  <2> DEFINE ids == {id \in IDs : Newest(obs)[id] # {}}
  <2>1. PICK g \in Choices(ids, Newest(obs)) : x = FeedsOutcome(st, g)
    BY FeedsOutcomesFrom
  <2>2. PICK h \in Choices(ids, Newest(obs)) : y = FeedsOutcome(st, h)
    BY FeedsOutcomesFrom
  <2>3. \A id \in ids : \A u, v \in Newest(obs)[id] : u = v
    BY LatestGenuine DEF Newest
  <2>4. g = h
    <3> HIDE DEF ids
    <3> QED BY <2>3, OneChoice
  <2> QED BY <2>1, <2>2, <2>4
<1> QED BY <1>1, AtMostOne

\* What is reported of a feed is its newest valid report.
LEMMA FeedsReport ==
  ASSUME OraclesAssumption, NEW obs \in FeedsObservations, NEW st,
         NEW out \in FeedsOutcomes(st, obs), NEW id \in DOMAIN out.report
  PROVE  id \in IDs /\ out.report[id] \in Newest(obs)[id]
<1> DEFINE ids == {i \in IDs : Newest(obs)[i] # {}}
<1>1. PICK g \in Choices(ids, Newest(obs)) : out = FeedsOutcome(st, g)
  BY FeedsOutcomesFrom
<1>2. DOMAIN g = ids /\ \A i \in ids : g[i] \in Newest(obs)[i]
  BY DEF Choices
<1>3. out.report = [i \in Batch(st, g) |-> g[i]]
  BY <1>1 DEF FeedsOutcome, Restricted
<1>4. Batch(st, g) \subseteq DOMAIN g
  BY DEF Batch, Musts
<1> QED BY <1>2, <1>3, <1>4

\* Once F+1 honest oracles name the data providers' signers, an honest
\* oracle's report is valid, so that nothing older is the newest.
LEMMA HonestReportCounts ==
  ASSUME OraclesAssumption, now \in Nat, NEW obs \in FeedsObservations,
         Supported(EventsOf(obs) \cap Honest),
         NEW id \in IDs, NEW x \in Newest(obs)[id],
         NEW o \in EventsOf(obs) \cap Honest, obs[o].reports[id] # NoEvent
  PROVE  obs[o].reports[id].ts <= x.ts
<1> DEFINE signers == allowedSigners(obs)
           r == obs[o].reports[id]
<1>1. "don" \in signers
  <2> DEFINE S == EventsOf(obs) \cap Honest
             T == {p \in EventsOf(obs) : "don" \in obs[p].signers}
  <2>1. S \in SUBSET T
    BY FeedsEvents
  <2>2. T \in SUBSET Oracles
    BY DEF EventsOf
  <2>3. Supported(T)
    <3> HIDE DEF S, T
    <3>1. Supported(S)
      BY DEF S
    <3> QED BY <2>1, <2>2, <3>1, SupportGrows
  <2> QED BY <2>3 DEF allowedSigners, Signers
<1>2. PICK t \in Times : r = Genuine(id, t)
  BY FeedsEvents
<1>3. Validate(r, signers, 1)
  <2>1. r.sigs \cap signers = {"don"}
    BY <1>1, <1>2, AgreedSigners DEF Genuine
  <2>2. Cardinality({"don"}) = 1
    BY FS_Singleton
  <2>3. Cardinality(r.sigs \cap signers) = 1
    BY <2>1, <2>2, Zenon
  <2> QED BY <2>3 DEF Validate
<1>4. r \in {obs[p].reports[id] : p \in EventsOf(obs)} \ {NoEvent}
  OBVIOUS
<1>5. x \in LatestReports(obs, id, signers, 1)
  BY DEF Newest
<1> HIDE DEF r, signers
<1>6. r.ts <= x.ts
  BY <1>3, <1>4, <1>5 DEF LatestReports
<1> QED BY <1>6 DEF r

-----------------------------------------------------------------------------
(* The LLO aggregator.                                                     *)

\* The honest oracles have one event, of a time that the round may meet.
LEMMA LLOEvents ==
  ASSUME OraclesAssumption, NEW obs \in LLOObservations
  PROVE  \E e \in HonestLLOEvents :
           \A o \in LLOEventsOf(obs) \cap Honest : obs[o] = e
<1>1. PICK e \in HonestLLOEvents :
        obs \in Observations({e, NoEvent}, FaultyLLOEvents \cup {NoEvent})
  BY DEF LLOObservations
<1>2. \A o \in Honest : obs[o] \in {e, NoEvent}
  BY <1>1, ObservationsOf
<1> QED BY <1>2 DEF LLOEventsOf

\* An agreed time is that of an honest oracle's event.
LEMMA AgreedTime ==
  ASSUME OraclesAssumption, NEW obs, NEW t \in ObservationTimestamps(obs)
  PROVE  \E o \in LLOEventsOf(obs) \cap Honest : obs[o].ts = t
<1>1. VotersOfTime(obs, t) \in SUBSET Oracles /\ Supported(VotersOfTime(obs, t))
  BY DEF VotersOfTime, LLOEventsOf, ObservationTimestamps
<1>2. PICK o \in VotersOfTime(obs, t) : o \in Honest
  BY <1>1, HonestVoter
<1> QED BY <1>2 DEF VotersOfTime

\* What payloads list for a stream: an honest one at most the price that the
\* providers agreed on, a faulty one any prices.
LEMMA LLOPayloads ==
  ASSUME OraclesAssumption, EntriesAssumption, NEW obs \in LLOObservations,
         NEW o \in LLOEventsOf(obs), NEW id \in IDs
  PROVE  LET l == obs[o].prices[id]
         IN /\ Len(l) \in Nat
            /\ \A i \in 1..Len(l) : \/ \E t \in Times : l[i] = Signed(id, t)
                                    \/ l[i] \in FaultyPrices
            /\ o \in Honest => l = << >> \/ \E q : l = <<q>>
<1> DEFINE l == obs[o].prices[id]
<1>1. PICK e \in HonestLLOEvents :
        obs \in Observations({e, NoEvent}, FaultyLLOEvents \cup {NoEvent})
  BY DEF LLOObservations
<1>2. o \in Oracles /\ obs[o] # NoEvent
  BY DEF LLOEventsOf
<1>3. CASE o \in Honest
  <2>1. obs[o] \in HonestLLOEvents
    BY <1>1, <1>2, <1>3, ObservationsOf
  <2>2. PICK t \in Times : l \in {<<Signed(id, t)>>, << >>}
    BY <2>1 DEF HonestLLOEvents
  <2>3. CASE l = << >>
    <3>1. Len(l) = 0
      BY <2>3
    <3> HIDE DEF l
    <3> QED BY <2>3, <3>1 DEF l
  <2>4. CASE l = <<Signed(id, t)>>
    <3>1. Len(l) = 1 /\ l[1] = Signed(id, t)
      BY <2>4
    <3>2. \A i \in 1..Len(l) : l[i] = Signed(id, t)
      BY <3>1
    <3> HIDE DEF l
    <3>3. /\ Len(l) \in Nat
          /\ \A i \in 1..Len(l) : \E u \in Times : l[i] = Signed(id, u)
          /\ \E q : l = <<q>>
      BY <2>4, <3>1, <3>2
    <3> QED BY <3>3 DEF l
  <2> QED BY <2>2, <2>3, <2>4
<1>4. CASE o \notin Honest
  <2>1. obs[o] \in FaultyLLOEvents
    BY <1>1, <1>2, <1>4, ObservationsOf DEF Honest
  <2>2. PICK n \in 0..MaxEntries : l \in [1..n -> FaultyPrices]
    BY <2>1 DEF FaultyLLOEvents
  <2>3. Len(l) = n /\ \A i \in 1..n : l[i] \in FaultyPrices
    <3> HIDE DEF l
    <3>1. n \in Nat
      BY DEF EntriesAssumption
    <3> QED BY <2>2, <3>1
  <2> HIDE DEF l
  <2>4. Len(l) \in Nat /\ \A i \in 1..Len(l) : l[i] \in FaultyPrices
    BY <2>3 DEF EntriesAssumption
  <2> QED BY <2>4, <1>4 DEF l
<1> QED BY <1>3, <1>4

\* The prices with an entry in a payload of time t, and those with F+1.
Candidates(obs, t, id) ==
  {obs[e[1]].prices[id][e[2]] :
     e \in {d \in VotersOfTime(obs, t) \X (1..MaxEntries) :
              d[2] <= Len(obs[d[1]].prices[id])}}

SupportedPrices(obs, t, id) ==
  {p \in Candidates(obs, t, id) : Supported(Entries(obs, t, id, p))}

\* When no payload repeats the stream, entries are oracles: each oracle casts at
\* most one vote for a price.
LEMMA EntriesAreVoters ==
  ASSUME OraclesAssumption, EntriesAssumption, NEW obs, NEW t, NEW id, NEW p,
         \A o \in LLOEventsOf(obs) : Len(obs[o].prices[id]) \in 0..1
  PROVE  LET voters == {o \in VotersOfTime(obs, t) :
                          Len(obs[o].prices[id]) = 1 /\ obs[o].prices[id][1] = p}
         IN Supported(Entries(obs, t, id, p)) => Supported(voters)
<1> DEFINE voters  == {o \in VotersOfTime(obs, t) :
                          Len(obs[o].prices[id]) = 1 /\ obs[o].prices[id][1] = p}
           entries == Entries(obs, t, id, p)
           f       == [e \in entries |-> e[1]]
<1>1. \A o \in VotersOfTime(obs, t) : Len(obs[o].prices[id]) \in 0..1
  BY DEF VotersOfTime
<1>2. ASSUME NEW e \in entries
      PROVE  e[1] \in voters /\ e = <<e[1], 1>>
  <2>1. /\ e \in VotersOfTime(obs, t) \X (1..MaxEntries)
        /\ e[2] <= Len(obs[e[1]].prices[id])
        /\ obs[e[1]].prices[id][e[2]] = p
    BY DEF Entries
  <2>2. e = <<e[1], e[2]>> /\ e[1] \in VotersOfTime(obs, t) /\ e[2] \in 1..MaxEntries
    BY <2>1
  <2>3. Len(obs[e[1]].prices[id]) \in 0..1
    BY <1>1, <2>2
  <2>4. e[2] = 1 /\ Len(obs[e[1]].prices[id]) = 1
    BY <2>1, <2>2, <2>3 DEF EntriesAssumption
  <2> QED BY <2>1, <2>2, <2>4
<1> HIDE DEF entries
<1>3. f \in Injection(entries, voters)
  <2>1. f \in [entries -> voters]
    BY <1>2
  <2>2. ASSUME NEW d \in entries, NEW e \in entries, f[d] = f[e] PROVE d = e
    <3>1. d[1] = e[1]
      BY <2>2
    <3> QED BY <3>1, <1>2
  <2> HIDE DEF f, voters
  <2> QED BY <2>1, <2>2 DEF Injection, IsInjective
<1>4. IsFiniteSet(voters)
  <2>1. voters \subseteq Oracles
    BY DEF VotersOfTime, LLOEventsOf
  <2> HIDE DEF voters
  <2> QED BY <2>1, FS_Subset DEF OraclesAssumption
<1>5. IsFiniteSet(entries) /\ Cardinality(entries) <= Cardinality(voters)
  <2> HIDE DEF f, voters
  <2> QED BY <1>3, <1>4, FS_Injection
<1>6. Cardinality(entries) \in Nat /\ Cardinality(voters) \in Nat
  <2> HIDE DEF voters
  <2> QED BY <1>4, <1>5, FS_CardinalityType
<1> HIDE DEF voters
<1>7. Supported(entries) => Supported(voters)
  BY <1>5, <1>6 DEF Supported, OraclesAssumption
<1> QED BY <1>7 DEF entries, voters

\* Repeated or not, every oracle with an entry has at least one vote.
LEMMA VotersHaveEntries ==
  ASSUME OraclesAssumption, EntriesAssumption, NEW obs, NEW t, NEW id, NEW p,
         NEW S \in SUBSET VotersOfTime(obs, t), Supported(S),
         \A o \in S : Len(obs[o].prices[id]) = 1 /\ obs[o].prices[id][1] = p
  PROVE  Supported(Entries(obs, t, id, p))
<1> DEFINE entries == Entries(obs, t, id, p)
           f       == [o \in S |-> <<o, 1>>]
<1>1. \A o \in S : <<o, 1>> \in entries
  BY DEF Entries, EntriesAssumption
<1>2. IsFiniteSet(entries)
  <2>1. VotersOfTime(obs, t) \subseteq Oracles
    BY DEF VotersOfTime, LLOEventsOf
  <2>2. IsFiniteSet(VotersOfTime(obs, t))
    BY <2>1, FS_Subset DEF OraclesAssumption
  <2>3. IsFiniteSet(1..MaxEntries)
    BY FS_Interval DEF EntriesAssumption
  <2>4. IsFiniteSet(VotersOfTime(obs, t) \X (1..MaxEntries))
    BY <2>2, <2>3, FS_Product
  <2>5. entries \subseteq VotersOfTime(obs, t) \X (1..MaxEntries)
    BY DEF Entries
  <2> HIDE DEF entries
  <2> QED BY <2>4, <2>5, FS_Subset
<1> HIDE DEF entries
<1>3. f \in Injection(S, entries)
  <2>1. f \in [S -> entries]
    BY <1>1
  <2>2. ASSUME NEW a \in S, NEW b \in S, f[a] = f[b] PROVE a = b
    BY <2>2
  <2> HIDE DEF f
  <2> QED BY <2>1, <2>2 DEF Injection, IsInjective
<1>4. IsFiniteSet(S) /\ Cardinality(S) <= Cardinality(entries)
  <2> HIDE DEF f
  <2> QED BY <1>2, <1>3, FS_Injection
<1>5. Cardinality(S) \in Nat /\ Cardinality(entries) \in Nat
  BY <1>2, <1>4, FS_CardinalityType
<1>6. Supported(entries)
  BY <1>4, <1>5 DEF Supported, OraclesAssumption
<1> QED BY <1>6 DEF entries

\* If no payload repeats the stream, an agreed price is one that an honest
\* oracle observed at the agreed time; a stream without one has price zero.
LEMMA AgreedPrice ==
  ASSUME OraclesAssumption, EntriesAssumption, NEW obs \in LLOObservations,
         NEW t, NEW id \in IDs, ~Repeated(obs, id),
         NEW p \in StreamPrices(obs, t, id)
  PROVE  IF SupportedPrices(obs, t, id) = {} THEN p = 0
         ELSE \E o \in LLOEventsOf(obs) \cap Honest :
                obs[o].ts = t /\ obs[o].prices[id] = <<p>>
<1>1. CASE SupportedPrices(obs, t, id) = {}
  BY <1>1 DEF StreamPrices, SupportedPrices, Candidates
<1>2. CASE SupportedPrices(obs, t, id) # {}
  <2> DEFINE voters == {o \in VotersOfTime(obs, t) :
                          Len(obs[o].prices[id]) = 1 /\ obs[o].prices[id][1] = p}
  <2>1. p \in SupportedPrices(obs, t, id)
    BY <1>2 DEF StreamPrices, SupportedPrices, Candidates
  <2>2. ASSUME NEW o \in LLOEventsOf(obs) PROVE Len(obs[o].prices[id]) \in 0..1
    <3> DEFINE n == Len(obs[o].prices[id])
    <3>1. n \in Nat
      BY LLOPayloads
    <3>2. ~(n > 1)
      BY Zenon DEF Repeated
    <3> HIDE DEF n
    <3>3. n \in 0..1
      BY <3>1, <3>2
    <3> QED BY <3>3 DEF n
  <2>3. Supported(Entries(obs, t, id, p))
    BY <2>1 DEF SupportedPrices
  <2>4. Supported(voters)
    BY <2>2, <2>3, EntriesAreVoters
  <2>5. voters \in SUBSET Oracles
    BY DEF VotersOfTime, LLOEventsOf
  <2>6. PICK o \in voters : o \in Honest
    <3> HIDE DEF voters
    <3> QED BY <2>4, <2>5, HonestVoter
  <2>7. /\ o \in LLOEventsOf(obs) \cap Honest /\ obs[o].ts = t
        /\ Len(obs[o].prices[id]) = 1 /\ obs[o].prices[id][1] = p
    BY <2>6 DEF VotersOfTime
  <2>8. obs[o].prices[id] = << >> \/ \E q : obs[o].prices[id] = <<q>>
    BY <2>7, LLOPayloads
  <2>9. obs[o].prices[id] = <<p>>
    BY <2>7, <2>8
  <2> QED BY <1>2, <2>7, <2>9
<1> QED BY <1>1, <1>2

\* The possible updates of a round at an agreed time.
LEMMA LLOOutcomesFrom ==
  ASSUME NEW obs, NEW st, NEW out \in LLOOutcomes(st, obs)
  PROVE  \E t \in ObservationTimestamps(obs) : \E new \in StreamUpdates(obs, t) :
           /\ out = LLOOutcome(st, new)
           /\ DOMAIN new = IDs
           /\ \A id \in IDs : new[id] \in [ts : {t}, price : StreamPrices(obs, t, id)]
<1>1. PICK t \in ObservationTimestamps(obs) :
        \E new \in StreamUpdates(obs, t) : out = LLOOutcome(st, new)
  BY DEF LLOOutcomes
<1>2. PICK new \in StreamUpdates(obs, t) : out = LLOOutcome(st, new)
  BY <1>1
<1>3. /\ DOMAIN new = IDs
      /\ \A id \in IDs : new[id] \in [ts : {t}, price : StreamPrices(obs, t, id)]
  BY DEF StreamUpdates, Choices
<1> QED BY <1>2, <1>3

\* Whatever the faulty oracles send, F+1 oracles agree on one time only.
LEMMA LLOTimeUnique ==
  ASSUME OraclesAssumption, NEW obs \in LLOObservations
  PROVE  Cardinality(ObservationTimestamps(obs)) <= 1
<1>1. PICK e \in HonestLLOEvents :
        \A o \in LLOEventsOf(obs) \cap Honest : obs[o] = e
  BY LLOEvents
<1>2. ASSUME NEW t \in ObservationTimestamps(obs) PROVE t = e.ts
  BY <1>1, AgreedTime
<1> QED BY <1>2, AtMostOne

\* If no payload repeats a stream, all nodes compute one outcome, although
\* getObservationTimestamp and lloStreamPrices take the first time and price
\* they come across.
LEMMA LLOUnique ==
  ASSUME OraclesAssumption, EntriesAssumption, NEW obs \in LLOObservations, NEW st,
         \A id \in IDs : ~Repeated(obs, id)
  PROVE  Cardinality(LLOOutcomes(st, obs)) <= 1
<1>1. PICK e \in HonestLLOEvents :
        \A o \in LLOEventsOf(obs) \cap Honest : obs[o] = e
  BY LLOEvents
<1>2. ASSUME NEW t \in ObservationTimestamps(obs) PROVE t = e.ts
  BY <1>1, AgreedTime
<1>3. ASSUME NEW t \in ObservationTimestamps(obs), NEW id \in IDs,
             NEW p \in StreamPrices(obs, t, id), NEW q \in StreamPrices(obs, t, id)
      PROVE  p = q
  <2>1. CASE SupportedPrices(obs, t, id) = {}
    BY <2>1, AgreedPrice
  <2>2. CASE SupportedPrices(obs, t, id) # {}
    <3>1. e.prices[id] = <<p>> /\ e.prices[id] = <<q>>
      BY <1>1, <2>2, AgreedPrice
    <3> QED BY <3>1
  <2> QED BY <2>1, <2>2
<1>4. ASSUME NEW x \in LLOOutcomes(st, obs), NEW y \in LLOOutcomes(st, obs)
      PROVE  x = y
  <2> DEFINE t == e.ts
             S == [id \in IDs |-> [ts : {t}, price : StreamPrices(obs, t, id)]]
  <2>u. StreamUpdates(obs, t) = Choices(IDs, S)
    BY DEF StreamUpdates
  <2>1. PICK g \in Choices(IDs, S) : x = LLOOutcome(st, g)
    <3>1. \E new \in StreamUpdates(obs, t) : x = LLOOutcome(st, new)
      BY <1>2, LLOOutcomesFrom
    <3> QED BY <2>u, <3>1
  <2>2. PICK h \in Choices(IDs, S) : y = LLOOutcome(st, h)
    <3>1. \E new \in StreamUpdates(obs, t) : y = LLOOutcome(st, new)
      BY <1>2, LLOOutcomesFrom
    <3> QED BY <2>u, <3>1
  <2>3. t \in ObservationTimestamps(obs)
    BY <1>2, LLOOutcomesFrom
  <2>4. \A id \in IDs : \A a, b \in S[id] : a = b
    <3> HIDE DEF t
    <3> QED BY <1>3, <2>3
  <2>5. g = h
    <3> HIDE DEF S
    <3> QED BY <2>4, OneChoice
  <2> QED BY <2>1, <2>2, <2>5
<1> QED BY <1>4, AtMostOne

\* What HonestValues says of record r of a stream.
StreamHonest(obs, id, r) ==
  LET honest == LLOEventsOf(obs) \cap Honest
      price  == r.price
  IN /\ \E o \in honest : obs[o].ts = r.ts
     /\ \/ Repeated(obs, id)
        \/ \E o \in honest : obs[o].prices[id] = <<price>>
        \/ /\ price = 0
           /\ ~\E p \in Prices[id] :
                 Supported({o \in honest : obs[o].prices[id] = <<p>>})

\* A stream's reported time is that of an honest oracle's event; if no payload
\* repeats the stream, so is its price, which is zero only when no price of
\* honest oracles has F+1 votes.
LEMMA LLOHonest ==
  ASSUME OraclesAssumption, EntriesAssumption, ConfigAssumption,
         NEW obs \in LLOObservations, NEW st,
         NEW out \in LLOOutcomes(st, obs), NEW id \in DOMAIN out.report
  PROVE  StreamHonest(obs, id, out.report[id])
<1> DEFINE honest == LLOEventsOf(obs) \cap Honest
<1>1. PICK t \in ObservationTimestamps(obs) : \E new \in StreamUpdates(obs, t) :
        /\ out = LLOOutcome(st, new) /\ DOMAIN new = IDs
        /\ \A i \in IDs : new[i] \in [ts : {t}, price : StreamPrices(obs, t, i)]
  BY LLOOutcomesFrom
<1>2. PICK new \in StreamUpdates(obs, t) :
        /\ out = LLOOutcome(st, new) /\ DOMAIN new = IDs
        /\ \A i \in IDs : new[i] \in [ts : {t}, price : StreamPrices(obs, t, i)]
  BY <1>1
<1>3. out.report = [i \in Batch(st, new) |-> new[i]]
  BY <1>2 DEF LLOOutcome, Restricted
<1>4. id \in IDs /\ out.report[id] = new[id]
  BY <1>2, <1>3 DEF Batch, Musts
<1>5. out.report[id].ts = t /\ out.report[id].price \in StreamPrices(obs, t, id)
  BY <1>2, <1>4
<1>6. \E o \in honest : obs[o].ts = out.report[id].ts
  BY <1>5, AgreedTime
<1>7. CASE Repeated(obs, id)
  BY <1>6, <1>7, Zenon DEF StreamHonest
<1>8. CASE ~Repeated(obs, id) /\ SupportedPrices(obs, t, id) # {}
  <2>1. PICK price : price = out.report[id].price /\ price \in StreamPrices(obs, t, id)
    BY <1>5
  <2>2. \E o \in honest : obs[o].prices[id] = <<price>>
    <3>1. id \in IDs /\ price \in StreamPrices(obs, t, id)
      BY <1>4, <2>1
    <3>2. ~Repeated(obs, id) /\ SupportedPrices(obs, t, id) # {}
      BY <1>8
    <3> QED BY <3>1, <3>2, AgreedPrice
  <2> QED BY <1>6, <2>1, <2>2, Zenon DEF StreamHonest
<1>9. CASE ~Repeated(obs, id) /\ SupportedPrices(obs, t, id) = {}
  <2>1. out.report[id].price = 0
    BY <1>4, <1>5, <1>9, AgreedPrice
  <2>2. ASSUME NEW p \in Prices[id],
               Supported({o \in honest : obs[o].prices[id] = <<p>>})
        PROVE  FALSE
    <3> DEFINE S == {o \in honest : obs[o].prices[id] = <<p>>}
    <3>1. \A o \in honest : obs[o].ts = t
      BY LLOEvents, AgreedTime
    <3>2. S \in SUBSET VotersOfTime(obs, t)
      BY <3>1 DEF VotersOfTime
    <3>3. ASSUME NEW o \in S
          PROVE  Len(obs[o].prices[id]) = 1 /\ obs[o].prices[id][1] = p
      <4> DEFINE l == obs[o].prices[id]
      <4>1. l = <<p>>
        OBVIOUS
      <4> HIDE DEF l
      <4>2. Len(l) = 1 /\ l[1] = p
        BY <4>1
      <4> QED BY <4>2 DEF l
    <3>4. Supported(S)
      BY <2>2
    <3>5. Supported(Entries(obs, t, id, p))
      <4> HIDE DEF S
      <4> QED BY <3>2, <3>3, <3>4, VotersHaveEntries
    <3>6. PICK o \in S : o \in Honest
      <4>1. S \in SUBSET Oracles
        BY DEF LLOEventsOf
      <4> HIDE DEF S
      <4> QED BY <3>4, <4>1, HonestVoter
    <3>7. p \in Candidates(obs, t, id)
      <4>1. o \in VotersOfTime(obs, t) /\ 1 \in 1..MaxEntries
        BY <3>2, <3>6 DEF EntriesAssumption
      <4>2. Len(obs[o].prices[id]) = 1 /\ obs[o].prices[id][1] = p
        BY <3>3, <3>6
      <4>3. <<o, 1>> \in {d \in VotersOfTime(obs, t) \X (1..MaxEntries) :
                            d[2] <= Len(obs[d[1]].prices[id])}
        BY <4>1, <4>2
      <4> QED BY <4>2, <4>3 DEF Candidates
    <3> QED BY <3>5, <3>7, <1>9 DEF SupportedPrices
  <2> QED BY <1>6, <2>1, <2>2, Zenon DEF StreamHonest
<1> QED BY <1>7, <1>8, <1>9

-----------------------------------------------------------------------------
(* The reduce aggregator.                                                  *)

\* Every value of a field is one that toDecimal accepts, an honest one not Missing.
LEMMA ReduceObserved ==
  ASSUME OraclesAssumption, ConfigAssumption, ReduceAssumption,
         NEW obs \in ReduceObservations, NEW id \in IDs
  PROVE  /\ \A o \in Oracles : toDecimal(obs[o][id]) \in Int
         /\ \A o \in Honest : obs[o][id] # Missing
<1>1. ASSUME NEW o \in Honest PROVE obs[o][id] \in HonestFieldValues(id)
  BY ObservationsOf DEF ReduceObservations, Choices
<1>2. ASSUME NEW o \in Faulty PROVE obs[o][id] \in FaultyValues[id] \cup {Missing}
  BY ObservationsOf DEF ReduceObservations, Choices
<1>3. /\ Prices[id] \subseteq Int /\ ValueType[id] \in Types
      /\ FaultyValues[id] \subseteq [type : Types, n : Int]
  BY DEF ConfigAssumption, ReduceAssumption
<1>4. ASSUME NEW v \in [type : Types, n : Int] \cup {Missing}
      PROVE  toDecimal(v) \in Int
  <2>1. v.n \in Int
    BY DEF Missing
  <2>2. BigIntScale * v.n \in Int
    BY <2>1 DEF ReduceAssumption
  <2> QED BY <2>1, <2>2 DEF toDecimal
<1>5. HonestFieldValues(id) \subseteq [type : Types, n : Int]
  BY <1>3 DEF HonestFieldValues
<1>6. Missing \notin [type : Types, n : Int]
  BY DEF Missing, Types
<1>7. \A o \in Oracles : o \in Honest \/ o \in Faulty
  BY DEF Honest
<1>8. \A o \in Oracles : obs[o][id] \in [type : Types, n : Int] \cup {Missing}
  BY <1>1, <1>2, <1>3, <1>5, <1>7
<1> QED BY <1>1, <1>4, <1>5, <1>6, <1>8

\* The median of 2F+1 or more values lies between two values of honest oracles,
\* in the order of the decimals.
LEMMA MedianHonest ==
  ASSUME OraclesAssumption, ConfigAssumption, ReduceAssumption,
         NEW obs \in ReduceObservations, NEW id \in IDs,
         Cardinality(Observers(obs, id)) >= 2 * F + 1,
         NEW v \in median(obs, id)
  PROVE  \E l, h \in Honest : /\ toDecimal(obs[l][id]) <= toDecimal(v)
                              /\ toDecimal(v) <= toDecimal(obs[h][id])
<1> DEFINE S     == Observers(obs, id)
           n     == Cardinality(S)
           k     == (n - 1) \div 2
           above == {o \in S : toDecimal(obs[o][id]) > toDecimal(v)}
           from  == {o \in S : toDecimal(obs[o][id]) >= toDecimal(v)}
<1>1. /\ v \in {obs[o][id] : o \in S}
      /\ Cardinality(above) <= k /\ Cardinality(from) > k
  BY DEF median, AtIndex
<1>2. S \in SUBSET Oracles /\ above \in SUBSET S /\ from \in SUBSET S
  BY DEF Observers
<1>3. toDecimal(v) \in Int /\ \A o \in S : toDecimal(obs[o][id]) \in Int
  BY <1>1, <1>2, ReduceObserved
<1>4. \A o \in S \ above : toDecimal(obs[o][id]) <= toDecimal(v)
  BY <1>3
<1>5. \A o \in from : toDecimal(v) <= toDecimal(obs[o][id])
  BY <1>3
<1> HIDE DEF S, above, from
<1>6. IsFiniteSet(S)
  BY <1>2, FS_Subset DEF OraclesAssumption
<1>7. /\ IsFiniteSet(above) /\ IsFiniteSet(from) /\ IsFiniteSet(S \ above)
      /\ Cardinality(S \ above) = Cardinality(S) - Cardinality(above)
  <2>1. IsFiniteSet(above) /\ IsFiniteSet(from)
    BY <1>2, <1>6, FS_Subset
  <2>2. /\ IsFiniteSet(S \ above)
        /\ Cardinality(S \ above) = Cardinality(S) - Cardinality(S \cap above)
    BY <1>6, FS_Difference
  <2>3. S \cap above = above
    BY <1>2
  <2> QED BY <2>1, <2>2, <2>3
<1>8. /\ Cardinality(S) \in Nat /\ Cardinality(above) \in Nat
      /\ Cardinality(from) \in Nat /\ Cardinality(S \ above) \in Nat
  BY <1>6, <1>7, FS_CardinalityType
<1>9. Supported(S \ above) /\ Supported(from)
  <2>1. n >= 2 * F + 1 /\ n \in Nat /\ F \in Nat
    BY <1>8 DEF S, OraclesAssumption
  <2>2. k >= F /\ n - k >= F + 1 /\ k \in Nat
    BY <2>1
  <2> HIDE DEF n, k
  <2>3. Cardinality(S \ above) >= F + 1 /\ Cardinality(from) >= F + 1
    BY <1>1, <1>7, <1>8, <2>1, <2>2 DEF n
  <2> QED BY <2>3 DEF Supported
<1>10. PICK l \in S \ above : l \in Honest
  BY <1>2, <1>9, HonestVoter
<1>11. PICK h \in from : h \in Honest
  BY <1>2, <1>9, HonestVoter
<1> QED BY <1>4, <1>5, <1>10, <1>11

\* A mode that F+1 oracles share is a value of an honest oracle.
LEMMA ModeHonest ==
  ASSUME OraclesAssumption, NEW obs, NEW id, ModeQuorum[id] = "ocr",
         NEW v \in mode(obs, id)
  PROVE  \E o \in Honest : obs[o][id] = v
<1>1. Supported({o \in Oracles : obs[o][id] = v})
  BY DEF mode, Count, Supported
<1>2. PICK o \in {p \in Oracles : obs[p][id] = v} : o \in Honest
  BY <1>1, HonestVoter
<1> QED BY <1>2

\* The records of a round that Aggregate accepts, field by field.
LEMMA ReduceOutcomesFrom ==
  ASSUME OraclesAssumption, NEW obs, NEW st, NEW out \in ReduceOutcomes(st, obs)
  PROVE  \E new : /\ out = ReduceOutcome(st, new)
                  /\ DOMAIN new = IDs
                  /\ \A id \in IDs : new[id] \in [ts : {0}, price : reduce(obs, id)]
BY DEF ReduceOutcomes, Choices

\* Medians, and modes with the OCR quorum, are bounded by honest values.
LEMMA ReduceHonest ==
  ASSUME OraclesAssumption, ConfigAssumption, ReduceAssumption,
         NEW obs \in ReduceObservations, NEW st,
         NEW out \in ReduceOutcomes(st, obs), NEW id \in DOMAIN out.report
  PROVE  LET honest == {obs[o][id] : o \in Honest}
             price  == out.report[id].price
         IN /\ Method[id] = "median" =>
                 \E lo, hi \in honest : /\ toDecimal(lo) <= toDecimal(price)
                                        /\ toDecimal(price) <= toDecimal(hi)
            /\ Method[id] = "mode" /\ ModeQuorum[id] = "ocr" => price \in honest
<1> DEFINE honest == {obs[o][id] : o \in Honest}
           price  == out.report[id].price
<1>1. PICK new : /\ out = ReduceOutcome(st, new)
                 /\ DOMAIN new = IDs
                 /\ \A i \in IDs : new[i] \in [ts : {0}, price : reduce(obs, i)]
  BY ReduceOutcomesFrom
<1>2. PICK ids \in {IDs, {}} : out.report = [i \in ids |-> new[i]]
  BY <1>1 DEF ReduceOutcome, Restricted
<1>3. id \in IDs /\ price \in reduce(obs, id)
  BY <1>1, <1>2
<1>4. Cardinality(Observers(obs, id)) >= 2 * F + 1
  <2>1. IsFiniteSet(Observers(obs, id))
    BY FS_Subset DEF Observers, OraclesAssumption
  <2>2. Cardinality(Observers(obs, id)) \in Nat
    BY <2>1, FS_CardinalityType
  <2> QED BY <1>3, <2>2 DEF reduce, OraclesAssumption
<1>5. \A o \in Honest : obs[o][id] \in honest
  OBVIOUS
<1>6. ASSUME Method[id] = "median"
      PROVE  \E lo, hi \in honest : /\ toDecimal(lo) <= toDecimal(price)
                                    /\ toDecimal(price) <= toDecimal(hi)
  <2>1. price \in median(obs, id)
    BY <1>3, <1>4, <1>6 DEF reduce
  <2>2. PICK l \in Honest, h \in Honest : /\ toDecimal(obs[l][id]) <= toDecimal(price)
                                         /\ toDecimal(price) <= toDecimal(obs[h][id])
    BY <1>3, <1>4, <2>1, MedianHonest
  <2> QED BY <1>5, <2>2
<1>7. ASSUME Method[id] = "mode", ModeQuorum[id] = "ocr" PROVE price \in honest
  <2>1. price \in mode(obs, id)
    BY <1>3, <1>4, <1>7 DEF reduce
  <2>2. PICK o \in Honest : obs[o][id] = price
    BY <1>7, <2>1, ModeHonest
  <2> QED BY <1>5, <2>2
<1> QED BY <1>6, <1>7

-----------------------------------------------------------------------------
(* How far what was reported runs away from the metadata.                  *)

\* No price deviates from itself.
LEMMA NoSelfDeviation ==
  ASSUME ConfigAssumption, NEW id \in IDs, NEW p \in Nat
  PROVE  ~Deviates(id, p, p)
<1>1. Distance(p, p) = 0
  BY DEF Distance
<1>2. Deviation[id] * p >= 0
  <2>1. Deviation[id] \in Nat
    BY DEF ConfigAssumption
  <2>2. \A a, b \in Nat : a * b >= 0
    OBVIOUS
  <2> QED BY <2>1, <2>2
<1> QED BY <1>1, <1>2 DEF Deviates

\* Nor does a field, whatever its deviation type.
LEMMA NoFieldDeviation ==
  ASSUME ConfigAssumption, ReduceAssumption, NEW id \in IDs, NEW p,
         toDecimal(p) \in Int
  PROVE  ~FieldDeviates(id, p, p)
<1>1. Distance(toDecimal(p), toDecimal(p)) = 0
  BY DEF Distance
<1>2. Deviation[id] \in Nat
  BY DEF ConfigAssumption
<1>3. DeviationType[id] \in {"none", "any", "percent", "absolute"}
  BY DEF ReduceAssumption
<1>4. CASE DeviationType[id] = "none"
  BY <1>4 DEF FieldDeviates
<1>5. CASE DeviationType[id] = "any"
  BY <1>5 DEF FieldDeviates
<1>6. CASE DeviationType[id] = "percent"
  BY <1>6, NoSelfDeviation DEF FieldDeviates
<1>7. CASE DeviationType[id] = "absolute"
  BY <1>7, <1>1, <1>2 DEF FieldDeviates
<1> QED BY <1>3, <1>4, <1>5, <1>6, <1>7

\* The data providers' prices that an event of the round can have.
SignedOK ==
  /\ now \in Nat
  /\ \A id \in IDs : /\ now >= 1 => signed[id][1] \in Prices[id]
                     /\ now >= 2 => signed[id][2] \in Prices[id]

\* The time and the prices of an update are numbers.
LEMMA LLOUpdatesTyped ==
  ASSUME OraclesAssumption, EntriesAssumption, ConfigAssumption, SignedOK, now > 0,
         NEW obs \in LLOObservations, NEW t \in ObservationTimestamps(obs),
         NEW id \in IDs, NEW p \in StreamPrices(obs, t, id)
  PROVE  t \in Int /\ p \in Nat
<1>1. Times \subseteq Int
  BY DEF Times, SignedOK
<1>2. t \in Int
  <2>1. PICK o \in LLOEventsOf(obs) \cap Honest : obs[o].ts = t
    BY AgreedTime
  <2>2. \A e \in HonestLLOEvents : e.ts \in Times
    BY DEF HonestLLOEvents
  <2> QED BY <1>1, <2>1, <2>2, LLOEvents
<1>3. ASSUME NEW u \in Times PROVE Signed(id, u) \in Nat
  <2>1. u = now \/ (u = now - 1 /\ now >= 2)
    BY DEF Times, SignedOK
  <2>2. Signed(id, u) \in Prices[id]
    <3>1. CASE u = now
      <4>1. Signed(id, u) = signed[id][1]
        BY <3>1 DEF Signed, SignedOK
      <4> QED BY <4>1 DEF SignedOK
    <3>2. CASE u = now - 1 /\ now >= 2
      <4>1. Signed(id, u) = signed[id][2]
        BY <3>2 DEF Signed, SignedOK
      <4> QED BY <3>2, <4>1 DEF SignedOK
    <3> QED BY <2>1, <3>1, <3>2
  <2> QED BY <2>2 DEF ConfigAssumption
<1>4. p \in Candidates(obs, t, id) \cup {0}
  BY DEF StreamPrices, Candidates
<1>5. ASSUME p \in Candidates(obs, t, id) PROVE p \in Nat
  <2>1. PICK d \in VotersOfTime(obs, t) \X (1..MaxEntries) :
          d[2] <= Len(obs[d[1]].prices[id]) /\ p = obs[d[1]].prices[id][d[2]]
    BY <1>5 DEF Candidates
  <2> DEFINE l == obs[d[1]].prices[id]
             i == d[2]
  <2>2. d[1] \in LLOEventsOf(obs) /\ i \in 1..MaxEntries
    BY DEF VotersOfTime
  <2>3. /\ Len(l) \in Nat
        /\ \A k \in 1..Len(l) : \/ \E u \in Times : l[k] = Signed(id, u)
                                \/ l[k] \in FaultyPrices
    BY <2>2, LLOPayloads
  <2>4. i <= Len(l) /\ p = l[i]
    BY <2>1
  <2> HIDE DEF l, i
  <2>5. i \in 1..Len(l)
    BY <2>2, <2>3, <2>4 DEF EntriesAssumption
  <2> QED BY <1>3, <2>3, <2>4, <2>5 DEF EntriesAssumption
<1> QED BY <1>2, <1>4, <1>5

\* Rounds leave the time and the prices alone, and a tick shifts them.
LEMMA SignedStep ==
  ASSUME SignedOK, [Next]_vars PROVE SignedOK'
<1>1. CASE Tick
  <2>1. PICK p \in Choices(IDs, Prices) :
          signed' = [id \in IDs |-> <<p[id], signed[id][1]>>]
    BY <1>1 DEF Tick
  <2>2. now \in Nat /\ now' = now + 1
    BY <1>1 DEF Tick, SignedOK
  <2>3. ASSUME NEW id \in IDs
        PROVE  /\ now' >= 1 => signed'[id][1] \in Prices[id]
               /\ now' >= 2 => signed'[id][2] \in Prices[id]
    <3>1. signed'[id][1] = p[id] /\ signed'[id][2] = signed[id][1]
      BY <2>1
    <3>2. p[id] \in Prices[id]
      BY DEF Choices
    <3> QED BY <3>1, <3>2, <2>2 DEF SignedOK
  <2> QED BY <2>2, <2>3 DEF SignedOK
<1>2. CASE UNCHANGED <<now, signed>>
  BY <1>2 DEF SignedOK
<1> QED
  BY <1>1, <1>2 DEF Next, FeedsRound, LLORound, ReduceRound, Round, vars

\* A round of the data feeds aggregator records what it reports.
LEMMA FeedsDrift ==
  ASSUME onchain = state, FeedsRound PROVE onchain' = state'
<1>1. PICK obs \in FeedsObservations : Round(FeedsOutcomes(state, obs))
  BY DEF FeedsRound
<1>2. PICK new : /\ state' = FeedsOutcome(state, new).state
                 /\ onchain' = Updated(onchain, FeedsOutcome(state, new).report,
                                       DOMAIN FeedsOutcome(state, new).report)
  BY <1>1 DEF Round, FeedsOutcomes
<1>3. /\ state' = Updated(state, new, Batch(state, new))
      /\ FeedsOutcome(state, new).report = [id \in Batch(state, new) |-> new[id]]
  BY <1>2 DEF FeedsOutcome, Restricted
<1> QED BY <1>2, <1>3 DEF Updated

\* A stream that a round of the LLO aggregator reports without recording it is
\* within its heartbeat and its deviation.
LEMMA LLODrift ==
  ASSUME OraclesAssumption, EntriesAssumption, ConfigAssumption, SignedOK,
         now > 0, LLORound,
         NEW id \in IDs, state[id].ts \in Int,
         onchain[id].ts - state[id].ts <= Heartbeat[id],
         ~Deviates(id, state[id].price, onchain[id].price)
  PROVE  /\ state'[id].ts \in Int
         /\ onchain'[id].ts - state'[id].ts <= Heartbeat[id]
         /\ ~Deviates(id, state'[id].price, onchain'[id].price)
<1>1. PICK obs \in LLOObservations : Round(LLOOutcomes(state, obs))
  BY DEF LLORound
<1>2. PICK out \in LLOOutcomes(state, obs) :
        /\ state' = out.state
        /\ onchain' = Updated(onchain, out.report, DOMAIN out.report)
  BY <1>1 DEF Round
<1>3. PICK t \in ObservationTimestamps(obs) : \E new \in StreamUpdates(obs, t) :
        /\ out = LLOOutcome(state, new) /\ DOMAIN new = IDs
        /\ \A i \in IDs : new[i] \in [ts : {t}, price : StreamPrices(obs, t, i)]
  BY LLOOutcomesFrom
<1>4. PICK new \in StreamUpdates(obs, t) :
        /\ out = LLOOutcome(state, new) /\ DOMAIN new = IDs
        /\ \A i \in IDs : new[i] \in [ts : {t}, price : StreamPrices(obs, t, i)]
  BY <1>3
<1>5. /\ state' = Updated(state, new, Musts(state, new))
      /\ out.report = [i \in Batch(state, new) |-> new[i]]
  BY <1>2, <1>4 DEF LLOOutcome, Restricted
<1>6. /\ state'[id] = IF id \in Musts(state, new) THEN new[id] ELSE state[id]
      /\ onchain'[id] = IF id \in Batch(state, new) THEN new[id] ELSE onchain[id]
  BY <1>2, <1>5 DEF Updated
<1>7. new[id].ts \in Int /\ new[id].price \in Nat
  BY <1>4, LLOUpdatesTyped
<1>8. Heartbeat[id] \in Nat
  BY DEF ConfigAssumption
<1>9. CASE id \in Musts(state, new)
  <2>1. state'[id] = new[id] /\ onchain'[id] = new[id]
    BY <1>6, <1>9 DEF Batch
  <2> QED BY <2>1, <1>7, <1>8, NoSelfDeviation
<1>10. CASE id \in Batch(state, new) \ Musts(state, new)
  <2>1. state'[id] = state[id] /\ onchain'[id] = new[id]
    BY <1>6, <1>10
  <2>2. ~MustUpdate(id, state[id], new[id])
    BY <1>4, <1>10 DEF Musts
  <2> QED BY <2>1, <2>2, <1>7, <1>8 DEF MustUpdate
<1>11. CASE id \notin Batch(state, new)
  BY <1>6, <1>11 DEF Batch
<1> QED BY <1>9, <1>10, <1>11

\* A field that a round of the reduce aggregator reports without recording it,
\* or records without reporting it, does not deviate.
LEMMA ReduceDrift ==
  ASSUME OraclesAssumption, ConfigAssumption, ReduceAssumption, ReduceRound,
         NEW id \in IDs, ~FieldDeviates(id, state[id].price, onchain[id].price)
  PROVE  ~FieldDeviates(id, state'[id].price, onchain'[id].price)
<1>1. PICK obs \in ReduceObservations : Round(ReduceOutcomes(state, obs))
  BY DEF ReduceRound
<1>2. PICK out \in ReduceOutcomes(state, obs) :
        /\ state' = out.state
        /\ onchain' = Updated(onchain, out.report, DOMAIN out.report)
  BY <1>1 DEF Round
<1>3. PICK new : /\ out = ReduceOutcome(state, new)
                 /\ DOMAIN new = IDs
                 /\ \A i \in IDs : new[i] \in [ts : {0}, price : reduce(obs, i)]
  BY ReduceOutcomesFrom
<1> DEFINE due     == {i \in IDs : shouldReport(i, state[i], new[i])}
           untyped == {i \in IDs : DeviationType[i] = "none"}
           ids     == IF due # {} \/ untyped = IDs THEN IDs ELSE {}
<1>4. /\ state' = Updated(state, new, due \cup untyped)
      /\ out.report = [i \in ids |-> new[i]]
  BY <1>2, <1>3 DEF ReduceOutcome, Restricted
<1>5. /\ state'[id] = IF id \in due \cup untyped THEN new[id] ELSE state[id]
      /\ onchain'[id] = IF id \in ids THEN new[id] ELSE onchain[id]
  BY <1>2, <1>4 DEF Updated
<1>6. toDecimal(new[id].price) \in Int
  <2>1. new[id].price \in reduce(obs, id)
    BY <1>3
  <2>2. reduce(obs, id) \subseteq {obs[o][id] : o \in Observers(obs, id)}
    BY DEF reduce, median, AtIndex, mode
  <2> QED BY <2>1, <2>2, ReduceObserved DEF Observers
<1>7. CASE id \in untyped
  BY <1>7 DEF FieldDeviates
<1>8. CASE id \in due
  <2>1. state'[id] = new[id] /\ onchain'[id] = new[id]
    BY <1>5, <1>8
  <2> QED BY <2>1, <1>6, NoFieldDeviation
<1>9. CASE id \notin due \cup untyped
  <2>1. state'[id] = state[id]
    BY <1>5, <1>9
  <2>2. ~FieldDeviates(id, state[id].price, new[id].price)
    BY <1>9 DEF shouldReport
  <2> QED BY <2>1, <2>2, <1>5
<1> QED BY <1>7, <1>8, <1>9

-----------------------------------------------------------------------------
(* The theorems.                                                           *)

\* The inductive invariant: deviations are measured against numbers, and the
\* metadata follow what was reported.
DriftInv ==
  /\ method \in {"data_feeds", "llo_streams", "reduce"}
  /\ SignedOK
  /\ method = "llo_streams" => \A id \in IDs : state[id].ts \in Int
  /\ DriftBounded

\* The invariant holds before the first round.
LEMMA InitDriftInv ==
  ASSUME ConfigAssumption, ReduceAssumption, Init PROVE DriftInv
<1>1. SignedOK
  BY DEF Init, SignedOK
<1>2. ASSUME NEW id \in IDs, method = "llo_streams"
      PROVE  /\ state[id].ts \in Int
             /\ onchain[id].ts - state[id].ts <= Heartbeat[id]
             /\ ~Deviates(id, state[id].price, onchain[id].price)
  <2>1. /\ state[id].ts = 0 /\ onchain[id].ts = 0
        /\ state[id].price = 0 /\ onchain[id].price = 0
    BY <1>2 DEF Init, NoInfo
  <2>2. Heartbeat[id] \in Nat
    BY DEF ConfigAssumption
  <2> QED BY <2>1, <2>2, NoSelfDeviation
<1>3. ASSUME NEW id \in IDs, method = "reduce"
      PROVE  ~FieldDeviates(id, state[id].price, onchain[id].price)
  <2>1. state[id].price = Missing /\ onchain[id].price = Missing
    BY <1>3 DEF Init, NoValue
  <2>2. toDecimal(Missing) \in Int
    BY DEF toDecimal, Missing
  <2> QED BY <2>1, <2>2, NoFieldDeviation
<1> QED BY <1>1, <1>2, <1>3 DEF Init, DriftInv, DriftBounded

\* Every step preserves the invariant.
LEMMA StepDriftInv ==
  ASSUME OraclesAssumption, EntriesAssumption, ConfigAssumption,
         ReduceAssumption, DriftInv, [Next]_vars
  PROVE  DriftInv'
<1>1. SignedOK /\ SignedOK'
  BY SignedStep DEF DriftInv
<1>2. CASE method = "data_feeds" /\ method' = method /\ FeedsRound
  BY <1>1, <1>2, FeedsDrift DEF DriftInv, DriftBounded
<1>3. CASE method = "llo_streams" /\ method' = method /\ now > 0 /\ LLORound
  <2>1. ASSUME NEW id \in IDs
        PROVE  /\ state'[id].ts \in Int
               /\ onchain'[id].ts - state'[id].ts <= Heartbeat[id]
               /\ ~Deviates(id, state'[id].price, onchain'[id].price)
    BY <1>1, <1>3, LLODrift DEF DriftInv, DriftBounded
  <2> QED BY <1>1, <1>3, <2>1 DEF DriftInv, DriftBounded, Deviates, Distance
<1>4. CASE method = "reduce" /\ method' = method /\ ReduceRound
  <2>1. ASSUME NEW id \in IDs
        PROVE  ~FieldDeviates(id, state'[id].price, onchain'[id].price)
    BY <1>4, ReduceDrift DEF DriftInv, DriftBounded
  <2> QED BY <1>1, <1>4, <2>1 DEF DriftInv, DriftBounded
<1>5. CASE UNCHANGED <<method, state, onchain>>
  BY <1>1, <1>5 DEF DriftInv, DriftBounded
<1> QED
  BY <1>2, <1>3, <1>4, <1>5 DEF Next, Tick, vars

\* The invariant holds in every reachable state.
THEOREM Invariance ==
  ASSUME OraclesAssumption, EntriesAssumption, ConfigAssumption, ReduceAssumption
  PROVE  Spec => []DriftInv
<1>1. Init => DriftInv
  BY InitDriftInv
<1>2. DriftInv /\ [Next]_vars => DriftInv'
  BY StepDriftInv
<1> QED BY <1>1, <1>2, PTL DEF Spec

\* Whatever the order in which Go walks the maps, with at most F faulty oracles
\* the outcome of the data feeds aggregator is a function of the observations,
\* and so is the time that the LLO aggregator agrees on.  lloStreamPrices counts
\* payload entries, not oracles: the LLO outcome is a function of observations
\* in which no payload repeats a stream, and proved to be one only for those.
THEOREM UniqueCorrect ==
  ASSUME OraclesAssumption, EntriesAssumption, ConfigAssumption, ReduceAssumption
  PROVE  Spec => []OutcomeUnique
<1>1. DriftInv => OutcomeUnique
  BY FeedsUnique, LLOTimeUnique, LLOUnique DEF DriftInv, SignedOK, OutcomeUnique
<1> QED BY <1>1, Invariance, PTL

\* The data feeds aggregator (extractSignersAndPayloads, latestReportPerFeed)
\* reports only prices that the data providers signed, and never one older than
\* a valid report of an honest oracle, once F+1 honest oracles know the signers.
THEOREM GenuineCorrect ==
  ASSUME OraclesAssumption, EntriesAssumption, ConfigAssumption, ReduceAssumption
  PROVE  Spec => []ReportsGenuine
<1>1. DriftInv => ReportsGenuine
  <2> SUFFICES ASSUME DriftInv, NEW obs \in FeedsObservations,
                      NEW out \in FeedsOutcomes(state, obs),
                      NEW id \in DOMAIN out.report
               PROVE  /\ out.report[id] \in {[ts |-> t, price |-> Signed(id, t)] : t \in Times}
                      /\ Supported(EventsOf(obs) \cap Honest) =>
                           \A o \in EventsOf(obs) \cap Honest :
                             obs[o].reports[id] # NoEvent =>
                               obs[o].reports[id].ts <= out.report[id].ts
    BY DEF ReportsGenuine
  <2>1. id \in IDs /\ out.report[id] \in Newest(obs)[id] /\ now \in Nat
    BY FeedsReport DEF DriftInv, SignedOK
  <2>2. out.report[id] \in Records(id)
    BY <2>1, LatestGenuine DEF Newest
  <2>3. ASSUME Supported(EventsOf(obs) \cap Honest),
               NEW o \in EventsOf(obs) \cap Honest,
               obs[o].reports[id] # NoEvent
        PROVE  obs[o].reports[id].ts <= out.report[id].ts
    BY <2>1, <2>3, HonestReportCounts
  <2> QED BY <2>2, <2>3 DEF Records
<1> QED BY <1>1, Invariance, PTL

\* Up to F faulty oracles do not choose the time of a stream; its price only
\* with a payload that repeats the stream (every entry is a vote); and neither
\* a median, in the order of toDecimal, nor an OCR-quorum mode.
THEOREM HonestCorrect ==
  ASSUME OraclesAssumption, EntriesAssumption, ConfigAssumption, ReduceAssumption
  PROVE  Spec => []HonestValues
<1>1. DriftInv => HonestValues
  <2>1. ASSUME NEW obs \in LLOObservations, NEW out \in LLOOutcomes(state, obs),
               NEW id \in DOMAIN out.report
        PROVE  StreamHonest(obs, id, out.report[id])
    BY LLOHonest
  <2>2. ASSUME NEW obs \in ReduceObservations, NEW out \in ReduceOutcomes(state, obs),
               NEW id \in DOMAIN out.report
        PROVE  LET honest == {obs[o][id] : o \in Honest}
                   price  == out.report[id].price
               IN /\ Method[id] = "median" =>
                       \E lo, hi \in honest : /\ toDecimal(lo) <= toDecimal(price)
                                              /\ toDecimal(price) <= toDecimal(hi)
                  /\ Method[id] = "mode" /\ ModeQuorum[id] = "ocr" => price \in honest
    BY ReduceHonest
  <2> QED BY <2>1, <2>2, Zenon DEF HonestValues, StreamHonest
<1> QED BY <1>1, Invariance, PTL

\* What was reported last never deviates from the metadata by more than one
\* threshold: equal for data feeds, within heartbeat and deviation for streams
\* that are batched without being recorded, within the deviation for fields.
THEOREM DriftCorrect ==
  ASSUME OraclesAssumption, EntriesAssumption, ConfigAssumption, ReduceAssumption
  PROVE  Spec => []DriftBounded
<1>1. DriftInv => DriftBounded
  BY DEF DriftInv
<1> QED BY <1>1, Invariance, PTL
=============================================================================
