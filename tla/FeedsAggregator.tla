-------------------------- MODULE FeedsAggregator --------------------------
(***************************************************************************)
(* dataFeedsAggregator (pkg/capabilities/consensus/ocr3/datafeeds/         *)
(* feeds_aggregator.go): for each feed the newest Mercury report signed by *)
(* signers that F+1 oracles name, reported when it deviates from what was  *)
(* reported last or the heartbeat has passed.                              *)
(*                                                                         *)
(* A report is [ts, price, sigs]; "don" stands for a quorum of the data    *)
(* providers' signers and "rogue" for any others.  An event is             *)
(* [signers, min, reports], reports[id] being NoEvent or a report.         *)
(***************************************************************************)
EXTENDS AggregationRound

Signers == {"don", "rogue"}

EventsOf(obs) == {o \in Oracles : obs[o] # NoEvent}

\* Mutant of allowedSigners: F votes are enough.
allowedSignersF(obs) ==
  {s \in Signers : Cardinality({o \in EventsOf(obs) : s \in obs[o].signers}) >= F}

\* extractSignersAndPayloads: the signers and the number of signatures that at
\* least F+1 oracles name.
allowedSigners(obs) ==
  {s \in Signers : Supported({o \in EventsOf(obs) : s \in obs[o].signers})}

minRequired(obs) ==
  LET mins == {0} \cup {m \in {obs[o].min : o \in EventsOf(obs)} :
                          Supported({o \in EventsOf(obs) : obs[o].min = m})}
  IN CHOOSE m \in mins : \A n \in mins : n <= m

\* reportCodec.Validate.
Validate(r, signers, min) == Cardinality(r.sigs \cap signers) >= min

\* latestReportPerFeed: of two valid reports with the same timestamp, the one
\* that comes first stays.
LatestReports(obs, id, signers, min) ==
  LET valid == {r \in {obs[o].reports[id] : o \in EventsOf(obs)} \ {NoEvent} :
                  Validate(r, signers, min)}
  IN {[ts |-> r.ts, price |-> r.price] :
        r \in {v \in valid : \A w \in valid : w.ts <= v.ts}}

\* Mutant of FeedsOutcome: the batched feeds keep their old record.
FeedsOutcomeMustOnly(st, new) ==
  [state  |-> Updated(st, new, Musts(st, new)),
   report |-> Restricted(new, Batch(st, new))]

FeedsOutcome(st, new) ==
  [state  |-> Updated(st, new, Batch(st, new)),
   report |-> Restricted(new, Batch(st, new))]

FeedsOutcomes(st, obs) ==
  LET signers == allowedSigners(obs)
      min     == minRequired(obs)
      latest  == [id \in IDs |-> LatestReports(obs, id, signers, min)]
  IN IF EventsOf(obs) # {} /\ min = 0
       THEN {}
       ELSE {FeedsOutcome(st, new) :
               new \in Choices({id \in IDs : latest[id] # {}}, latest)}

-----------------------------------------------------------------------------
(* The observations of a round.  The reports that an honest oracle has may *)
(* be older than those of another one; a faulty oracle names signers of    *)
(* its own and sends reports with their signatures.                        *)

Genuine(id, ts) == [ts |-> ts, price |-> Signed(id, ts), sigs |-> {"don"}]
Forged == [ts |-> now, price |-> 1, sigs |-> {"rogue"}]

HonestFeedsEvents ==
  {[kind |-> "event", signers |-> {"don"}, min |-> 1,
    reports |-> [id \in IDs |-> IF t[id] = 0 THEN NoEvent ELSE Genuine(id, t[id])]] :
       t \in [IDs -> Times \cup {0}]}

FaultyFeedsEvents ==
  {[kind |-> "event", signers |-> Signers, min |-> 2,
    reports |-> [id \in IDs |-> IF id \in ids THEN Forged ELSE NoEvent]] :
       ids \in SUBSET IDs}

FeedsObservations ==
  Observations(HonestFeedsEvents \cup {NoEvent}, FaultyFeedsEvents \cup {NoEvent})

FeedsRound == \E obs \in FeedsObservations : Round(FeedsOutcomes(state, obs))
=============================================================================
