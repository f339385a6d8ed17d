---------------------------- MODULE Aggregators ----------------------------
(***************************************************************************)
(* Rounds of a workflow with one of the stateful aggregators, the one that *)
(* its configuration names.                                                *)
(***************************************************************************)
EXTENDS FeedsAggregator, LLOAggregator, ReduceAggregator

VARIABLE method   \* the aggregator of the workflow

vars == <<state, onchain, now, signed, method>>

Init ==
  /\ method \in {"data_feeds", "llo_streams", "reduce"}
  /\ state = [id \in IDs |-> IF method = "reduce" THEN NoValue ELSE NoInfo]
  /\ onchain = state
  /\ now = 0
  /\ signed = [id \in IDs |-> <<0, 0>>]

Next ==
  /\ \/ method \in {"data_feeds", "llo_streams"} /\ Tick
     \/ method = "data_feeds"  /\ now > 0 /\ FeedsRound
     \/ method = "llo_streams" /\ now > 0 /\ LLORound
     \/ method = "reduce"      /\ ReduceRound
  /\ UNCHANGED method

Spec == Init /\ [][Next]_vars

-----------------------------------------------------------------------------
(* Properties.  Those about the outcomes of a round are stated for every   *)
(* observation that the round may meet in a reachable state.               *)

\* Some payload names the stream more than once.
Repeated(obs, id) == \E o \in LLOEventsOf(obs) : Len(obs[o].prices[id]) > 1

\* All nodes compute the same outcome from the same observations, although the
\* aggregators range over maps (OCR3 requires Outcome to be a function).  For
\* the streams, whose honest oracles have the same event, the agreed time is
\* unique in any case, and the outcome if no payload names a stream twice: one
\* faulty oracle that repeats an entry F+1 times gives the stream a second
\* price to choose from, and the order of the map decides.
OutcomeUnique ==
  /\ method = "data_feeds" /\ now > 0 =>
       \A obs \in FeedsObservations : Cardinality(FeedsOutcomes(state, obs)) <= 1
  /\ method = "llo_streams" /\ now > 0 =>
       \A obs \in LLOObservations :
         /\ Cardinality(ObservationTimestamps(obs)) <= 1
         /\ (\A id \in IDs : ~Repeated(obs, id)) =>
              Cardinality(LLOOutcomes(state, obs)) <= 1

\* A feed is only ever reported at a price that the data providers signed, and
\* never at one older than the newest valid report of an honest oracle when
\* F+1 honest oracles have the providers' signers.
ReportsGenuine ==
  method = "data_feeds" /\ now > 0 =>
    \A obs \in FeedsObservations : \A out \in FeedsOutcomes(state, obs) :
      \A id \in DOMAIN out.report :
        /\ out.report[id] \in {[ts |-> t, price |-> Signed(id, t)] : t \in Times}
        /\ Supported(EventsOf(obs) \cap Honest) =>
             \A o \in EventsOf(obs) \cap Honest :
               obs[o].reports[id] # NoEvent =>
                 obs[o].reports[id].ts <= out.report[id].ts

\* How far faulty oracles can choose what is reported.  Of a stream: not the
\* time, which is that of an honest oracle's event; and the price, which is one
\* that an honest oracle observed, or 0 if no F+1 honest oracles have the same,
\* only with a payload that names the stream more than once ("We can trust any
\* price that appears at least f+1 times" is not so then).
\* Of a field: a median lies between values of honest oracles in the order of
\* toDecimal, though it may be of another type than theirs, and a mode with
\* the OCR quorum is one of them.
HonestValues ==
  /\ method = "llo_streams" /\ now > 0 =>
       \A obs \in LLOObservations : \A out \in LLOOutcomes(state, obs) :
         \A id \in DOMAIN out.report :
           LET honest == LLOEventsOf(obs) \cap Honest
               price  == out.report[id].price
           IN /\ \E o \in honest : obs[o].ts = out.report[id].ts
              /\ \/ Repeated(obs, id)
                 \/ \E o \in honest : obs[o].prices[id] = <<price>>
                 \/ /\ price = 0
                    /\ ~\E p \in Prices[id] :
                          Supported({o \in honest : obs[o].prices[id] = <<p>>})
  /\ method = "reduce" =>
       \A obs \in ReduceObservations : \A out \in ReduceOutcomes(state, obs) :
         \A id \in DOMAIN out.report :
           LET honest == {obs[o][id] : o \in Honest}
               price  == out.report[id].price
           IN /\ Method[id] = "median" =>
                   \E lo, hi \in honest : /\ toDecimal(lo) <= toDecimal(price)
                                          /\ toDecimal(price) <= toDecimal(hi)
              /\ Method[id] = "mode" /\ ModeQuorum[id] = "ocr" => price \in honest

\* The metadata that deviations are measured against follow what was reported.
\* The data feeds aggregator keeps them equal ("representing onchain state").
\* The other two report values that they do not record, of batched streams and
\* of fields that do not deviate: these stay within one threshold.
DriftBounded ==
  /\ method = "data_feeds" => onchain = state
  /\ method = "llo_streams" =>
       \A id \in IDs : /\ onchain[id].ts - state[id].ts <= Heartbeat[id]
                       /\ ~Deviates(id, state[id].price, onchain[id].price)
  /\ method = "reduce" =>
       \A id \in IDs : ~FieldDeviates(id, state[id].price, onchain[id].price)
=============================================================================
