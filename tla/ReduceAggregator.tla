-------------------------- MODULE ReduceAggregator --------------------------
(***************************************************************************)
(* reduceAggregator (pkg/capabilities/consensus/ocr3/aggregators/          *)
(* reduce_aggregator.go): each field of the observations is reduced to its *)
(* median or mode; all fields are reported when one of them deviates.      *)
(*                                                                         *)
(* An observation gives each field a value [type, n], an int64 or a        *)
(* big.Int, or Missing.  The record of a field is its value alone (ts      *)
(* stays 0), Missing before the first round.                               *)
(***************************************************************************)
EXTENDS AggregationRound

CONSTANTS
  Method,         \* Method[id]: "median" or "mode"
  ModeQuorum,     \* ModeQuorum[id]: "ocr" or "any"
  DeviationType,  \* DeviationType[id]: "none", "any", "percent" or "absolute"
  ValueType,      \* ValueType[id]: the type of the honest oracles' values
  FaultyValues,   \* FaultyValues[id]: what faulty oracles send instead
  BigIntScale     \* 10^10: toDecimal's factor for a big.Int

Types == {"int64", "bigInt"}

\* ParseConfigReduceAggregator rejects every other deviation type.
ASSUME ReduceAssumption ==
  /\ DeviationType \in [IDs -> {"none", "any", "percent", "absolute"}]
  /\ ValueType \in [IDs -> Types]
  /\ \A id \in IDs : FaultyValues[id] \subseteq [type : Types, n : Int]
  /\ BigIntScale \in Nat \ {0}

Missing == [type |-> "none", n |-> 0]
NoValue == [ts |-> 0, price |-> Missing]

\* decimal.NewFromBigInt(big, 10) is big times 10^10.
toDecimal(v) == IF v.type = "bigInt" THEN BigIntScale * v.n ELSE v.n

\* extractValues: the oracles that observed the field.
Observers(obs, id) == {o \in Oracles : obs[o][id] # Missing}

\* The values are sorted as decimals, in descending order; those that may be at
\* index k, of equal ones any (sort.Slice is not stable).
AtIndex(obs, id, k) ==
  {v \in {obs[o][id] : o \in Observers(obs, id)} :
     /\ Cardinality({o \in Observers(obs, id) : toDecimal(obs[o][id]) > toDecimal(v)}) <= k
     /\ Cardinality({o \in Observers(obs, id) : toDecimal(obs[o][id]) >= toDecimal(v)}) > k}

\* Mutant of median: the smallest value.
medianLast(obs, id) == AtIndex(obs, id, Cardinality(Observers(obs, id)) - 1)

\* The one at index (len-1)/2.
median(obs, id) == AtIndex(obs, id, (Cardinality(Observers(obs, id)) - 1) \div 2)

Count(obs, id, v) == Cardinality({o \in Oracles : obs[o][id] = v})

\* One of the most frequent values, whichever the map yields first; with
\* modeHasQuorum, an error unless F+1 oracles have it.
mode(obs, id) ==
  LET vals == {obs[o][id] : o \in Observers(obs, id)}
  IN {v \in vals : /\ \A w \in vals : Count(obs, id, w) <= Count(obs, id, v)
                   /\ ModeQuorum[id] = "ocr" => Count(obs, id, v) >= F + 1}

\* Every field must have 2F+1 values.
reduce(obs, id) ==
  IF Cardinality(Observers(obs, id)) < 2 * F + 1 THEN {}
  ELSE IF Method[id] = "median" THEN median(obs, id) ELSE mode(obs, id)

\* deviation: of a negative value no percentage exceeds the threshold.
FieldDeviates(id, old, new) ==
  CASE DeviationType[id] = "none"     -> FALSE
    [] DeviationType[id] = "any"      -> old # new
    [] DeviationType[id] = "percent"  ->
         toDecimal(old) >= 0 /\ Deviates(id, toDecimal(old), toDecimal(new))
    [] DeviationType[id] = "absolute" ->
         Distance(toDecimal(old), toDecimal(new)) > Deviation[id]

\* "any" compares what Unwrap returns: for a big.Int a new pointer each time.
PointersDiffer(id, new) == DeviationType[id] = "any" /\ new.type = "bigInt"

\* A field without a record always reports, one without a deviation type never.
shouldReport(id, old, new) ==
  /\ DeviationType[id] # "none"
  /\ \/ old.price = Missing
     \/ FieldDeviates(id, old.price, new.price)
     \/ PointersDiffer(id, new.price)

\* A field whose deviation is not exceeded keeps its old record, but is part of
\* the report.
ReduceOutcome(st, new) ==
  LET due     == {id \in IDs : shouldReport(id, st[id], new[id])}
      untyped == {id \in IDs : DeviationType[id] = "none"}
  IN [state  |-> Updated(st, new, due \cup untyped),
      report |-> Restricted(new, IF due # {} \/ untyped = IDs THEN IDs ELSE {})]

ReduceOutcomes(st, obs) ==
  {ReduceOutcome(st, new) :
     new \in Choices(IDs, [id \in IDs |-> [ts : {0}, price : reduce(obs, id)]])}

-----------------------------------------------------------------------------
(* The observations of a round: honest oracles measure values of their own,*)
(* of one type, as they run the same workflow.                             *)

HonestFieldValues(id) == [type : {ValueType[id]}, n : Prices[id]]

ReduceObservations ==
  Observations(Choices(IDs, [id \in IDs |-> HonestFieldValues(id)]),
               Choices(IDs, [id \in IDs |-> FaultyValues[id] \cup {Missing}]))

ReduceRound == \E obs \in ReduceObservations : Round(ReduceOutcomes(state, obs))
=============================================================================
