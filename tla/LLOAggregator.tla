--------------------------- MODULE LLOAggregator ---------------------------
(***************************************************************************)
(* LLOAggregator (pkg/capabilities/consensus/ocr3/datafeeds/               *)
(* llo_aggregator.go): the observation time that F+1 oracles name and, for *)
(* each stream, a price that F+1 payload entries of their events carry.    *)
(*                                                                         *)
(* An event is [ts, prices]; prices[id] lists the decodable entries of the *)
(* payload for the stream.  The trigger of an honest oracle names a stream *)
(* at most once, but nothing checks that a payload does: every entry is    *)
(* counted, also when they all come from one oracle.                       *)
(***************************************************************************)
EXTENDS AggregationRound, Sequences

CONSTANTS
  FaultyPrices,   \* the prices that faulty oracles send
  MaxEntries      \* bound on the entries of a stream in one payload

ASSUME EntriesAssumption == FaultyPrices \subseteq Nat /\ MaxEntries \in Nat \ {0}

LLOEventsOf(obs) == {o \in Oracles : obs[o] # NoEvent}

VotersOfTime(obs, t) == {o \in LLOEventsOf(obs) : obs[o].ts = t}

\* Mutant of ObservationTimestamps: F votes are enough.
ObservationTimestampsF(obs) ==
  {t \in {obs[o].ts : o \in LLOEventsOf(obs)} : Cardinality(VotersOfTime(obs, t)) >= F}

\* getObservationTimestamp takes the first one it comes across.
ObservationTimestamps(obs) ==
  {t \in {obs[o].ts : o \in LLOEventsOf(obs)} : Supported(VotersOfTime(obs, t))}

\* The entries for price p in the payloads of time t.
Entries(obs, t, id, p) ==
  {e \in VotersOfTime(obs, t) \X (1..MaxEntries) :
     e[2] <= Len(obs[e[1]].prices[id]) /\ obs[e[1]].prices[id][e[2]] = p}

\* lloStreamPrices: candidatePrices counts entries, and whichever price with
\* F+1 of them the map yields first is taken; a stream without one has no
\* entry, which reads as the zero decimal.
StreamPrices(obs, t, id) ==
  LET candidates == {obs[e[1]].prices[id][e[2]] :
                       e \in {d \in VotersOfTime(obs, t) \X (1..MaxEntries) :
                                d[2] <= Len(obs[d[1]].prices[id])}}
      supported  == {p \in candidates : Supported(Entries(obs, t, id, p))}
  IN IF supported = {} THEN {0} ELSE supported

\* The batched streams are reported, but keep their old record.
LLOOutcome(st, new) ==
  [state  |-> Updated(st, new, Musts(st, new)),
   report |-> Restricted(new, Batch(st, new))]

\* The records the streams would get, at the agreed time.
StreamUpdates(obs, t) ==
  Choices(IDs, [id \in IDs |-> [ts : {t}, price : StreamPrices(obs, t, id)]])

LLOOutcomes(st, obs) ==
  UNION {{LLOOutcome(st, new) : new \in StreamUpdates(obs, t)} :
           t \in ObservationTimestamps(obs)}

-----------------------------------------------------------------------------
(* The observations of a round.  The execution's ID is made from the event,*)
(* so that all honest oracles have the same one; rounds may take events out*)
(* of order.  A faulty oracle sends any time and any list of prices, one   *)
(* for all streams, as they are counted one by one.                        *)

HonestLLOEvents ==
  {[kind |-> "event", ts |-> t,
    prices |-> [id \in IDs |-> IF id \in ids THEN <<Signed(id, t)>> ELSE << >>]] :
       t \in Times, ids \in SUBSET IDs}

FaultyLLOEvents ==
  LET lists == UNION {[1..n -> FaultyPrices] : n \in 0..MaxEntries}
  IN {[kind |-> "event", ts |-> t, prices |-> [id \in IDs |-> l]] :
        t \in Times, l \in lists}

LLOObservations ==
  UNION {Observations({e, NoEvent}, FaultyLLOEvents \cup {NoEvent}) : e \in HonestLLOEvents}

LLORound == \E obs \in LLOObservations : Round(LLOOutcomes(state, obs))
=============================================================================
