------------------------- MODULE AggregationRound -------------------------
(***************************************************************************)
(* What the aggregators of OCR3 outcomes have in common: one call of       *)
(* Aggregate per round, on the previous outcome's metadata and on the      *)
(* observations of at least 2F+1 oracles, some of them faulty.             *)
(*                                                                         *)
(* The metadata keep one record per feed, stream or field.  The aggregators*)
(* range over Go maps, so that an outcome may depend on the order: the     *)
(* outcomes of a round are a set, empty when Aggregate returns an error.   *)
(* Prices and thresholds are integers, fractions are percentages.          *)
(***************************************************************************)
EXTENDS Integers, FiniteSets

CONSTANTS
  Oracles,     \* the oracles that Aggregate has observations of
  Faulty,      \* those of them that do not follow the protocol
  F,
  IDs,         \* feeds, streams or fields
  Prices,      \* Prices[id]: the prices of id
  Heartbeat,   \* Heartbeat[id]
  Deviation,   \* Deviation[id]: the threshold, in per cent
  Partial,     \* AllowedPartialStaleness, in per cent
  MaxTime      \* bound on the time

ASSUME OraclesAssumption ==
  /\ F \in Nat
  /\ IsFiniteSet(Oracles) /\ Faulty \subseteq Oracles
  /\ Cardinality(Oracles) >= 2 * F + 1
  /\ Cardinality(Faulty) <= F

ASSUME ConfigAssumption ==
  /\ \A id \in IDs : Prices[id] \subseteq Nat \ {0}
  /\ Heartbeat \in [IDs -> Nat] /\ Deviation \in [IDs -> Nat]
  /\ Partial \in 0..100
  /\ MaxTime \in Nat \ {0}

Honest == Oracles \ Faulty
NoEvent == [kind |-> "malformed"]

VARIABLES
  state,    \* the metadata of the last outcome
  onchain,  \* history: what was reported last
  now,      \* time
  signed    \* signed[id][1 + k]: the price the data providers agreed on at now - k

Signed(id, ts) == signed[id][1 + now - ts]

\* The observation times an event of this round may have.
Times == {now - 1, now} \ {0}

\* initializeCurrentState: "will always trigger an update".
NoInfo == [ts |-> 0, price |-> 0]

-----------------------------------------------------------------------------

Distance(p, q) == IF p < q THEN q - p ELSE p - q

\* deviation and deviationDecimal against the threshold; every change of a zero
\* price exceeds it.
Deviates(id, old, new) ==
  IF old = 0 THEN new # 0 ELSE 100 * Distance(old, new) > Deviation[id] * old

MustUpdate(id, old, new) ==
  new.ts - old.ts > Heartbeat[id] \/ Deviates(id, old.price, new.price)

\* Not due, but within AllowedPartialStaleness of the heartbeat.
MayUpdate(id, old, new) ==
  100 * (new.ts - old.ts) > Heartbeat[id] * (100 - Partial)

Musts(st, new) == {id \in DOMAIN new : MustUpdate(id, st[id], new[id])}

\* If one is due, the candidates go along.
Batch(st, new) ==
  Musts(st, new) \cup
    {id \in DOMAIN new : Musts(st, new) # {} /\ MayUpdate(id, st[id], new[id])}

\* st with the records of ids replaced.
Updated(st, new, ids) == [id \in IDs |-> IF id \in ids THEN new[id] ELSE st[id]]

Restricted(new, ids) == [id \in ids |-> new[id]]

\* Voters of a value suffice when at least one of them is honest.
Supported(voters) == Cardinality(voters) >= F + 1

\* Observations: honest oracles have one of hs, faulty ones one of fs.
Observations(hs, fs) ==
  {[o \in Oracles |-> IF o \in Faulty THEN g[o] ELSE h[o]] :
     h \in [Honest -> hs], g \in [Faulty -> fs]}

\* The functions that map every id of ids to a member of its set S[id].
Choices(ids, S) ==
  {g \in [ids -> UNION {S[id] : id \in ids}] : \A id \in ids : g[id] \in S[id]}

-----------------------------------------------------------------------------

\* A round takes one of the possible outcomes; an error leaves the previous one.
Round(outs) ==
  \E out \in outs :
    /\ state' = out.state
    /\ onchain' = Updated(onchain, out.report, DOMAIN out.report)
    /\ UNCHANGED <<now, signed>>

\* Time passes, and the data providers agree on new prices.
Tick ==
  /\ now < MaxTime
  /\ now' = now + 1
  /\ \E p \in Choices(IDs, Prices) :
       signed' = [id \in IDs |-> <<p[id], signed[id][1]>>]
  /\ UNCHANGED <<state, onchain>>
=============================================================================
