--------------------------- MODULE MCAggregators ---------------------------
(* The aggregators for TLC: three observations, one of them of a faulty    *)
(* oracle, and two feeds.  The prices 100 and 104 are within the deviation *)
(* of 10 per cent of each other, 120 is not; with heartbeats of 2 and 1 and *)
(* an allowed partial staleness of one half, a record of age 2 is a        *)
(* candidate for batching in one feed and due in the other.  The honest    *)
(* oracles' field a is a big.Int, 200 to 240 as a decimal with a scale of  *)
(* 2; the faulty one can put an int64 between, above or below these.       *)
EXTENDS Aggregators

IsA(x, y) == [id \in IDs |-> IF id = "a" THEN x ELSE y]

MCPrices        == IsA({100, 104, 120}, {100, 104})
MCHeartbeat     == IsA(2, 1)
MCDeviation     == IsA(10, 10)
MCMethod        == IsA("median", "mode")
MCModeQuorum    == IsA("any", "ocr")
MCDeviationType == IsA("absolute", "any")
MCValueType     == IsA("bigInt", "int64")
MCFaultyValues  == IsA([type : {"int64"}, n : {-1, 208, 300}] \cup [type : {"bigInt"}, n : {104}],
                       [type : Types, n : {100}])
=============================================================================
