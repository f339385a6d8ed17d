-------------------------- MODULE MCReportingPlugin --------------------------
(* Instances of ReportingPlugin for TLC.                                   *)
EXTENDS ReportingPlugin, TLC

CONSTANTS o1, o2, o3, o4, w1, e1, e2, v1, v2, x1, x2

\* Both executions belong to the one workflow.
MCWorkflowOf == [e \in Execs |-> w1]

\* Oracle o4 observes another value than the others and asks for another
\* encoder.
MCObserved ==
  [o \in Oracles |-> [e \in Execs |->
     IF o = o4 THEN [val |-> v2, enc |-> x2] ELSE [val |-> v1, enc |-> x1]]]

\* Outcome, Commit and Abandon do not read the stores, so a request that comes
\* or goes once the observations are made may as well do so after the round
\* (unless its workflow is unregistered in between: that order is left out).
MCStoresAtRest == phase = "observed" => UNCHANGED store

MCSymmetry == Permutations({o1, o2, o3})
=============================================================================
