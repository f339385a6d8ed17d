-------------------------- MODULE MCRequestHandler --------------------------
(* Instances of RequestHandler for TLC.                                    *)
EXTENDS RequestHandler, TLC

CONSTANTS c1, c2, d1, d2, x, y

\* Two calls with IDs of their own; x gets its response twice, as when a
\* request is part of two rounds before the first response arrives.
MCReqID  == c1 :> x @@ c2 :> y
MCRespID == d1 :> x @@ d2 :> x

\* A second call for the same workflow execution.
MCSameID == c1 :> x @@ c2 :> x
MCRespX  == d1 :> x
=============================================================================
