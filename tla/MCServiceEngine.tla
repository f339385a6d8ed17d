--------------------------- MODULE MCServiceEngine ---------------------------
(* Names for the calls of an instance of ServiceEngine.                    *)
EXTENDS ServiceEngine, TLC

CONSTANTS s1, s2, t1, t2, r1, n1
=============================================================================
