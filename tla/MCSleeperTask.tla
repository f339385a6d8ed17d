---------------------------- MODULE MCSleeperTask ----------------------------
(* Names for the calls of an instance of SleeperTask.                      *)
EXTENDS SleeperTask, TLC

CONSTANTS w1, f1, f2, f3, t1, t2
=============================================================================
