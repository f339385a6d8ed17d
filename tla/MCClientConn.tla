---------------------------- MODULE MCClientConn ----------------------------
(* ClientConn for TLC: two calls and the closer, all values from the cfg.  *)
EXTENDS ClientConn
=============================================================================
