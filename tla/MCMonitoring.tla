---------------------------- MODULE MCMonitoring ----------------------------
(* The monitor for TLC: one feed, which the configuration has or has not.  *)
EXTENDS Monitoring

MCConfigs == SUBSET Feeds
=============================================================================
