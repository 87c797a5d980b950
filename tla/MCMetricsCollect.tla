-------------------------- MODULE MCMetricsCollect --------------------------
(* MetricsCollect, with the constants of Collect.cfg. *)
EXTENDS MetricsCollect
=============================================================================
