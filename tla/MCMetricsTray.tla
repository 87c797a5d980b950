--------------------------- MODULE MCMetricsTray ---------------------------
(* MetricsTray, with the constants of Tray.cfg. *)
EXTENDS MetricsTray
=============================================================================
