------------------------- MODULE MCMetricsRetention -------------------------
(* MetricsRetention for a window and a service; the processors, which occur *)
(* in sets of rows only, are interchangeable.                              *)
EXTENDS MetricsRetention, TLC
Symmetry == Permutations(Procs)
=============================================================================
