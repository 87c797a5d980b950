------------------------------- MODULE Picking -------------------------------
(***************************************************************************)
(* The loop that goes through a list and appends what it wants to another:  *)
(* the hosts file is read and written by it, and the words of a command     *)
(* line are sorted by it.                                                   *)
(***************************************************************************)
EXTENDS Naturals, FiniteSets

\* What the loop collects: the elements of f at the places D, in order.  (The place of
\* rank k, rather than SelectSeq, which is recursive.)
At(f, D) ==
    [k \in 1..Cardinality(D) |-> f[CHOOSE i \in D : Cardinality({j \in D : j <= i}) = k]]
=============================================================================
