---------------------------- MODULE MCUpdateLoop ----------------------------
(* Model checking UpdateLoop: the node names are shared by two clusters.   *)
(* Clusters and logins are interchangeable, so the runs that check only    *)
(* invariants and action properties reduce by both symmetries.             *)
EXTENDS UpdateLoop, TLC

Symmetry == Permutations(Cluster) \cup Permutations(Login)
=============================================================================
