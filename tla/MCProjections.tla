---------------------------- MODULE MCProjections ----------------------------
(* Instances of Projections for TLC. *)
EXTENDS Projections, TLC

Symmetry == Permutations(Aggregates) \cup Permutations(Writers) \cup Permutations(Engines)
=============================================================================
