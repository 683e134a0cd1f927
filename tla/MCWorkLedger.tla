---------------------------- MODULE MCWorkLedger ----------------------------
(* WorkLedger on small instances.                                          *)
EXTENDS WorkLedger, TLC

WorkSymmetry == Permutations(Callers) \cup Permutations(Works)

\* Bound: leases ever granted on an item, over its attempts and requeues.
TwoLeases == \A k \in Works : lease[k].gen <= 2

ActorSymmetry == Permutations(Callers) \cup Permutations(Actors)
=============================================================================
