--------------------------- MODULE MCWorkDelivery ---------------------------
(* Instances of WorkDelivery for TLC.                                      *)
EXTENDS WorkDelivery, TLC

Symmetry == Permutations(Workers)

\* Bound: leases ever granted on an item, over its attempts and requeues.
TwoLeases == \A k \in Works : lease[k].gen <= 2
=============================================================================
