---------------------------- MODULE MCSupervisor -----------------------------
(* Instances of Supervisor for TLC: two entries of tenant a, one of b. *)
EXTENDS Supervisor

CONSTANTS a, b, d1, d2, d3

ThreeDeliveries == {d1, d2, d3}
TenantOfDelivery == [d \in ThreeDeliveries |-> IF d = d3 THEN b ELSE a]

=============================================================================
