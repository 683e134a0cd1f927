---------------------------- MODULE MCModelBudget ----------------------------
(* An instance of ModelBudget for TLC: requests q1 and q2 of run r1, q3 of r2. *)
EXTENDS ModelBudget, TLC

CONSTANTS r1, r2, q1, q2, q3

TwoRuns == {r1, r2}
ThreeRequests == {q1, q2, q3}
RunOfRequest == [q \in ThreeRequests |-> IF q = q3 THEN r2 ELSE r1]

\* q3 reserves less, so that a run has room for it twice.
LimitOfRequest == [q \in ThreeRequests |-> IF q = q3 THEN 1 ELSE 2]

\* q1 and q2 are requests of the same run.
Symmetry == Permutations({q1, q2})
=============================================================================
