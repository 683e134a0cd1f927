--------------------------- MODULE MCControlPlane ----------------------------
(* An instance of ControlPlane for TLC: a tenant with a viewer, and the        *)
(* platform tenant with its administrator and no policy of its own.           *)
EXTENDS ControlPlane, TLC

CONSTANTS acme, platform

Bound == (acme :> "viewer") @@ (platform :> "platform_admin")
\* Requests are alike.
ThreadSymmetry == Permutations(Threads)
=============================================================================
