----------------------------- MODULE FencedLease -----------------------------
(***************************************************************************)
(* What a WorkLease is to those who write under it, "whose generation is a  *)
(* fencing token": a lease is granted only while none is in force, under    *)
(* the next generation, and a lease that is over never comes back.          *)
(***************************************************************************)
EXTENDS Naturals

CONSTANT Items          \* what is leased

VARIABLES
  generation,           \* the generation of the last lease of each item
  inForce               \* whether that lease is unreleased and unexpired

vars == <<generation, inForce>>

Init ==
  /\ generation = [k \in Items |-> 0]
  /\ inForce = [k \in Items |-> FALSE]

Grant(k) ==
  /\ ~inForce[k]
  /\ generation' = [generation EXCEPT ![k] = @ + 1]
  /\ inForce' = [inForce EXCEPT ![k] = TRUE]

\* The lease is released, or runs out.
End(k) ==
  /\ inForce[k]
  /\ inForce' = [inForce EXCEPT ![k] = FALSE]
  /\ UNCHANGED generation

Next == \E k \in Items : Grant(k) \/ End(k)

Spec == Init /\ [][Next]_vars
=============================================================================
