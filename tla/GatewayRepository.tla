-------------------------- MODULE GatewayRepository --------------------------
(***************************************************************************)
(* What GatewayRepository promises the gateway about an idempotency key: it *)
(* is reserved by one worker at a time, only that worker settles it, a key  *)
(* that was settled stays so, and a reservation whose worker gave up stays  *)
(* reserved.  Budgets, leases and the events behind it are left to the two  *)
(* implementations, in PostgreSQL and in memory.                           *)
(***************************************************************************)
CONSTANTS
  Keys,           \* the idempotency keys
  Workers         \* whoever may hold a reservation

VARIABLES
  state,          \* whether a key is free, reserved or settled
  workers         \* who is still at work on the call of each key

vars == <<state, workers>>

Init ==
  /\ state = [k \in Keys |-> "free"]
  /\ workers = [k \in Keys |-> {}]

\* reserve(); DuplicateCallInProgressError unless the key is free.
Reserve(k, w) ==
  /\ state[k] = "free"
  /\ state' = [state EXCEPT ![k] = "reserved"]
  /\ workers' = [workers EXCEPT ![k] = {w}]

\* Worker w ends its call.
Ends(k, w, new) ==
  /\ w \in workers[k] /\ state[k] = "reserved"
  /\ workers' = [workers EXCEPT ![k] = {}]
  /\ state' = [state EXCEPT ![k] = new]

Succeed(k, w) == Ends(k, w, "settled")

\* The two implementations differ in what they leave of the key.
RecordUsageFailure(k, w) == Ends(k, w, "settled") \/ Ends(k, w, "free")

Fail(k, w) == Ends(k, w, "free")

\* The worker stops without a word.
GiveUp(k, w) == Ends(k, w, "reserved")

Next ==
  \E k \in Keys :
    \/ \E w \in Workers : Reserve(k, w)
    \/ \E w \in workers[k] : Succeed(k, w) \/ RecordUsageFailure(k, w) \/ Fail(k, w) \/ GiveUp(k, w)

Spec == Init /\ [][Next]_vars
=============================================================================
