---------------------------- MODULE WorkLifecycle ----------------------------
(***************************************************************************)
(* What WorkerStateStore promises its callers: every operation takes       *)
(* effect at one instant, on the rows as they are at that instant.  A lease *)
(* gives its holder the sole right to move the item until it is released or *)
(* runs out.  Who holds the lease, the versions behind optimistic           *)
(* concurrency and the ledger are left to the modules that implement this. *)
(***************************************************************************)
EXTENDS Naturals

CONSTANTS
  Works,          \* the work items of the tenant
  MaxAttempts     \* WorkRequest.max_attempts

VARIABLES
  status,         \* work_items.status
  attempt,        \* work_items.attempt_count
  cancel,         \* work_items.cancel_requested_at IS NOT NULL
  lease           \* work_leases: generation, unreleased, unexpired

vars == <<status, attempt, cancel, lease>>

Waiting == {"requested", "published", "retry_wait"}
Leased == {"claimed", "running"}

Init ==
  /\ status = [k \in Works |-> "none"]
  /\ attempt = [k \in Works |-> 0]
  /\ cancel = [k \in Works |-> FALSE]
  /\ lease \in [Works -> [gen : {0}, held : {FALSE}, live : {FALSE}]]

\* The item moves from one of a set of statuses to another.
Moves(k, from, to) ==
  status[k] \in from /\ status' = [status EXCEPT ![k] = to]

\* The authority of the lease: unreleased and unexpired.
InForce(k) == lease[k].held /\ lease[k].live

Ends(k) ==
  lease' = [lease EXCEPT ![k] =
              [gen |-> lease[k].gen, held |-> FALSE, live |-> FALSE]]

Request(k) ==
  Moves(k, {"none"}, "requested") /\ UNCHANGED <<attempt, cancel, lease>>

Publish(k) ==
  /\ Moves(k, {"requested", "retry_wait"}, "published")
  /\ UNCHANGED <<attempt, cancel, lease>>

ClaimUncounted(k) ==
  /\ Moves(k, {"published", "retry_wait"}, "claimed")
  /\ ~cancel[k]
  /\ ~lease[k].held
  /\ attempt[k] < MaxAttempts
  /\ lease' = [lease EXCEPT ![k] =
                 [gen |-> lease[k].gen + 1, held |-> TRUE, live |-> TRUE]]
  /\ UNCHANGED <<attempt, cancel>>

\* A claim starts the next attempt under the next generation.
Claim(k) ==
  /\ Moves(k, {"published", "retry_wait"}, "claimed")
  /\ ~cancel[k]
  /\ ~lease[k].held
  /\ attempt[k] < MaxAttempts
  /\ attempt' = [attempt EXCEPT ![k] = attempt[k] + 1]
  /\ lease' = [lease EXCEPT ![k] =
                 [gen |-> lease[k].gen + 1, held |-> TRUE, live |-> TRUE]]
  /\ UNCHANGED cancel

Start(k) ==
  InForce(k) /\ Moves(k, {"claimed"}, "running") /\ UNCHANGED <<attempt, cancel, lease>>

\* Only running work succeeds, and no outcome but "cancelled" is recorded once
\* a cancellation was requested.
Finish(k) ==
  /\ InForce(k)
  /\ \/ Moves(k, {"running"}, "succeeded") /\ ~cancel[k]
     \/ Moves(k, Leased, "cancelled") /\ cancel[k]
     \/ Moves(k, Leased, "retry_wait") /\ ~cancel[k]
     \/ Moves(k, Leased, "dead_letter") /\ ~cancel[k]
  /\ Ends(k)
  /\ UNCHANGED <<attempt, cancel>>

RequestCancel(k) ==
  /\ \/ Moves(k, Waiting, "cancelled")
     \/ status[k] \in Leased /\ UNCHANGED status
  /\ cancel' = [cancel EXCEPT ![k] = TRUE]
  /\ UNCHANGED <<attempt, lease>>

\* Reconciliation of an expired lease: a requested cancellation comes first,
\* then the last attempt, and only then another try.
Expire(k) ==
  /\ lease[k].held
  /\ ~lease[k].live
  /\ \/ cancel[k] /\ Moves(k, Leased, "cancelled")
     \/ ~cancel[k] /\ attempt[k] >= MaxAttempts /\ Moves(k, Leased, "dead_letter")
     \/ ~cancel[k] /\ attempt[k] < MaxAttempts /\ Moves(k, Leased, "retry_wait")
  /\ Ends(k)
  /\ UNCHANGED <<attempt, cancel>>

Requeue(k) ==
  /\ Moves(k, {"dead_letter"}, "retry_wait")
  /\ attempt' = [attempt EXCEPT ![k] = 0]
  /\ cancel' = [cancel EXCEPT ![k] = FALSE]
  /\ UNCHANGED lease

RunsOut(k) ==
  /\ InForce(k)
  /\ lease' = [lease EXCEPT ![k] =
                 [gen |-> lease[k].gen, held |-> TRUE, live |-> FALSE]]
  /\ UNCHANGED <<status, attempt, cancel>>

Next ==
  \E k \in Works :
    \/ Request(k) \/ Publish(k) \/ Claim(k) \/ Start(k) \/ Finish(k)
    \/ RequestCancel(k) \/ Expire(k) \/ Requeue(k) \/ RunsOut(k)

Spec == Init /\ [][Next]_vars
=============================================================================
