----------------------------- MODULE ModelCalls ------------------------------
(***************************************************************************)
(* ModelGateway.complete(): calls that share, per model, a circuit breaker, *)
(* token buckets and a semaphore in one process, each call going from await *)
(* to await through attempts and fallbacks and settling its reservation in  *)
(* the repository of the process (InMemoryGatewayRepository).               *)
(*                                                                         *)
(* Time is nondeterministic: a deadline may pass at any wait, an open       *)
(* circuit may reach its recovery time, the buckets may or may not admit.   *)
(* An error is what the code asks of it: retryable, and a failure of the    *)
(* provider's health.  What a reservation does to the quotas is ModelBudget.*)
(***************************************************************************)
EXTENDS ModelRouting

CONSTANTS
  Calls,             \* the tasks that call complete()
  KeyOf,             \* the idempotency key of each request
  Usages,            \* what a provider may report as TokenUsage
  Concurrency,       \* permits of each model's semaphore
  FailureThreshold,  \* CircuitBreaker.failure_threshold
  MaxAttempts,       \* RetryPolicy.max_attempts
  MaxFailovers,      \* RetryPolicy.max_failovers
  MaxCompletes,      \* bound: calls of complete() ever made
  TaskCancels        \* whether a task may be cancelled from outside

Keys == {KeyOf[q] : q \in Requests}

ASSUME CallsAssumption ==
  /\ IsFiniteSet(Calls)
  /\ Usages \subseteq [Kinds -> Nat]
  /\ Concurrency \in Nat \ {0} /\ FailureThreshold \in Nat \ {0}
  /\ MaxAttempts \in Nat \ {0} /\ MaxFailovers \in Nat /\ MaxCompletes \in Nat
  /\ TaskCancels \in BOOLEAN

VARIABLES
  circuit,           \* the CircuitBreaker of each model
  permits,           \* the free permits of each model's semaphore
  lost,              \* permits taken by a task nobody waits for any more
  call,              \* where each task is
  reserved,          \* _inflight and _completed of the repository, by key
  completes          \* calls made so far

vars == <<circuit, permits, lost, call, reserved, completes>>

\* ModelGatewayError by what depends on it: retryable, _provider_health_failure().
Errors == [retryable : BOOLEAN, health : BOOLEAN]
Local == [retryable |-> TRUE, health |-> FALSE]        \* rate limit, permit timeout
Unavailable == [retryable |-> TRUE, health |-> TRUE]
Cancelled == [retryable |-> FALSE, health |-> FALSE]

Free == [state |-> "free"]
Inflight(q) == [state |-> "active", request |-> q]
Answered(q) == [state |-> "completed", request |-> q]

Idle == [pc |-> "idle"]

\* A call on its way: its candidates, the one it is at first, and what it reserves.
Routed(q, candidates) ==
  [pc |-> "routed", request |-> q, route |-> candidates,
   cost |-> ReservationCost(candidates, q), attempt |-> 0, probe |-> FALSE, error |-> Local]

Going ==
  [pc : {"routed", "reserved", "wait", "orphan", "record", "invoke", "failed", "backoff",
         "answered", "release"},
   request : Requests, route : Seq(Models) \ {<<>>}, cost : Nat,
   attempt : 0..MaxAttempts, probe : BOOLEAN, error : Errors]

Breakers ==
  [failures : 0..FailureThreshold, opened : {"closed", "open", "half_open"}, busy : BOOLEAN]

\* Every variable keeps its type; no call makes more than max_attempts attempts at
\* a candidate, nor goes past the last one.
TypeOK ==
  /\ circuit \in [Models -> Breakers]
  /\ permits \in [Models -> 0..Concurrency] /\ lost \in [Models -> 0..Concurrency]
  /\ call \in [Calls -> Going \cup {Idle}]
  /\ reserved \in [Keys -> {Inflight(q) : q \in Requests} \cup {Answered(q) : q \in Requests}
                           \cup {Free}]
  /\ completes \in 0..MaxCompletes

Init ==
  /\ circuit = [m \in Models |-> [failures |-> 0, opened |-> "closed", busy |-> FALSE]]
  /\ permits = [m \in Models |-> Concurrency] /\ lost = [m \in Models |-> 0]
  /\ call = [c \in Calls |-> Idle]
  /\ reserved = [k \in Keys |-> Free]
  /\ completes = 0

Model(c) == Head(call[c].route)

\* The pcs between the acquisition of a permit and its release.
Holding == {"record", "invoke", "failed", "backoff"}

Move(c, new) == call' = [call EXCEPT ![c] = new]

-----------------------------------------------------------------------------
(* CircuitBreaker.                                                         *)

Succeeded(b) == [failures |-> 0, opened |-> "closed", busy |-> FALSE]

Failed(b) ==
  LET n == IF b.failures = FailureThreshold THEN b.failures ELSE b.failures + 1 IN
  [failures |-> n, busy |-> FALSE,
   opened |-> IF n = FailureThreshold THEN "open" ELSE b.opened]

\* abandon() and release_probe().
Abandoned(b) == [b EXCEPT !.busy = FALSE]

\* recovery_seconds have passed since the circuit opened.
RecoveryTime(m) ==
  /\ circuit[m].opened = "open"
  /\ circuit' = [circuit EXCEPT ![m].opened = "half_open"]
  /\ UNCHANGED <<permits, lost, call, reserved, completes>>

-----------------------------------------------------------------------------
(* complete().                                                             *)

\* The models the router is told are unavailable.
OpenModels == {m \in Models : circuit[m].opened = "open"}

Prefix(s, n) == SubSeq(s, 1, IF Len(s) < n THEN Len(s) ELSE n)

\* completed() finds no answer and the router finds candidates; otherwise the
\* call ends at once.
Complete(c, q) ==
  /\ call[c].pc = "idle" /\ completes < MaxCompletes
  /\ reserved[KeyOf[q]] # Answered(q)
  /\ \E s \in Routes(q, OpenModels) : Move(c, Routed(q, Prefix(s, MaxFailovers + 1)))
  /\ completes' = completes + 1
  /\ UNCHANGED <<circuit, permits, lost, reserved>>

KeyUsed(c) == KeyOf[call[c].request]

\* Mutant of Reserve: only an answered key is refused.
ReserveAgain(c) ==
  /\ call[c].pc = "routed"
  /\ IF reserved[KeyUsed(c)].state # "completed"
     THEN /\ reserved' = [reserved EXCEPT ![KeyUsed(c)] = Inflight(call[c].request)]
          /\ Move(c, [call[c] EXCEPT !.pc = "reserved"])
     ELSE Move(c, Idle) /\ UNCHANGED reserved
  /\ UNCHANGED <<circuit, permits, lost, completes>>

\* Mutant of Reserve: only a call in progress is refused.
ReserveAnswered(c) ==
  /\ call[c].pc = "routed"
  /\ IF reserved[KeyUsed(c)].state # "active"
     THEN /\ reserved' = [reserved EXCEPT ![KeyUsed(c)] = Inflight(call[c].request)]
          /\ Move(c, [call[c] EXCEPT !.pc = "reserved"])
     ELSE Move(c, Idle) /\ UNCHANGED reserved
  /\ UNCHANGED <<circuit, permits, lost, completes>>

\* reserve(): a key that is in flight, or was answered meanwhile, is refused.
Reserve(c) ==
  /\ call[c].pc = "routed"
  /\ IF reserved[KeyUsed(c)] = Free
     THEN /\ reserved' = [reserved EXCEPT ![KeyUsed(c)] = Inflight(call[c].request)]
          /\ Move(c, [call[c] EXCEPT !.pc = "reserved"])
     ELSE Move(c, Idle) /\ UNCHANGED reserved
  /\ UNCHANGED <<circuit, permits, lost, completes>>

-----------------------------------------------------------------------------
(* _try_model().                                                           *)

\* The state of call c after its model ended in an error: the next candidate if
\* the error is retryable and there is one, otherwise fail().
AfterModel(c, e) ==
  LET more == e.retryable /\ Len(call[c].route) > 1 IN
  [call[c] EXCEPT !.pc = IF more THEN "reserved" ELSE "release",
                  !.route = IF more THEN Tail(@) ELSE @,
                  !.attempt = 0, !.probe = FALSE, !.error = Local]

\* release_probe(), then fail() or abandon().
CircuitAfter(c, e) ==
  IF e.health THEN Failed(circuit[Model(c)]) ELSE Abandoned(circuit[Model(c)])

EndModel(c, e) ==
  /\ Move(c, AfterModel(c, e))
  /\ circuit' = [circuit EXCEPT ![Model(c)] = CircuitAfter(c, e)]

\* Mutant of ReleasePermit: the permit is forgotten.
ReleaseForgotten(c) == UNCHANGED permits

\* semaphore.release() in the finally clause of an attempt.
ReleasePermit(c) == permits' = [permits EXCEPT ![Model(c)] = @ + 1]

\* CircuitOpenError: the circuit is open, or its probe is busy.
Refused(m) == circuit[m].opened = "open" \/ (circuit[m].opened = "half_open" /\ circuit[m].busy)

\* The candidate is passed over; its breaker is not told.
CircuitRefuses(c) ==
  /\ call[c].pc = "reserved" /\ Refused(Model(c))
  /\ Move(c, AfterModel(c, Unavailable))
  /\ UNCHANGED <<circuit, permits, lost, reserved, completes>>

\* acquire(): in the half-open state the call becomes the probe.
Probing(b) == IF b.opened = "half_open" THEN [b EXCEPT !.busy = TRUE] ELSE b

\* acquire() and admit(): the call begins to wait for a permit.
TryModel(c) ==
  LET m == Model(c) IN
  /\ call[c].pc = "reserved" /\ ~Refused(m)
  /\ circuit' = [circuit EXCEPT ![m] = Probing(@)]
  /\ Move(c, [call[c] EXCEPT !.pc = "wait", !.attempt = 1,
                             !.probe = circuit[m].opened = "half_open"])
  /\ UNCHANGED <<permits, lost, reserved, completes>>

\* acquire(), but the buckets do not admit: the probe is given up again.
RateLimited(c) ==
  /\ call[c].pc = "reserved" /\ ~Refused(Model(c))
  /\ EndModel(c, Local)
  /\ UNCHANGED <<permits, lost, reserved, completes>>

GetPermit(c) ==
  /\ call[c].pc = "wait" /\ permits[Model(c)] > 0
  /\ permits' = [permits EXCEPT ![Model(c)] = @ - 1]
  /\ Move(c, [call[c] EXCEPT !.pc = "record"])
  /\ UNCHANGED <<circuit, lost, reserved, completes>>

\* Mutant of NoPermit: the semaphore is awaited without a deadline.
WaitForever(c) == FALSE /\ UNCHANGED vars

\* _acquire_semaphore() raises: the deadline has passed, or cancellation is set.
NoPermit(c) ==
  /\ call[c].pc = "wait"
  /\ \E e \in {Local, Cancelled} : EndModel(c, e)
  /\ UNCHANGED <<permits, lost, reserved, completes>>

\* record_attempt() returns and the provider is called; or time has run out.
RecordAttempt(c) ==
  /\ call[c].pc = "record"
  /\ \/ Move(c, [call[c] EXCEPT !.pc = "invoke"])
     \/ Move(c, [call[c] EXCEPT !.pc = "failed", !.error = Unavailable])
  /\ UNCHANGED <<circuit, permits, lost, reserved, completes>>

ProviderAnswers(c) ==
  /\ call[c].pc = "invoke"
  /\ ReleasePermit(c)
  /\ circuit' = [circuit EXCEPT ![Model(c)] = Succeeded(@)]
  /\ Move(c, [call[c] EXCEPT !.pc = "answered", !.attempt = 0, !.probe = FALSE])
  /\ UNCHANGED <<lost, reserved, completes>>

ProviderFails(c) ==
  /\ call[c].pc = "invoke"
  /\ \E e \in Errors : Move(c, [call[c] EXCEPT !.pc = "failed", !.error = e])
  /\ UNCHANGED <<circuit, permits, lost, reserved, completes>>

\* RetryPolicy.may_retry().
MayRetry(c) == call[c].error.retryable /\ call[c].attempt < MaxAttempts

\* record_attempt_failure() returns: sleep with the permit, or end the model.
RecordFailure(c) ==
  /\ call[c].pc = "failed"
  /\ \/ /\ MayRetry(c)
        /\ Move(c, [call[c] EXCEPT !.pc = "backoff", !.error = Local])
        /\ UNCHANGED <<circuit, permits>>
     \/ /\ EndModel(c, call[c].error)
        /\ ReleasePermit(c)
  /\ UNCHANGED <<lost, reserved, completes>>

\* The sleep is over: the permit is released and the next attempt admitted, or
\* not; or the sleep was cancelled.
Retry(c) ==
  /\ call[c].pc = "backoff"
  /\ ReleasePermit(c)
  /\ \/ /\ Move(c, [call[c] EXCEPT !.pc = "wait", !.attempt = @ + 1])
        /\ UNCHANGED circuit
     \/ \E e \in {Local, Cancelled} : EndModel(c, e)
  /\ UNCHANGED <<lost, reserved, completes>>

-----------------------------------------------------------------------------
(* The end of a call.                                                      *)

\* succeed() stores the answer; an invalid answer, or one that used more than was
\* reserved, is charged by record_usage_failure() and the key is free again.
SettleAnswer(c) ==
  /\ call[c].pc = "answered"
  /\ \E u \in Usages, valid \in BOOLEAN :
       reserved' = [reserved EXCEPT ![KeyUsed(c)] =
         IF valid /\ WithinReservation(Model(c), u, TokenLimit(call[c].request), call[c].cost)
         THEN Answered(call[c].request) ELSE Free]
  /\ Move(c, Idle)
  /\ UNCHANGED <<circuit, permits, lost, completes>>

\* fail() releases the reservation.
Release(c) ==
  /\ call[c].pc = "release"
  /\ reserved' = [reserved EXCEPT ![KeyUsed(c)] = Free]
  /\ Move(c, Idle)
  /\ UNCHANGED <<circuit, permits, lost, completes>>

\* Mutant of ProbeFreed: release_probe() is not in a finally clause.
ProbeKept(c) == circuit

\* The finally clause of _try_model().
ProbeFreed(c) ==
  IF call[c].probe THEN [circuit EXCEPT ![Model(c)] = Abandoned(@)] ELSE circuit

\* Any other exception leaves through the finally clauses: the fence is lost, the
\* storage fails, the provider raises something else, the task is cancelled.  The
\* reservation stays in flight: nothing in the process ends it.
Escape(c) ==
  /\ call[c].pc \in {"record", "invoke", "failed", "backoff", "answered", "release"}
  /\ call[c].pc = "backoff" => TaskCancels
  /\ IF call[c].pc \in Holding THEN ReleasePermit(c) ELSE UNCHANGED permits
  /\ circuit' = ProbeFreed(c)
  /\ Move(c, Idle)
  /\ UNCHANGED <<lost, reserved, completes>>

\* The task is cancelled while it waits for a permit beside a cancellation token:
\* the finally clause of _acquire_semaphore() still waits for acquire_task.
CancelledWaiting(c) ==
  /\ TaskCancels /\ call[c].pc = "wait"
  /\ Move(c, [call[c] EXCEPT !.pc = "orphan"])
  /\ UNCHANGED <<circuit, permits, lost, reserved, completes>>

\* acquire_task ends with a permit nobody will release, or without one.
OrphanEnds(c) ==
  /\ call[c].pc = "orphan"
  /\ \/ /\ permits[Model(c)] > 0
        /\ permits' = [permits EXCEPT ![Model(c)] = @ - 1]
        /\ lost' = [lost EXCEPT ![Model(c)] = @ + 1]
     \/ UNCHANGED <<permits, lost>>
  /\ circuit' = ProbeFreed(c)
  /\ Move(c, Idle)
  /\ UNCHANGED <<reserved, completes>>

Progress(c) ==
  \/ Reserve(c) \/ CircuitRefuses(c) \/ TryModel(c) \/ RateLimited(c) \/ GetPermit(c) \/ NoPermit(c)
  \/ RecordAttempt(c) \/ ProviderAnswers(c) \/ ProviderFails(c) \/ RecordFailure(c)
  \/ Retry(c) \/ SettleAnswer(c) \/ Release(c) \/ Escape(c) \/ OrphanEnds(c)

Next ==
  \/ \E m \in Models : RecoveryTime(m)
  \/ \E c \in Calls :
        (\E q \in Requests : Complete(c, q)) \/ Progress(c) \/ CancelledWaiting(c)

Spec == Init /\ [][Next]_vars

\* Every wait has a deadline, so every call that was begun goes on.
FairSpec == Spec /\ \A c \in Calls : WF_vars(Progress(c))

-----------------------------------------------------------------------------
(* Properties.                                                             *)

\* A permit is free, or held by a call that will release it, or lost to a task
\* cancelled while it waited: no other path through _try_model() loses a permit,
\* and none releases one twice.
PermitsConserved ==
  \A m \in Models :
    permits[m] + Cardinality({c \in Calls : call[c].pc \in Holding /\ Model(c) = m})
      + lost[m] = Concurrency

InTryModel == Holding \cup {"wait", "orphan"}

ProbesOf(m) == {c \in Calls : call[c].pc \in InTryModel /\ call[c].probe /\ Model(c) = m}

\* A half-open circuit is busy only while its probe is on its way: no call leaves
\* it refusing every later one (test_half_open_probe_releases_busy_flag...).
BusyMeansProbing == \A m \in Models : circuit[m].busy => ProbesOf(m) # {}

InFlight(c) == call[c].pc \notin {"idle", "routed"}

\* Of the calls with one idempotency key at most one is ever past its reservation,
\* so at most one asks a provider, and its reservation is the one in flight
\* (DuplicateCallInProgressError).
OneInFlight ==
  \A c \in Calls : InFlight(c) =>
    /\ reserved[KeyUsed(c)] = Inflight(call[c].request)
    /\ \A d \in Calls \ {c} : InFlight(d) => KeyUsed(d) # KeyUsed(c)

\* An answer that was stored for a key is never replaced, by another request with
\* that key or by a call that was routed before the answer came.
AnswersStay ==
  [][\A k \in Keys : reserved[k].state = "completed" => reserved'[k] = reserved[k]]_vars

\* Whichever candidate a call falls back to, usage within its token limit costs no
\* more than it reserved: usage_exceeded_cost_reservation is never raised alone.
ReservationCovers ==
  \A c \in Calls : call[c].pc # "idle" =>
    \A u \in Usages : Billable(u) <= TokenLimit(call[c].request) =>
      \A i \in 1..Len(call[c].route) : Cost(call[c].route[i], u) <= call[c].cost

\* Every candidate of a call is one the request asks for, the policy allows and that
\* is able to serve it, a call falls back along the order of preference, so never to
\* a model it has tried, and max_failovers times at most.
FallbacksAllowed ==
  \A c \in Calls : call[c].pc # "idle" =>
    LET q == call[c].request
        candidates == call[c].route IN
    /\ Len(candidates) <= MaxFailovers + 1
    /\ \A i \in 1..Len(candidates) :
         /\ candidates[i] \in Asked(q) /\ PolicyAllows(candidates[i]) /\ Capable(candidates[i], q)
         /\ \A j \in 1..(i - 1) : Before(q, candidates[j], candidates[i])

\* What has become of key k.
KeyState(k) ==
  CASE reserved[k].state = "free" -> "free"
    [] reserved[k].state = "active" -> "reserved"
    [] reserved[k].state = "completed" -> "settled"

Repository == INSTANCE GatewayRepository WITH
  Workers <- Calls,
  state <- [k \in Keys |-> KeyState(k)],
  workers <- [k \in Keys |-> {c \in Calls : InFlight(c) /\ KeyUsed(c) = k}]

\* InMemoryGatewayRepository, as complete() uses it, keeps the promise of
\* GatewayRepository on every path out of a call.
ImplementsRepository == Repository!Spec

\* Every call of complete() ends, whatever the circuits and semaphores do.
CallsEnd == \A c \in Calls : call[c].pc # "idle" ~> call[c].pc = "idle"
=============================================================================
