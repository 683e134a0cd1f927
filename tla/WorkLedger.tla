----------------------------- MODULE WorkLedger -----------------------------
(***************************************************************************)
(* The authoritative state of the work items of one tenant: the rows of    *)
(* work_items, work_leases, work_dead_letters and work_requeue_approvals,  *)
(* and what the event ledger says of each item.                            *)
(*                                                                         *)
(* Every operation of PostgresWorkRepository reads first, in transactions  *)
(* of their own, and commits later: the version it read is the             *)
(* expected_version of the append, and the rows it read are compared again *)
(* by the UPDATE statements of the commit.  Between the reads and the      *)
(* commit any other caller may commit.  A caller here is anything that     *)
(* holds a repository: a worker, the reconciler, an operator.  It may call *)
(* any operation with any lease it was ever granted, however stale.        *)
(*                                                                         *)
(* Versions are only ever compared for equality, so a call keeps the bit   *)
(* "the version I read is still the version of the stream".  Time is the   *)
(* bits "the lease is unexpired", "available_at has passed" and "the       *)
(* approval is unexpired", which the environment clears or sets.           *)
(***************************************************************************)
EXTENDS Naturals, FiniteSets

CONSTANTS
  Works,          \* the work items of the tenant
  Callers,        \* the processes that call the repository
  Actors,         \* the operators who approve and requeue
  Approvals,      \* the ids of requeue approvals
  None,           \* no work, no caller, no actor
  MaxAttempts,    \* WorkRequest.max_attempts
  Quota,          \* the tenant's max_concurrent_runs
  StorageFaults   \* whether start() may fail with a storage error

ASSUME ConstantsAssumption ==
  /\ IsFiniteSet(Works) /\ IsFiniteSet(Approvals)
  /\ None \notin Works \cup Callers \cup Actors
  /\ MaxAttempts \in Nat \ {0}
  /\ Quota \in Nat
  /\ StorageFaults \in BOOLEAN

VARIABLES
  status,         \* work_items.status
  replay,         \* the status next_status() computes from the ledger
  attempt,        \* work_items.attempt_count
  cancel,         \* work_items.cancel_requested_at IS NOT NULL
  due,            \* work_items.available_at <= clock_timestamp()
  lease,          \* work_leases
  requeues,       \* work_dead_letters.requeue_count
  approval,       \* work_requeue_approvals
  call,           \* the repository call each caller is in
  handle          \* the WorkLease each caller was granted last

rows == <<status, replay, attempt, cancel, due, lease, requeues, approval>>
vars == <<status, replay, attempt, cancel, due, lease, requeues, approval,
          call, handle>>

-----------------------------------------------------------------------------
(* The work lifecycle of the domain layer.                                 *)

TerminalStatuses == {"succeeded", "failed", "cancelled", "dead_letter"}
Queued == {"requested", "published", "retry_wait"}
Active == {"claimed", "running"}
Statuses == {"none", "invalid"} \cup TerminalStatuses \cup Queued \cup Active

\* The statuses each event may be applied to.
Sources ==
  [requested        |-> {"none"},
   published        |-> {"requested", "retry_wait"},
   claimed          |-> {"published", "retry_wait"},
   started          |-> {"claimed"},
   heartbeat        |-> Active,
   lease_expired    |-> Active,
   succeeded        |-> {"running"},
   failed           |-> {"running"},
   retry_scheduled  |-> {"failed", "running", "claimed", "dead_letter"},
   dead_lettered    |-> {"failed", "running", "retry_wait"},
   cancelled        |-> Queued \cup Active,
   cancel_requested |-> Queued \cup Active,
   reconciled       |-> Queued \cup Active]

\* The status each event leads to; the three events not named keep the status.
Target ==
  [requested |-> "requested", published |-> "published", claimed |-> "claimed",
   started |-> "running", lease_expired |-> "retry_wait",
   succeeded |-> "succeeded", failed |-> "failed",
   retry_scheduled |-> "retry_wait", dead_lettered |-> "dead_letter",
   cancelled |-> "cancelled"]

\* An event that next_status() rejects makes the ledger unreadable for good.
NextStatus(s, e) ==
  IF s \notin Sources[e] THEN "invalid"
  ELSE IF e \in DOMAIN Target THEN Target[e] ELSE s

-----------------------------------------------------------------------------
(* Calls, leases and the transaction every commit runs in.                 *)

Ops == {"mark_published", "claim", "start", "heartbeat", "succeed", "cancel",
        "fail", "release", "request_cancel", "expire", "redrive", "requeue"}

FencedOps == {"start", "heartbeat", "succeed", "cancel", "fail", "release"}

Idle == [op |-> "idle", work |-> None, ready |-> FALSE, fresh |-> FALSE,
         gen |-> 0, attempt |-> 0, seen |-> "none", cancel |-> FALSE]

NoHandle == [work |-> None, gen |-> 0, attempt |-> 0, phase |-> "none"]

Calls ==
  {Idle} \cup [op : Ops, work : Works, ready : BOOLEAN, fresh : BOOLEAN,
               gen : Nat, attempt : 0..MaxAttempts, seen : Statuses,
               cancel : BOOLEAN]

Handles ==
  {NoHandle} \cup [work : Works, gen : Nat \ {0}, attempt : 0..MaxAttempts,
                   phase : {"claimed", "running", "start_failed"}]

Leases ==
  [gen : Nat, owner : Callers \cup {None}, held : BOOLEAN, live : BOOLEAN]

ApprovalRows ==
  [work : Works \cup {None}, by : Actors \cup {None}, live : BOOLEAN,
   consumer : Actors \cup {None}]

TypeOK ==
  /\ status \in [Works -> Statuses \ {"failed", "invalid"}]
  /\ replay \in [Works -> Statuses]
  /\ attempt \in [Works -> 0..MaxAttempts]
  /\ cancel \in [Works -> BOOLEAN]
  /\ due \in [Works -> BOOLEAN]
  /\ lease \in [Works -> Leases]
  /\ requeues \in [Works -> Nat]
  /\ approval \in [Approvals -> ApprovalRows]
  /\ call \in [Callers -> Calls]
  /\ handle \in [Callers -> Handles]

Init ==
  /\ status = [k \in Works |-> "none"]
  /\ replay = [k \in Works |-> "none"]
  /\ attempt = [k \in Works |-> 0]
  /\ cancel = [k \in Works |-> FALSE]
  /\ due = [k \in Works |-> FALSE]
  /\ lease = [k \in Works |->
                [gen |-> 0, owner |-> None, held |-> FALSE, live |-> FALSE]]
  /\ requeues = [k \in Works |-> 0]
  /\ approval = [a \in Approvals |->
                   [work |-> None, by |-> None, live |-> FALSE, consumer |-> None]]
  /\ call = [c \in Callers |-> Idle]
  /\ handle = [c \in Callers |-> NoHandle]

\* The commit of c moved the head of stream k: every version read of k by
\* another call no longer matches, and the call of c is over.
EndCall(c, k) ==
  call' = [d \in Callers |->
             IF d = c THEN Idle
             ELSE IF call[d].work = k THEN [call[d] EXCEPT !.fresh = FALSE]
             ELSE call[d]]

\* The transaction of a call: check the expected version, append the events,
\* which replay to r, and set the projected status of the row to s.
Append(c, k, op, r, s) ==
  /\ call[c].op = op
  /\ call[c].work = k
  /\ call[c].ready
  /\ call[c].fresh
  /\ replay' = [replay EXCEPT ![k] = r]
  /\ status' = [status EXCEPT ![k] = s]
  /\ EndCall(c, k)

\* What the ledger replays to after one more event, or two.
Then(k, e) == NextStatus(replay[k], e)
ThenBoth(k, e, f) == NextStatus(NextStatus(replay[k], e), f)

FenceIgnoringGeneration(c, k) ==
  handle[c].work = k /\ lease[k].held /\ lease[k].live

\* append_fenced: the token and generation of the caller's lease are those of
\* the row, and the row is unreleased and unexpired.
Fence(c, k) ==
  /\ handle[c].work = k
  /\ lease[k].gen = handle[c].gen
  /\ lease[k].held
  /\ lease[k].live

\* released_at is set on the exact lease the caller holds.
ReleaseLease(k) == lease' = [lease EXCEPT ![k].held = FALSE, ![k].live = FALSE]

-----------------------------------------------------------------------------
(* Registration and the reads that open a call.                            *)

\* register: request event, outbox row and work item in one transaction; the
\* expected version 0 makes a second registration of the same id fail.
Register(k) ==
  /\ status[k] = "none"
  /\ status' = [status EXCEPT ![k] = "requested"]
  /\ replay' = [replay EXCEPT ![k] = Then(k, "requested")]
  /\ due' = [due EXCEPT ![k] = TRUE]
  /\ UNCHANGED <<attempt, cancel, lease, requeues, approval, call, handle>>

Open(c, record) ==
  /\ call[c] = Idle
  /\ call' = [call EXCEPT ![c] = record]
  /\ UNCHANGED <<rows, handle>>

\* An operation whose first read is the stream version.
OpenAtVersion(c, k, op) ==
  Open(c, [op |-> op, work |-> k, ready |-> TRUE, fresh |-> TRUE,
           gen |-> 0, attempt |-> 0, seen |-> "none", cancel |-> FALSE])

\* An operation that reads rows first: a generation, an attempt number, a
\* status, a cancel flag.
OpenAtRows(c, k, op, gen, n, s, flag) ==
  Open(c, [op |-> op, work |-> k, ready |-> FALSE, fresh |-> FALSE,
           gen |-> gen, attempt |-> n, seen |-> s, cancel |-> flag])

\* What the supervisor may call with the lease it was granted: start once,
\* heartbeat and succeed only after start returned, cancel or release any
\* time, and fail after start returned or raised.
MayCall(c, op) ==
  /\ op = "start" => handle[c].phase = "claimed"
  /\ op \in {"heartbeat", "succeed"} => handle[c].phase = "running"
  /\ op = "fail" => handle[c].phase \in {"running", "start_failed"}

BeginFenced(c, op) ==
  /\ handle[c] # NoHandle
  /\ MayCall(c, op)
  /\ OpenAtVersion(c, handle[c].work, op)

BeginMarkPublished(c, k) ==
  status[k] # "none" /\ OpenAtVersion(c, k, "mark_published")

BeginRequeue(c, k) == status[k] # "none" /\ OpenAtVersion(c, k, "requeue")

AttemptsLeftOffByOne(k) == attempt[k] <= MaxAttempts

AttemptsLeft(k) == attempt[k] < MaxAttempts

\* claim reads attempt and generation before it reads the version.
ClaimRead(c, k) ==
  /\ Quota > 0
  /\ status[k] \in {"published", "retry_wait"}
  /\ ~cancel[k]
  /\ AttemptsLeft(k)
  /\ OpenAtRows(c, k, "claim", lease[k].gen + 1, attempt[k] + 1, "none", FALSE)

\* request_cancel reads the status before it reads the version.
RequestCancelRead(c, k) ==
  /\ status[k] \in Queued \cup Active
  /\ OpenAtRows(c, k, "request_cancel", 0, 0, status[k], FALSE)

\* reconcile_expired lists the leases that are expired by the clock of the
\* caller, which need not be that of the database, with the row's attempt and
\* cancel flag.
ExpiredRead(c, k) ==
  /\ lease[k].held
  /\ OpenAtRows(c, k, "expire", lease[k].gen, attempt[k], "none", cancel[k])

\* reconcile_expired also lists queued items whose publication is old.
RedriveRead(c, k) ==
  /\ status[k] \in Queued
  /\ ~lease[k].held
  /\ OpenAtRows(c, k, "redrive", 0, 0, "none", FALSE)

ReadVersion(c) ==
  /\ call[c] # Idle
  /\ ~call[c].ready
  /\ call' = [call EXCEPT ![c].ready = TRUE, ![c].fresh = TRUE]
  /\ UNCHANGED <<rows, handle>>

-----------------------------------------------------------------------------
(* Commits that need no lease.                                             *)

MarkPublished(c, k) ==
  /\ status[k] \in {"requested", "retry_wait"}
  /\ Append(c, k, "mark_published", Then(k, "published"), "published")
  /\ UNCHANGED <<attempt, cancel, due, lease, requeues, approval, handle>>

ActiveCountRunningOnly == Cardinality({k \in Works : status[k] = "running"})

ActiveCount == Cardinality({k \in Works : status[k] \in Active})

GrantKeepingOwner(c, k) ==
  lease' = [lease EXCEPT ![k].gen = call[c].gen, ![k].held = TRUE, ![k].live = TRUE]

\* The lease row is inserted, or replaced where its generation is the one read.
GrantLease(c, k) ==
  lease' = [lease EXCEPT ![k] =
              [gen |-> call[c].gen, owner |-> c, held |-> TRUE, live |-> TRUE]]

\* The mutation of claim, under the tenant commit lock: quota, compare and set
\* of the attempt, then the lease row of the next generation.
Claim(c, k) ==
  /\ ActiveCount < Quota
  /\ attempt[k] = call[c].attempt - 1
  /\ status[k] \in {"published", "retry_wait"}
  /\ due[k]
  /\ ~cancel[k]
  /\ lease[k].gen = call[c].gen - 1
  /\ Append(c, k, "claim", Then(k, "claimed"), "claimed")
  /\ attempt' = [attempt EXCEPT ![k] = call[c].attempt]
  /\ GrantLease(c, k)
  /\ handle' = [handle EXCEPT ![c] =
                  [work |-> k, gen |-> call[c].gen, attempt |-> call[c].attempt,
                   phase |-> "claimed"]]
  /\ UNCHANGED <<cancel, due, requeues, approval>>

SeenStatusUnchecked(c, k) == status[k] # "none"

\* The UPDATE of request_cancel is conditional on the status it decided from.
SeenStatusHolds(c, k) == status[k] = call[c].seen

\* A queued item is cancelled on the spot; an active one is only flagged.
RequestCancel(c, k) ==
  /\ SeenStatusHolds(c, k)
  /\ \/ /\ call[c].seen \in Queued
        /\ Append(c, k, "request_cancel",
                  ThenBoth(k, "cancel_requested", "cancelled"), "cancelled")
     \/ /\ call[c].seen \in Active
        /\ Append(c, k, "request_cancel", Then(k, "cancel_requested"), status[k])
  /\ cancel' = [cancel EXCEPT ![k] = TRUE]
  /\ UNCHANGED <<attempt, due, lease, requeues, approval, handle>>

StillExpiredIgnoringCancel(c, k) ==
  /\ lease[k].gen = call[c].gen
  /\ lease[k].held
  /\ ~lease[k].live
  /\ status[k] \in Active

\* expire_projection: the cancel flag, the lease and its expiry are read again.
StillExpired(c, k) ==
  /\ cancel[k] = call[c].cancel
  /\ lease[k].gen = call[c].gen
  /\ lease[k].held
  /\ ~lease[k].live
  /\ status[k] \in Active

ExpireLease(c, k) ==
  /\ StillExpired(c, k)
  /\ \/ /\ call[c].cancel
        /\ Append(c, k, "expire", ThenBoth(k, "lease_expired", "cancelled"),
                  "cancelled")
        /\ due' = [due EXCEPT ![k] = TRUE]
     \/ /\ ~call[c].cancel
        /\ call[c].attempt >= MaxAttempts
        /\ Append(c, k, "expire", ThenBoth(k, "lease_expired", "dead_lettered"),
                  "dead_letter")
        /\ UNCHANGED due
     \/ /\ ~call[c].cancel
        /\ call[c].attempt < MaxAttempts
        /\ Append(c, k, "expire", ThenBoth(k, "lease_expired", "reconciled"),
                  "retry_wait")
        /\ due' = [due EXCEPT ![k] = TRUE]
  /\ ReleaseLease(k)
  /\ UNCHANGED <<attempt, cancel, requeues, approval, handle>>

\* The redrive of an old publication only appends its event to the ledger; the
\* outbox row it resets belongs to the transport.
Redrive(c, k) ==
  /\ status[k] \in Queued
  /\ ~lease[k].held
  /\ Append(c, k, "redrive", Then(k, "reconciled"), status[k])
  /\ UNCHANGED <<attempt, cancel, due, lease, requeues, approval, handle>>

ApprovalOpenReusable(k, a, actor) ==
  /\ approval[a].work = k
  /\ approval[a].live
  /\ approval[a].by # actor

\* The approval row requeue_dead_letter locks.
ApprovalOpen(k, a, actor) ==
  /\ approval[a].work = k
  /\ approval[a].consumer = None
  /\ approval[a].live
  /\ approval[a].by # actor

\* requeue_dead_letter: an open approval of this work by another actor is
\* consumed together with the move back to retry_wait.
RequeueDeadLetter(c, k, a, actor) ==
  /\ ApprovalOpen(k, a, actor)
  /\ status[k] = "dead_letter"
  /\ Append(c, k, "requeue", Then(k, "retry_scheduled"), "retry_wait")
  /\ attempt' = [attempt EXCEPT ![k] = 0]
  /\ cancel' = [cancel EXCEPT ![k] = FALSE]
  /\ due' = [due EXCEPT ![k] = TRUE]
  /\ approval' = [approval EXCEPT ![a].consumer = actor]
  /\ requeues' = [requeues EXCEPT ![k] = @ + 1]
  /\ UNCHANGED <<lease, handle>>

\* approve_dead_letter_requeue is one INSERT ... SELECT over the current rows.
ApproveDeadLetterRequeue(k, a, actor) ==
  /\ approval[a].work = None
  /\ status[k] = "dead_letter"
  /\ approval' = [approval EXCEPT ![a] =
                    [work |-> k, by |-> actor, live |-> TRUE, consumer |-> None]]
  /\ UNCHANGED <<status, replay, attempt, cancel, due, lease, requeues, call,
                 handle>>

-----------------------------------------------------------------------------
(* Commits under the caller's lease.                                       *)

Start(c, k) ==
  /\ Fence(c, k)
  /\ status[k] = "claimed"
  /\ Append(c, k, "start", Then(k, "started"), "running")
  /\ handle' = [handle EXCEPT ![c].phase = "running"]
  /\ UNCHANGED <<attempt, cancel, due, lease, requeues, approval>>

\* The renewal moves expires_at, so the lease stays unexpired.
Heartbeat(c, k) ==
  /\ Fence(c, k)
  /\ lease[k].owner = c
  /\ Append(c, k, "heartbeat", Then(k, "heartbeat"), status[k])
  /\ UNCHANGED <<attempt, cancel, due, lease, requeues, approval, handle>>

\* _complete_in_transaction refuses once a cancellation was requested.
Succeed(c, k) ==
  /\ Fence(c, k)
  /\ status[k] \in Active
  /\ ~cancel[k]
  /\ Append(c, k, "succeed", Then(k, "succeeded"), "succeeded")
  /\ ReleaseLease(k)
  /\ UNCHANGED <<attempt, cancel, due, requeues, approval, handle>>

Cancel(c, k) ==
  /\ Fence(c, k)
  /\ status[k] \in Active
  /\ cancel[k]
  /\ Append(c, k, "cancel", Then(k, "cancelled"), "cancelled")
  /\ ReleaseLease(k)
  /\ UNCHANGED <<attempt, cancel, due, requeues, approval, handle>>

\* fail of a retryable class with attempts left: back to retry_wait, not yet due.
FailRetry(c, k) ==
  /\ Fence(c, k)
  /\ handle[c].attempt < MaxAttempts
  /\ status[k] = "running"
  /\ ~cancel[k]
  /\ Append(c, k, "fail", ThenBoth(k, "failed", "retry_scheduled"), "retry_wait")
  /\ due' = [due EXCEPT ![k] = FALSE]
  /\ ReleaseLease(k)
  /\ UNCHANGED <<attempt, cancel, requeues, approval, handle>>

\* fail of a permanent class, or with no attempts left.
FailTerminal(c, k, retryable) ==
  /\ Fence(c, k)
  /\ ~retryable \/ handle[c].attempt >= MaxAttempts
  /\ status[k] \in Active
  /\ ~cancel[k]
  /\ Append(c, k, "fail", ThenBoth(k, "failed", "dead_lettered"), "dead_letter")
  /\ ReleaseLease(k)
  /\ UNCHANGED <<attempt, cancel, due, requeues, approval, handle>>

Release(c, k) ==
  /\ Fence(c, k)
  /\ status[k] \in Active
  /\ ~cancel[k]
  /\ Append(c, k, "release", Then(k, "retry_scheduled"), "retry_wait")
  /\ due' = [due EXCEPT ![k] = FALSE]
  /\ ReleaseLease(k)
  /\ UNCHANGED <<attempt, cancel, requeues, approval, handle>>

-----------------------------------------------------------------------------
(* Calls that end without a commit, and the passage of time.               *)

\* The transaction rolls back: a lost race, a fence or a storage error.
Rollback(c) ==
  /\ call[c] # Idle
  /\ call[c].op # "start"
  /\ call' = [call EXCEPT ![c] = Idle]
  /\ UNCHANGED <<rows, handle>>

\* start() raises something other than FencingError: the fence holds but the
\* version moved, or the storage failed.  The supervisor reports a worker bug.
StartFails(c) ==
  /\ call[c].op = "start"
  /\ handle[c] # NoHandle
  /\ \/ StorageFaults
     \/ Fence(c, call[c].work) /\ ~call[c].fresh
  /\ call' = [call EXCEPT ![c] = Idle]
  /\ handle' = [handle EXCEPT ![c].phase = "start_failed"]
  /\ UNCHANGED rows

\* start() raises FencingError, and the caller may still try to cancel.
StartFenced(c) ==
  /\ call[c].op = "start"
  /\ \/ ~Fence(c, call[c].work)
     \/ call[c].fresh /\ status[call[c].work] # "claimed"
  /\ call' = [call EXCEPT ![c] = Idle]
  /\ UNCHANGED <<rows, handle>>

\* The caller crashes, or moves on to other work: lease and call are forgotten,
\* the rows stay as they are.
Abandon(c) ==
  /\ handle[c] # NoHandle \/ call[c] # Idle
  /\ call' = [call EXCEPT ![c] = Idle]
  /\ handle' = [handle EXCEPT ![c] = NoHandle]
  /\ UNCHANGED rows

LeaseRunsOut(k) ==
  /\ lease[k].held
  /\ lease[k].live
  /\ lease' = [lease EXCEPT ![k].live = FALSE]
  /\ UNCHANGED <<status, replay, attempt, cancel, due, requeues, approval, call,
                 handle>>

BecomesDue(k) ==
  /\ status[k] # "none"
  /\ ~due[k]
  /\ due' = [due EXCEPT ![k] = TRUE]
  /\ UNCHANGED <<status, replay, attempt, cancel, lease, requeues, approval, call,
                 handle>>

ApprovalRunsOut(a) ==
  /\ approval[a].live
  /\ approval' = [approval EXCEPT ![a].live = FALSE]
  /\ UNCHANGED <<status, replay, attempt, cancel, due, lease, requeues, call,
                 handle>>

-----------------------------------------------------------------------------

FencedCommit(c, k) ==
  \/ Start(c, k) \/ Heartbeat(c, k) \/ Succeed(c, k) \/ Cancel(c, k)
  \/ FailRetry(c, k) \/ Release(c, k)
  \/ \E retryable \in BOOLEAN : FailTerminal(c, k, retryable)

Commit(c, k) ==
  \/ MarkPublished(c, k) \/ Claim(c, k) \/ RequestCancel(c, k)
  \/ ExpireLease(c, k) \/ Redrive(c, k)
  \/ \E a \in Approvals, actor \in Actors : RequeueDeadLetter(c, k, a, actor)
  \/ FencedCommit(c, k)

Read(c, k) ==
  \/ BeginMarkPublished(c, k) \/ BeginRequeue(c, k) \/ ClaimRead(c, k)
  \/ RequestCancelRead(c, k) \/ ExpiredRead(c, k) \/ RedriveRead(c, k)

CallerStep(c) ==
  \/ \E k \in Works : Read(c, k) \/ Commit(c, k)
  \/ \E op \in FencedOps : BeginFenced(c, op)
  \/ ReadVersion(c) \/ Rollback(c) \/ StartFails(c) \/ StartFenced(c) \/ Abandon(c)

Environment ==
  \/ \E k \in Works : Register(k) \/ LeaseRunsOut(k) \/ BecomesDue(k)
  \/ \E k \in Works, a \in Approvals, actor \in Actors :
       ApproveDeadLetterRequeue(k, a, actor)
  \/ \E a \in Approvals : ApprovalRunsOut(a)

Next == Environment \/ \E c \in Callers : CallerStep(c)

Spec == Init /\ [][Next]_vars

-----------------------------------------------------------------------------
(* Properties.                                                             *)

\* A work item is claimed or running exactly while its lease row is unreleased:
\* the status update and the lease update of claim, fail, succeed, cancel,
\* release and reconciliation never come apart.
LeaseMatchesStatus ==
  \A k \in Works : status[k] \in Active <=> lease[k].held

\* The status work_items holds is the status next_status() reconstructs from
\* the ledger of the item.
LedgerReplays == \A k \in Works : replay[k] = status[k]

\* A requested cancellation is never lost to a racing claim, success, failure
\* or reconciliation: the item is cancelled or still active, nothing else.
CancelWins ==
  \A k \in Works : cancel[k] => status[k] \in Active \cup {"cancelled"}

\* The tenant never has more than max_concurrent_runs items claimed or running,
\* however many claims read the count before it changed.
QuotaRespected == ActiveCount <= Quota

\* At most one caller holds the current generation of a lease, and it is the
\* owner of the row.
SoleHolder ==
  \A k \in Works, c \in Callers :
    /\ handle[c].work = k /\ handle[c].gen = lease[k].gen => lease[k].owner = c
    /\ handle[c].work = k => handle[c].gen <= lease[k].gen

\* What the supervisor remembers of the lease it holds is the status of the
\* row: it never calls succeed or fail on work that start() did not move to
\* running, unless a cancellation is pending or the storage failed in start().
HolderKnowsStatus ==
  \A k \in Works, c \in Callers :
    handle[c].work = k /\ handle[c].gen = lease[k].gen /\ lease[k].held =>
      /\ handle[c].phase = "running" <=> status[k] = "running"
      /\ handle[c].phase = "start_failed" => cancel[k] \/ StorageFaults

\* Each requeue of a dead letter consumed one approval, given by somebody else.
RequeuesApproved ==
  /\ \A k \in Works :
       requeues[k] = Cardinality({a \in Approvals :
                        approval[a].work = k /\ approval[a].consumer # None})
  /\ \A a \in Approvals :
       approval[a].consumer # None => approval[a].consumer # approval[a].by

\* A fenced call is one its lease allows, and the version start() read moves
\* under a held lease only because of a request to cancel.
CallsFollowHandle ==
  \A c \in Callers :
    call[c].op \in FencedOps =>
      /\ handle[c] # NoHandle
      /\ call[c].work = handle[c].work
      /\ MayCall(c, call[c].op)
      /\ call[c].op = "start" /\ ~call[c].fresh =>
           LET k == call[c].work IN
           lease[k].held /\ lease[k].gen = handle[c].gen => cancel[k]

MovesAreTheOwners ==
  \A k \in Works :
    lease[k].held /\ lease[k].live /\ status'[k] # status[k] =>
      /\ lease[k].owner \in Callers
      /\ call[lease[k].owner].work = k
      /\ call[lease[k].owner].op \in FencedOps
      /\ call'[lease[k].owner] = Idle

\* While a lease is unexpired nobody but its owner changes the status of the
\* work: stale workers, other claims and the reconciler are all fenced off.
OnlyOwnerMoves == [][MovesAreTheOwners]_vars

GenerationStep ==
  \A k \in Works :
    \/ /\ lease'[k].gen = lease[k].gen
       /\ lease'[k].owner = lease[k].owner
       /\ lease'[k].held => lease[k].held
    \/ /\ lease'[k].gen = lease[k].gen + 1
       /\ ~lease[k].held

\* A generation is never reused: a lease row changes hands only to the next
\* generation, and keeps its generation otherwise, across requeues too.
GenerationsAdvance == [][GenerationStep]_vars

LeavesTerminalByRequeue ==
  \A k \in Works :
    status[k] \in TerminalStatuses /\ status'[k] # status[k] =>
      /\ status[k] = "dead_letter"
      /\ status'[k] = "retry_wait"
      /\ \E a \in Approvals : /\ approval[a].work = k
                              /\ approval[a].consumer = None
                              /\ approval'[a].consumer # None

\* Succeeded and cancelled work never moves again; a dead letter moves only by
\* a step that consumes an approval for it.
TerminalIsFinal == [][LeavesTerminalByRequeue]_vars

LeaseView ==
  [k \in Works |->
     [gen |-> lease[k].gen, held |-> lease[k].held, live |-> lease[k].live]]

Lifecycle == INSTANCE WorkLifecycle WITH lease <- LeaseView

\* The reads, versions and conditional updates of PostgresWorkRepository
\* together amount to operations that take effect at one instant on the rows
\* of that instant, as WorkerStateStore promises.
ImplementsLifecycle == Lifecycle!Spec

Fencing == INSTANCE FencedLease WITH
  Items <- Works,
  generation <- [k \in Works |-> lease[k].gen],
  inForce <- [k \in Works |-> lease[k].held /\ lease[k].live]

\* work_leases holds fenced leases: what ModelBudget takes for granted when it writes
\* under one.
ImplementsLease == Fencing!Spec
=============================================================================
