------------------------- MODULE WorkLedgerTheorems -------------------------
(***************************************************************************)
(* The theorems about WorkLedger that rest on the invariants RowsInv and   *)
(* HolderInv of WorkLedgerProofs: the ledger replays to the status rows,   *)
(* the tenant quota, the requeue approvals, the action properties, and the *)
(* refinement of WorkLifecycle.                                            *)
(***************************************************************************)
EXTENDS WorkLedgerProofs

-----------------------------------------------------------------------------
(* The ledger replays to the status of the row.                            *)

LEMMA AppendReplays ==
  ASSUME TypeOK, LedgerReplays, NEW c \in Callers, NEW k \in Works, NEW op, NEW s,
         Append(c, k, op, s, s)
  PROVE  LedgerReplays'
BY AppendFacts DEF LedgerReplays

LEMMA UnfencedReplays ==
  ASSUME TypeOK, LedgerReplays, NEW c \in Callers, NEW k \in Works,
         Commit(c, k), ~FencedCommit(c, k)
  PROVE  LedgerReplays'
<1> DEFINE s == status[k]
<1>1. replay[k] = s
  BY Zenon DEF LedgerReplays
<1> USE DEF Then, ThenBoth, NextStatus, Sources, Target, Queued, Active
<1>2. CASE MarkPublished(c, k)
  <2>1. Then(k, "published") = "published"
    BY <1>1, <1>2, Zenon DEF MarkPublished
  <2>2. QED
    BY <1>2, <2>1, AppendReplays, Zenon DEF MarkPublished
<1>3. CASE Claim(c, k)
  <2>1. Then(k, "claimed") = "claimed"
    BY <1>1, <1>3, Zenon DEF Claim
  <2>2. QED
    BY <1>3, <2>1, AppendReplays, Zenon DEF Claim
<1>4. CASE RequestCancel(c, k)
  <2>1. CASE call[c].seen \in Queued
    <3>1. s \in Queued
      BY <1>4, <2>1, Zenon DEF RequestCancel, SeenStatusHolds
    <3>2. ThenBoth(k, "cancel_requested", "cancelled") = "cancelled"
      BY <1>1, <3>1, Zenon
    <3>3. Then(k, "cancel_requested") = s
      BY <1>1, <3>1, Zenon
    <3>4. QED
      BY <1>4, <3>2, <3>3, AppendReplays, Zenon DEF RequestCancel
  <2>2. CASE call[c].seen \in Active
    <3>1. s \in Active /\ call[c].seen \notin Queued
      BY <1>4, <2>2, Zenon DEF RequestCancel, SeenStatusHolds
    <3>2. Then(k, "cancel_requested") = s
      BY <1>1, <3>1, Zenon
    <3>3. QED
      BY <1>4, <3>1, <3>2, AppendReplays, Zenon DEF RequestCancel
  <2>3. QED
    BY <1>4, <2>1, <2>2, Zenon DEF RequestCancel
<1>5. CASE ExpireLease(c, k)
  <2>1. s \in Active
    BY <1>5, Zenon DEF ExpireLease, StillExpired
  <2>2. /\ ThenBoth(k, "lease_expired", "cancelled") = "cancelled"
        /\ ThenBoth(k, "lease_expired", "dead_lettered") = "dead_letter"
        /\ ThenBoth(k, "lease_expired", "reconciled") = "retry_wait"
    BY <1>1, <2>1, Zenon
  <2>3. QED
    BY <1>5, <2>2, AppendReplays, Zenon DEF ExpireLease
<1>6. CASE Redrive(c, k)
  <2>1. Then(k, "reconciled") = s
    BY <1>1, <1>6, Zenon DEF Redrive
  <2>2. QED
    BY <1>6, <2>1, AppendReplays, Zenon DEF Redrive
<1>7. ASSUME NEW a \in Approvals, NEW actor \in Actors, RequeueDeadLetter(c, k, a, actor)
      PROVE  LedgerReplays'
  <2>1. Then(k, "retry_scheduled") = "retry_wait"
    BY <1>1, <1>7, Zenon DEF RequeueDeadLetter
  <2>2. QED
    BY <1>7, <2>1, AppendReplays, Zenon DEF RequeueDeadLetter
<1>8. QED
  BY <1>2, <1>3, <1>4, <1>5, <1>6, <1>7, Zenon DEF Commit

\* Here the phase of the holder matters: success and failure are only valid
\* events of running work, and the UPDATE statements do not check that.
LEMMA FencedReplays ==
  ASSUME StorageFaults = FALSE, TypeOK, LedgerReplays, HolderInv,
         NEW c \in Callers, NEW k \in Works, FencedCommit(c, k)
  PROVE  LedgerReplays'
<1> DEFINE s == status[k]
<1>1. replay[k] = s
  BY Zenon DEF LedgerReplays
<1>2. Follows(c) /\ HolderKnowsStatus
  BY Zenon DEF HolderInv
<1> USE DEF Then, ThenBoth, NextStatus, Sources, Target, Queued, Active
<1>3. CASE Start(c, k)
  <2>1. Then(k, "started") = "running"
    BY <1>1, <1>3, Zenon DEF Start
  <2>2. QED
    BY <1>3, <2>1, AppendReplays, Zenon DEF Start
<1>4. CASE Heartbeat(c, k)
  <2>1. call[c].op = "heartbeat" /\ Fence(c, k)
    BY <1>4, Zenon DEF Heartbeat, Append
  <2>2. s = "running"
    BY <1>2, <2>1, Zenon DEF Follows, MayCall, FencedOps, Fence, HolderKnowsStatus
  <2>3. Then(k, "heartbeat") = s
    BY <1>1, <2>2, Zenon
  <2>4. QED
    BY <1>4, <2>3, AppendReplays, Zenon DEF Heartbeat
<1>5. CASE Succeed(c, k)
  <2>1. call[c].op = "succeed" /\ Fence(c, k)
    BY <1>5, Zenon DEF Succeed, Append
  <2>2. s = "running"
    BY <1>2, <2>1, Zenon DEF Follows, MayCall, FencedOps, Fence, HolderKnowsStatus
  <2>3. Then(k, "succeeded") = "succeeded"
    BY <1>1, <2>2, Zenon
  <2>4. QED
    BY <1>5, <2>3, AppendReplays, Zenon DEF Succeed
<1>6. CASE Cancel(c, k)
  <2>1. Then(k, "cancelled") = "cancelled"
    BY <1>1, <1>6, Zenon DEF Cancel
  <2>2. QED
    BY <1>6, <2>1, AppendReplays, Zenon DEF Cancel
<1>7. CASE FailRetry(c, k)
  <2>1. ThenBoth(k, "failed", "retry_scheduled") = "retry_wait"
    BY <1>1, <1>7, Zenon DEF FailRetry
  <2>2. QED
    BY <1>7, <2>1, AppendReplays, Zenon DEF FailRetry
<1>8. ASSUME NEW retryable \in BOOLEAN, FailTerminal(c, k, retryable)
      PROVE  LedgerReplays'
  <2>1. call[c].op = "fail" /\ Fence(c, k) /\ ~cancel[k]
    BY <1>8, Zenon DEF FailTerminal, Append
  <2>2. handle[c].phase \in {"running", "start_failed"}
    BY <1>2, <2>1, Zenon DEF Follows, MayCall, FencedOps
  <2>3. s = "running"
    BY <1>2, <2>1, <2>2, Zenon DEF Fence, HolderKnowsStatus
  <2>4. ThenBoth(k, "failed", "dead_lettered") = "dead_letter"
    BY <1>1, <2>3, Zenon
  <2>5. QED
    BY <1>8, <2>4, AppendReplays, Zenon DEF FailTerminal
<1>9. CASE Release(c, k)
  <2>1. Then(k, "retry_scheduled") = "retry_wait"
    BY <1>1, <1>9, Zenon DEF Release
  <2>2. QED
    BY <1>9, <2>1, AppendReplays, Zenon DEF Release
<1>10. QED
  BY <1>3, <1>4, <1>5, <1>6, <1>7, <1>8, <1>9, Zenon DEF FencedCommit

\* A step that is no commit changes the ledger and the status of at most a work
\* that is being registered.
LEMMA NoCommitRows ==
  ASSUME [Next]_vars, ~\E c \in Callers, k \in Works : Commit(c, k)
  PROVE  \/ UNCHANGED <<status, replay>>
         \/ \E k \in Works : Register(k)
<1>1. ASSUME NEW c \in Callers, NEW k \in Works, Read(c, k)
      PROVE  UNCHANGED <<status, replay>>
  BY <1>1, Zenon DEF Read, BeginMarkPublished, BeginRequeue, ClaimRead, RequestCancelRead,
    ExpiredRead, RedriveRead, OpenAtRows, OpenAtVersion, Open, rows
<1>2. ASSUME NEW c \in Callers,
             \/ \E op \in FencedOps : BeginFenced(c, op)
             \/ ReadVersion(c) \/ Rollback(c) \/ StartFails(c)
             \/ StartFenced(c) \/ Abandon(c)
      PROVE  UNCHANGED <<status, replay>>
  BY <1>2, Zenon DEF BeginFenced, OpenAtVersion, Open, ReadVersion, Rollback, StartFails,
    StartFenced, Abandon, rows
<1>3. QED
  BY <1>1, <1>2, Zenon DEF Next, Environment, CallerStep, LeaseRunsOut, BecomesDue,
    ApproveDeadLetterRequeue, ApprovalRunsOut, vars

LEMMA ReplaysNext ==
  ASSUME StorageFaults = FALSE, RowsInv, HolderInv, LedgerReplays, [Next]_vars
  PROVE  LedgerReplays'
<1>1. TypeOK
  BY Zenon DEF RowsInv
<1>2. ASSUME NEW c \in Callers, NEW k \in Works, Commit(c, k)
      PROVE  LedgerReplays'
  BY <1>1, <1>2, UnfencedReplays, FencedReplays, Zenon
<1>3. ASSUME NEW k \in Works, Register(k)
      PROVE  LedgerReplays'
  <2>1. replay[k] = "none"
    BY <1>3, Zenon DEF Register, LedgerReplays
  <2>2. Then(k, "requested") = "requested"
    BY <2>1, Zenon DEF Then, NextStatus, Sources, Target
  <2>3. QED
    BY <1>1, <1>3, <2>2, Zenon DEF Register, LedgerReplays, TypeOK
<1>4. CASE UNCHANGED <<status, replay>>
  BY <1>4, Zenon DEF LedgerReplays
<1>5. QED
  BY <1>2, <1>3, <1>4, NoCommitRows, Zenon

\* Unless the storage fails inside start(), every sequence of events the
\* repository appends is one next_status() accepts, and it reconstructs the
\* status that work_items holds.
THEOREM ReplayIsFaithful ==
  ASSUME StorageFaults = FALSE
  PROVE  Spec => []LedgerReplays
<1>1. Init => LedgerReplays
  BY Zenon DEF Init, LedgerReplays
<1>2. RowsInv /\ HolderInv /\ LedgerReplays /\ [Next]_vars => LedgerReplays'
  BY ReplaysNext, Zenon
<1>3. QED
  BY <1>1, <1>2, RowsInvInit, RowsInvNext, HolderInvInit, HolderInvNext, PTL DEF Spec

-----------------------------------------------------------------------------
(* The quota of the tenant.                                                *)

ActiveWorks == {k \in Works : status[k] \in Active}

\* Every commit but a claim keeps queued and terminal work out of Active.
LEMMA CommitActivates ==
  ASSUME TypeOK, NEW c \in Callers, NEW k \in Works, Commit(c, k), ~Claim(c, k)
  PROVE  ActiveWorks' \subseteq ActiveWorks
<1> SUFFICES /\ status'[k] \in Active => status[k] \in Active
             /\ \A j \in Works \ {k} : status'[j] = status[j]
  BY Zenon DEF ActiveWorks
<1> USE DEF Active, Queued
<1>1. CASE MarkPublished(c, k)
  BY <1>1, AppendFacts DEF MarkPublished
<1>2. CASE RequestCancel(c, k)
  BY <1>2, AppendFacts DEF RequestCancel, SeenStatusHolds
<1>3. CASE ExpireLease(c, k)
  BY <1>3, AppendFacts DEF ExpireLease
<1>4. CASE Redrive(c, k)
  BY <1>4, AppendFacts DEF Redrive
<1>5. ASSUME NEW a \in Approvals, NEW actor \in Actors, RequeueDeadLetter(c, k, a, actor)
      PROVE  /\ status'[k] \in Active => status[k] \in Active
             /\ \A j \in Works \ {k} : status'[j] = status[j]
  BY <1>5, AppendFacts DEF RequeueDeadLetter
<1>6. CASE FencedCommit(c, k)
  <2>1. ASSUME NEW retryable \in BOOLEAN, FailTerminal(c, k, retryable)
        PROVE  /\ status'[k] \in Active => status[k] \in Active
               /\ \A j \in Works \ {k} : status'[j] = status[j]
    BY <2>1, AppendFacts DEF FailTerminal
  <2>2. QED
    BY <1>6, <2>1, AppendFacts
    DEF FencedCommit, Start, Heartbeat, Succeed, Cancel, FailRetry, Release
<1>7. QED
  BY <1>1, <1>2, <1>3, <1>4, <1>5, <1>6, Zenon DEF Commit

LEMMA QuotaNext ==
  ASSUME TypeOK, QuotaRespected, [Next]_vars
  PROVE  QuotaRespected'
<1>1. /\ IsFiniteSet(ActiveWorks) /\ IsFiniteSet(ActiveWorks')
      /\ Cardinality(ActiveWorks) \in Nat /\ Cardinality(ActiveWorks') \in Nat
  BY ConstantsAssumption, FS_Subset, FS_CardinalityType, Zenon DEF ActiveWorks
<1>2. ActiveCount = Cardinality(ActiveWorks) /\ ActiveCount' = Cardinality(ActiveWorks')
  BY Zenon DEF ActiveCount, ActiveWorks
<1>3. ASSUME NEW c \in Callers, NEW k \in Works, Claim(c, k)
      PROVE  QuotaRespected'
  <2>1. /\ status'[k] = "claimed" /\ \A j \in Works \ {k} : status'[j] = status[j]
        /\ ActiveCount < Quota
    BY <1>3, AppendFacts DEF Claim
  <2>2. ActiveWorks' = ActiveWorks \cup {k}
    BY <2>1, Zenon DEF ActiveWorks, Active
  <2>3. Cardinality(ActiveWorks') <= Cardinality(ActiveWorks) + 1
    BY <1>1, <2>2, FS_AddElement
  <2>4. QED
    BY <1>1, <1>2, <2>1, <2>3, ConstantsAssumption DEF QuotaRespected
<1>4. CASE ActiveWorks' \subseteq ActiveWorks
  <2>1. Cardinality(ActiveWorks') <= Cardinality(ActiveWorks)
    BY <1>1, <1>4, FS_Subset, Zenon
  <2>2. QED
    BY <1>1, <1>2, <2>1, ConstantsAssumption DEF QuotaRespected
<1>5. ASSUME NEW k \in Works, Register(k)
      PROVE  ActiveWorks' \subseteq ActiveWorks
  BY <1>5, Zenon DEF Register, TypeOK, ActiveWorks, Active
<1>6. ASSUME UNCHANGED <<status, replay>>
      PROVE  ActiveWorks' \subseteq ActiveWorks
  BY <1>6, Zenon DEF ActiveWorks
<1>7. QED
  BY <1>3, <1>4, <1>5, <1>6, CommitActivates, NoCommitRows, Zenon

\* claim counts the active items inside its transaction, so the tenant never
\* runs more than max_concurrent_runs items at once.
THEOREM QuotaHolds == Spec => []QuotaRespected
<1>1. Init => QuotaRespected
  <2>1. Init => {k \in Works : status[k] \in Active} = {}
    BY Zenon DEF Init, Active
  <2>2. QED
    BY <2>1, FS_EmptySet, ConstantsAssumption DEF QuotaRespected, ActiveCount
<1>2. QED
  BY <1>1, QuotaNext, TypeCorrect, PTL DEF Spec

-----------------------------------------------------------------------------
(* What a step may never do.                                               *)

\* A step that is no commit leaves the lease rows alone, but for the clock.
LEMMA NoCommitLease ==
  ASSUME TypeOK, [Next]_vars, ~\E c \in Callers, k \in Works : Commit(c, k)
  PROVE  \A k \in Works : /\ lease'[k].gen = lease[k].gen
                          /\ lease'[k].owner = lease[k].owner
                          /\ lease'[k].held = lease[k].held
<1>1. ASSUME NEW c \in Callers, NEW k \in Works, Read(c, k)
      PROVE  lease' = lease
  BY <1>1, Zenon DEF Read, BeginMarkPublished, BeginRequeue, ClaimRead, RequestCancelRead,
    ExpiredRead, RedriveRead, OpenAtRows, OpenAtVersion, Open, rows
<1>2. ASSUME NEW c \in Callers,
             \/ \E op \in FencedOps : BeginFenced(c, op)
             \/ ReadVersion(c) \/ Rollback(c) \/ StartFails(c)
             \/ StartFenced(c) \/ Abandon(c)
      PROVE  lease' = lease
  BY <1>2, Zenon DEF BeginFenced, OpenAtVersion, Open, ReadVersion, Rollback, StartFails,
    StartFenced, Abandon, rows
<1>3. ASSUME NEW j \in Works, LeaseRunsOut(j), NEW k \in Works
      PROVE  /\ lease'[k].gen = lease[k].gen
             /\ lease'[k].owner = lease[k].owner
             /\ lease'[k].held = lease[k].held
  BY <1>3, Zenon DEF LeaseRunsOut, TypeOK, Leases
<1>4. QED
  BY <1>1, <1>2, <1>3, Zenon DEF Next, Environment, CallerStep, Register, BecomesDue,
    ApproveDeadLetterRequeue, ApprovalRunsOut, vars

LEMMA GenerationStepNext ==
  ASSUME RowsInv, [Next]_vars
  PROVE  GenerationStep
<1>1. TypeOK
  BY Zenon DEF RowsInv
<1>2. ASSUME NEW c \in Callers, NEW k \in Works, Claim(c, k)
      PROVE  GenerationStep
  <2>1. ~lease[k].held
    BY <1>2, Zenon DEF Claim, RowsInv, LeaseMatchesStatus, Active
  <2>2. lease[k].gen \in Nat /\ call[c].gen \in Nat
    BY <1>1 DEF TypeOK, Leases, Calls, Idle
  <2>3. lease'[k].gen = lease[k].gen + 1
    BY <1>1, <1>2, <2>2 DEF Claim, GrantLease, TypeOK
  <2>4. \A j \in Works \ {k} : lease'[j] = lease[j]
    BY <1>1, <1>2, Zenon DEF Claim, GrantLease, TypeOK
  <2>5. QED
    BY <2>1, <2>3, <2>4, Zenon DEF GenerationStep
<1>3. ASSUME NEW k \in Works, ReleaseLease(k) \/ lease' = lease
      PROVE  GenerationStep
  BY <1>1, <1>3, ReleaseFacts, Zenon DEF GenerationStep
<1>4. ASSUME NEW c \in Callers, NEW k \in Works, Commit(c, k), ~Claim(c, k)
      PROVE  ReleaseLease(k) \/ lease' = lease
  BY <1>4, Zenon DEF Commit, FencedCommit, MarkPublished, RequestCancel, ExpireLease, Redrive,
    RequeueDeadLetter, Start, Heartbeat, Succeed, Cancel, FailRetry, FailTerminal, Release
<1>5. CASE ~\E c \in Callers, k \in Works : Commit(c, k)
  BY <1>1, <1>5, NoCommitLease, Zenon DEF GenerationStep
<1>6. QED
  BY <1>2, <1>3, <1>4, <1>5, Zenon

\* Fencing generations only grow, and only when a released lease is granted
\* again; no commit, requeue included, ever brings an old generation back.
THEOREM GenerationsNeverReused == Spec => GenerationsAdvance
<1>1. RowsInv /\ [Next]_vars => [GenerationStep]_vars
  BY GenerationStepNext, Zenon
<1>2. QED
  BY <1>1, RowsInvInit, RowsInvNext, PTL DEF Spec, GenerationsAdvance

LEMMA OwnerMovesNext ==
  ASSUME RowsInv, HolderInv, [Next]_vars
  PROVE  MovesAreTheOwners
<1>1. TypeOK /\ LeaseMatchesStatus
  BY Zenon DEF RowsInv
<1>2. SUFFICES ASSUME NEW k \in Works, lease[k].held, lease[k].live,
                      status'[k] # status[k]
               PROVE  /\ lease[k].owner \in Callers
                      /\ call[lease[k].owner].work = k
                      /\ call[lease[k].owner].op \in FencedOps
                      /\ call'[lease[k].owner] = Idle
  BY Zenon DEF MovesAreTheOwners
<1>3. status[k] \in Active
  BY <1>1, <1>2, Zenon DEF LeaseMatchesStatus
<1>4. PICK c \in Callers, j \in Works : Commit(c, j)
  <2>1. ASSUME NEW j \in Works, Register(j)
        PROVE  status'[k] = status[k]
    BY <1>1, <1>3, <2>1, Zenon DEF Register, TypeOK, Active
  <2>2. QED
    BY <1>2, <2>1, NoCommitRows, Zenon
<1>5. FencedCommit(c, k)
  <2>1. j = k
    <3>1. PICK op, r, s : Append(c, j, op, r, s)
      BY <1>4, Zenon DEF Commit, FencedCommit, MarkPublished, Claim, RequestCancel, ExpireLease,
        Redrive, RequeueDeadLetter, Start, Heartbeat, Succeed, Cancel, FailRetry,
        FailTerminal, Release
    <3>2. QED
      BY <1>1, <1>2, <3>1, AppendFacts
  <2>2. ~MarkPublished(c, k) /\ ~Claim(c, k) /\ ~ExpireLease(c, k) /\ ~Redrive(c, k)
    BY <1>2, <1>3, Zenon DEF MarkPublished, Claim, ExpireLease, StillExpired, Redrive, Active
  <2>3. \A a \in Approvals, actor \in Actors : ~RequeueDeadLetter(c, k, a, actor)
    BY <1>3, Zenon DEF RequeueDeadLetter, Active
  <2>4. ~RequestCancel(c, k)
    <3>1. SUFFICES ASSUME RequestCancel(c, k)
                   PROVE  FALSE
      OBVIOUS
    <3>2. call[c].seen \notin Queued
      BY <1>3, <3>1, Zenon DEF RequestCancel, SeenStatusHolds, Queued, Active
    <3>3. Append(c, k, "request_cancel", Then(k, "cancel_requested"), status[k])
      BY <3>1, <3>2, Zenon DEF RequestCancel
    <3>4. status'[k] = status[k]
      BY <1>1, <3>3, AppendFacts
    <3>5. QED
      BY <1>2, <3>4, Zenon
  <2>5. QED
    BY <1>4, <2>1, <2>2, <2>3, <2>4, Zenon DEF Commit
<1>6. Fence(c, k) /\ call[c].work = k /\ call[c].op \in FencedOps /\ EndCall(c, k)
  BY <1>5, Zenon DEF FencedCommit, Start, Heartbeat, Succeed, Cancel, FailRetry, FailTerminal,
    Release, Append, FencedOps
<1>7. lease[k].owner = c /\ call'[c] = Idle
  BY <1>6, Zenon DEF Fence, HolderInv, SoleHolder, EndCall
<1>8. QED
  BY <1>6, <1>7, Zenon

\* While a lease is unexpired, a worker with an older lease, another claim, the
\* reconciler and a requeue cannot move the work: only its owner can.
THEOREM OwnerMovesOnly == Spec => OnlyOwnerMoves
<1>1. RowsInv /\ HolderInv /\ [Next]_vars => [MovesAreTheOwners]_vars
  BY OwnerMovesNext, Zenon
<1>2. QED
  BY <1>1, RowsInvInit, RowsInvNext, HolderInvInit, HolderInvNext, PTL
  DEF Spec, OnlyOwnerMoves

LEMMA TerminalNext ==
  ASSUME TypeOK, [Next]_vars
  PROVE  LeavesTerminalByRequeue
<1>1. SUFFICES ASSUME NEW k \in Works, status[k] \in TerminalStatuses,
                      status'[k] # status[k]
               PROVE  /\ status[k] = "dead_letter"
                      /\ status'[k] = "retry_wait"
                      /\ \E a \in Approvals : /\ approval[a].work = k
                                              /\ approval[a].consumer = None
                                              /\ approval'[a].consumer # None
  BY Zenon DEF LeavesTerminalByRequeue
<1>2. PICK c \in Callers, j \in Works : Commit(c, j)
  <2>1. ASSUME NEW j \in Works, Register(j)
        PROVE  status'[k] = status[k]
    BY <1>1, <2>1, Zenon DEF Register, TypeOK, TerminalStatuses
  <2>2. QED
    BY <1>1, <2>1, NoCommitRows, Zenon
<1>3. j = k
  <2>1. PICK op, r, s : Append(c, j, op, r, s)
    BY <1>2, Zenon DEF Commit, FencedCommit, MarkPublished, Claim, RequestCancel, ExpireLease,
      Redrive, RequeueDeadLetter, Start, Heartbeat, Succeed, Cancel, FailRetry,
      FailTerminal, Release
  <2>2. QED
    BY <1>1, <2>1, AppendFacts
<1>4. status[k] \notin Queued \cup Active
  BY <1>1, Zenon DEF TerminalStatuses, Queued, Active
<1>5. ~FencedCommit(c, k)
  <2>1. ~Heartbeat(c, k)
    BY <1>1, AppendFacts DEF Heartbeat
  <2>2. QED
    BY <1>4, <2>1, Zenon DEF FencedCommit, Start, Succeed, Cancel, FailRetry, FailTerminal,
      Release, Active
<1>6. ~MarkPublished(c, k) /\ ~Claim(c, k) /\ ~ExpireLease(c, k) /\ ~Redrive(c, k)
  BY <1>4, Zenon DEF MarkPublished, Claim, ExpireLease, StillExpired, Redrive, Queued
<1>7. ~RequestCancel(c, k)
  BY <1>4, Zenon DEF RequestCancel, SeenStatusHolds
<1>8. PICK a \in Approvals, actor \in Actors : RequeueDeadLetter(c, k, a, actor)
  BY <1>2, <1>3, <1>5, <1>6, <1>7, Zenon DEF Commit
<1>9. status[k] = "dead_letter" /\ status'[k] = "retry_wait"
  BY <1>8, AppendFacts DEF RequeueDeadLetter
<1>10. approval'[a].consumer = actor
  BY <1>8, Zenon DEF RequeueDeadLetter, TypeOK, ApprovalRows
<1>11. QED
  BY <1>8, <1>9, <1>10, ConstantsAssumption, Zenon DEF RequeueDeadLetter, ApprovalOpen

\* Succeeded and cancelled work is final whatever calls are still in flight,
\* and a dead letter only leaves by consuming an approval of its requeue.
THEOREM TerminalHolds == Spec => TerminalIsFinal
<1>1. TypeOK /\ [Next]_vars => [LeavesTerminalByRequeue]_vars
  BY TerminalNext, Zenon
<1>2. QED
  BY <1>1, InitTyped, NextTyped, PTL DEF Spec, TerminalIsFinal

-----------------------------------------------------------------------------
(* Requeues and approvals.                                                 *)

Consumed(k) == {a \in Approvals : approval[a].work = k /\ approval[a].consumer # None}

\* Every other step leaves requeue counts and consumed approvals alone.
LEMMA OtherApprovals ==
  ASSUME [Next]_vars,
         ~\E c \in Callers, k \in Works, a \in Approvals, actor \in Actors :
            RequeueDeadLetter(c, k, a, actor)
  PROVE  /\ requeues' = requeues
         /\ \/ approval' = approval
            \/ \E k \in Works, a \in Approvals, actor \in Actors :
                 ApproveDeadLetterRequeue(k, a, actor)
            \/ \E a \in Approvals : ApprovalRunsOut(a)
<1>1. ASSUME NEW c \in Callers, NEW k \in Works, Read(c, k)
      PROVE  UNCHANGED <<requeues, approval>>
  BY <1>1, Zenon DEF Read, BeginMarkPublished, BeginRequeue, ClaimRead, RequestCancelRead,
    ExpiredRead, RedriveRead, OpenAtRows, OpenAtVersion, Open, rows
<1>2. ASSUME NEW c \in Callers,
             \/ \E op \in FencedOps : BeginFenced(c, op)
             \/ ReadVersion(c) \/ Rollback(c) \/ StartFails(c)
             \/ StartFenced(c) \/ Abandon(c)
      PROVE  UNCHANGED <<requeues, approval>>
  BY <1>2, Zenon DEF BeginFenced, OpenAtVersion, Open, ReadVersion, Rollback, StartFails,
    StartFenced, Abandon, rows
<1>3. ASSUME NEW c \in Callers, NEW k \in Works, Commit(c, k),
             ~\E a \in Approvals, actor \in Actors : RequeueDeadLetter(c, k, a, actor)
      PROVE  UNCHANGED <<requeues, approval>>
  BY <1>3, Zenon DEF Commit, FencedCommit, MarkPublished, Claim, RequestCancel, ExpireLease,
    Redrive, Start, Heartbeat, Succeed, Cancel, FailRetry, FailTerminal, Release
<1>4. QED
  BY <1>1, <1>2, <1>3 DEF Next, Environment, CallerStep, Register, BecomesDue,
    LeaseRunsOut, ApproveDeadLetterRequeue, ApprovalRunsOut, vars

LEMMA RequeuesNext ==
  ASSUME TypeOK, RequeuesApproved, [Next]_vars
  PROVE  RequeuesApproved'
<1>1. \A k \in Works : IsFiniteSet(Consumed(k))
  BY ConstantsAssumption, FS_Subset, Zenon DEF Consumed
<1>2. \A k \in Works : requeues[k] = Cardinality(Consumed(k))
  BY Zenon DEF RequeuesApproved, Consumed
<1>3. \A a \in Approvals : approval[a].consumer # None => approval[a].consumer # approval[a].by
  BY Zenon DEF RequeuesApproved
<1>4. SUFFICES /\ \A k \in Works : requeues'[k] = Cardinality(Consumed(k)')
               /\ \A a \in Approvals :
                    approval'[a].consumer # None => approval'[a].consumer # approval'[a].by
  BY Zenon DEF RequeuesApproved, Consumed
<1>5. ASSUME NEW c \in Callers, NEW k \in Works, NEW a \in Approvals, NEW actor \in Actors,
             RequeueDeadLetter(c, k, a, actor)
      PROVE  /\ \A j \in Works : requeues'[j] = Cardinality(Consumed(j)')
             /\ \A b \in Approvals :
                  approval'[b].consumer # None => approval'[b].consumer # approval'[b].by
  <2>1. /\ approval'[a].work = k /\ approval'[a].by = approval[a].by
        /\ approval'[a].consumer = actor
        /\ \A b \in Approvals \ {a} : approval'[b] = approval[b]
    BY <1>5, Zenon DEF RequeueDeadLetter, ApprovalOpen, TypeOK, ApprovalRows
  <2>2. approval[a].work = k /\ approval[a].consumer = None /\ approval[a].by # actor
    BY <1>5, Zenon DEF RequeueDeadLetter, ApprovalOpen
  <2>3. actor # None
    BY ConstantsAssumption, Zenon
  <2>4. a \notin Consumed(k) /\ Consumed(k)' = Consumed(k) \cup {a}
    BY <2>1, <2>2, <2>3, Zenon DEF Consumed
  <2>5. \A j \in Works \ {k} : Consumed(j)' = Consumed(j)
    BY <2>1, <2>2, <2>3, Zenon DEF Consumed
  <2>6. requeues'[k] = requeues[k] + 1 /\ \A j \in Works \ {k} : requeues'[j] = requeues[j]
    BY <1>5, Zenon DEF RequeueDeadLetter, TypeOK
  <2>7. Cardinality(Consumed(k)') = Cardinality(Consumed(k)) + 1
    BY <1>1, <2>4, FS_AddElement, Zenon
  <2>8. QED
    BY <1>2, <1>3, <2>1, <2>2, <2>5, <2>6, <2>7
<1>6. ASSUME NEW k \in Works, NEW a \in Approvals, NEW actor \in Actors,
             ApproveDeadLetterRequeue(k, a, actor)
      PROVE  /\ \A j \in Works : Consumed(j)' = Consumed(j)
             /\ \A b \in Approvals :
                  approval'[b].consumer # None => approval'[b].consumer # approval'[b].by
  BY <1>3, <1>6, ConstantsAssumption, Zenon DEF ApproveDeadLetterRequeue, TypeOK, Consumed
<1>7. ASSUME NEW a \in Approvals, ApprovalRunsOut(a)
      PROVE  /\ \A j \in Works : Consumed(j)' = Consumed(j)
             /\ \A b \in Approvals :
                  approval'[b].consumer # None => approval'[b].consumer # approval'[b].by
  <2>1. \A b \in Approvals : /\ approval'[b].work = approval[b].work
                             /\ approval'[b].by = approval[b].by
                             /\ approval'[b].consumer = approval[b].consumer
    BY <1>7, Zenon DEF ApprovalRunsOut, TypeOK, ApprovalRows
  <2>2. QED
    BY <1>3, <2>1 DEF Consumed
<1>8. ASSUME approval' = approval
      PROVE  /\ \A j \in Works : Consumed(j)' = Consumed(j)
             /\ \A b \in Approvals :
                  approval'[b].consumer # None => approval'[b].consumer # approval'[b].by
  BY <1>3, <1>8, Zenon DEF Consumed
<1>9. QED
  BY <1>2, <1>5, <1>6, <1>7, <1>8, OtherApprovals, Zenon

\* Every requeue of a dead letter consumed an approval of its own, given by an
\* actor other than the one who requeued.
THEOREM RequeuesAreApproved == Spec => []RequeuesApproved
<1>1. Init => RequeuesApproved
  <2>1. SUFFICES ASSUME Init
                 PROVE  RequeuesApproved
    OBVIOUS
  <2>2. \A k \in Works : Consumed(k) = {}
    BY <2>1, Zenon DEF Init, Consumed
  <2>3. QED
    BY <2>1, <2>2, FS_EmptySet, Zenon DEF Init, RequeuesApproved, Consumed
<1>2. QED
  BY <1>1, RequeuesNext, InitTyped, NextTyped, PTL DEF Spec

-----------------------------------------------------------------------------
(* WorkLedger implements WorkLifecycle: what PostgresWorkRepository does in *)
(* separate reads and commits looks to its callers like operations that    *)
(* take effect at one instant.                                             *)
(* The attempt number the reconciler read with a lease stays that of the    *)
(* row for as long as the lease it read is held.                           *)

Snapshot(c) ==
  call[c].op = "expire" =>
    LET k == call[c].work IN
    /\ call[c].gen <= lease[k].gen
    /\ call[c].gen = lease[k].gen /\ lease[k].held => call[c].attempt = attempt[k]

SnapshotInv == \A c \in Callers : Snapshot(c)

\* A call is over, or still about the same rows it read.
Continues(d) ==
  \/ call'[d] = Idle
  \/ /\ call'[d].op = call[d].op /\ call'[d].work = call[d].work
     /\ call'[d].gen = call[d].gen /\ call'[d].attempt = call[d].attempt

LEMMA CommitContinues ==
  ASSUME TypeOK, NEW c \in Callers, NEW k \in Works, EndCall(c, k), NEW d \in Callers
  PROVE  Continues(d)
<1>1. CASE d # c /\ call[d].work = k
  <2>1. call[d] \in Calls /\ call[d] # Idle
    BY <1>1, ConstantsAssumption DEF TypeOK, Idle
  <2>2. call'[d] = [call[d] EXCEPT !.fresh = FALSE]
    BY <1>1, Zenon DEF EndCall
  <2>3. QED
    BY <2>1, <2>2, Zenon DEF Calls, Continues
<1>2. QED
  BY <1>1, Zenon DEF EndCall, Continues

LEMMA IdleIsNoExpiry == Idle.op # "expire"
  BY Zenon DEF Idle

\* A step after which every held lease was held before, with the same attempt.
LEMMA SnapshotFrame ==
  ASSUME TypeOK, SnapshotInv,
         \A k \in Works : /\ lease'[k].gen = lease[k].gen
                          /\ lease'[k].held => lease[k].held /\ attempt'[k] = attempt[k],
         \A d \in Callers : Continues(d)
  PROVE  SnapshotInv'
<1>1. SUFFICES ASSUME NEW c \in Callers, call'[c].op = "expire"
               PROVE  Snapshot(c)'
  BY Zenon DEF SnapshotInv, Snapshot
<1>2. /\ call[c].op = "expire" /\ call'[c].work = call[c].work
      /\ call'[c].gen = call[c].gen /\ call'[c].attempt = call[c].attempt
  <2>1. Continues(c)
    BY <1>1, Zenon
  <2>2. QED
    BY <1>1, <2>1, IdleIsNoExpiry, Zenon DEF Continues
<1>3. call[c].work \in Works
  BY <1>2 DEF TypeOK, Calls, Idle
<1>4. QED
  BY <1>2, <1>3 DEF SnapshotInv, Snapshot

\* A claim moves the generation past every one the reconciler has read.
LEMMA SnapshotClaim ==
  ASSUME TypeOK, SnapshotInv, NEW c \in Callers, NEW k \in Works, Claim(c, k)
  PROVE  SnapshotInv'
<1>1. EndCall(c, k)
  BY Zenon DEF Claim, Append
<1>2. lease[k].gen \in Nat /\ call[c].gen \in Nat
  BY DEF TypeOK, Leases, Calls, Idle
<1>3. lease'[k].gen = lease[k].gen + 1 /\ \A j \in Works \ {k} : lease'[j] = lease[j]
  BY <1>2 DEF Claim, GrantLease, TypeOK
<1>4. \A j \in Works \ {k} : attempt'[j] = attempt[j]
  BY Zenon DEF Claim, TypeOK
<1>5. SUFFICES ASSUME NEW d \in Callers, call'[d].op = "expire"
               PROVE  Snapshot(d)'
  BY Zenon DEF SnapshotInv, Snapshot
<1>6. /\ call[d].op = "expire" /\ call'[d].work = call[d].work
      /\ call'[d].gen = call[d].gen /\ call'[d].attempt = call[d].attempt
  BY <1>1, <1>5, CommitContinues DEF Continues, Idle
<1>7. call[d].work \in Works /\ call[d].gen \in Nat
  BY <1>6 DEF TypeOK, Calls, Idle
<1>8. Snapshot(d)
  BY Zenon DEF SnapshotInv
<1>9. QED
  BY <1>2, <1>3, <1>4, <1>6, <1>7, <1>8 DEF Snapshot

\* What the reconciler remembers of the lease it read.
ReadOf(w, g, a, b) ==
  [op |-> "expire", work |-> w, ready |-> FALSE, fresh |-> FALSE, gen |-> g,
   attempt |-> a, seen |-> "none", cancel |-> b]

LEMMA ReadFields ==
  ASSUME NEW w, NEW g, NEW a, NEW b
  PROVE  LET r == ReadOf(w, g, a, b) IN r.work = w /\ r.gen = g /\ r.attempt = a
  BY Zenon DEF ReadOf

LEMMA SnapshotOpen ==
  ASSUME TypeOK, SnapshotInv, NEW c \in Callers, NEW k \in Works, Read(c, k)
  PROVE  SnapshotInv'
<1>1. UNCHANGED <<lease, attempt>> /\ \A d \in Callers \ {c} : call'[d] = call[d]
  BY Zenon DEF Read, BeginMarkPublished, BeginRequeue, ClaimRead, RequestCancelRead,
    ExpiredRead, RedriveRead, OpenAtRows, OpenAtVersion, Open, rows, TypeOK
<1>2. \A d \in Callers \ {c} : Snapshot(d)'
  BY <1>1, Zenon DEF SnapshotInv, Snapshot
<1>3. CASE ExpiredRead(c, k)
  <2>1. call'[c] = ReadOf(k, lease[k].gen, attempt[k], cancel[k])
    BY <1>3, Zenon DEF ReadOf, ExpiredRead, OpenAtRows, Open, TypeOK
  <2>2. lease[k].gen \in Nat
    BY Zenon DEF TypeOK, Leases
  <2>3. Snapshot(c)'
    <3>1. call'[c].work = k /\ call'[c].gen = lease[k].gen /\ call'[c].attempt = attempt[k]
      BY <2>1, ReadFields
    <3>2. lease'[k].gen = lease[k].gen /\ attempt'[k] = attempt[k] /\ lease[k].gen <= lease[k].gen
      BY <1>1, <2>2
    <3>3. QED
      BY <3>1, <3>2, Zenon DEF Snapshot
  <2>4. QED
    BY <1>2, <2>3, Zenon DEF SnapshotInv
<1>4. CASE ~ExpiredRead(c, k)
  <2>1. call'[c].op # "expire"
    BY <1>4 DEF Read, BeginMarkPublished, BeginRequeue, ClaimRead, RequestCancelRead,
      RedriveRead, OpenAtRows, OpenAtVersion, Open, TypeOK
  <2>2. QED
    BY <1>2, <2>1, Zenon DEF SnapshotInv, Snapshot
<1>5. QED
  BY <1>3, <1>4, Zenon

LEMMA SnapshotLocal ==
  ASSUME TypeOK, SnapshotInv, NEW c \in Callers,
         \/ \E op \in FencedOps : BeginFenced(c, op)
         \/ ReadVersion(c) \/ Rollback(c) \/ StartFails(c)
         \/ StartFenced(c) \/ Abandon(c)
  PROVE  SnapshotInv'
<1>1. UNCHANGED <<lease, attempt>>
  BY Zenon DEF BeginFenced, OpenAtVersion, Open, ReadVersion, Rollback, StartFails,
    StartFenced, Abandon, rows
<1>2. \A d \in Callers \ {c} : call'[d] = call[d]
  BY Zenon DEF BeginFenced, OpenAtVersion, Open, ReadVersion, Rollback, StartFails,
    StartFenced, Abandon, TypeOK
<1>3. CASE \E op \in FencedOps : BeginFenced(c, op)
  <2>1. call'[c].op \in FencedOps
    BY <1>3 DEF BeginFenced, OpenAtVersion, Open, TypeOK
  <2>2. QED
    BY <1>1, <1>2, <2>1, Zenon DEF SnapshotInv, Snapshot, FencedOps
<1>4. CASE ReadVersion(c)
  <2>1. call[c] \in Calls /\ call[c] # Idle
    BY <1>4, Zenon DEF ReadVersion, TypeOK
  <2>2. call'[c] = [call[c] EXCEPT !.ready = TRUE, !.fresh = TRUE]
    BY <1>4, Zenon DEF ReadVersion, TypeOK
  <2>3. Continues(c)
    BY <2>1, <2>2, Zenon DEF Calls, Continues
  <2>4. QED
    BY <1>1, <1>2, <2>3, SnapshotFrame, Zenon DEF Continues
<1>5. CASE Rollback(c) \/ StartFails(c) \/ StartFenced(c) \/ Abandon(c)
  <2>1. call'[c] = Idle
    BY <1>5, Zenon DEF Rollback, StartFails, StartFenced, Abandon, TypeOK
  <2>2. QED
    <3>1. call'[c].op # "expire"
      BY <2>1, IdleIsNoExpiry, Zenon
    <3>2. QED
      BY <1>1, <1>2, <3>1, Zenon DEF SnapshotInv, Snapshot
<1>6. QED
  BY <1>3, <1>4, <1>5, Zenon

LEMMA SnapshotNext ==
  ASSUME RowsInv, SnapshotInv, [Next]_vars
  PROVE  SnapshotInv'
<1>1. TypeOK /\ LeaseMatchesStatus
  BY Zenon DEF RowsInv
<1>2. ASSUME NEW c \in Callers, NEW k \in Works, Commit(c, k), ~Claim(c, k)
      PROVE  SnapshotInv'
  <2>1. EndCall(c, k)
    BY <1>2, Zenon DEF Commit, FencedCommit, MarkPublished, RequestCancel, ExpireLease, Redrive,
      RequeueDeadLetter, Start, Heartbeat, Succeed, Cancel, FailRetry, FailTerminal,
      Release, Append
  <2>2. \/ attempt' = attempt /\ (ReleaseLease(k) \/ lease' = lease)
        \/ /\ status[k] = "dead_letter" /\ lease' = lease
           /\ attempt' = [attempt EXCEPT ![k] = 0]
    BY <1>2, Zenon DEF Commit, FencedCommit, MarkPublished, RequestCancel, ExpireLease, Redrive,
      RequeueDeadLetter, Start, Heartbeat, Succeed, Cancel, FailRetry, FailTerminal, Release
  <2>3. ASSUME NEW j \in Works
        PROVE  /\ lease'[j].gen = lease[j].gen
               /\ lease'[j].held => lease[j].held /\ attempt'[j] = attempt[j]
    BY <1>1, <2>2, ReleaseFacts DEF LeaseMatchesStatus, Active, TypeOK
  <2>4. QED
    BY <1>1, <2>1, <2>3, CommitContinues, SnapshotFrame, Zenon
<1>3. ASSUME NEW k \in Works, LeaseRunsOut(k)
      PROVE  SnapshotInv'
  <2>1. UNCHANGED <<attempt, call>>
    BY <1>3, Zenon DEF LeaseRunsOut
  <2>2. \A j \in Works : lease'[j].gen = lease[j].gen /\ lease'[j].held = lease[j].held
    BY <1>1, <1>3, Zenon DEF LeaseRunsOut, TypeOK, Leases
  <2>3. QED
    BY <1>1, <2>1, <2>2, SnapshotFrame, Zenon DEF Continues
<1>4. ASSUME UNCHANGED <<lease, attempt, call>>
      PROVE  SnapshotInv'
  BY <1>4, Zenon DEF SnapshotInv, Snapshot
<1>5. QED
  BY <1>1, <1>2, <1>3, <1>4, SnapshotClaim, SnapshotOpen, SnapshotLocal
  DEF Next, Environment, CallerStep, Register, BecomesDue, ApproveDeadLetterRequeue,
      ApprovalRunsOut, vars

LEMMA SnapshotInit == Init => SnapshotInv
BY DEF Init, SnapshotInv, Snapshot, Idle

-----------------------------------------------------------------------------
(* Each step of WorkLedger is a step of WorkLifecycle or leaves its         *)
(* variables alone.                                                        *)

LEMMA ViewOfRelease ==
  ASSUME TypeOK, NEW k \in Works, ReleaseLease(k)
  PROVE  Lifecycle!Ends(k)
<1>1. \A j \in Works : LeaseView'[j] =
        IF j = k THEN [gen |-> lease[k].gen, held |-> FALSE, live |-> FALSE]
                 ELSE LeaseView[j]
  BY Zenon DEF TypeOK, ReleaseLease, Leases, LeaseView
<1>2. LeaseView' = [LeaseView EXCEPT ![k] =
                      [gen |-> LeaseView[k].gen, held |-> FALSE, live |-> FALSE]]
  BY <1>1, Zenon DEF LeaseView
<1>3. QED
  BY <1>2, Zenon DEF Lifecycle!Ends

LEMMA MovesOfAppend ==
  ASSUME NEW c \in Callers, NEW k \in Works, NEW op, NEW r, NEW s, Append(c, k, op, r, s),
         NEW from, status[k] \in from
  PROVE  Lifecycle!Moves(k, from, s)
BY Zenon DEF Append, Lifecycle!Moves

LEMMA ViewOfFence ==
  ASSUME NEW c \in Callers, NEW k \in Works, Fence(c, k)
  PROVE  Lifecycle!InForce(k)
BY Zenon DEF Fence, Lifecycle!InForce, LeaseView

LEMMA SameView ==
  ASSUME lease' = lease
  PROVE  LeaseView' = LeaseView
BY Zenon DEF LeaseView

LEMMA UnfencedRefines ==
  ASSUME RowsInv, SnapshotInv, NEW c \in Callers, NEW k \in Works,
         Commit(c, k), ~FencedCommit(c, k)
  PROVE  Lifecycle!Next \/ UNCHANGED Lifecycle!vars
<1>1. TypeOK /\ LeaseMatchesStatus
  BY Zenon DEF RowsInv
<1>2. CASE MarkPublished(c, k)
  <2>1. Lifecycle!Publish(k)
    BY <1>2, MovesOfAppend, SameView, Zenon DEF MarkPublished, Lifecycle!Publish
  <2>2. QED
    BY <2>1, Zenon DEF Lifecycle!Next
<1>3. CASE Claim(c, k)
  <2>1. call[c].attempt \in 0..MaxAttempts /\ attempt[k] \in Nat /\ lease[k].gen \in Nat
        /\ call[c].gen \in Nat
    BY <1>1, ConstantsAssumption DEF TypeOK, Calls, Idle, Leases
  <2>2. attempt[k] < MaxAttempts /\ call[c].attempt = attempt[k] + 1
        /\ call[c].gen = lease[k].gen + 1
    <3>1. /\ attempt[k] = call[c].attempt - 1 /\ lease[k].gen = call[c].gen - 1
          /\ MaxAttempts \in Nat
      BY <1>3, ConstantsAssumption, Zenon DEF Claim
    <3>2. QED
      BY <2>1, <3>1
  <2>3. ~LeaseView[k].held
    BY <1>1, <1>3, Zenon DEF Claim, LeaseMatchesStatus, LeaseView, Active
  <2>4. LeaseView' = [LeaseView EXCEPT ![k] =
                        [gen |-> LeaseView[k].gen + 1, held |-> TRUE, live |-> TRUE]]
    <3>1. lease' = [lease EXCEPT ![k] = [gen |-> lease[k].gen + 1, owner |-> c,
                                         held |-> TRUE, live |-> TRUE]]
      BY <1>3, <2>2, Zenon DEF Claim, GrantLease
    <3>2. \A j \in Works : LeaseView'[j] =
            IF j = k THEN [gen |-> lease[k].gen + 1, held |-> TRUE, live |-> TRUE]
                     ELSE LeaseView[j]
      BY <1>1, <3>1, Zenon DEF LeaseView, TypeOK
    <3>3. QED
      BY <3>2, Zenon DEF LeaseView
  <2>5. Lifecycle!Moves(k, {"published", "retry_wait"}, "claimed")
    BY <1>3, MovesOfAppend, Zenon DEF Claim
  <2>6. Lifecycle!Claim(k)
    BY <1>3, <2>2, <2>3, <2>4, <2>5, Zenon DEF Claim, Lifecycle!Claim
  <2>7. QED
    BY <2>6, Zenon DEF Lifecycle!Next
<1>4. CASE RequestCancel(c, k)
  <2>1. \/ Lifecycle!Moves(k, Lifecycle!Waiting, "cancelled")
        \/ status[k] \in Lifecycle!Leased /\ status' = status
    <3>1. CASE call[c].seen \in Queued
      <4>1. Append(c, k, "request_cancel", ThenBoth(k, "cancel_requested", "cancelled"),
                   "cancelled")
        BY <1>4, <3>1, Zenon DEF RequestCancel, Queued, Active
      <4>2. status[k] \in Lifecycle!Waiting
        BY <1>4, <3>1, Zenon DEF RequestCancel, SeenStatusHolds, Queued, Lifecycle!Waiting
      <4>3. QED
        BY <4>1, <4>2, MovesOfAppend, Zenon
    <3>2. CASE call[c].seen \in Active
      <4>1. Append(c, k, "request_cancel", Then(k, "cancel_requested"), status[k])
        BY <1>4, <3>2, Zenon DEF RequestCancel, Queued, Active
      <4>2. status' = status
        BY <1>1, <4>1, Zenon DEF Append, TypeOK
      <4>3. QED
        BY <1>4, <3>2, <4>2, Zenon DEF RequestCancel, SeenStatusHolds, Active, Lifecycle!Leased
    <3>3. QED
      BY <1>4, <3>1, <3>2, Zenon DEF RequestCancel
  <2>2. Lifecycle!RequestCancel(k)
    BY <1>4, <2>1, SameView, Zenon DEF RequestCancel, Lifecycle!RequestCancel
  <2>3. QED
    BY <2>2, Zenon DEF Lifecycle!Next
<1>5. CASE ExpireLease(c, k)
  <2>1. /\ cancel[k] = call[c].cancel /\ LeaseView[k].held /\ ~LeaseView[k].live
        /\ status[k] \in Lifecycle!Leased
    BY <1>5, Zenon DEF ExpireLease, StillExpired, LeaseView, Active, Lifecycle!Leased
  <2>2. call[c].attempt = attempt[k]
    <3>1. call[c].op = "expire" /\ call[c].work = k
      BY <1>5, Zenon DEF ExpireLease, Append
    <3>2. QED
      BY <1>5, <3>1, Zenon DEF ExpireLease, StillExpired, SnapshotInv, Snapshot
  <2>3. \/ cancel[k] /\ Lifecycle!Moves(k, Lifecycle!Leased, "cancelled")
        \/ /\ ~cancel[k] /\ attempt[k] >= MaxAttempts
           /\ Lifecycle!Moves(k, Lifecycle!Leased, "dead_letter")
        \/ /\ ~cancel[k] /\ attempt[k] < MaxAttempts
           /\ Lifecycle!Moves(k, Lifecycle!Leased, "retry_wait")
    BY <1>5, <2>1, <2>2, MovesOfAppend, Zenon DEF ExpireLease
  <2>4. Lifecycle!Ends(k)
    BY <1>1, <1>5, ViewOfRelease, Zenon DEF ExpireLease
  <2>5. Lifecycle!Expire(k)
    BY <1>5, <2>1, <2>3, <2>4, Zenon DEF ExpireLease, Lifecycle!Expire
  <2>6. QED
    BY <2>5, Zenon DEF Lifecycle!Next
<1>6. CASE Redrive(c, k)
  <2>1. status' = status
    BY <1>1, <1>6, Zenon DEF Redrive, Append, TypeOK
  <2>2. QED
    BY <1>6, <2>1, SameView, Zenon DEF Redrive, Lifecycle!vars
<1>7. ASSUME NEW a \in Approvals, NEW actor \in Actors, RequeueDeadLetter(c, k, a, actor)
      PROVE  Lifecycle!Next
  <2>1. Lifecycle!Moves(k, {"dead_letter"}, "retry_wait")
    BY <1>7, MovesOfAppend, Zenon DEF RequeueDeadLetter
  <2>2. Lifecycle!Requeue(k)
    BY <1>7, <2>1, SameView, Zenon DEF RequeueDeadLetter, Lifecycle!Requeue
  <2>3. QED
    BY <2>2, Zenon DEF Lifecycle!Next
<1>8. QED
  BY <1>2, <1>3, <1>4, <1>5, <1>6, <1>7, Zenon DEF Commit

\* The UPDATE of succeed accepts claimed work too; that only running work
\* succeeds is a consequence of what the holder knows.
LEMMA FencedRefines ==
  ASSUME RowsInv, HolderInv, NEW c \in Callers, NEW k \in Works, FencedCommit(c, k)
  PROVE  Lifecycle!Next \/ UNCHANGED Lifecycle!vars
<1>1. TypeOK /\ Follows(c) /\ HolderKnowsStatus
  BY Zenon DEF RowsInv, HolderInv
<1>2. CASE Start(c, k)
  <2>1. Lifecycle!Start(k)
    BY <1>2, MovesOfAppend, ViewOfFence, SameView, Zenon DEF Start, Lifecycle!Start
  <2>2. QED
    BY <2>1, Zenon DEF Lifecycle!Next
<1>3. CASE Heartbeat(c, k)
  <2>1. status' = status
    BY <1>1, <1>3, Zenon DEF Heartbeat, Append, TypeOK
  <2>2. QED
    BY <1>3, <2>1, SameView, Zenon DEF Heartbeat, Lifecycle!vars
<1>4. CASE Succeed(c, k)
  <2>1. call[c].op = "succeed" /\ Fence(c, k)
    BY <1>4, Zenon DEF Succeed, Append
  <2>2. status[k] \in {"running"}
    BY <1>1, <2>1, Zenon DEF Follows, MayCall, FencedOps, Fence, HolderKnowsStatus
  <2>3. Lifecycle!Moves(k, {"running"}, "succeeded")
    BY <1>4, <2>2, MovesOfAppend, Zenon DEF Succeed
  <2>4. Lifecycle!Finish(k)
    BY <1>1, <1>4, <2>3, ViewOfFence, ViewOfRelease, Zenon DEF Succeed, Lifecycle!Finish
  <2>5. QED
    BY <2>4, Zenon DEF Lifecycle!Next
<1>5. CASE Cancel(c, k)
  <2>1. Lifecycle!Moves(k, Lifecycle!Leased, "cancelled")
    BY <1>5, MovesOfAppend, Zenon DEF Cancel, Active, Lifecycle!Leased
  <2>2. Lifecycle!Finish(k)
    BY <1>1, <1>5, <2>1, ViewOfFence, ViewOfRelease, Zenon DEF Cancel, Lifecycle!Finish
  <2>3. QED
    BY <2>2, Zenon DEF Lifecycle!Next
<1>6. CASE FailRetry(c, k)
  <2>1. Lifecycle!Moves(k, Lifecycle!Leased, "retry_wait")
    BY <1>6, MovesOfAppend, Zenon DEF FailRetry, Lifecycle!Leased
  <2>2. Lifecycle!Finish(k)
    BY <1>1, <1>6, <2>1, ViewOfFence, ViewOfRelease, Zenon DEF FailRetry, Lifecycle!Finish
  <2>3. QED
    BY <2>2, Zenon DEF Lifecycle!Next
<1>7. ASSUME NEW retryable \in BOOLEAN, FailTerminal(c, k, retryable)
      PROVE  Lifecycle!Next
  <2>1. Lifecycle!Moves(k, Lifecycle!Leased, "dead_letter")
    BY <1>7, MovesOfAppend, Zenon DEF FailTerminal, Active, Lifecycle!Leased
  <2>2. Lifecycle!Finish(k)
    BY <1>1, <1>7, <2>1, ViewOfFence, ViewOfRelease, Zenon DEF FailTerminal, Lifecycle!Finish
  <2>3. QED
    BY <2>2, Zenon DEF Lifecycle!Next
<1>8. CASE Release(c, k)
  <2>1. Lifecycle!Moves(k, Lifecycle!Leased, "retry_wait")
    BY <1>8, MovesOfAppend, Zenon DEF Release, Active, Lifecycle!Leased
  <2>2. Lifecycle!Finish(k)
    BY <1>1, <1>8, <2>1, ViewOfFence, ViewOfRelease, Zenon DEF Release, Lifecycle!Finish
  <2>3. QED
    BY <2>2, Zenon DEF Lifecycle!Next
<1>9. QED
  BY <1>2, <1>3, <1>4, <1>5, <1>6, <1>7, <1>8, Zenon DEF FencedCommit

LEMMA StepRefines ==
  ASSUME RowsInv, HolderInv, SnapshotInv, [Next]_vars
  PROVE  Lifecycle!Next \/ UNCHANGED Lifecycle!vars
<1>1. TypeOK
  BY Zenon DEF RowsInv
<1>2. ASSUME NEW c \in Callers, NEW k \in Works, Commit(c, k)
      PROVE  Lifecycle!Next \/ UNCHANGED Lifecycle!vars
  BY <1>2, UnfencedRefines, FencedRefines, Zenon
<1>3. ASSUME NEW k \in Works, Register(k)
      PROVE  Lifecycle!Next
  <2>1. Lifecycle!Request(k)
    BY <1>3, SameView, Zenon DEF Register, Lifecycle!Request, Lifecycle!Moves
  <2>2. QED
    BY <2>1, Zenon DEF Lifecycle!Next
<1>4. ASSUME NEW k \in Works, LeaseRunsOut(k)
      PROVE  Lifecycle!Next
  <2>1. \A j \in Works : LeaseView'[j] =
          IF j = k THEN [gen |-> lease[k].gen, held |-> TRUE, live |-> FALSE]
                   ELSE LeaseView[j]
    BY <1>1, <1>4, Zenon DEF LeaseRunsOut, TypeOK, Leases, LeaseView
  <2>2. LeaseView' = [LeaseView EXCEPT ![k] =
                        [gen |-> LeaseView[k].gen, held |-> TRUE, live |-> FALSE]]
    BY <2>1, Zenon DEF LeaseView
  <2>3. Lifecycle!InForce(k)
    BY <1>4, Zenon DEF LeaseRunsOut, Lifecycle!InForce, LeaseView
  <2>4. Lifecycle!RunsOut(k)
    BY <1>4, <2>2, <2>3, Zenon DEF LeaseRunsOut, Lifecycle!RunsOut
  <2>5. QED
    BY <2>4, Zenon DEF Lifecycle!Next
<1>5. ASSUME UNCHANGED <<status, attempt, cancel, lease>>
      PROVE  UNCHANGED Lifecycle!vars
  BY <1>5, SameView, Zenon DEF Lifecycle!vars
<1>6. ASSUME NEW c \in Callers, NEW k \in Works, Read(c, k)
      PROVE  UNCHANGED <<status, attempt, cancel, lease>>
  BY <1>6, Zenon DEF Read, BeginMarkPublished, BeginRequeue, ClaimRead, RequestCancelRead,
    ExpiredRead, RedriveRead, OpenAtRows, OpenAtVersion, Open, rows
<1>7. ASSUME NEW c \in Callers,
             \/ \E op \in FencedOps : BeginFenced(c, op)
             \/ ReadVersion(c) \/ Rollback(c) \/ StartFails(c)
             \/ StartFenced(c) \/ Abandon(c)
      PROVE  UNCHANGED <<status, attempt, cancel, lease>>
  BY <1>7, Zenon DEF BeginFenced, OpenAtVersion, Open, ReadVersion, Rollback, StartFails,
    StartFenced, Abandon, rows
<1>8. QED
  BY <1>2, <1>3, <1>4, <1>5, <1>6, <1>7
  DEF Next, Environment, CallerStep, BecomesDue, ApproveDeadLetterRequeue,
      ApprovalRunsOut, vars

\* PostgresWorkRepository implements WorkerStateStore: whatever is read, and
\* whoever commits in between, each operation acts at its commit on the rows
\* of that instant, or not at all.
THEOREM LedgerRefinesLifecycle == Spec => ImplementsLifecycle
<1>1. Init => Lifecycle!Init
  BY DEF Init, Lifecycle!Init, LeaseView
<1>2. RowsInv /\ HolderInv /\ SnapshotInv /\ [Next]_vars
        => [Lifecycle!Next]_(Lifecycle!vars)
  BY StepRefines, Zenon
<1>3. QED
  BY <1>1, <1>2, RowsInvInit, RowsInvNext, HolderInvInit, HolderInvNext, SnapshotInit,
     SnapshotNext, PTL DEF Spec, ImplementsLifecycle, Lifecycle!Spec

-----------------------------------------------------------------------------
(* The leases.                                                             *)

GenerationView == [k \in Works |-> lease[k].gen]
ForceView == [k \in Works |-> lease[k].held /\ lease[k].live]

\* The lease of k alone changes.
LEMMA LeaseMoves ==
  ASSUME NEW k \in Works, NEW g, NEW h \in BOOLEAN, NEW l \in BOOLEAN,
         LeaseView' = [LeaseView EXCEPT ![k] = [gen |-> g, held |-> h, live |-> l]]
  PROVE  /\ GenerationView' = [GenerationView EXCEPT ![k] = g]
         /\ ForceView' = [ForceView EXCEPT ![k] = (h /\ l)]
<1>1. /\ LeaseView'[k] = [gen |-> g, held |-> h, live |-> l]
      /\ \A j \in Works \ {k} : LeaseView'[j] = LeaseView[j]
  BY Zenon DEF LeaseView
<1>2. lease'[k].gen = g /\ lease'[k].held = h /\ lease'[k].live = l
  BY <1>1 DEF LeaseView
<1>3. \A j \in Works \ {k} : /\ lease'[j].gen = lease[j].gen /\ lease'[j].held = lease[j].held
                             /\ lease'[j].live = lease[j].live
  BY <1>1 DEF LeaseView
<1>4. GenerationView' = [GenerationView EXCEPT ![k] = g]
  BY <1>2, <1>3, Zenon DEF GenerationView
<1>5. ForceView' = [ForceView EXCEPT ![k] = (h /\ l)]
  BY <1>2, <1>3, Zenon DEF ForceView
<1>6. QED
  BY <1>4, <1>5, Zenon

LEMMA LifecycleLeases ==
  ASSUME TypeOK, [Lifecycle!Next]_(Lifecycle!vars)
  PROVE  [Fencing!Next]_(Fencing!vars)
<1>1. CASE LeaseView' = LeaseView
  <2>1. \A k \in Works : /\ lease'[k].gen = lease[k].gen /\ lease'[k].held = lease[k].held
                         /\ lease'[k].live = lease[k].live
    BY <1>1 DEF LeaseView
  <2>2. QED
    BY <2>1, Zenon DEF Fencing!vars
<1>2. ASSUME NEW k \in Works, Lifecycle!Claim(k) PROVE Fencing!Next
  <2>1. /\ LeaseView' = [LeaseView EXCEPT ![k] = [gen |-> LeaseView[k].gen + 1, held |-> TRUE, live |-> TRUE]]
        /\ ~LeaseView[k].held
    BY <1>2, Zenon DEF Lifecycle!Claim
  <2>2. /\ GenerationView' = [GenerationView EXCEPT ![k] = GenerationView[k] + 1]
        /\ ForceView' = [ForceView EXCEPT ![k] = TRUE] /\ ~ForceView[k]
    <3>1. LeaseView[k].gen = GenerationView[k] /\ ~ForceView[k]
      BY <2>1 DEF LeaseView, GenerationView, ForceView
    <3>2. PICK g : g = GenerationView[k] + 1
      OBVIOUS
    <3>3. LeaseView' = [LeaseView EXCEPT ![k] = [gen |-> g, held |-> TRUE, live |-> TRUE]]
      BY <2>1, <3>1, <3>2, Zenon
    <3>4. /\ GenerationView' = [GenerationView EXCEPT ![k] = g]
          /\ ForceView' = [ForceView EXCEPT ![k] = (TRUE /\ TRUE)]
      BY <3>3, LeaseMoves, Zenon
    <3>5. (TRUE /\ TRUE) = TRUE
      OBVIOUS
    <3>6. QED
      BY <3>1, <3>2, <3>4, <3>5, Zenon
  <2>3. Fencing!Grant(k)
    BY <2>2, Zenon DEF Fencing!Grant, GenerationView, ForceView
  <2>4. QED
    BY <2>3, Zenon DEF Fencing!Next
<1>3. ASSUME NEW k \in Works, NEW h \in BOOLEAN,
             LeaseView' = [LeaseView EXCEPT ![k] = [gen |-> LeaseView[k].gen, held |-> h, live |-> FALSE]]
      PROVE  [Fencing!Next]_(Fencing!vars)
  <2>1. PICK g : g = LeaseView[k].gen
    OBVIOUS
  <2>2. LeaseView' = [LeaseView EXCEPT ![k] = [gen |-> g, held |-> h, live |-> FALSE]]
    BY <1>3, <2>1, Zenon
  <2>3. /\ GenerationView' = [GenerationView EXCEPT ![k] = g]
        /\ ForceView' = [ForceView EXCEPT ![k] = (h /\ FALSE)]
    BY <2>2, LeaseMoves, Zenon
  <2>4. GenerationView[k] = g /\ (h /\ FALSE) = FALSE
    BY <2>1 DEF LeaseView, GenerationView
  <2>5. GenerationView' = GenerationView /\ ForceView' = [ForceView EXCEPT ![k] = FALSE]
    BY <2>3, <2>4, Zenon DEF GenerationView
  <2>6. CASE ForceView[k]
    <3>1. Fencing!End(k)
      BY <2>5, <2>6, Zenon DEF Fencing!End, GenerationView, ForceView
    <3>2. QED
      BY <3>1, Zenon DEF Fencing!Next
  <2>7. CASE ~ForceView[k]
    <3>1. ForceView \in [Works -> BOOLEAN]
      BY DEF ForceView
    <3>2. ForceView[k] = FALSE
      BY <2>7, <3>1
    <3>3. ForceView' = ForceView
      BY <2>5, <3>1, <3>2, Zenon
    <3>4. QED
      BY <2>5, <3>3, Zenon DEF Fencing!vars, GenerationView, ForceView
  <2>8. QED
    BY <2>6, <2>7, Zenon
<1>4. ASSUME NEW k \in Works, Lifecycle!Finish(k) \/ Lifecycle!Expire(k)
      PROVE  [Fencing!Next]_(Fencing!vars)
  <2>1. LeaseView' = [LeaseView EXCEPT ![k] = [gen |-> LeaseView[k].gen, held |-> FALSE, live |-> FALSE]]
    BY <1>4, Zenon DEF Lifecycle!Finish, Lifecycle!Expire, Lifecycle!Ends
  <2>2. QED
    BY <1>3, <2>1, Zenon
<1>5. ASSUME NEW k \in Works, Lifecycle!RunsOut(k) PROVE [Fencing!Next]_(Fencing!vars)
  <2>1. LeaseView' = [LeaseView EXCEPT ![k] = [gen |-> LeaseView[k].gen, held |-> TRUE, live |-> FALSE]]
    BY <1>5, Zenon DEF Lifecycle!RunsOut
  <2>2. QED
    BY <1>3, <2>1, Zenon
<1>6. QED
  BY <1>1, <1>2, <1>4, <1>5, Zenon
     DEF Lifecycle!Next, Lifecycle!vars, Lifecycle!Request, Lifecycle!Publish, Lifecycle!Start,
         Lifecycle!RequestCancel, Lifecycle!Requeue

\* work_leases keeps what WorkLease promises, whoever claims, finishes, reconciles or
\* lets a lease run out: one lease at a time is in force, each under a generation of
\* its own, and none comes back.
THEOREM LedgerIssuesFencedLeases == Spec => ImplementsLease
<1>1. Init => Fencing!Init
  <2> SUFFICES ASSUME Init PROVE Fencing!Init
    OBVIOUS
  <2>1. \A k \in Works : lease[k].gen = 0 /\ (lease[k].held /\ lease[k].live) = FALSE
    BY DEF Init
  <2>2. QED
    BY <2>1, Zenon DEF Fencing!Init
<1>2. RowsInv /\ HolderInv /\ SnapshotInv /\ [Next]_vars => [Fencing!Next]_(Fencing!vars)
  <2>1. RowsInv => TypeOK
    BY Zenon DEF RowsInv
  <2>2. QED
    BY <2>1, StepRefines, LifecycleLeases, Zenon
<1>3. QED
  BY <1>1, <1>2, RowsInvInit, RowsInvNext, HolderInvInit, HolderInvNext, SnapshotInit,
     SnapshotNext, PTL DEF Spec, ImplementsLease, Fencing!Spec
=============================================================================
