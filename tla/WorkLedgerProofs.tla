-------------------------- MODULE WorkLedgerProofs --------------------------
(***************************************************************************)
(* Proofs about WorkLedger for every set of works, callers, actors and     *)
(* approvals, every MaxAttempts and every Quota: typing, and the inductive *)
(* invariants RowsInv of the rows and HolderInv of the holders of leases.  *)
(***************************************************************************)
EXTENDS WorkLedger, FiniteSetTheorems, TLAPS

-----------------------------------------------------------------------------
(* Typing.                                                                 *)

\* The transaction of a commit leaves every call well typed: its own is over,
\* the others only lose the freshness of their version.
LEMMA EndCallTyped ==
  ASSUME TypeOK, NEW c \in Callers, NEW k \in Works, EndCall(c, k)
  PROVE  call' \in [Callers -> Calls]
<1>1. SUFFICES ASSUME NEW d \in Callers, d # c, call[d].work = k
               PROVE  [call[d] EXCEPT !.fresh = FALSE] \in Calls
  BY Zenon DEF EndCall, TypeOK, Calls
<1>2. call[d] \in Calls /\ call[d] # Idle
  BY <1>1, ConstantsAssumption DEF TypeOK, Idle
<1>3. QED
  BY <1>2, Zenon DEF Calls

\* next_status() yields a status for the events the repository appends.
LEMMA NextStatusTyped ==
  ASSUME NEW s \in Statuses, NEW e \in DOMAIN Sources
  PROVE  NextStatus(s, e) \in Statuses
BY DEF NextStatus, Sources, Target, Statuses, TerminalStatuses, Queued, Active

\* The two helpers above, on the ledger column of a work.
LEMMA ReplayTyped ==
  ASSUME TypeOK, NEW k \in Works, NEW e \in DOMAIN Sources, NEW f \in DOMAIN Sources
  PROVE  Then(k, e) \in Statuses /\ ThenBoth(k, e, f) \in Statuses
<1>1. replay[k] \in Statuses
  BY Zenon DEF TypeOK
<1>2. NextStatus(replay[k], e) \in Statuses
  BY <1>1, NextStatusTyped, Zenon
<1>3. NextStatus(NextStatus(replay[k], e), f) \in Statuses
  BY <1>2, NextStatusTyped, Zenon
<1>4. QED
  BY <1>2, <1>3, Zenon DEF Then, ThenBoth

LEMMA AppendTyped ==
  ASSUME TypeOK, NEW c \in Callers, NEW k \in Works, NEW op, NEW r \in Statuses,
         NEW s \in Statuses \ {"failed", "invalid"}, Append(c, k, op, r, s)
  PROVE  /\ status' \in [Works -> Statuses \ {"failed", "invalid"}]
         /\ replay' \in [Works -> Statuses]
         /\ call' \in [Callers -> Calls]
<1>1. EndCall(c, k)
  BY Zenon DEF Append
<1>2. call' \in [Callers -> Calls]
  BY <1>1, EndCallTyped, Zenon
<1>3. QED
  BY <1>2, Zenon DEF Append, TypeOK

LEMMA ReleaseTyped ==
  ASSUME TypeOK, NEW k \in Works, ReleaseLease(k)
  PROVE  lease' \in [Works -> Leases]
<1> DEFINE released == [lease[k] EXCEPT !.held = FALSE, !.live = FALSE]
<1>1. lease \in [Works -> Leases]
  BY Zenon DEF TypeOK
<1>2. released \in Leases
  BY <1>1, Zenon DEF Leases
<1>3. lease' = [lease EXCEPT ![k] = released]
  BY Zenon DEF ReleaseLease
<1>4. QED
  BY <1>1, <1>2, <1>3, Zenon

LEMMA ApprovalTyped ==
  ASSUME TypeOK, NEW a \in Approvals, NEW row \in ApprovalRows,
         approval' = [approval EXCEPT ![a] = row]
  PROVE  approval' \in [Approvals -> ApprovalRows]
<1>1. approval \in [Approvals -> ApprovalRows]
  BY Zenon DEF TypeOK
<1>2. QED
  BY <1>1, Zenon

LEMMA OpenTyped ==
  ASSUME TypeOK, NEW c \in Callers, NEW record \in Calls, Open(c, record)
  PROVE  TypeOK'
BY Zenon DEF TypeOK, Open, rows

LEMMA ZeroAttempts == 0 \in Nat /\ 0 \in 0..MaxAttempts
BY ConstantsAssumption

LEMMA OpenAtVersionTyped ==
  ASSUME TypeOK, NEW c \in Callers, NEW k \in Works, NEW op \in Ops,
         OpenAtVersion(c, k, op)
  PROVE  TypeOK'
<1> DEFINE record == [op |-> op, work |-> k, ready |-> TRUE, fresh |-> TRUE,
                      gen |-> 0, attempt |-> 0, seen |-> "none", cancel |-> FALSE]
<1>1. record \in Calls
  BY ZeroAttempts, Zenon DEF Calls, Statuses
<1>2. QED
  BY <1>1, OpenTyped, Zenon DEF OpenAtVersion

LEMMA OpenAtRowsTyped ==
  ASSUME TypeOK, NEW c \in Callers, NEW k \in Works, NEW op \in Ops,
         NEW gen \in Nat, NEW n \in 0..MaxAttempts, NEW s \in Statuses,
         NEW flag \in BOOLEAN, OpenAtRows(c, k, op, gen, n, s, flag)
  PROVE  TypeOK'
<1> DEFINE record == [op |-> op, work |-> k, ready |-> FALSE, fresh |-> FALSE,
                      gen |-> gen, attempt |-> n, seen |-> s, cancel |-> flag]
<1>1. record \in Calls
  BY Zenon DEF Calls
<1>2. QED
  BY <1>1, OpenTyped, Zenon DEF OpenAtRows

LEMMA ReadTyped ==
  ASSUME TypeOK, NEW c \in Callers, NEW k \in Works, Read(c, k)
  PROVE  TypeOK'
<1>1. CASE BeginMarkPublished(c, k)
  BY <1>1, OpenAtVersionTyped, Zenon DEF BeginMarkPublished, Ops
<1>2. CASE BeginRequeue(c, k)
  BY <1>2, OpenAtVersionTyped, Zenon DEF BeginRequeue, Ops
<1>3. "none" \in Statuses
  BY Zenon DEF Statuses
<1>4. CASE ClaimRead(c, k)
  <2>1. lease[k].gen + 1 \in Nat /\ attempt[k] + 1 \in 0..MaxAttempts
    BY <1>4, ConstantsAssumption DEF ClaimRead, AttemptsLeft, TypeOK, Leases
  <2>2. QED
    BY <1>3, <1>4, <2>1, OpenAtRowsTyped, Zenon DEF ClaimRead, Ops
<1>5. CASE RequestCancelRead(c, k)
  <2>1. status[k] \in Statuses
    BY Zenon DEF TypeOK
  <2>2. QED
    BY <1>5, <2>1, ZeroAttempts, OpenAtRowsTyped, Zenon DEF RequestCancelRead, Ops
<1>6. CASE ExpiredRead(c, k)
  <2>1. lease[k].gen \in Nat /\ attempt[k] \in 0..MaxAttempts /\ cancel[k] \in BOOLEAN
    BY Zenon DEF TypeOK, Leases
  <2>2. QED
    BY <1>3, <1>6, <2>1, OpenAtRowsTyped, Zenon DEF ExpiredRead, Ops
<1>7. CASE RedriveRead(c, k)
  BY <1>3, <1>7, ZeroAttempts, OpenAtRowsTyped, Zenon DEF RedriveRead, Ops
<1>8. QED
  BY <1>1, <1>2, <1>4, <1>5, <1>6, <1>7, Zenon DEF Read

\* The five statuses the commits write to work_items.
LEMMA RowStatuses ==
  {"requested", "published", "claimed", "running", "retry_wait", "succeeded",
   "cancelled", "dead_letter"} \subseteq Statuses \ {"failed", "invalid"}
BY Zenon DEF Statuses, TerminalStatuses, Queued, Active

LEMMA EventNames ==
  {"requested", "published", "claimed", "started", "heartbeat", "lease_expired",
   "succeeded", "failed", "retry_scheduled", "dead_lettered", "cancelled",
   "cancel_requested", "reconciled"} \subseteq DOMAIN Sources
BY Zenon DEF Sources

LEMMA UnfencedCommitTyped ==
  ASSUME TypeOK, NEW c \in Callers, NEW k \in Works, Commit(c, k), ~FencedCommit(c, k)
  PROVE  TypeOK'
<1>1. CASE MarkPublished(c, k)
  <2>1. Then(k, "published") \in Statuses
    BY EventNames, ReplayTyped, Zenon
  <2>2. QED
    BY <1>1, <2>1, RowStatuses, AppendTyped, Zenon DEF MarkPublished, TypeOK
<1>2. CASE Claim(c, k)
  <2>1. Then(k, "claimed") \in Statuses
    BY EventNames, ReplayTyped, Zenon
  <2>2. /\ status' \in [Works -> Statuses \ {"failed", "invalid"}]
        /\ replay' \in [Works -> Statuses]
        /\ call' \in [Callers -> Calls]
    BY <1>2, <2>1, RowStatuses, AppendTyped, Zenon DEF Claim
  <2>3. /\ call[c].gen \in Nat \ {0}
        /\ call[c].attempt \in 0..MaxAttempts
    <3>1. call[c].gen \in Nat /\ call[c].attempt \in 0..MaxAttempts
      BY ZeroAttempts DEF TypeOK, Calls, Idle
    <3>2. lease[k].gen \in Nat /\ lease[k].gen = call[c].gen - 1
      BY <1>2, Zenon DEF TypeOK, Leases, Claim
    <3>3. QED
      BY <3>1, <3>2
  <2>4. lease' \in [Works -> Leases]
    BY <1>2, <2>3, Zenon DEF Claim, GrantLease, TypeOK, Leases
  <2>5. handle' \in [Callers -> Handles]
    BY <1>2, <2>3, Zenon DEF Claim, TypeOK, Handles
  <2>6. attempt' \in [Works -> 0..MaxAttempts]
    BY <1>2, <2>3, Zenon DEF Claim, TypeOK
  <2>7. QED
    BY <1>2, <2>2, <2>4, <2>5, <2>6, Zenon DEF Claim, TypeOK
<1>3. CASE RequestCancel(c, k)
  <2>1. /\ Then(k, "cancel_requested") \in Statuses
        /\ ThenBoth(k, "cancel_requested", "cancelled") \in Statuses
        /\ status[k] \in Statuses \ {"failed", "invalid"}
    BY EventNames, ReplayTyped, Zenon DEF TypeOK
  <2>2. /\ status' \in [Works -> Statuses \ {"failed", "invalid"}]
        /\ replay' \in [Works -> Statuses]
        /\ call' \in [Callers -> Calls]
    BY <1>3, <2>1, RowStatuses, AppendTyped, Zenon DEF RequestCancel
  <2>3. QED
    BY <1>3, <2>2, Zenon DEF RequestCancel, TypeOK
<1>4. CASE ExpireLease(c, k)
  <2>1. /\ ThenBoth(k, "lease_expired", "cancelled") \in Statuses
        /\ ThenBoth(k, "lease_expired", "dead_lettered") \in Statuses
        /\ ThenBoth(k, "lease_expired", "reconciled") \in Statuses
    BY EventNames, ReplayTyped, Zenon
  <2>2. /\ status' \in [Works -> Statuses \ {"failed", "invalid"}]
        /\ replay' \in [Works -> Statuses]
        /\ call' \in [Callers -> Calls]
    BY <1>4, <2>1, RowStatuses, AppendTyped, Zenon DEF ExpireLease
  <2>3. lease' \in [Works -> Leases]
    BY <1>4, ReleaseTyped, Zenon DEF ExpireLease
  <2>4. due' \in [Works -> BOOLEAN]
    <3>1. due' = [due EXCEPT ![k] = TRUE] \/ due' = due
      BY <1>4, Zenon DEF ExpireLease
    <3>2. QED
      BY <3>1, Zenon DEF TypeOK
  <2>5. QED
    BY <1>4, <2>2, <2>3, <2>4, Zenon DEF ExpireLease, TypeOK
<1>5. CASE Redrive(c, k)
  <2>1. Then(k, "reconciled") \in Statuses /\ status[k] \in Statuses \ {"failed", "invalid"}
    BY EventNames, ReplayTyped, Zenon DEF TypeOK
  <2>2. QED
    BY <1>5, <2>1, AppendTyped, Zenon DEF Redrive, TypeOK
<1>6. ASSUME NEW a \in Approvals, NEW actor \in Actors, RequeueDeadLetter(c, k, a, actor)
      PROVE  TypeOK'
  <2>1. Then(k, "retry_scheduled") \in Statuses
    BY EventNames, ReplayTyped, Zenon
  <2>2. /\ status' \in [Works -> Statuses \ {"failed", "invalid"}]
        /\ replay' \in [Works -> Statuses]
        /\ call' \in [Callers -> Calls]
    BY <1>6, <2>1, RowStatuses, AppendTyped, Zenon DEF RequeueDeadLetter
  <2>3. approval' \in [Approvals -> ApprovalRows]
    <3>1. approval[a] \in ApprovalRows
      BY Zenon DEF TypeOK
    <3>2. [approval[a] EXCEPT !.consumer = actor] \in ApprovalRows
      BY <3>1, Zenon DEF ApprovalRows
    <3>3. QED
      BY <1>6, <3>2, ApprovalTyped, Zenon DEF RequeueDeadLetter
  <2>4. attempt' \in [Works -> 0..MaxAttempts]
    BY <1>6, ZeroAttempts, Zenon DEF RequeueDeadLetter, TypeOK
  <2>5. requeues' \in [Works -> Nat]
    BY <1>6 DEF RequeueDeadLetter, TypeOK
  <2>6. cancel' \in [Works -> BOOLEAN] /\ due' \in [Works -> BOOLEAN]
    BY <1>6, Zenon DEF RequeueDeadLetter, TypeOK
  <2>7. QED
    BY <1>6, <2>2, <2>3, <2>4, <2>5, <2>6, Zenon DEF RequeueDeadLetter, TypeOK
<1>7. QED
  BY <1>1, <1>2, <1>3, <1>4, <1>5, <1>6, Zenon DEF Commit

LEMMA FencedCommitTyped ==
  ASSUME TypeOK, NEW c \in Callers, NEW k \in Works, FencedCommit(c, k)
  PROVE  TypeOK'
<1>1. /\ Then(k, "started") \in Statuses
      /\ Then(k, "heartbeat") \in Statuses
      /\ Then(k, "succeeded") \in Statuses
      /\ Then(k, "cancelled") \in Statuses
      /\ Then(k, "retry_scheduled") \in Statuses
      /\ ThenBoth(k, "failed", "retry_scheduled") \in Statuses
      /\ ThenBoth(k, "failed", "dead_lettered") \in Statuses
      /\ status[k] \in Statuses \ {"failed", "invalid"}
  BY EventNames, ReplayTyped, Zenon DEF TypeOK
<1>2. CASE Start(c, k)
  <2>1. handle[c] \in Handles /\ handle[c] # NoHandle
    BY <1>2, ConstantsAssumption DEF Start, Fence, NoHandle, TypeOK
  <2>2. handle' \in [Callers -> Handles]
    BY <1>2, <2>1, Zenon DEF Start, TypeOK, Handles
  <2>3. QED
    BY <1>1, <1>2, <2>2, RowStatuses, AppendTyped, Zenon DEF Start, TypeOK
<1>3. CASE Heartbeat(c, k)
  BY <1>1, <1>3, AppendTyped, Zenon DEF Heartbeat, TypeOK
<1>4. CASE Succeed(c, k)
  BY <1>1, <1>4, RowStatuses, AppendTyped, ReleaseTyped, Zenon DEF Succeed, TypeOK
<1>5. CASE Cancel(c, k)
  BY <1>1, <1>5, RowStatuses, AppendTyped, ReleaseTyped, Zenon DEF Cancel, TypeOK
<1>6. CASE FailRetry(c, k)
  BY <1>1, <1>6, RowStatuses, AppendTyped, ReleaseTyped, Zenon DEF FailRetry, TypeOK
<1>7. ASSUME NEW retryable \in BOOLEAN, FailTerminal(c, k, retryable)
      PROVE  TypeOK'
  BY <1>1, <1>7, RowStatuses, AppendTyped, ReleaseTyped, Zenon DEF FailTerminal, TypeOK
<1>8. CASE Release(c, k)
  BY <1>1, <1>8, RowStatuses, AppendTyped, ReleaseTyped, Zenon DEF Release, TypeOK
<1>9. QED
  BY <1>2, <1>3, <1>4, <1>5, <1>6, <1>7, <1>8, Zenon DEF FencedCommit

LEMMA LocalStepTyped ==
  ASSUME TypeOK, NEW c \in Callers,
         \/ ReadVersion(c) \/ Rollback(c) \/ StartFails(c)
         \/ StartFenced(c) \/ Abandon(c)
  PROVE  TypeOK'
<1>1. Idle \in Calls /\ NoHandle \in Handles
  BY Zenon DEF Calls, Handles
<1>2. CASE ReadVersion(c)
  <2>1. call[c] \in Calls /\ call[c] # Idle
    BY <1>2, Zenon DEF ReadVersion, TypeOK
  <2>2. call' = [call EXCEPT ![c] = [call[c] EXCEPT !.ready = TRUE, !.fresh = TRUE]]
    BY <1>2, Zenon DEF ReadVersion
  <2>3. [call[c] EXCEPT !.ready = TRUE, !.fresh = TRUE] \in Calls
    BY <2>1, Zenon DEF Calls
  <2>4. QED
    BY <1>2, <2>2, <2>3, Zenon DEF ReadVersion, TypeOK, rows
<1>3. CASE Rollback(c)
  BY <1>1, <1>3, Zenon DEF Rollback, TypeOK, rows
<1>4. CASE StartFails(c)
  <2>1. [handle[c] EXCEPT !.phase = "start_failed"] \in Handles
    BY <1>4, Zenon DEF StartFails, TypeOK, Handles
  <2>2. QED
    BY <1>1, <1>4, <2>1, Zenon DEF StartFails, TypeOK, rows
<1>5. CASE StartFenced(c)
  BY <1>1, <1>5, Zenon DEF StartFenced, TypeOK, rows
<1>6. CASE Abandon(c)
  BY <1>1, <1>6, Zenon DEF Abandon, TypeOK, rows
<1>7. QED
  BY <1>2, <1>3, <1>4, <1>5, <1>6, Zenon

LEMMA BeginFencedTyped ==
  ASSUME TypeOK, NEW c \in Callers, NEW op \in FencedOps, BeginFenced(c, op)
  PROVE  TypeOK'
<1>1. handle[c].work \in Works /\ op \in Ops
  BY Zenon DEF BeginFenced, TypeOK, Handles, FencedOps, Ops
<1>2. QED
  BY <1>1, OpenAtVersionTyped, Zenon DEF BeginFenced

LEMMA EnvironmentTyped ==
  ASSUME TypeOK, Environment
  PROVE  TypeOK'
<1>1. ASSUME NEW k \in Works, Register(k)
      PROVE  TypeOK'
  <2>1. Then(k, "requested") \in Statuses
    BY EventNames, ReplayTyped, Zenon
  <2>2. QED
    BY <1>1, <2>1, RowStatuses, Zenon DEF Register, TypeOK
<1>2. ASSUME NEW k \in Works, LeaseRunsOut(k)
      PROVE  TypeOK'
  <2>1. lease \in [Works -> Leases]
    BY Zenon DEF TypeOK
  <2>2. [lease[k] EXCEPT !.live = FALSE] \in Leases
    BY <2>1, Zenon DEF Leases
  <2>3. lease' \in [Works -> Leases]
    BY <1>2, <2>1, <2>2, Zenon DEF LeaseRunsOut
  <2>4. QED
    BY <1>2, <2>3, Zenon DEF LeaseRunsOut, TypeOK
<1>3. ASSUME NEW k \in Works, BecomesDue(k)
      PROVE  TypeOK'
  BY <1>3, Zenon DEF BecomesDue, TypeOK
<1>4. ASSUME NEW k \in Works, NEW a \in Approvals, NEW actor \in Actors,
             ApproveDeadLetterRequeue(k, a, actor)
      PROVE  TypeOK'
  <2>1. [work |-> k, by |-> actor, live |-> TRUE, consumer |-> None] \in ApprovalRows
    BY Zenon DEF ApprovalRows
  <2>2. approval' \in [Approvals -> ApprovalRows]
    BY <1>4, <2>1, ApprovalTyped, Zenon DEF ApproveDeadLetterRequeue
  <2>3. QED
    BY <1>4, <2>2, Zenon DEF ApproveDeadLetterRequeue, TypeOK
<1>5. ASSUME NEW a \in Approvals, ApprovalRunsOut(a)
      PROVE  TypeOK'
  <2>1. approval[a] \in ApprovalRows
    BY Zenon DEF TypeOK
  <2>2. [approval[a] EXCEPT !.live = FALSE] \in ApprovalRows
    BY <2>1, Zenon DEF ApprovalRows
  <2>3. approval' \in [Approvals -> ApprovalRows]
    BY <1>5, <2>2, ApprovalTyped, Zenon DEF ApprovalRunsOut
  <2>4. QED
    BY <1>5, <2>3, Zenon DEF ApprovalRunsOut, TypeOK
<1>6. QED
  BY <1>1, <1>2, <1>3, <1>4, <1>5, Zenon DEF Environment

LEMMA InitTyped ==
  ASSUME Init
  PROVE  TypeOK
BY ConstantsAssumption DEF Init, TypeOK, Leases, ApprovalRows, Calls, Handles, Statuses

LEMMA NextTyped ==
  ASSUME TypeOK, [Next]_vars
  PROVE  TypeOK'
<1>1. CASE Environment
  BY <1>1, EnvironmentTyped, Zenon
<1>2. ASSUME NEW c \in Callers, CallerStep(c)
      PROVE  TypeOK'
  <2>1. ASSUME NEW k \in Works, Read(c, k) \/ Commit(c, k)
        PROVE  TypeOK'
    BY <2>1, ReadTyped, UnfencedCommitTyped, FencedCommitTyped, Zenon
  <2>2. QED
    BY <1>2, <2>1, BeginFencedTyped, LocalStepTyped, Zenon DEF CallerStep
<1>3. CASE UNCHANGED vars
  BY <1>3, Zenon DEF vars, TypeOK
<1>4. QED
  BY <1>1, <1>2, <1>3, Zenon DEF Next

\* The rows, the calls in progress and the granted leases stay in their types;
\* in particular attempt_count never exceeds max_attempts (the guard of claim).
THEOREM TypeCorrect == Spec => []TypeOK
BY InitTyped, NextTyped, PTL DEF Spec

-----------------------------------------------------------------------------
(* What the building blocks of a commit do, column by column.              *)

LEMMA ReleaseFacts ==
  ASSUME TypeOK, NEW k \in Works, ReleaseLease(k), NEW j \in Works
  PROVE  /\ lease'[j].gen = lease[j].gen
         /\ lease'[j].owner = lease[j].owner
         /\ j = k => ~lease'[j].held /\ ~lease'[j].live
         /\ j # k => lease'[j] = lease[j]
BY Zenon DEF TypeOK, ReleaseLease, Leases

LEMMA AppendFacts ==
  ASSUME TypeOK, NEW c \in Callers, NEW k \in Works, NEW op, NEW r, NEW s,
         Append(c, k, op, r, s)
  PROVE  /\ call[c].op = op /\ call[c].work = k /\ call[c].fresh
         /\ status'[k] = s /\ replay'[k] = r
         /\ \A j \in Works \ {k} : status'[j] = status[j] /\ replay'[j] = replay[j]
         /\ call'[c] = Idle
BY Zenon DEF TypeOK, Append, EndCall

\* The other calls keep their operation and work, and lose freshness only on k.
LEMMA OtherCalls ==
  ASSUME TypeOK, NEW c \in Callers, NEW k \in Works, EndCall(c, k),
         NEW d \in Callers, d # c
  PROVE  /\ call'[d].op = call[d].op
         /\ call'[d].work = call[d].work
         /\ call[d].work # k => call'[d] = call[d]
<1>1. CASE call[d].work = k
  <2>1. call[d] \in Calls /\ call[d] # Idle
    BY <1>1, ConstantsAssumption DEF TypeOK, Idle
  <2>2. call'[d] = [call[d] EXCEPT !.fresh = FALSE]
    BY <1>1, Zenon DEF EndCall
  <2>3. QED
    BY <1>1, <2>1, <2>2, Zenon DEF Calls
<1>2. CASE call[d].work # k
  BY <1>2, Zenon DEF EndCall
<1>3. QED
  BY <1>1, <1>2, Zenon

-----------------------------------------------------------------------------
(* The status row, the lease row and the cancel flag never come apart.     *)

RowsInv == TypeOK /\ LeaseMatchesStatus /\ CancelWins

LEMMA RowsInvInit == Init => RowsInv
<1>1. Init => TypeOK
  BY InitTyped, Zenon
<1>2. QED
  BY <1>1 DEF Init, RowsInv, LeaseMatchesStatus, CancelWins, Active

\* A commit on k touches the rows of k only.
LEMMA CommitFrame ==
  ASSUME TypeOK, NEW c \in Callers, NEW k \in Works, Commit(c, k)
  PROVE  /\ EndCall(c, k)
         /\ \A j \in Works \ {k} :
              status'[j] = status[j] /\ lease'[j] = lease[j] /\ cancel'[j] = cancel[j]
<1>1. PICK op, r, s : Append(c, k, op, r, s)
  BY Zenon DEF Commit, FencedCommit, MarkPublished, Claim, RequestCancel, ExpireLease, Redrive,
    RequeueDeadLetter, Start, Heartbeat, Succeed, Cancel, FailRetry, FailTerminal, Release
<1>2. EndCall(c, k) /\ status' = [status EXCEPT ![k] = s]
  BY <1>1, Zenon DEF Append
<1>3. \/ lease' = lease
      \/ ReleaseLease(k)
      \/ GrantLease(c, k)
  BY Zenon DEF Commit, FencedCommit, MarkPublished, Claim, RequestCancel, ExpireLease, Redrive,
    RequeueDeadLetter, Start, Heartbeat, Succeed, Cancel, FailRetry, FailTerminal, Release
<1>4. \/ cancel' = cancel
      \/ cancel' = [cancel EXCEPT ![k] = TRUE]
      \/ cancel' = [cancel EXCEPT ![k] = FALSE]
  BY Zenon DEF Commit, FencedCommit, MarkPublished, Claim, RequestCancel, ExpireLease, Redrive,
    RequeueDeadLetter, Start, Heartbeat, Succeed, Cancel, FailRetry, FailTerminal, Release
<1>5. SUFFICES ASSUME NEW j \in Works \ {k}
               PROVE  status'[j] = status[j] /\ lease'[j] = lease[j] /\ cancel'[j] = cancel[j]
  BY <1>2, Zenon
<1>6. status'[j] = status[j]
  BY <1>2, Zenon DEF TypeOK
<1>7. lease'[j] = lease[j]
  BY <1>3, Zenon DEF ReleaseLease, GrantLease, TypeOK
<1>8. cancel'[j] = cancel[j]
  BY <1>4, Zenon DEF TypeOK
<1>9. QED
  BY <1>6, <1>7, <1>8, Zenon

\* The two invariants of the rows, of one work item.
RowsFit(k) ==
  /\ status[k] \in Active <=> lease[k].held
  /\ cancel[k] => status[k] \in Active \cup {"cancelled"}

LEMMA RowsFitAll == LeaseMatchesStatus /\ CancelWins <=> \A k \in Works : RowsFit(k)
BY Zenon DEF LeaseMatchesStatus, CancelWins, RowsFit

\* A commit that releases the lease.
LEMMA ReleasedFit ==
  ASSUME TypeOK, NEW k \in Works, ReleaseLease(k), status'[k] \notin Active,
         cancel'[k] => status'[k] = "cancelled"
  PROVE  RowsFit(k)'
<1>1. ~lease'[k].held
  BY ReleaseFacts, Zenon
<1>2. QED
  BY <1>1, Zenon DEF RowsFit

LEMMA UnfencedFit ==
  ASSUME TypeOK, NEW c \in Callers, NEW k \in Works, RowsFit(k),
         Commit(c, k), ~FencedCommit(c, k)
  PROVE  RowsFit(k)'
<1>1. CASE MarkPublished(c, k)
  <2>1. Append(c, k, "mark_published", Then(k, "published"), "published")
    BY <1>1, Zenon DEF MarkPublished
  <2>2. status'[k] = "published"
    BY <2>1, AppendFacts
  <2>3. status[k] \in {"requested", "retry_wait"} /\ lease' = lease /\ cancel' = cancel
    BY <1>1, Zenon DEF MarkPublished
  <2>4. QED
    BY <2>2, <2>3, Zenon DEF RowsFit, Active
<1>2. CASE Claim(c, k)
  <2>1. Append(c, k, "claim", Then(k, "claimed"), "claimed")
    BY <1>2, Zenon DEF Claim
  <2>2. status'[k] = "claimed"
    BY <2>1, AppendFacts
  <2>3. lease'[k].held
    BY <1>2, Zenon DEF Claim, GrantLease, TypeOK
  <2>4. QED
    BY <2>2, <2>3, Zenon DEF RowsFit, Active
<1>3. CASE RequestCancel(c, k)
  <2>1. lease' = lease /\ status[k] = call[c].seen
    BY <1>3, Zenon DEF RequestCancel, SeenStatusHolds
  <2>2. CASE call[c].seen \in Queued
    <3>1. Append(c, k, "request_cancel",
                 ThenBoth(k, "cancel_requested", "cancelled"), "cancelled")
      BY <1>3, <2>2, Zenon DEF RequestCancel, Queued, Active
    <3>2. status'[k] = "cancelled"
      BY <3>1, AppendFacts
    <3>3. QED
      BY <2>1, <2>2, <3>2, Zenon DEF RowsFit, Queued, Active
  <2>3. CASE call[c].seen \in Active
    <3>1. Append(c, k, "request_cancel", Then(k, "cancel_requested"), status[k])
      BY <1>3, <2>3, Zenon DEF RequestCancel, Queued, Active
    <3>2. status'[k] = status[k]
      BY <3>1, AppendFacts
    <3>3. QED
      BY <2>1, <2>3, <3>2, Zenon DEF RowsFit
  <2>4. QED
    BY <1>3, <2>2, <2>3, Zenon DEF RequestCancel
<1>4. CASE ExpireLease(c, k)
  <2>1. ReleaseLease(k) /\ cancel' = cancel /\ cancel[k] = call[c].cancel
    BY <1>4, Zenon DEF ExpireLease, StillExpired
  <2>2. \/ \E r : Append(c, k, "expire", r, "cancelled")
        \/ ~call[c].cancel /\ \E r : Append(c, k, "expire", r, "dead_letter")
        \/ ~call[c].cancel /\ \E r : Append(c, k, "expire", r, "retry_wait")
    BY <1>4, Zenon DEF ExpireLease
  <2>3. \/ status'[k] = "cancelled"
        \/ ~call[c].cancel /\ status'[k] \in {"dead_letter", "retry_wait"}
    BY <2>2, AppendFacts
  <2>4. QED
    BY <2>1, <2>3, ReleasedFit, Zenon DEF Active
<1>5. CASE Redrive(c, k)
  <2>1. Append(c, k, "redrive", Then(k, "reconciled"), status[k])
    BY <1>5, Zenon DEF Redrive
  <2>2. status'[k] = status[k]
    BY <2>1, AppendFacts
  <2>3. lease' = lease /\ cancel' = cancel
    BY <1>5, Zenon DEF Redrive
  <2>4. QED
    BY <2>2, <2>3, Zenon DEF RowsFit
<1>6. ASSUME NEW a \in Approvals, NEW actor \in Actors, RequeueDeadLetter(c, k, a, actor)
      PROVE  RowsFit(k)'
  <2>1. Append(c, k, "requeue", Then(k, "retry_scheduled"), "retry_wait")
    BY <1>6, Zenon DEF RequeueDeadLetter
  <2>2. status'[k] = "retry_wait"
    BY <2>1, AppendFacts
  <2>3. status[k] = "dead_letter" /\ lease' = lease /\ ~cancel'[k]
    BY <1>6, Zenon DEF RequeueDeadLetter, TypeOK
  <2>4. QED
    BY <2>2, <2>3, Zenon DEF RowsFit, Active
<1>7. QED
  BY <1>1, <1>2, <1>3, <1>4, <1>5, <1>6, Zenon DEF Commit

LEMMA FencedFit ==
  ASSUME TypeOK, NEW c \in Callers, NEW k \in Works, RowsFit(k), FencedCommit(c, k)
  PROVE  RowsFit(k)'
<1>1. CASE Start(c, k)
  <2>1. Append(c, k, "start", Then(k, "started"), "running")
    BY <1>1, Zenon DEF Start
  <2>2. status'[k] = "running"
    BY <2>1, AppendFacts
  <2>3. status[k] = "claimed" /\ lease' = lease
    BY <1>1, Zenon DEF Start
  <2>4. QED
    BY <2>2, <2>3, Zenon DEF RowsFit, Active
<1>2. CASE Heartbeat(c, k)
  <2>1. Append(c, k, "heartbeat", Then(k, "heartbeat"), status[k])
    BY <1>2, Zenon DEF Heartbeat
  <2>2. status'[k] = status[k]
    BY <2>1, AppendFacts
  <2>3. lease' = lease /\ cancel' = cancel
    BY <1>2, Zenon DEF Heartbeat
  <2>4. QED
    BY <2>2, <2>3, Zenon DEF RowsFit
<1>3. CASE Succeed(c, k)
  <2>1. Append(c, k, "succeed", Then(k, "succeeded"), "succeeded")
    BY <1>3, Zenon DEF Succeed
  <2>2. status'[k] = "succeeded"
    BY <2>1, AppendFacts
  <2>3. QED
    BY <1>3, <2>2, ReleasedFit, Zenon DEF Succeed, Active
<1>4. CASE Cancel(c, k)
  <2>1. Append(c, k, "cancel", Then(k, "cancelled"), "cancelled")
    BY <1>4, Zenon DEF Cancel
  <2>2. status'[k] = "cancelled"
    BY <2>1, AppendFacts
  <2>3. QED
    BY <1>4, <2>2, ReleasedFit, Zenon DEF Cancel, Active
<1>5. CASE FailRetry(c, k)
  <2>1. Append(c, k, "fail", ThenBoth(k, "failed", "retry_scheduled"), "retry_wait")
    BY <1>5, Zenon DEF FailRetry
  <2>2. status'[k] = "retry_wait"
    BY <2>1, AppendFacts
  <2>3. QED
    BY <1>5, <2>2, ReleasedFit, Zenon DEF FailRetry, Active
<1>6. ASSUME NEW retryable \in BOOLEAN, FailTerminal(c, k, retryable)
      PROVE  RowsFit(k)'
  <2>1. Append(c, k, "fail", ThenBoth(k, "failed", "dead_lettered"), "dead_letter")
    BY <1>6, Zenon DEF FailTerminal
  <2>2. status'[k] = "dead_letter"
    BY <2>1, AppendFacts
  <2>3. QED
    BY <1>6, <2>2, ReleasedFit, Zenon DEF FailTerminal, Active
<1>7. CASE Release(c, k)
  <2>1. Append(c, k, "release", Then(k, "retry_scheduled"), "retry_wait")
    BY <1>7, Zenon DEF Release
  <2>2. status'[k] = "retry_wait"
    BY <2>1, AppendFacts
  <2>3. QED
    BY <1>7, <2>2, ReleasedFit, Zenon DEF Release, Active
<1>8. QED
  BY <1>1, <1>2, <1>3, <1>4, <1>5, <1>6, <1>7, Zenon DEF FencedCommit

\* The steps that are no commit: only the environment touches these rows, by
\* registering a work item or by letting a lease expire.
LEMMA UncommittedRows ==
  ASSUME [Next]_vars, \A c \in Callers, k \in Works : ~Commit(c, k)
  PROVE  \/ \E k \in Works : Register(k) \/ LeaseRunsOut(k)
         \/ UNCHANGED <<status, lease, cancel>>
<1>1. ASSUME NEW c \in Callers, NEW k \in Works, Read(c, k)
      PROVE  UNCHANGED <<status, lease, cancel>>
  BY <1>1, Zenon DEF Read, BeginMarkPublished, BeginRequeue, ClaimRead, RequestCancelRead,
    ExpiredRead, RedriveRead, OpenAtRows, OpenAtVersion, Open, rows
<1>2. ASSUME NEW c \in Callers,
             \/ \E op \in FencedOps : BeginFenced(c, op)
             \/ ReadVersion(c) \/ Rollback(c) \/ StartFails(c)
             \/ StartFenced(c) \/ Abandon(c)
      PROVE  UNCHANGED <<status, lease, cancel>>
  BY <1>2, Zenon DEF BeginFenced, OpenAtVersion, Open, ReadVersion, Rollback, StartFails,
    StartFenced, Abandon, rows
<1>3. QED
  BY <1>1, <1>2, Zenon DEF Next, Environment, CallerStep, BecomesDue, ApproveDeadLetterRequeue,
    ApprovalRunsOut, vars

LEMMA RowsInvNext ==
  ASSUME RowsInv, [Next]_vars
  PROVE  RowsInv'
<1>1. TypeOK /\ TypeOK' /\ \A j \in Works : RowsFit(j)
  BY NextTyped, RowsFitAll, Zenon DEF RowsInv
<1>2. SUFFICES ASSUME NEW j \in Works
               PROVE  RowsFit(j)'
  BY <1>1, RowsFitAll, Zenon DEF RowsInv, LeaseMatchesStatus, CancelWins, RowsFit
<1>3. ASSUME NEW c \in Callers, NEW k \in Works, Commit(c, k)
      PROVE  RowsFit(j)'
  <2>1. CASE j = k
    BY <1>1, <1>3, <2>1, UnfencedFit, FencedFit, Zenon
  <2>2. CASE j # k
    <3>1. status'[j] = status[j] /\ lease'[j] = lease[j] /\ cancel'[j] = cancel[j]
      BY <1>1, <1>3, <2>2, CommitFrame, Zenon
    <3>2. QED
      BY <1>1, <3>1, Zenon DEF RowsFit
  <2>3. QED
    BY <2>1, <2>2, Zenon
<1>4. ASSUME NEW k \in Works, Register(k)
      PROVE  RowsFit(j)'
  <2>1. lease' = lease /\ cancel' = cancel
    BY <1>4, Zenon DEF Register
  <2>2. \/ status'[j] = status[j]
        \/ status[j] = "none" /\ status'[j] = "requested"
    BY <1>1, <1>4, Zenon DEF Register, TypeOK
  <2>3. QED
    BY <1>1, <2>1, <2>2, Zenon DEF RowsFit, Active
<1>5. ASSUME NEW k \in Works, LeaseRunsOut(k)
      PROVE  RowsFit(j)'
  <2>1. lease'[j].held = lease[j].held
    BY <1>1, <1>5 DEF LeaseRunsOut, TypeOK, Leases
  <2>2. QED
    BY <1>1, <1>5, <2>1, Zenon DEF LeaseRunsOut, RowsFit
<1>6. CASE UNCHANGED <<status, lease, cancel>>
  BY <1>1, <1>6, Zenon DEF RowsFit
<1>7. QED
  BY <1>3, <1>4, <1>5, <1>6, UncommittedRows, Zenon

\* Claiming, finishing, releasing and reconciling keep work_items and
\* work_leases in step: an item is claimed or running iff its lease is held.
THEOREM LeaseMatches == Spec => []LeaseMatchesStatus
<1>1. RowsInv => LeaseMatchesStatus
  BY Zenon DEF RowsInv
<1>2. QED
  BY <1>1, RowsInvInit, RowsInvNext, PTL DEF Spec

\* A requested cancellation is never overtaken by success, failure, a retry or
\* another claim, whoever else reads before it and commits after it.
THEOREM CancellationWins == Spec => []CancelWins
<1>1. RowsInv => CancelWins
  BY Zenon DEF RowsInv
<1>2. QED
  BY <1>1, RowsInvInit, RowsInvNext, PTL DEF Spec

-----------------------------------------------------------------------------
(* What the holder of a lease may rely on: each generation has one holder,  *)
(* and what the holder remembers agrees with the rows.                     *)

Follows(c) ==
  call[c].op \in FencedOps =>
    /\ handle[c] # NoHandle
    /\ call[c].work = handle[c].work
    /\ MayCall(c, call[c].op)
    /\ call[c].op = "start" /\ ~call[c].fresh =>
         LET k == call[c].work IN
         lease[k].held /\ lease[k].gen = handle[c].gen => cancel[k]

HolderInv == SoleHolder /\ HolderKnowsStatus /\ (\A c \in Callers : Follows(c))

LEMMA FollowsSame == CallsFollowHandle <=> \A c \in Callers : Follows(c)
BY Zenon DEF CallsFollowHandle, Follows

\* The invariants of the holders, of one work item and one caller.
Sole(k, c) ==
  /\ handle[c].work = k /\ handle[c].gen = lease[k].gen => lease[k].owner = c
  /\ handle[c].work = k => handle[c].gen <= lease[k].gen

Knows(k, c) ==
  handle[c].work = k /\ handle[c].gen = lease[k].gen /\ lease[k].held =>
    /\ handle[c].phase = "running" <=> status[k] = "running"
    /\ handle[c].phase = "start_failed" => cancel[k] \/ StorageFaults

\* The last conjunct of Follows.
StartKnows(c) ==
  call[c].op = "start" /\ ~call[c].fresh =>
    LET k == call[c].work IN
    lease[k].held /\ lease[k].gen = handle[c].gen => cancel[k]

LEMMA HolderElim ==
  ASSUME HolderInv, NEW k \in Works, NEW c \in Callers
  PROVE  Sole(k, c) /\ Knows(k, c) /\ Follows(c)
BY Zenon DEF HolderInv, SoleHolder, HolderKnowsStatus, Sole, Knows

LEMMA HolderIntro ==
  ASSUME \A k \in Works, c \in Callers : Sole(k, c)' /\ Knows(k, c)',
         \A c \in Callers : Follows(c)'
  PROVE  HolderInv'
<1>1. SoleHolder'
  BY Zenon DEF SoleHolder, Sole
<1>2. HolderKnowsStatus'
  BY Zenon DEF HolderKnowsStatus, Knows
<1>3. QED
  BY <1>1, <1>2, Zenon DEF HolderInv

\* A row and a lease that did not change, but for a cancellation request.
LEMMA PairFrame ==
  ASSUME NEW k \in Works, NEW c \in Callers, Sole(k, c), Knows(k, c),
         handle'[c] = handle[c], lease'[k] = lease[k], status'[k] = status[k],
         cancel[k] => cancel'[k]
  PROVE  Sole(k, c)' /\ Knows(k, c)'
BY Zenon DEF Sole, Knows

\* A lease that is not held after the step.
LEMMA PairUnheld ==
  ASSUME NEW k \in Works, NEW c \in Callers, Sole(k, c),
         handle'[c] = handle[c], ~lease'[k].held,
         lease'[k].gen = lease[k].gen, lease'[k].owner = lease[k].owner
  PROVE  Sole(k, c)' /\ Knows(k, c)'
BY Zenon DEF Sole, Knows

LEMMA IdleFollows ==
  ASSUME NEW c \in Callers, call'[c] = Idle
  PROVE  Follows(c)'
BY DEF Follows, Idle, FencedOps

\* What a call is about, and the numbers it carries.
LEMMA CallFacts ==
  ASSUME TypeOK, NEW c \in Callers
  PROVE  /\ call[c].op \in FencedOps => call[c].work \in Works
         /\ call[c].gen \in Nat
<1>1. call[c] \in Calls
  BY Zenon DEF TypeOK
<1>2. CASE call[c] = Idle
  BY <1>2 DEF Idle, FencedOps
<1>3. CASE call[c] # Idle
  BY <1>1, <1>3, Zenon DEF Calls
<1>4. QED
  BY <1>2, <1>3, Zenon

LEMMA FollowsFrame ==
  ASSUME NEW c \in Callers, Follows(c), handle'[c] = handle[c],
         call'[c].op = call[c].op, call'[c].work = call[c].work,
         call[c].op = "start" => StartKnows(c)'
  PROVE  Follows(c)'
<1>1. SUFFICES ASSUME call'[c].op \in FencedOps
               PROVE  /\ handle'[c] # NoHandle
                      /\ call'[c].work = handle'[c].work
                      /\ MayCall(c, call[c].op)'
                      /\ StartKnows(c)'
  BY Zenon DEF Follows, StartKnows, MayCall
<1>2. /\ handle[c] # NoHandle /\ call[c].work = handle[c].work
      /\ MayCall(c, call[c].op)
  BY <1>1, Zenon DEF Follows
<1>3. MayCall(c, call[c].op)'
  BY <1>2, Zenon DEF MayCall
<1>4. StartKnows(c)'
  BY Zenon DEF StartKnows
<1>5. QED
  BY <1>2, <1>3, <1>4, Zenon

LEMMA FollowsStart ==
  ASSUME TypeOK, NEW c \in Callers, Follows(c), call[c].op = "start"
  PROVE  call[c].work \in Works /\ call[c].work = handle[c].work /\ StartKnows(c)
<1>1. call[c].op \in FencedOps
  BY Zenon DEF FencedOps
<1>2. call[c].work \in Works
  BY <1>1, CallFacts, Zenon
<1>3. QED
  BY <1>1, <1>2, Zenon DEF Follows, StartKnows

\* The calls of the others after a commit on k: they still follow their handle
\* when the start() calls on k, whose version is stale now, still know.
LEMMA CommitFollows ==
  ASSUME TypeOK, NEW c \in Callers, NEW k \in Works, EndCall(c, k),
         NEW d \in Callers, d # c => handle'[d] = handle[d], Follows(d),
         \A j \in Works \ {k} : lease'[j] = lease[j] /\ cancel'[j] = cancel[j],
         d # c /\ handle[d].work = k =>
           (lease'[k].held /\ lease'[k].gen = handle[d].gen => cancel'[k])
  PROVE  Follows(d)'
<1>1. CASE d = c
  BY <1>1, IdleFollows, Zenon DEF EndCall
<1>2. CASE d # c
  <2>1. /\ call'[d].op = call[d].op /\ call'[d].work = call[d].work
        /\ call[d].work # k => call'[d] = call[d]
    BY <1>2, OtherCalls, Zenon
  <2>2. ASSUME call[d].op = "start"
        PROVE  StartKnows(d)'
    <3>1. call[d].work \in Works /\ call[d].work = handle[d].work /\ StartKnows(d)
      BY <2>2, FollowsStart, Zenon
    <3>2. CASE call[d].work = k
      BY <1>2, <2>1, <3>1, <3>2, Zenon DEF StartKnows
    <3>3. CASE call[d].work # k
      BY <1>2, <2>1, <3>1, <3>3 DEF StartKnows
    <3>4. QED
      BY <3>2, <3>3, Zenon
  <2>3. QED
    BY <1>2, <2>1, <2>2, FollowsFrame, Zenon
<1>3. QED
  BY <1>1, <1>2, Zenon

\* A commit on k after which the lease of k is not held leaves every holder's
\* view intact: it was, or has just been, released.
LEMMA UnheldCommit ==
  ASSUME RowsInv, HolderInv, NEW c \in Callers, NEW k \in Works, Commit(c, k),
         handle' = handle, ~lease'[k].held,
         lease'[k].gen = lease[k].gen, lease'[k].owner = lease[k].owner
  PROVE  HolderInv'
<1>1. TypeOK
  BY Zenon DEF RowsInv
<1>2. /\ EndCall(c, k)
      /\ \A j \in Works \ {k} :
           status'[j] = status[j] /\ lease'[j] = lease[j] /\ cancel'[j] = cancel[j]
  BY <1>1, CommitFrame, Zenon
<1>3. ASSUME NEW j \in Works, NEW d \in Callers
      PROVE  Sole(j, d)' /\ Knows(j, d)'
  <2>1. Sole(j, d) /\ Knows(j, d)
    BY HolderElim, Zenon
  <2>2. CASE j = k
    BY <2>1, <2>2, PairUnheld, Zenon
  <2>3. CASE j # k
    BY <1>2, <2>1, <2>3, PairFrame, Zenon
  <2>4. QED
    BY <2>2, <2>3, Zenon
<1>4. ASSUME NEW d \in Callers
      PROVE  Follows(d)'
  <2>1. Follows(d)
    BY HolderElim, Zenon
  <2>2. QED
    BY <1>1, <1>2, <2>1, CommitFollows, Zenon
<1>5. QED
  BY <1>3, <1>4, HolderIntro, Zenon

LEMMA HolderInvInit == Init => HolderInv
<1>1. SUFFICES ASSUME Init
               PROVE  HolderInv
  OBVIOUS
<1>2. \A c \in Callers : call[c] = Idle /\ handle[c].work = None
  BY <1>1, Zenon DEF Init, NoHandle
<1>3. \A k \in Works, c \in Callers : handle[c].work # k
  BY <1>2, ConstantsAssumption, Zenon
<1>4. SoleHolder /\ HolderKnowsStatus
  BY <1>3, Zenon DEF SoleHolder, HolderKnowsStatus
<1>5. \A c \in Callers : call[c].op \notin FencedOps
  BY <1>2 DEF Idle, FencedOps
<1>6. \A c \in Callers : Follows(c)
  BY <1>5, Zenon DEF Follows
<1>7. QED
  BY <1>4, <1>6, Zenon DEF HolderInv

LEMMA ClaimHolder ==
  ASSUME RowsInv, HolderInv, NEW c \in Callers, NEW k \in Works, Claim(c, k)
  PROVE  HolderInv'
<1>1. TypeOK /\ Commit(c, k)
  BY Zenon DEF RowsInv, Commit
<1>2. /\ EndCall(c, k)
      /\ \A j \in Works \ {k} :
           status'[j] = status[j] /\ lease'[j] = lease[j] /\ cancel'[j] = cancel[j]
  BY <1>1, CommitFrame, Zenon
<1>3. lease'[k] = [gen |-> call[c].gen, owner |-> c, held |-> TRUE, live |-> TRUE]
  BY <1>1, Zenon DEF Claim, GrantLease, TypeOK
<1>4. lease[k].gen \in Nat /\ call[c].gen = lease[k].gen + 1
  <2>1. lease[k].gen \in Nat
    BY <1>1, Zenon DEF TypeOK, Leases
  <2>2. call[c].gen \in Nat
    BY <1>1, CallFacts, Zenon
  <2>3. lease[k].gen = call[c].gen - 1
    BY Zenon DEF Claim
  <2>4. QED
    BY <2>1, <2>2, <2>3
<1>5. /\ handle'[c] = [work |-> k, gen |-> call[c].gen, attempt |-> call[c].attempt,
                       phase |-> "claimed"]
      /\ \A d \in Callers \ {c} : handle'[d] = handle[d]
  BY <1>1, Zenon DEF Claim, TypeOK
<1>6. status'[k] = "claimed"
  <2>1. Append(c, k, "claim", Then(k, "claimed"), "claimed")
    BY Zenon DEF Claim
  <2>2. QED
    BY <1>1, <2>1, AppendFacts
<1>7. ASSUME NEW d \in Callers, handle[d].work = k
      PROVE  handle[d].gen \in Nat /\ handle[d].gen <= lease[k].gen
  <2>1. handle[d] \in Handles /\ handle[d] # NoHandle
    BY <1>1, <1>7, ConstantsAssumption DEF TypeOK, NoHandle
  <2>2. Sole(k, d)
    BY HolderElim, Zenon
  <2>3. QED
    BY <1>7, <2>1, <2>2, Zenon DEF Sole, Handles
<1>8. ASSUME NEW j \in Works, NEW d \in Callers
      PROVE  Sole(j, d)' /\ Knows(j, d)'
  <2>1. Sole(j, d) /\ Knows(j, d)
    BY HolderElim, Zenon
  <2>2. CASE d = c /\ j = k
    BY <1>3, <1>4, <1>5, <1>6, <2>2 DEF Sole, Knows
  <2>3. CASE d = c /\ j # k
    BY <1>5, <2>3 DEF Sole, Knows
  <2>4. CASE d # c /\ j = k
    <3>1. handle'[d] = handle[d] /\ lease'[k].gen = lease[k].gen + 1
      BY <1>3, <1>4, <1>5, <2>4
    <3>2. handle[d].work = k => handle[d].gen <= lease'[k].gen /\ handle[d].gen # lease'[k].gen
      BY <1>4, <1>7, <3>1
    <3>3. QED
      BY <2>4, <3>1, <3>2, Zenon DEF Sole, Knows
  <2>5. CASE d # c /\ j # k
    BY <1>2, <1>5, <2>1, <2>5, PairFrame, Zenon
  <2>6. QED
    BY <2>2, <2>3, <2>4, <2>5, Zenon
<1>9. ASSUME NEW d \in Callers
      PROVE  Follows(d)'
  <2>1. Follows(d)
    BY HolderElim, Zenon
  <2>2. d # c /\ handle[d].work = k => lease'[k].gen # handle[d].gen
    BY <1>3, <1>4, <1>7
  <2>3. QED
    BY <1>1, <1>2, <1>5, <2>1, <2>2, CommitFollows
<1>10. QED
  BY <1>8, <1>9, HolderIntro, Zenon

\* A request to cancel active work: the version moves and the flag is set.
LEMMA FlagHolder ==
  ASSUME RowsInv, HolderInv, NEW c \in Callers, NEW k \in Works, RequestCancel(c, k),
         status'[k] = status[k]
  PROVE  HolderInv'
<1>1. TypeOK /\ Commit(c, k) /\ handle' = handle /\ lease' = lease
  BY Zenon DEF RowsInv, Commit, RequestCancel
<1>2. /\ EndCall(c, k)
      /\ \A j \in Works \ {k} :
           status'[j] = status[j] /\ lease'[j] = lease[j] /\ cancel'[j] = cancel[j]
  BY <1>1, CommitFrame, Zenon
<1>3. cancel'[k] = TRUE
  BY <1>1, Zenon DEF RequestCancel, TypeOK
<1>4. ASSUME NEW j \in Works, NEW d \in Callers
      PROVE  Sole(j, d)' /\ Knows(j, d)'
  <2>1. Sole(j, d) /\ Knows(j, d)
    BY HolderElim, Zenon
  <2>2. status'[j] = status[j] /\ (cancel[j] => cancel'[j])
    BY <1>2, <1>3, Zenon
  <2>3. QED
    BY <1>1, <2>1, <2>2, PairFrame, Zenon
<1>5. ASSUME NEW d \in Callers
      PROVE  Follows(d)'
  <2>1. Follows(d)
    BY HolderElim, Zenon
  <2>2. QED
    BY <1>1, <1>2, <1>3, <2>1, CommitFollows, Zenon
<1>6. QED
  BY <1>4, <1>5, HolderIntro, Zenon

\* A commit of the holder that keeps the lease: only its own calls are on the
\* current generation, so no other holder is disturbed.
LEMMA HolderCommit ==
  ASSUME RowsInv, HolderInv, NEW c \in Callers, NEW k \in Works, Commit(c, k),
         Fence(c, k), lease' = lease, cancel' = cancel,
         \A d \in Callers \ {c} : handle'[d] = handle[d],
         handle'[c].work = handle[c].work, handle'[c].gen = handle[c].gen,
         handle'[c].phase = "running", status'[k] = "running"
  PROVE  HolderInv'
<1>1. TypeOK
  BY Zenon DEF RowsInv
<1>2. /\ EndCall(c, k)
      /\ \A j \in Works \ {k} :
           status'[j] = status[j] /\ lease'[j] = lease[j] /\ cancel'[j] = cancel[j]
  BY <1>1, CommitFrame, Zenon
<1>3. handle[c].work = k /\ lease[k].owner = c
  <2>1. Sole(k, c)
    BY HolderElim, Zenon
  <2>2. QED
    BY <2>1, Zenon DEF Sole, Fence
<1>4. ASSUME NEW d \in Callers \ {c}, handle[d].work = k
      PROVE  handle[d].gen # lease[k].gen
  <2>1. Sole(k, d)
    BY HolderElim, Zenon
  <2>2. QED
    BY <1>3, <1>4, <2>1, Zenon DEF Sole
<1>5. ASSUME NEW j \in Works, NEW d \in Callers
      PROVE  Sole(j, d)' /\ Knows(j, d)'
  <2>1. Sole(j, d) /\ Knows(j, d)
    BY HolderElim, Zenon
  <2>2. CASE d = c
    <3>1. Sole(j, d)'
      BY <2>1, <2>2, Zenon DEF Sole
    <3>2. Knows(j, d)'
      BY <1>3, <2>2, Zenon DEF Knows
    <3>3. QED
      BY <3>1, <3>2, Zenon
  <2>3. CASE d # c /\ j = k
    BY <1>4, <2>1, <2>3 DEF Sole, Knows
  <2>4. CASE d # c /\ j # k
    BY <1>2, <2>1, <2>4, PairFrame, Zenon
  <2>5. QED
    BY <2>2, <2>3, <2>4, Zenon
<1>6. ASSUME NEW d \in Callers
      PROVE  Follows(d)'
  <2>1. Follows(d)
    BY HolderElim, Zenon
  <2>2. d # c /\ handle[d].work = k => lease'[k].gen # handle[d].gen
    BY <1>4, Zenon
  <2>3. QED
    BY <1>1, <1>2, <2>1, <2>2, CommitFollows, Zenon
<1>7. QED
  BY <1>5, <1>6, HolderIntro, Zenon

LEMMA ReleaseHolder ==
  ASSUME RowsInv, HolderInv, NEW c \in Callers, NEW k \in Works, Commit(c, k),
         handle' = handle, ReleaseLease(k)
  PROVE  HolderInv'
<1>1. TypeOK
  BY Zenon DEF RowsInv
<1>2. /\ ~lease'[k].held /\ lease'[k].gen = lease[k].gen
      /\ lease'[k].owner = lease[k].owner
  BY <1>1, ReleaseFacts, Zenon
<1>3. QED
  BY <1>2, UnheldCommit, Zenon

LEMMA CommitHolder ==
  ASSUME RowsInv, HolderInv, NEW c \in Callers, NEW k \in Works, Commit(c, k)
  PROVE  HolderInv'
<1>1. TypeOK /\ (status[k] \in Active <=> lease[k].held)
  BY Zenon DEF RowsInv, LeaseMatchesStatus
<1>2. CASE MarkPublished(c, k)
  <2>1. status[k] \notin Active /\ lease' = lease /\ handle' = handle
    BY <1>2, Zenon DEF MarkPublished, Active
  <2>2. QED
    BY <1>1, <2>1, UnheldCommit, Zenon
<1>3. CASE Claim(c, k)
  BY <1>3, ClaimHolder, Zenon
<1>4. CASE RequestCancel(c, k)
  <2>1. status[k] = call[c].seen /\ lease' = lease /\ handle' = handle
    BY <1>4, Zenon DEF RequestCancel, SeenStatusHolds
  <2>2. CASE call[c].seen \in Queued
    <3>1. status[k] \notin Active
      BY <2>1, <2>2, Zenon DEF Queued, Active
    <3>2. QED
      BY <1>1, <2>1, <3>1, UnheldCommit, Zenon
  <2>3. CASE call[c].seen \in Active
    <3>1. Append(c, k, "request_cancel", Then(k, "cancel_requested"), status[k])
      BY <1>4, <2>3, Zenon DEF RequestCancel, Queued, Active
    <3>2. status'[k] = status[k]
      BY <1>1, <3>1, AppendFacts
    <3>3. QED
      BY <1>4, <3>2, FlagHolder, Zenon
  <2>4. QED
    BY <1>4, <2>2, <2>3, Zenon DEF RequestCancel
<1>5. CASE ExpireLease(c, k)
  BY <1>5, ReleaseHolder, Zenon DEF ExpireLease
<1>6. CASE Redrive(c, k)
  <2>1. ~lease[k].held /\ lease' = lease /\ handle' = handle
    BY <1>6, Zenon DEF Redrive
  <2>2. QED
    BY <2>1, UnheldCommit, Zenon
<1>7. ASSUME NEW a \in Approvals, NEW actor \in Actors, RequeueDeadLetter(c, k, a, actor)
      PROVE  HolderInv'
  <2>1. status[k] \notin Active /\ lease' = lease /\ handle' = handle
    BY <1>7, Zenon DEF RequeueDeadLetter, Active
  <2>2. QED
    BY <1>1, <2>1, UnheldCommit, Zenon
<1>8. CASE Start(c, k)
  <2>1. /\ handle'[c].work = handle[c].work /\ handle'[c].gen = handle[c].gen
        /\ handle'[c].phase = "running"
        /\ \A d \in Callers \ {c} : handle'[d] = handle[d]
    <3>1. handle[c] \in Handles /\ handle[c] # NoHandle
      BY <1>1, <1>8, ConstantsAssumption DEF Start, Fence, NoHandle, TypeOK
    <3>2. handle' = [handle EXCEPT ![c] = [handle[c] EXCEPT !.phase = "running"]]
      BY <1>8, Zenon DEF Start
    <3>3. QED
      BY <1>1, <3>1, <3>2, Zenon DEF TypeOK, Handles
  <2>2. Append(c, k, "start", Then(k, "started"), "running")
    BY <1>8, Zenon DEF Start
  <2>3. status'[k] = "running"
    BY <1>1, <2>2, AppendFacts
  <2>4. QED
    BY <1>8, <2>1, <2>3, HolderCommit, Zenon DEF Start
<1>9. CASE Heartbeat(c, k)
  <2>1. Append(c, k, "heartbeat", Then(k, "heartbeat"), status[k])
    BY <1>9, Zenon DEF Heartbeat
  <2>2. call[c].op = "heartbeat" /\ status'[k] = status[k]
    BY <1>1, <2>1, AppendFacts
  <2>3. Follows(c) /\ Knows(k, c)
    BY HolderElim, Zenon
  <2>4. handle[c].phase = "running"
    BY <2>2, <2>3, Zenon DEF Follows, MayCall, FencedOps
  <2>5. status[k] = "running"
    BY <1>9, <2>3, <2>4, Zenon DEF Heartbeat, Fence, Knows
  <2>6. QED
    BY <1>9, <2>2, <2>4, <2>5, HolderCommit, Zenon DEF Heartbeat
<1>10. CASE Succeed(c, k)
  BY <1>10, ReleaseHolder, Zenon DEF Succeed
<1>11. CASE Cancel(c, k)
  BY <1>11, ReleaseHolder, Zenon DEF Cancel
<1>12. CASE FailRetry(c, k)
  BY <1>12, ReleaseHolder, Zenon DEF FailRetry
<1>13. ASSUME NEW retryable \in BOOLEAN, FailTerminal(c, k, retryable)
       PROVE  HolderInv'
  BY <1>13, ReleaseHolder, Zenon DEF FailTerminal
<1>14. CASE Release(c, k)
  BY <1>14, ReleaseHolder, Zenon DEF Release
<1>15. QED
  BY <1>2, <1>3, <1>4, <1>5, <1>6, <1>7, <1>8, <1>9, <1>10, <1>11, <1>12, <1>13, <1>14
  DEF Commit, FencedCommit

\* Steps that touch no row: opening a call, reading the version, ending a call
\* without a commit.
LEMMA LocalHolder ==
  ASSUME RowsInv, HolderInv, NEW c \in Callers,
         status' = status, lease' = lease, cancel' = cancel,
         \A d \in Callers \ {c} : call'[d] = call[d] /\ handle'[d] = handle[d],
         \/ handle'[c] = handle[c]
         \/ handle'[c] = NoHandle
         \/ /\ handle'[c].work = handle[c].work /\ handle'[c].gen = handle[c].gen
            /\ handle'[c].phase = "start_failed" /\ handle[c].phase = "claimed"
            /\ \A k \in Works : handle[c].work = k /\ handle[c].gen = lease[k].gen
                               /\ lease[k].held => cancel[k] \/ StorageFaults,
         Follows(c)'
  PROVE  HolderInv'
<1>1. ASSUME NEW j \in Works, NEW d \in Callers
      PROVE  Sole(j, d)' /\ Knows(j, d)'
  <2>1. Sole(j, d) /\ Knows(j, d)
    BY HolderElim, Zenon
  <2>2. CASE handle'[d] = handle[d]
    BY <2>1, <2>2, PairFrame, Zenon
  <2>3. CASE handle'[d] = NoHandle
    <3>1. handle'[d].work # j
      BY <2>3, ConstantsAssumption DEF NoHandle
    <3>2. QED
      BY <3>1, Zenon DEF Sole, Knows
  <2>4. CASE d = c /\ handle'[c] # handle[c] /\ handle'[c] # NoHandle
    <3>1. /\ handle'[d].work = handle[d].work /\ handle'[d].gen = handle[d].gen
          /\ handle'[d].phase = "start_failed" /\ handle[d].phase = "claimed"
          /\ handle[d].work = j /\ handle[d].gen = lease[j].gen /\ lease[j].held =>
               cancel[j] \/ StorageFaults
      BY <2>4, Zenon
    <3>2. Sole(j, d)'
      BY <2>1, <3>1, Zenon DEF Sole
    <3>3. Knows(j, d)'
      BY <2>1, <3>1, Zenon DEF Knows
    <3>4. QED
      BY <3>2, <3>3, Zenon
  <2>5. QED
    BY <2>2, <2>3, <2>4, Zenon
<1>2. ASSUME NEW d \in Callers, d # c
      PROVE  Follows(d)'
  <2>1. Follows(d) /\ call'[d] = call[d] /\ handle'[d] = handle[d]
    BY <1>2, Zenon DEF HolderInv
  <2>2. call[d].op = "start" => StartKnows(d)'
    BY <2>1, Zenon DEF Follows, StartKnows, FencedOps
  <2>3. QED
    BY <2>1, <2>2, FollowsFrame, Zenon
<1>3. QED
  BY <1>1, <1>2, HolderIntro, Zenon

LEMMA OpenHolder ==
  ASSUME RowsInv, HolderInv, NEW c \in Callers, NEW record, Open(c, record),
         record.op \notin FencedOps
  PROVE  HolderInv'
<1>1. call'[c] = record /\ \A d \in Callers \ {c} : call'[d] = call[d]
  BY Zenon DEF Open, RowsInv, TypeOK
<1>2. Follows(c)'
  BY <1>1, Zenon DEF Follows
<1>3. QED
  BY <1>1, <1>2, LocalHolder, Zenon DEF Open, rows

LEMMA HolderInvNext ==
  ASSUME RowsInv, HolderInv, [Next]_vars
  PROVE  HolderInv'
<1>1. TypeOK
  BY Zenon DEF RowsInv
<1>2. ASSUME NEW c \in Callers, NEW k \in Works, Read(c, k)
      PROVE  HolderInv'
  <2>1. ASSUME NEW op, op \notin FencedOps, OpenAtVersion(c, k, op)
        PROVE  HolderInv'
    BY <2>1, OpenHolder, Zenon DEF OpenAtVersion
  <2>2. ASSUME NEW op, op \notin FencedOps, NEW gen, NEW n, NEW s, NEW flag,
               OpenAtRows(c, k, op, gen, n, s, flag)
        PROVE  HolderInv'
    BY <2>2, OpenHolder, Zenon DEF OpenAtRows
  <2>3. CASE BeginMarkPublished(c, k)
    BY <2>1, <2>3, Zenon DEF BeginMarkPublished, FencedOps
  <2>4. CASE BeginRequeue(c, k)
    BY <2>1, <2>4, Zenon DEF BeginRequeue, FencedOps
  <2>5. CASE ClaimRead(c, k)
    BY <2>2, <2>5, Zenon DEF ClaimRead, FencedOps
  <2>6. CASE RequestCancelRead(c, k)
    BY <2>2, <2>6, Zenon DEF RequestCancelRead, FencedOps
  <2>7. CASE ExpiredRead(c, k)
    BY <2>2, <2>7, Zenon DEF ExpiredRead, FencedOps
  <2>8. CASE RedriveRead(c, k)
    BY <2>2, <2>8, Zenon DEF RedriveRead, FencedOps
  <2>9. QED
    BY <1>2, <2>3, <2>4, <2>5, <2>6, <2>7, <2>8, Zenon DEF Read
<1>3. ASSUME NEW c \in Callers, NEW op \in FencedOps, BeginFenced(c, op)
      PROVE  HolderInv'
  <2>1. /\ call'[c].op = op /\ call'[c].work = handle[c].work /\ call'[c].fresh
        /\ \A d \in Callers \ {c} : call'[d] = call[d]
        /\ handle' = handle /\ handle[c] # NoHandle /\ MayCall(c, op)
    BY <1>1, <1>3, Zenon DEF BeginFenced, OpenAtVersion, Open, TypeOK
  <2>2. Follows(c)'
    BY <2>1, Zenon DEF Follows, MayCall
  <2>3. QED
    BY <1>3, <2>1, <2>2, LocalHolder, Zenon DEF BeginFenced, OpenAtVersion, Open, rows
<1>4. ASSUME NEW c \in Callers, ReadVersion(c)
      PROVE  HolderInv'
  <2>1. /\ call'[c].op = call[c].op /\ call'[c].work = call[c].work /\ call'[c].fresh
        /\ \A d \in Callers \ {c} : call'[d] = call[d]
    <3>1. call[c] \in Calls /\ call[c] # Idle
      BY <1>1, <1>4, Zenon DEF ReadVersion, TypeOK
    <3>2. call' = [call EXCEPT ![c] = [call[c] EXCEPT !.ready = TRUE, !.fresh = TRUE]]
      BY <1>4, Zenon DEF ReadVersion
    <3>3. QED
      BY <1>1, <3>1, <3>2, Zenon DEF TypeOK, Calls
  <2>2. Follows(c)'
    BY <1>4, <2>1, Zenon DEF ReadVersion, HolderInv, Follows, MayCall
  <2>3. QED
    BY <1>4, <2>1, <2>2, LocalHolder, Zenon DEF ReadVersion, rows
<1>5. ASSUME NEW c \in Callers, Rollback(c) \/ StartFenced(c)
      PROVE  HolderInv'
  <2>1. call'[c] = Idle /\ \A d \in Callers \ {c} : call'[d] = call[d]
    BY <1>1, <1>5, Zenon DEF Rollback, StartFenced, TypeOK
  <2>2. Follows(c)'
    BY <2>1, IdleFollows, Zenon
  <2>3. QED
    BY <1>5, <2>1, <2>2, LocalHolder, Zenon DEF Rollback, StartFenced, rows
<1>6. ASSUME NEW c \in Callers, StartFails(c)
      PROVE  HolderInv'
  <2>1. call'[c] = Idle /\ \A d \in Callers \ {c} : call'[d] = call[d]
    BY <1>1, <1>6, Zenon DEF StartFails, TypeOK
  <2>2. /\ handle'[c].work = handle[c].work /\ handle'[c].gen = handle[c].gen
        /\ handle'[c].phase = "start_failed"
        /\ \A d \in Callers \ {c} : handle'[d] = handle[d]
    <3>1. handle[c] \in Handles /\ handle[c] # NoHandle
      BY <1>1, <1>6, Zenon DEF StartFails, TypeOK
    <3>2. QED
      BY <1>1, <1>6, <3>1, Zenon DEF StartFails, TypeOK, Handles
  <2>3. Follows(c) /\ call[c].op = "start"
    BY <1>6, Zenon DEF HolderInv, StartFails
  <2>4. /\ handle[c].phase = "claimed"
        /\ \A k \in Works : handle[c].work = k /\ handle[c].gen = lease[k].gen
                            /\ lease[k].held => cancel[k] \/ StorageFaults
    BY <1>6, <2>3, Zenon DEF StartFails, Follows, MayCall, FencedOps
  <2>5. Follows(c)'
    BY <2>1, IdleFollows, Zenon
  <2>6. QED
    BY <1>6, <2>1, <2>2, <2>4, <2>5, LocalHolder, Zenon DEF StartFails, rows
<1>7. ASSUME NEW c \in Callers, Abandon(c)
      PROVE  HolderInv'
  <2>1. /\ call'[c] = Idle /\ handle'[c] = NoHandle
        /\ \A d \in Callers \ {c} : call'[d] = call[d] /\ handle'[d] = handle[d]
    BY <1>1, <1>7, Zenon DEF Abandon, TypeOK
  <2>2. Follows(c)'
    BY <2>1, IdleFollows, Zenon
  <2>3. QED
    BY <1>7, <2>1, <2>2, LocalHolder, Zenon DEF Abandon, rows
<1>8. ASSUME UNCHANGED <<call, handle, cancel>>,
             \A k \in Works :
               /\ lease'[k].gen = lease[k].gen /\ lease'[k].owner = lease[k].owner
               /\ lease'[k].held = lease[k].held
               /\ lease[k].held => status'[k] = status[k]
      PROVE  HolderInv'
  <2>1. ASSUME NEW j \in Works, NEW d \in Callers
        PROVE  Sole(j, d)' /\ Knows(j, d)'
    <3>1. Sole(j, d) /\ Knows(j, d)
      BY HolderElim, Zenon
    <3>2. QED
      BY <1>8, <3>1, Zenon DEF Sole, Knows
  <2>2. ASSUME NEW d \in Callers
        PROVE  Follows(d)'
    <3>1. Follows(d)
      BY Zenon DEF HolderInv
    <3>2. ASSUME call[d].op = "start"
          PROVE  StartKnows(d)'
      <4>1. call[d].work \in Works /\ StartKnows(d)
        BY <1>1, <3>1, <3>2, FollowsStart, Zenon
      <4>2. QED
        BY <1>8, <4>1, Zenon DEF StartKnows
    <3>3. QED
      BY <1>8, <3>1, <3>2, FollowsFrame, Zenon
  <2>3. QED
    BY <2>1, <2>2, HolderIntro, Zenon
<1>9. ASSUME NEW k \in Works, Register(k)
      PROVE  HolderInv'
  <2>1. UNCHANGED <<call, handle, cancel, lease>>
    BY <1>9, Zenon DEF Register
  <2>2. ASSUME NEW j \in Works, lease[j].held
        PROVE  status'[j] = status[j]
    <3>1. status[j] \in Active
      BY <2>2, Zenon DEF RowsInv, LeaseMatchesStatus
    <3>2. QED
      BY <1>1, <1>9, <3>1, Zenon DEF Register, Active, TypeOK
  <2>3. QED
    BY <1>8, <2>1, <2>2, Zenon
<1>10. ASSUME NEW k \in Works, LeaseRunsOut(k)
       PROVE  HolderInv'
  <2>1. ASSUME NEW j \in Works
        PROVE  /\ lease'[j].gen = lease[j].gen /\ lease'[j].owner = lease[j].owner
               /\ lease'[j].held = lease[j].held
    BY <1>1, <1>10, Zenon DEF LeaseRunsOut, TypeOK, Leases
  <2>2. QED
    BY <1>8, <1>10, <2>1, Zenon DEF LeaseRunsOut
<1>11. CASE UNCHANGED <<status, lease, cancel, call, handle>>
  BY <1>8, <1>11, Zenon
<1>12. ASSUME Environment
       PROVE  HolderInv'
  BY <1>9, <1>10, <1>11, <1>12, Zenon
  DEF Environment, BecomesDue, ApproveDeadLetterRequeue, ApprovalRunsOut
<1>13. ASSUME NEW c \in Callers, CallerStep(c)
       PROVE  HolderInv'
  BY <1>2, <1>3, <1>4, <1>5, <1>6, <1>7, <1>13, CommitHolder, Zenon DEF CallerStep
<1>14. QED
  BY <1>11, <1>12, <1>13, Zenon DEF Next, vars

\* Each generation of a lease has one holder, the owner of the row.
THEOREM HolderIsSole == Spec => []SoleHolder
<1>1. HolderInv => SoleHolder
  BY Zenon DEF HolderInv
<1>2. QED
  BY <1>1, RowsInvInit, RowsInvNext, HolderInvInit, HolderInvNext, PTL DEF Spec

\* The phase the supervisor is in agrees with the status of the row for as long
\* as its lease is the current one.
THEOREM HolderKnows == Spec => []HolderKnowsStatus
<1>1. HolderInv => HolderKnowsStatus
  BY Zenon DEF HolderInv
<1>2. QED
  BY <1>1, RowsInvInit, RowsInvNext, HolderInvInit, HolderInvNext, PTL DEF Spec

\* A fenced call in flight is always one its lease allows, and the version that
\* start() read is lost to another commit only when that was a cancel request.
THEOREM CallsFollow == Spec => []CallsFollowHandle
<1>1. HolderInv => CallsFollowHandle
  BY FollowsSame, Zenon DEF HolderInv
<1>2. QED
  BY <1>1, RowsInvInit, RowsInvNext, HolderInvInit, HolderInvNext, PTL DEF Spec
=============================================================================
