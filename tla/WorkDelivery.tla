---------------------------- MODULE WorkDelivery ----------------------------
(***************************************************************************)
(* How a work item reaches a worker, and how its notification leaves the   *)
(* system again: the outbox rows, the publishers that XADD them, the Redis  *)
(* stream with its pending-entry list, the inbox that recognises a          *)
(* duplicate, the tasks of the worker supervisors, and the reconciler.     *)
(*                                                                         *)
(* The operations on work items are those of WorkLifecycle: each acts at    *)
(* one instant, or raises because its guard does not hold.  A worker here   *)
(* is one task of a supervisor, a publisher is one row of a batch.  The     *)
(* faults of the environment (a crash, an error of Redis or PostgreSQL, a   *)
(* lost stream) come out of a budget.                                      *)
(***************************************************************************)
EXTENDS Naturals, FiniteSets

CONSTANTS
  Works,          \* the work items of the tenant
  Workers,        \* the tasks of the worker supervisors
  Publishers,     \* the publications in progress
  None,           \* no work, no publisher
  MaxAttempts,    \* WorkRequest.max_attempts, for the work and for its outbox row
  MaxMsgs,        \* bound: outbox rows ever written
  MaxEntries,     \* bound: stream entries alive at once
  MaxFaults,      \* bound: faults of the environment
  MaxRequeues,    \* bound: approved requeues of dead letters
  RedisMayLose    \* whether Redis may lose the whole stream

Msgs == 1..MaxMsgs
Entries == 1..MaxEntries

ASSUME DeliveryAssumption ==
  /\ None \notin Works \cup Publishers
  /\ MaxAttempts \in Nat \ {0}
  /\ MaxMsgs \in Nat /\ MaxEntries \in Nat
  /\ MaxFaults \in Nat /\ MaxRequeues \in Nat
  /\ RedisMayLose \in BOOLEAN

VARIABLES
  status, attempt, cancel, lease,   \* the rows of WorkLifecycle
  due,            \* work_items.available_at <= clock_timestamp()
  outbox,         \* outbox_messages
  inbox,          \* the message ids of inbox_messages
  stream,         \* the entries of the Redis stream and of its consumer group
  pub,            \* what each publisher is doing
  task,           \* what each supervisor task is doing
  faults,         \* faults so far
  requeued        \* approved requeues so far

rows == <<status, attempt, cancel, lease>>
vars == <<status, attempt, cancel, lease, due, outbox, inbox, stream, pub, task,
          faults, requeued>>

L == INSTANCE WorkLifecycle

Terminal == {"succeeded", "failed", "cancelled", "dead_letter"}

NoRow == [work |-> None, st |-> "none", tries |-> 0, by |-> None,
          lapsed |-> FALSE, ready |-> FALSE]
NoEntry == [msg |-> 0, st |-> "free"]
IdlePub == [pc |-> "idle", msg |-> 0]
IdleTask == [pc |-> "idle", entry |-> 0, msg |-> 0, gen |-> 0]

TaskSteps == {"check", "verify", "append", "reverify", "claim", "recheck", "poison",
              "start", "run", "settle", "succeed", "cancel", "fenced", "fail_retry",
              "fail_final", "ack"}

\* Every variable keeps its type; an outbox row has a lease owner exactly while
\* it is leased, as the table's CHECK demands.
TypeOK ==
  /\ attempt \in [Works -> 0..MaxAttempts]
  /\ due \in [Works -> BOOLEAN]
  /\ outbox \in [Msgs -> [work : Works \cup {None},
                          st : {"none", "pending", "leased", "published", "dead_letter"},
                          tries : Nat, by : Publishers \cup {None},
                          lapsed : BOOLEAN, ready : BOOLEAN]]
  /\ \A m \in Msgs : (outbox[m].st = "leased") = (outbox[m].by # None)
  /\ inbox \subseteq Msgs
  /\ stream \in [Entries -> [msg : 0..MaxMsgs, st : {"free", "new", "pending"}]]
  /\ pub \in [Publishers -> [pc : {"idle", "send", "mark", "failed", "refused"},
                             msg : 0..MaxMsgs]]
  /\ task \in [Workers -> [pc : {"idle"} \cup TaskSteps, entry : 0..MaxEntries,
                           msg : 0..MaxMsgs, gen : Nat]]
  /\ faults \in 0..MaxFaults
  /\ requeued \in 0..MaxRequeues

Init ==
  /\ L!Init
  /\ due = [k \in Works |-> FALSE]
  /\ outbox = [m \in Msgs |-> NoRow]
  /\ inbox = {}
  /\ stream = [e \in Entries |-> NoEntry]
  /\ pub = [p \in Publishers |-> IdlePub]
  /\ task = [w \in Workers |-> IdleTask]
  /\ faults = 0
  /\ requeued = 0

Fault == faults < MaxFaults /\ faults' = faults + 1

\* Rows are written in the order of their numbers.
Written == {m \in Msgs : outbox[m].st # "none"}

\* An outbox row for k, written in the transaction that changes k.
Enqueue(k, ready) ==
  LET m == Cardinality(Written) + 1 IN
  /\ m \in Msgs
  /\ outbox' = [outbox EXCEPT ![m] = [NoRow EXCEPT !.work = k, !.st = "pending",
                                                   !.ready = ready]]

-----------------------------------------------------------------------------
(* Operators and the clock.                                                *)

Register(k) ==
  /\ L!Request(k)
  /\ Enqueue(k, TRUE)
  /\ due' = [due EXCEPT ![k] = TRUE]
  /\ UNCHANGED <<inbox, stream, pub, task, faults, requeued>>

RequestCancel(k) ==
  /\ L!RequestCancel(k)
  /\ UNCHANGED <<due, outbox, inbox, stream, pub, task, faults, requeued>>

RequeueDeadLetter(k) ==
  /\ requeued < MaxRequeues
  /\ L!Requeue(k)
  /\ Enqueue(k, TRUE)
  /\ due' = [due EXCEPT ![k] = TRUE]
  /\ requeued' = requeued + 1
  /\ UNCHANGED <<inbox, stream, pub, task, faults>>

\* A task still works under the current lease of k.
Serving(k) ==
  \E w \in Workers : task[w].pc # "idle" /\ outbox[task[w].msg].work = k
                     /\ task[w].gen = lease[k].gen

\* expires_at passes; under a task that still works, its heartbeats failed.
LeaseRunsOut(k) ==
  /\ L!RunsOut(k)
  /\ IF Serving(k) THEN Fault ELSE UNCHANGED faults
  /\ UNCHANGED <<due, outbox, inbox, stream, pub, task, requeued>>

BecomesDue(k) ==
  /\ status[k] # "none"
  /\ ~due[k]
  /\ due' = [due EXCEPT ![k] = TRUE]
  /\ UNCHANGED <<rows, outbox, inbox, stream, pub, task, faults, requeued>>

MessageAvailable(m) ==
  /\ outbox[m].st = "pending"
  /\ ~outbox[m].ready
  /\ outbox' = [outbox EXCEPT ![m].ready = TRUE]
  /\ UNCHANGED <<rows, due, inbox, stream, pub, task, faults, requeued>>


-----------------------------------------------------------------------------
(* The publishers.                                                         *)

\* p works on row m, whether or not it still has the lease of it.
Publishing(p, m) == pub[p] # IdlePub /\ pub[p].msg = m

\* lease_expires_at passes; that it passes while the publisher is still at work
\* on the row is one of the faults.
OutboxLeaseRunsOut(m) ==
  /\ outbox[m].st = "leased"
  /\ ~outbox[m].lapsed
  /\ outbox' = [outbox EXCEPT ![m].lapsed = TRUE]
  /\ IF Publishing(outbox[m].by, m) THEN Fault ELSE UNCHANGED faults
  /\ UNCHANGED <<rows, due, inbox, stream, pub, task, requeued>>

\* A pending row below its attempts, or any leased row whose lease lapsed: the
\* claim clears last_error_code, so a leased row always passes the second test.
Claimable(m) ==
  /\ outbox[m].ready
  /\ \/ outbox[m].st = "pending" /\ outbox[m].tries < MaxAttempts
     \/ outbox[m].st = "leased" /\ outbox[m].lapsed

ClaimOutbox(p, m) ==
  /\ pub[p] = IdlePub
  /\ Claimable(m)
  /\ outbox' = [outbox EXCEPT ![m].st = "leased", ![m].tries = @ + 1, ![m].by = p,
                              ![m].lapsed = FALSE]
  /\ pub' = [pub EXCEPT ![p] = [pc |-> "send", msg |-> m]]
  /\ UNCHANGED <<rows, due, inbox, stream, task, faults, requeued>>

FreeEntries == {e \in Entries : stream[e].st = "free" /\ \A w \in Workers : task[w].entry # e}

\* Redis appends the message under a new entry id; one free entry is as good as
\* another.
AppendEntry(m) ==
  /\ FreeEntries # {}
  /\ stream' = [stream EXCEPT ![CHOOSE e \in FreeEntries : TRUE] = [msg |-> m, st |-> "new"]]

Xadd(p) ==
  /\ pub[p].pc = "send"
  /\ AppendEntry(pub[p].msg)
  /\ pub' = [pub EXCEPT ![p].pc = "mark"]
  /\ UNCHANGED <<rows, due, outbox, inbox, task, faults, requeued>>

\* A RetryableQueueError, with or without the entry in the stream, or a
\* PermanentQueueError.
XaddRaises(p) ==
  /\ pub[p].pc = "send"
  /\ Fault
  /\ \/ AppendEntry(pub[p].msg) /\ pub' = [pub EXCEPT ![p].pc = "failed"]
     \/ UNCHANGED stream /\ pub' = [pub EXCEPT ![p].pc = "failed"]
     \/ UNCHANGED stream /\ pub' = [pub EXCEPT ![p].pc = "refused"]
  /\ UNCHANGED <<rows, due, outbox, inbox, task, requeued>>

LeaveKeepingOwner(p, st, ready) ==
  LET m == pub[p].msg IN
  outbox' = IF outbox[m].st = "leased" /\ outbox[m].by = p
            THEN [outbox EXCEPT ![m].st = st, ![m].lapsed = FALSE, ![m].ready = ready]
            ELSE outbox

\* _update_outbox_state: the row changes only under the lease of this very
\* claim; otherwise ConcurrencyError, and the row is somebody else's.
Leave(p, st, ready) ==
  LET m == pub[p].msg IN
  outbox' = IF outbox[m].st = "leased" /\ outbox[m].by = p
            THEN [outbox EXCEPT ![m].st = st, ![m].by = None, ![m].lapsed = FALSE,
                                ![m].ready = ready]
            ELSE outbox

MarkOutbox(p) ==
  /\ \/ pub[p].pc = "mark" /\ Leave(p, "published", TRUE)
     \/ /\ pub[p].pc = "failed"
        /\ Leave(p, IF outbox[pub[p].msg].tries >= MaxAttempts THEN "dead_letter"
                    ELSE "pending", FALSE)
     \/ pub[p].pc = "refused" /\ Leave(p, "dead_letter", FALSE)
  /\ pub' = [pub EXCEPT ![p] = IdlePub]
  /\ UNCHANGED <<rows, due, inbox, stream, task, faults, requeued>>

PublisherDies(p) ==
  /\ pub[p] # IdlePub
  /\ Fault
  /\ pub' = [pub EXCEPT ![p] = IdlePub]
  /\ UNCHANGED <<rows, due, outbox, inbox, stream, task, requeued>>

-----------------------------------------------------------------------------
(* A task of a supervisor: _process, from the delivery to the XACK.        *)

Work(w) == outbox[task[w].msg].work

At(w, pc) == task[w].pc = pc

\* A task on its way out has no more use for its lease.
Goto(w, pc) ==
  task' = [task EXCEPT ![w].pc = pc,
                       ![w].gen = IF pc \in {"ack", "recheck", "poison"} THEN 0 ELSE @]
Return(w) == task' = [task EXCEPT ![w] = IdleTask]

\* read() or reclaim(): the entry stays on the pending list until it is acked,
\* and an entry some task is still busy with may be reclaimed as well.
Take(w, e) ==
  /\ At(w, "idle")
  /\ stream[e].st # "free"
  /\ stream' = [stream EXCEPT ![e].st = "pending"]
  /\ task' = [task EXCEPT ![w] = [pc |-> "check", entry |-> e, msg |-> stream[e].msg,
                                  gen |-> 0]]
  /\ UNCHANGED <<rows, due, outbox, inbox, pub, faults, requeued>>

CompleteUnlessWaiting(k) == status[k] \notin L!Waiting
CompleteIfSucceeded(k) == status[k] = "succeeded"

DeliveryComplete(k) == status[k] \in Terminal

\* delivery_complete, first thing and again after a lost claim.
Check(w) ==
  /\ \/ At(w, "check") /\ Goto(w, IF DeliveryComplete(Work(w)) THEN "ack" ELSE "verify")
     \/ At(w, "recheck") /\ DeliveryComplete(Work(w)) /\ Goto(w, "ack")
     \/ At(w, "recheck") /\ ~DeliveryComplete(Work(w)) /\ Return(w)
  /\ UNCHANGED <<rows, due, outbox, inbox, stream, pub, faults, requeued>>

\* _verify_delivery, once in mark_published and once in claim.
Verified(w) == outbox[task[w].msg].st \in {"leased", "published"}

Verify(w) ==
  /\ \/ At(w, "verify") /\ Goto(w, IF Verified(w) THEN "append" ELSE "poison")
     \/ At(w, "reverify") /\ Goto(w, IF Verified(w) THEN "claim" ELSE "poison")
  /\ UNCHANGED <<rows, due, outbox, inbox, stream, pub, faults, requeued>>

KnownNever(w) == FALSE

\* The inbox row of the message exists.
Known(w) == task[w].msg \in inbox

\* append_from_inbox: a duplicate changes nothing, a new message is recorded
\* with the published transition, or not at all.
MarkPublished(w) ==
  /\ At(w, "append")
  /\ \/ Known(w) /\ Goto(w, "reverify") /\ UNCHANGED <<rows, inbox>>
     \/ /\ ~Known(w)
        /\ L!Publish(Work(w))
        /\ inbox' = inbox \cup {task[w].msg}
        /\ Goto(w, "reverify")
     \/ /\ ~Known(w)
        /\ status[Work(w)] \notin {"requested", "retry_wait"}
        /\ Goto(w, "recheck")
        /\ UNCHANGED <<rows, inbox>>
  /\ UNCHANGED <<due, outbox, stream, pub, faults, requeued>>

CanClaim(k) ==
  /\ status[k] \in {"published", "retry_wait"}
  /\ ~cancel[k]
  /\ due[k]
  /\ attempt[k] < MaxAttempts

Claim(w) ==
  /\ At(w, "claim")
  /\ \/ /\ CanClaim(Work(w))
        /\ L!Claim(Work(w))
        /\ task' = [task EXCEPT ![w].pc = "start", ![w].gen = lease[Work(w)].gen + 1]
     \/ ~CanClaim(Work(w)) /\ Goto(w, "recheck") /\ UNCHANGED rows
  /\ UNCHANGED <<due, outbox, inbox, stream, pub, faults, requeued>>

\* The fence of append_fenced.
Fence(w) == lease[Work(w)].gen = task[w].gen /\ L!InForce(Work(w))

Start(w) ==
  /\ At(w, "start")
  /\ \/ Fence(w) /\ L!Start(Work(w)) /\ Goto(w, "run")
     \/ ~Fence(w) /\ Goto(w, "fenced") /\ UNCHANGED rows
  /\ UNCHANGED <<due, outbox, inbox, stream, pub, faults, requeued>>

\* The handler returns or raises, times out, or loses its heartbeat.
Run(w) ==
  /\ At(w, "run")
  /\ \E pc \in {"settle", "fail_retry", "fail_final", "fenced"} : Goto(w, pc)
  /\ UNCHANGED <<rows, due, outbox, inbox, stream, pub, faults, requeued>>

\* cancellation_requested, after the result, or after FencingError or a handler
\* that reports its cancellation.
Settle(w) ==
  /\ \/ At(w, "settle") /\ Goto(w, IF cancel[Work(w)] THEN "cancel" ELSE "succeed")
     \/ At(w, "fenced") /\ cancel[Work(w)] /\ Goto(w, "cancel")
     \/ At(w, "fenced") /\ ~cancel[Work(w)] /\ Return(w)
  /\ UNCHANGED <<rows, due, outbox, inbox, stream, pub, faults, requeued>>

\* One fenced outcome of WorkLifecycle.
Finish(w, s) == Fence(w) /\ L!Finish(Work(w)) /\ status'[Work(w)] = s

Succeed(w) ==
  /\ At(w, "succeed")
  /\ \/ Finish(w, "succeeded") /\ Goto(w, "ack")
     \/ ~Fence(w) /\ Goto(w, "fenced") /\ UNCHANGED rows
     \/ cancel[Work(w)] /\ Goto(w, "fenced") /\ UNCHANGED rows
  /\ UNCHANGED <<due, outbox, inbox, stream, pub, faults, requeued>>

Cancel(w) ==
  /\ At(w, "cancel")
  /\ \/ Finish(w, "cancelled") /\ Goto(w, "ack")
     \/ ~Fence(w) /\ Return(w) /\ UNCHANGED rows
  /\ UNCHANGED <<due, outbox, inbox, stream, pub, faults, requeued>>

AckFencedFailure(w) == Goto(w, "ack")

\* _record_failure returned False: the entry stays pending.
LeaveFencedFailure(w) == Return(w)

\* fail(): another attempt, announced by a new outbox row, or the dead letter.
Fail(w) ==
  /\ At(w, "fail_retry") \/ At(w, "fail_final")
  /\ \/ /\ At(w, "fail_retry")
        /\ attempt[Work(w)] < MaxAttempts
        /\ Finish(w, "retry_wait")
        /\ Enqueue(Work(w), FALSE)
        /\ due' = [due EXCEPT ![Work(w)] = FALSE]
        /\ Goto(w, "ack")
     \/ /\ At(w, "fail_final") \/ attempt[Work(w)] >= MaxAttempts
        /\ Finish(w, "dead_letter")
        /\ Goto(w, "ack")
        /\ UNCHANGED <<due, outbox>>
     \/ /\ ~Fence(w) \/ cancel[Work(w)]
        /\ LeaveFencedFailure(w)
        /\ UNCHANGED <<rows, due, outbox>>
  /\ UNCHANGED <<inbox, stream, pub, faults, requeued>>

\* XACK and XDEL, after the outcome or of a rejected entry.
Remove(w) ==
  /\ At(w, "ack") \/ At(w, "poison")
  /\ stream' = [stream EXCEPT ![task[w].entry] = NoEntry]
  /\ Return(w)
  /\ UNCHANGED <<rows, due, outbox, inbox, pub, faults, requeued>>

\* An append that loses the race for the next version, or a storage error:
\* mark_published() and claim() give up this delivery, start() and succeed() end
\* in the last except branch, which reports a worker bug.
StoreRaises(w) ==
  /\ \/ (At(w, "append") \/ At(w, "claim")) /\ Goto(w, "recheck")
     \/ (At(w, "start") \/ At(w, "succeed")) /\ Goto(w, "fail_final")
  /\ Fault
  /\ UNCHANGED <<rows, due, outbox, inbox, stream, pub, requeued>>

\* The process stops, is drained, or an exception leaves the task: the entry
\* stays pending, the lease stays as it is.
TaskDies(w) ==
  /\ ~At(w, "idle")
  /\ Fault
  /\ Return(w)
  /\ UNCHANGED <<rows, due, outbox, inbox, stream, pub, requeued>>

RedisLoses ==
  /\ RedisMayLose
  /\ \E e \in Entries : stream[e].st # "free"
  /\ Fault
  /\ stream' = [e \in Entries |-> NoEntry]
  /\ UNCHANGED <<rows, due, outbox, inbox, pub, task, requeued>>

-----------------------------------------------------------------------------
(* The reconciler.                                                         *)

ReconcileLease(k) ==
  /\ L!Expire(k)
  /\ due' = [due EXCEPT ![k] = TRUE]
  /\ UNCHANGED <<outbox, inbox, stream, pub, task, faults, requeued>>

\* Some entry in the stream is about k.
Announced(k) == \E e \in Entries : stream[e].st # "free" /\ outbox[stream[e].msg].work = k

RedriveIfPublished(k, m) ==
  /\ status[k] = "published"
  /\ ~lease[k].held
  /\ outbox[m].work = k
  /\ outbox[m].st = "published"
  /\ outbox' = [outbox EXCEPT ![m].st = "pending", ![m].tries = 0, ![m].ready = TRUE]
  /\ IF Announced(k) THEN Fault ELSE UNCHANGED faults
  /\ UNCHANGED <<rows, due, inbox, stream, pub, task, requeued>>

\* The latest publication of waiting work, once five minutes old, is made
\* pending again.  published_at is the publishers' clock: any published row may
\* be the latest.  An entry five minutes unserved is one of the faults.
Redrive(k, m) ==
  /\ status[k] \in L!Waiting
  /\ ~lease[k].held
  /\ outbox[m].work = k
  /\ outbox[m].st = "published"
  /\ outbox' = [outbox EXCEPT ![m].st = "pending", ![m].tries = 0, ![m].ready = TRUE]
  /\ IF Announced(k) THEN Fault ELSE UNCHANGED faults
  /\ UNCHANGED <<rows, due, inbox, stream, pub, task, requeued>>

-----------------------------------------------------------------------------

Clock ==
  \/ \E k \in Works : LeaseRunsOut(k) \/ BecomesDue(k)
  \/ \E m \in Msgs : MessageAvailable(m) \/ OutboxLeaseRunsOut(m)

Operator ==
  \E k \in Works : Register(k) \/ RequestCancel(k) \/ RequeueDeadLetter(k)

PublisherStep(p) == (\E m \in Msgs : ClaimOutbox(p, m)) \/ Xadd(p) \/ MarkOutbox(p)

TaskStep(w) ==
  \/ Check(w) \/ Verify(w) \/ MarkPublished(w) \/ Claim(w) \/ Start(w) \/ Run(w)
  \/ Settle(w) \/ Succeed(w) \/ Cancel(w) \/ Fail(w) \/ Remove(w)

Reconciler ==
  \E k \in Works : ReconcileLease(k) \/ \E m \in Msgs : Redrive(k, m)

Faults ==
  \/ \E p \in Publishers : XaddRaises(p) \/ PublisherDies(p)
  \/ \E w \in Workers : StoreRaises(w) \/ TaskDies(w)
  \/ RedisLoses

Next ==
  \/ Clock \/ Operator \/ Reconciler \/ Faults
  \/ \E p \in Publishers : PublisherStep(p)
  \/ \E w \in Workers : TaskStep(w) \/ \E e \in Entries : Take(w, e)

Spec == Init /\ [][Next]_vars

\* The loops around publish_batch, poll_once, recover_once and
\* reconcile_expired keep running, time passes, and reclaim reaches every entry
\* again and again.  No fault is ever forced.
Fairness ==
  /\ \A p \in Publishers : WF_vars(PublisherStep(p))
  /\ \A w \in Workers : WF_vars(TaskStep(w))
  /\ \A e \in Entries : SF_vars(\E w \in Workers : Take(w, e))
  /\ \A k \in Works :
       /\ WF_vars(ReconcileLease(k))
       /\ WF_vars((\E m \in Msgs : Redrive(k, m)) /\ UNCHANGED faults)
       /\ WF_vars(LeaseRunsOut(k) /\ UNCHANGED faults)
       /\ WF_vars(BecomesDue(k))
  /\ \A m \in Msgs :
       /\ WF_vars(MessageAvailable(m))
       /\ WF_vars(OutboxLeaseRunsOut(m) /\ UNCHANGED faults)

FairSpec == Spec /\ Fairness

-----------------------------------------------------------------------------
(* Properties.                                                             *)

\* As long as Redis keeps its data, work that is not finished always has a
\* notification on its way: an outbox row still to be published, or an entry
\* that no task has removed.  Crashes, duplicates, reclaims, quarantines and
\* cancellations never make the reconciler's redrive necessary.
NotificationInFlight ==
  \A k \in Works :
    status[k] \notin Terminal \cup {"none"} =>
      \/ \E m \in Msgs : outbox[m].work = k /\ outbox[m].st \in {"pending", "leased", "dead_letter"}
      \/ Announced(k)

\* A task acknowledges its entry only once the outcome is durable: the work is
\* finished, or a later outbox row carries it on.
AckedIsDurable ==
  \A w \in Workers :
    task[w].pc = "ack" =>
      \/ status[Work(w)] \in Terminal
      \/ \E m \in Msgs : m > task[w].msg /\ outbox[m].work = Work(w)

PublishedByNewMessage ==
  \A k \in Works :
    status[k] # "published" /\ status'[k] = "published" =>
      \E m \in inbox' \ inbox : outbox[m].work = k

\* A message moves its work to published at most once, however often it is
\* delivered: the inbox row and the transition commit together.
MessagesPublishOnce == [][PublishedByNewMessage]_vars

\* The handler is started at most max_attempts times per requeue, whatever is
\* redelivered, reclaimed or published twice.
ExecutionsBounded ==
  \A k \in Works : lease[k].gen <= MaxAttempts * (requeued + 1)

\* No work item is left behind: it ends in a terminal state, unless the outbox
\* gave one of its messages up, which an operator sees as an outbox dead letter.
WorkSettles ==
  \A k \in Works :
    status[k] # "none" ~>
      \/ status[k] \in Terminal
      \/ \E m \in Msgs : outbox[m].work = k /\ outbox[m].st = "dead_letter"

\* Every notification leaves the stream again once its work is finished: late
\* duplicates, reclaimed entries and the entries of tasks that died included.
StreamDrains ==
  \A e \in Entries :
    []((stream[e].st # "free" /\ status[outbox[stream[e].msg].work] \in Terminal) =>
       <>(stream[e].st = "free" \/ status[outbox[stream[e].msg].work] \notin Terminal))
=============================================================================
