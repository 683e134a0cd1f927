----------------------------- MODULE Supervisor ------------------------------
(***************************************************************************)
(* WorkerSupervisor as the deployment runs it: a loop around poll_once() and *)
(* one around recover_once() share the set of active tasks, the bound on    *)
(* concurrency and the draining flag of one event loop; each batch has a    *)
(* FairTenantScheduler of its own.                                         *)
(*                                                                         *)
(* A step goes from one await to the next: a loop whose pc is "run" is      *)
(* executing, and nothing else moves until it waits.  What a task does to   *)
(* the work item is WorkDelivery; here it ends with its entry gone, with    *)
(* its entry still pending, or with an exception.                          *)
(***************************************************************************)
EXTENDS Naturals, FiniteSets, FiniteSetsExt, Folds, Functions, Sequences

CONSTANTS
  Tenants,
  Deliveries,      \* the entries of the stream
  TenantOf,        \* the tenant of each entry
  Poller,          \* the loop around poll_once()
  Recoverer,       \* the loop around recover_once()
  MaxConcurrency,  \* max_concurrency
  BatchSize,       \* the count passed to read() and reclaim()
  MaxFaults,       \* bound: tasks that fail, and entries reclaimed that are in hand
  DrainMayStart    \* whether drain() is called

ASSUME SupervisorAssumption ==
  /\ IsFiniteSet(Tenants) /\ IsFiniteSet(Deliveries)
  /\ TenantOf \in [Deliveries -> Tenants]
  /\ MaxConcurrency \in Nat \ {0} /\ BatchSize \in Nat \ {0} /\ MaxFaults \in Nat
  /\ DrainMayStart \in BOOLEAN /\ Poller # Recoverer

Loops == {Poller, Recoverer}

\* The n-th task started for an entry.
Tasks == Deliveries \X (1..(MaxFaults + 1))

VARIABLES
  stream,          \* each entry: new, pending, or gone
  task,            \* each task: none, running, ended, or raised
  active,          \* self._active
  loop,            \* where each loop is, and its scheduler
  draining,        \* self._draining
  drain,           \* the call of drain(): none, its wait, or its result
  faults           \* faults so far

vars == <<stream, task, active, loop, draining, drain, faults>>

NoQueues == [t \in Tenants |-> <<>>]
IdleLoop == [pc |-> "idle", queues |-> NoQueues, order |-> <<>>, waits |-> {},
             served |-> [t \in Tenants |-> 0]]
NoDrain == [result |-> "none", waits |-> {}]

\* Every variable keeps its type.
TypeOK ==
  /\ stream \in [Deliveries -> {"new", "pending", "gone"}]
  /\ task \in [Tasks -> {"none", "running", "ended", "raised"}]
  /\ active \subseteq {k \in Tasks : task[k] # "none"}
  /\ \A l \in Loops :
       /\ loop[l].pc \in {"idle", "read", "run", "wait"}
       /\ loop[l].queues \in [Tenants -> Seq(Deliveries)]
       /\ loop[l].order \in Seq(Tenants)
       /\ loop[l].waits \subseteq Tasks
       /\ loop[l].served \in [Tenants -> Nat]
  /\ draining \in BOOLEAN
  /\ drain.result \in {"none", "waiting", "drained", "timeout"} /\ drain.waits \subseteq Tasks
  /\ faults \in 0..MaxFaults

Init ==
  /\ stream = [d \in Deliveries |-> "new"]
  /\ task = [k \in Tasks |-> "none"]
  /\ active = {}
  /\ loop = [l \in Loops |-> IdleLoop]
  /\ draining = FALSE
  /\ drain = NoDrain
  /\ faults = 0

\* No coroutine is between two awaits.
Quiet == \A l \in Loops : loop[l].pc # "run"

Runs(d) == Cardinality({k \in Tasks : k[1] = d /\ task[k] # "none"})

\* The entry is with a running task, or in a queue of a scheduler.
InHand(d) ==
  \/ \E k \in Tasks : k[1] = d /\ task[k] = "running"
  \/ \E l \in Loops : d \in Range(loop[l].queues[TenantOf[d]])

-----------------------------------------------------------------------------
(* FairTenantScheduler.                                                    *)

\* add(): a tenant joins the round when its queue was empty.
Add(s, d) ==
  LET t == TenantOf[d] IN
  [s EXCEPT !.queues[t] = Append(@, d),
            !.order = IF s.queues[t] = <<>> THEN Append(@, t) ELSE @]

\* Mutant of Pop: the tenant keeps its turn.
PopGreedy(s) ==
  LET t == Head(s.order) IN
  [s EXCEPT !.queues[t] = Tail(@),
            !.order = IF Len(s.queues[t]) > 1 THEN @ ELSE Tail(@),
            !.served[t] = @ + 1]

\* pop(): the tenant goes to the end of the round if it has more.
Pop(s) ==
  LET t == Head(s.order) IN
  [s EXCEPT !.queues[t] = Tail(@),
            !.order = IF Len(s.queues[t]) > 1 THEN Append(Tail(@), t) ELSE Tail(@),
            !.served[t] = @ + 1]

Popped(s) == Head(s.queues[Head(s.order)])

-----------------------------------------------------------------------------
(* poll_once() and recover_once().                                         *)

\* The loop calls again, unless draining.
Call(l) ==
  /\ Quiet
  /\ loop[l].pc = "idle" /\ ~draining
  /\ loop' = [loop EXCEPT ![l].pc = "read"]
  /\ UNCHANGED <<stream, task, active, draining, drain, faults>>

\* add() of the deliveries, one after the other.
AddAll(s, batch) ==
  MapThenFoldSet(LAMBDA d, r : Add(r, d), s, LAMBDA i : batch[i], LAMBDA S : Max(S), DOMAIN batch)

\* After the read: nothing if draining, otherwise run_batch().
StartBatch(l, batch) ==
  loop' = [loop EXCEPT ![l] =
             IF draining THEN IdleLoop
             ELSE AddAll([IdleLoop EXCEPT !.pc = "run"], batch)]

\* read(): new entries, in the order of the stream, become pending.
Read ==
  /\ Quiet
  /\ loop[Poller].pc = "read"
  /\ \E S \in SUBSET {d \in Deliveries : stream[d] = "new"} :
       /\ Cardinality(S) <= BatchSize
       /\ stream' = [d \in Deliveries |-> IF d \in S THEN "pending" ELSE stream[d]]
       /\ \E batch \in Injection(1..Cardinality(S), S) : StartBatch(Poller, batch)
  /\ UNCHANGED <<task, active, draining, drain, faults>>

\* reclaim(): pending entries that are idle for long, whoever has them: "the tail
\* of a slow batch can expire and be reclaimed concurrently".
Reclaim ==
  /\ Quiet
  /\ loop[Recoverer].pc = "read"
  /\ \E S \in SUBSET {d \in Deliveries : stream[d] = "pending"} :
       /\ Cardinality(S) <= BatchSize
       /\ faults + Cardinality({d \in S : InHand(d)}) <= MaxFaults
       /\ faults' = faults + Cardinality({d \in S : InHand(d)})
       /\ \E batch \in Injection(1..Cardinality(S), S) : StartBatch(Recoverer, batch)
  /\ UNCHANGED <<stream, task, active, draining, drain>>

-----------------------------------------------------------------------------
(* run_batch().                                                            *)

Full == Cardinality(active) >= MaxConcurrency

\* Mutant of Stops: draining is not tested again after the wait.
StopsNever == FALSE

\* "drain() may have fired while blocked above".
Stops == draining

\* _wait_one(): the wait for the first of the tasks that are active now.
WaitOne(l) ==
  /\ loop' = [loop EXCEPT ![l].pc = "wait", ![l].waits = active]
  /\ UNCHANGED <<stream, task, active, draining, drain, faults>>

\* One turn of the outer loop: wait, stop because of a drain, or start a task.
Schedule(l) ==
  /\ loop[l].pc = "run" /\ loop[l].order # <<>>
  /\ \/ Full /\ WaitOne(l)
     \/ /\ ~Full /\ Stops
        /\ loop' = [loop EXCEPT ![l].queues = NoQueues, ![l].order = <<>>]
        /\ UNCHANGED <<stream, task, active, draining, drain, faults>>
     \/ LET d == Popped(loop[l])
            k == <<d, Runs(d) + 1>> IN
        /\ ~Full /\ ~Stops
        /\ loop' = [loop EXCEPT ![l] = Pop(@)]
        /\ task' = [task EXCEPT ![k] = "running"]
        /\ active' = active \cup {k}
        /\ UNCHANGED <<stream, draining, drain, faults>>

\* The tail of run_batch(): wait until nothing is active.
Finish(l) ==
  /\ loop[l].pc = "run" /\ loop[l].order = <<>>
  /\ \/ active # {} /\ WaitOne(l)
     \/ /\ active = {}
        /\ loop' = [loop EXCEPT ![l] = IdleLoop]
        /\ UNCHANGED <<stream, task, active, draining, drain, faults>>

Finished(S) == {k \in S : task[k] \in {"ended", "raised"}}

\* Mutants of Reaped: every task waited for is dropped; or none.
ReapedAll(l) == loop[l].waits

ReapedNone(l) == {}

\* What difference_update() removes.
Reaped(l) == Finished(loop[l].waits)

\* _wait_one() goes on.  The exception of a task leaves run_batch(), and with it
\* the rest of the batch, which stays pending.
Wake(l) ==
  LET done == Finished(loop[l].waits) IN
  /\ Quiet
  /\ loop[l].pc = "wait" /\ done # {}
  /\ active' = active \ Reaped(l)
  /\ loop' = [loop EXCEPT ![l] =
                IF \E k \in done : task[k] = "raised" THEN IdleLoop
                ELSE [@ EXCEPT !.pc = "run", !.waits = {}]]
  /\ UNCHANGED <<stream, task, draining, drain, faults>>

-----------------------------------------------------------------------------
(* _process(), and drain().                                                *)

\* Mutant of Acknowledge: the entry of finished work is not acknowledged.
AcknowledgeNothing(k) ==
  /\ Quiet
  /\ task[k] = "running"
  /\ task' = [task EXCEPT ![k] = "ended"]
  /\ UNCHANGED <<stream, active, loop, draining, drain, faults>>

\* The outcome is durable and the entry acknowledged or quarantined.
Acknowledge(k) ==
  /\ Quiet
  /\ task[k] = "running"
  /\ task' = [task EXCEPT ![k] = "ended"]
  /\ stream' = [stream EXCEPT ![k[1]] = "gone"]
  /\ UNCHANGED <<active, loop, draining, drain, faults>>

\* The claim or the lease was lost, or something raised: the entry stays pending.
LeavePending(k) ==
  /\ Quiet
  /\ task[k] = "running" /\ faults < MaxFaults
  /\ \E end \in {"ended", "raised"} : task' = [task EXCEPT ![k] = end]
  /\ faults' = faults + 1
  /\ UNCHANGED <<stream, active, loop, draining, drain>>

StartDrain ==
  /\ Quiet
  /\ DrainMayStart /\ drain = NoDrain
  /\ draining' = TRUE
  /\ drain' = IF active = {} THEN [result |-> "drained", waits |-> {}]
              ELSE [result |-> "waiting", waits |-> active]
  /\ UNCHANGED <<stream, task, active, loop, faults>>

\* asyncio.wait() returns: all have finished, or the timeout has passed.
EndDrain ==
  /\ Quiet
  /\ drain.result = "waiting"
  /\ drain' = [result |-> IF drain.waits = Finished(drain.waits) THEN "drained" ELSE "timeout",
               waits |-> {}]
  /\ UNCHANGED <<stream, task, active, loop, draining, faults>>

Next ==
  \/ \E l \in Loops : Call(l) \/ Schedule(l) \/ Finish(l) \/ Wake(l)
  \/ Read \/ Reclaim
  \/ \E k \in Tasks : Acknowledge(k) \/ LeavePending(k)
  \/ StartDrain \/ EndDrain

Spec == Init /\ [][Next]_vars

\* The event loop lets no coroutine that can go on stay where it is for ever,
\* though another may run first; tasks end; and the deployment keeps polling and
\* reclaiming: while there are new entries some are read, and while there are
\* entries nobody has some are reclaimed.
Fairness ==
  /\ \A l \in Loops :
       /\ WF_vars(Schedule(l) \/ Finish(l))
       /\ []<>(loop[l].pc # "idle" \/ draining)
       /\ []<>(loop[l].pc # "read")
       /\ []<>(loop[l].pc # "wait" \/ Finished(loop[l].waits) = {})
  /\ \A k \in Tasks : []<>(task[k] # "running")
  /\ SF_vars(Read /\ stream' # stream)
  /\ SF_vars(Reclaim /\ \E d \in Deliveries : ~InHand(d) /\ InHand(d)')

FairSpec == Spec /\ Fairness

-----------------------------------------------------------------------------
(* Properties.                                                             *)

\* No more than max_concurrency tasks run, though two loops fill the same set and
\* reap each other's tasks (run_batch(), _wait_one()).
ConcurrencyBounded ==
  Cardinality({k \in Tasks : task[k] = "running"}) <= MaxConcurrency

\* "FIFO within a tenant and round-robin across non-empty tenants": the round has
\* exactly the tenants with queued entries, once each, and a tenant with an entry
\* waiting is never two starts behind another of the same batch.
RoundRobin ==
  \A l \in Loops :
    /\ IsInjective(loop[l].order)
    /\ Range(loop[l].order) = {t \in Tenants : loop[l].queues[t] # <<>>}
    /\ \A t, u \in Tenants :
         loop[l].queues[t] # <<>> => loop[l].served[u] <= loop[l].served[t] + 1

\* Every start of an entry but the first has cost a fault: though two loops read,
\* reclaim and queue it, an entry is processed again only if a task failed to end it,
\* or it was reclaimed from one that had it in hand.
StartsCostFaults == \A d \in Deliveries : Runs(d) <= faults + 1

\* Once drain() has returned True, nothing runs and nothing will be started, even
\* if a read or a batch was in progress when it was called.
DrainedIsQuiet ==
  drain.result = "drained" => \A k \in Tasks : task[k] # "running"

\* Unless the supervisor is drained, every entry is taken off the stream in the
\* end: none is forgotten by a batch that an exception of another task ended.
EntriesServed == \A d \in Deliveries : <>(stream[d] = "gone" \/ draining)
=============================================================================
