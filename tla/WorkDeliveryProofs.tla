------------------------- MODULE WorkDeliveryProofs -------------------------
(***************************************************************************)
(* Proofs about WorkDelivery for any number of work items, workers,         *)
(* publishers, messages, stream entries, faults and requeues.              *)
(***************************************************************************)
EXTENDS WorkDelivery, FiniteSetTheorems, TLAPS

-----------------------------------------------------------------------------
(* The inductive invariant.                                                *)

Statuses == {"none", "requested", "published", "claimed", "running", "succeeded",
             "failed", "cancelled", "retry_wait", "dead_letter"}

Leases == [gen : Nat, held : BOOLEAN, live : BOOLEAN]

Row == [work : Works \cup {None},
        st : {"none", "pending", "leased", "published", "dead_letter"},
        tries : Nat, by : Publishers \cup {None}, lapsed : BOOLEAN, ready : BOOLEAN]

Entry == [msg : 0..MaxMsgs, st : {"free", "new", "pending"}]

Publication == [pc : {"idle", "send", "mark", "failed", "refused"}, msg : 0..MaxMsgs]

Task == [pc : {"idle"} \cup TaskSteps, entry : 0..MaxEntries, msg : 0..MaxMsgs, gen : Nat]

\* The rows of the work items; every claim that was not forgiven by a requeue is
\* an attempt of the item.
RowsOK ==
  /\ status \in [Works -> Statuses]
  /\ attempt \in [Works -> 0..MaxAttempts]
  /\ cancel \in [Works -> BOOLEAN]
  /\ lease \in [Works -> Leases]
  /\ requeued \in 0..MaxRequeues
  /\ \A k \in Works : lease[k].gen <= MaxAttempts * requeued + attempt[k]

\* A row has an owner while it is leased, and is about some work once written;
\* the numbers are given out in order.
OutboxOK ==
  /\ outbox \in [Msgs -> Row]
  /\ \A m \in Msgs : (outbox[m].st = "leased") = (outbox[m].by # None)
  /\ \A m \in Msgs : (outbox[m].st = "none") = (outbox[m].work = None)
  /\ \E n \in 0..MaxMsgs : Written = 1..n

\* Publications, entries and tasks are about rows that were written.  While a task
\* is busy with an entry, the entry is not reused for another message.
Busy(w) ==
  task[w].pc # "idle" =>
    /\ task[w].msg \in Written
    /\ task[w].entry \in Entries
    /\ stream[task[w].entry].st # "free" => stream[task[w].entry].msg = task[w].msg

Refs ==
  /\ stream \in [Entries -> Entry]
  /\ pub \in [Publishers -> Publication]
  /\ task \in [Workers -> Task]
  /\ \A e \in Entries : stream[e].st # "free" => stream[e].msg \in Written
  /\ \A p \in Publishers : pub[p].pc # "idle" => pub[p].msg \in Written
  /\ \A w \in Workers : Busy(w)

Rest == due \in [Works -> BOOLEAN] /\ inbox \subseteq Msgs /\ faults \in 0..MaxFaults

Base == RowsOK /\ OutboxOK /\ Refs /\ Rest

\* m is the latest message about k.
Latest(m, k) ==
  outbox[m].work = k /\ \A j \in Msgs : j > m => outbox[j].work # k

\* Work that was asked for has a message, hence a latest one.
Registered ==
  \A k \in Works : status[k] # "none" => \E m \in Msgs : Latest(m, k)

\* Nothing more is to be done about message m: its work is finished, or a later
\* message carries it on.
Done(m) ==
  \/ status[outbox[m].work] \in Terminal
  \/ \E j \in Msgs : j > m /\ outbox[j].work = outbox[m].work

\* An entry that nobody is about to reject delivers message m.
Carried(m) ==
  \E e \in Entries :
    /\ stream[e].st # "free" /\ stream[e].msg = m
    /\ \A w \in Workers : task[w].entry = e => task[w].pc # "poison"

\* The message is published, or its publisher is about to record that.
Sent(m) ==
  \/ outbox[m].st = "published"
  \/ \E p \in Publishers : /\ pub[p].pc = "mark" /\ pub[p].msg = m
                           /\ outbox[m].st = "leased" /\ outbox[m].by = p

SentIsCarried ==
  ~RedisMayLose => \A m \in Written : Sent(m) => Carried(m) \/ Done(m)

AckedIsDone == \A w \in Workers : task[w].pc = "ack" => Done(task[w].msg)

DeliveryInv == Base /\ Registered /\ AckedIsDone /\ SentIsCarried

-----------------------------------------------------------------------------
(* The outbox.                                                             *)

\* A row keeps its work, and no row is taken back.
Grows ==
  /\ OutboxOK'
  /\ Written \subseteq Written'
  /\ \A m \in Written : outbox'[m].work = outbox[m].work

LEMMA EnqueueRow ==
  ASSUME OutboxOK, NEW k \in Works, NEW b \in BOOLEAN, Enqueue(k, b)
  PROVE  /\ Grows
         /\ \E m \in Msgs : /\ m \notin Written /\ outbox'[m].work = k
                            /\ outbox'[m].st = "pending"
                            /\ \A j \in Msgs : j # m => outbox'[j] = outbox[j]
                            /\ \A j \in Written : j < m
<1> USE DeliveryAssumption
<1>1. PICK n \in 0..MaxMsgs : Written = 1..n
  BY Zenon DEF OutboxOK
<1>2. n \in Nat /\ Cardinality(Written) = n
  BY <1>1, FS_Interval
<1> DEFINE m == n + 1
<1> DEFINE r == [NoRow EXCEPT !.work = k, !.st = "pending", !.ready = b]
<1>3. m \in Msgs /\ outbox' = [outbox EXCEPT ![m] = r]
  BY <1>2, Zenon DEF Enqueue
<1>4. r \in Row /\ r.work = k /\ r.st = "pending" /\ r.by = None
  BY Zenon DEF NoRow, Row
<1>5. outbox \in [Msgs -> Row]
  BY Zenon DEF OutboxOK
<1> HIDE DEF r
<1>6. outbox' \in [Msgs -> Row] /\ outbox'[m] = r /\ \A j \in Msgs : j # m => outbox'[j] = outbox[j]
  BY <1>3, <1>4, <1>5, Zenon
<1>7. m \notin Written /\ \A j \in Written : j < m
  BY <1>1, <1>2
<1>8. Written' = Written \cup {m}
  BY <1>3, <1>4, <1>6, Zenon DEF Written
<1>9. Written' = 1..m /\ m \in 0..MaxMsgs
  BY <1>1, <1>2, <1>3, <1>8 DEF Msgs
<1>10. k # None
  OBVIOUS
<1>11. OutboxOK'
  <2>1. \A j \in Msgs : (outbox'[j].st = "leased") = (outbox'[j].by # None)
    BY <1>4, <1>6 DEF OutboxOK
  <2>2. \A j \in Msgs : (outbox'[j].st = "none") = (outbox'[j].work = None)
    BY <1>4, <1>6, <1>10 DEF OutboxOK
  <2>3. \E i \in 0..MaxMsgs : Written' = 1..i
    BY <1>9, Zenon
  <2>4. QED
    BY <1>6, <2>1, <2>2, <2>3, Zenon DEF OutboxOK, Msgs
<1>12. Grows
  BY <1>6, <1>7, <1>8, <1>11, Zenon DEF Grows, Written
<1>13. QED
  BY <1>3, <1>4, <1>6, <1>7, <1>12, Zenon

LEMMA ChangeRow ==
  ASSUME OutboxOK, NEW m \in Written, outbox' \in [Msgs -> Row],
         \A j \in Msgs : j # m => outbox'[j] = outbox[j],
         outbox'[m].work = outbox[m].work, outbox'[m].st # "none",
         (outbox'[m].st = "leased") = (outbox'[m].by # None)
  PROVE  Grows /\ Written' = Written
<1>1. m \in Msgs /\ outbox[m].st # "none" /\ outbox \in [Msgs -> Row]
  BY Zenon DEF Written, OutboxOK
<1>2. Written' = Written
  BY <1>1, Zenon DEF Written
<1>3. OutboxOK'
  <2>1. \A j \in Msgs : (outbox'[j].st = "leased") = (outbox'[j].by # None)
    BY DEF OutboxOK
  <2>2. \A j \in Msgs : (outbox'[j].st = "none") = (outbox'[j].work = None)
    BY <1>1 DEF OutboxOK
  <2>3. \E i \in 0..MaxMsgs : Written' = 1..i
    BY <1>2, Zenon DEF OutboxOK
  <2>4. QED
    BY <2>1, <2>2, <2>3, Zenon DEF OutboxOK, Msgs
<1>4. \A j \in Written : outbox'[j].work = outbox[j].work
  BY Zenon DEF Written
<1>5. QED
  BY <1>2, <1>3, <1>4, Zenon DEF Grows

LEMMA KeepRows ==
  ASSUME OutboxOK, UNCHANGED outbox
  PROVE  Grows /\ Written' = Written
  BY Zenon DEF OutboxOK, Grows, Written, Msgs

\* The rows that tasks and publishers speak of are about some work.
LEMMA WorkOfRow ==
  ASSUME Base
  PROVE  /\ \A m \in Written : m \in Msgs /\ outbox[m] \in Row /\ outbox[m].work \in Works
         /\ \A w \in Workers : task[w].pc # "idle" => task[w].msg \in Written /\ Work(w) \in Works
         /\ \A p \in Publishers : pub[p] # IdlePub /\ pub[p].pc # "idle" => pub[p].msg \in Written
  BY DeliveryAssumption, Zenon DEF Base, OutboxOK, Refs, Busy, Written, Row, Work

-----------------------------------------------------------------------------
(* The rows of the work items change by one operation of WorkLifecycle.    *)

Move(k) ==
  \/ L!Claim(k) \/ L!Start(k) \/ L!Finish(k) \/ L!RequestCancel(k) \/ L!Expire(k) \/ L!RunsOut(k)

\* The inbox transaction.
Publishes(w) ==
  Work(w) \in Works /\ L!Publish(Work(w)) /\ ~Known(w) /\ inbox' = inbox \cup {task[w].msg}

RowsStep ==
  \/ UNCHANGED <<rows, requeued>>
  \/ \E k \in Works : Move(k) /\ UNCHANGED requeued
  \/ \E k \in Works : Register(k)
  \/ \E w \in Workers : Publishes(w) /\ UNCHANGED requeued
  \/ \E k \in Works : RequeueDeadLetter(k)

LEMMA TaskRows ==
  ASSUME Base, NEW w \in Workers, TaskStep(w)
  PROVE  RowsStep
<1>1. task[w].pc # "idle" => Work(w) \in Works
  BY WorkOfRow, Zenon
<1>2. \A k \in Works : L!Claim(k) \/ L!Start(k) \/ L!Finish(k) => Move(k)
  BY Zenon DEF Move
<1>3. SUFFICES /\ UNCHANGED requeued
               /\ UNCHANGED rows \/ Publishes(w) \/ (Work(w) \in Works /\ Move(Work(w)))
  BY Zenon DEF RowsStep, rows
<1>4. UNCHANGED requeued
  BY Zenon DEF TaskStep, Check, Verify, MarkPublished, Claim, Start, Run, Settle, Succeed, Cancel, Fail, Remove
<1>5. CASE Check(w) \/ Verify(w) \/ Run(w) \/ Settle(w) \/ Remove(w)
  BY <1>4, <1>5, Zenon DEF Check, Verify, Run, Settle, Remove
<1>6. CASE MarkPublished(w)
  <2>1. Work(w) \in Works
    BY <1>1, <1>6, Zenon DEF MarkPublished, At
  <2>2. QED
    BY <1>4, <1>6, <2>1, Zenon DEF MarkPublished, Publishes, rows
<1>7. CASE Claim(w)
  BY <1>1, <1>2, <1>4, <1>7, Zenon DEF Claim, At
<1>8. CASE Start(w)
  BY <1>1, <1>2, <1>4, <1>8, Zenon DEF Start, At
<1>9. CASE Succeed(w)
  BY <1>1, <1>2, <1>4, <1>9, Zenon DEF Succeed, At, Finish
<1>10. CASE Cancel(w)
  BY <1>1, <1>2, <1>4, <1>10, Zenon DEF Cancel, At, Finish
<1>11. CASE Fail(w)
  BY <1>1, <1>2, <1>4, <1>11, Zenon DEF Fail, At, Finish
<1>12. QED
  BY <1>5, <1>6, <1>7, <1>8, <1>9, <1>10, <1>11, Zenon DEF TaskStep

LEMMA NextRows ==
  ASSUME Base, [Next]_vars
  PROVE  RowsStep
<1>1. CASE Next
  <2>1. CASE Clock
    BY <2>1, Zenon DEF Clock, LeaseRunsOut, BecomesDue, MessageAvailable, OutboxLeaseRunsOut,
                RowsStep, Move
  <2>2. CASE Operator
    BY <2>2, Zenon DEF Operator, RequestCancel, RowsStep, Move
  <2>3. CASE Reconciler
    BY <2>3, Zenon DEF Reconciler, ReconcileLease, Redrive, RowsStep, Move
  <2>4. CASE Faults
    BY <2>4, Zenon DEF Faults, XaddRaises, PublisherDies, StoreRaises, TaskDies, RedisLoses, RowsStep
  <2>5. CASE \E p \in Publishers : PublisherStep(p)
    BY <2>5, Zenon DEF PublisherStep, ClaimOutbox, Xadd, MarkOutbox, RowsStep
  <2>6. CASE \E w \in Workers : TaskStep(w)
    BY <2>6, TaskRows, Zenon
  <2>7. CASE \E w \in Workers, e \in Entries : Take(w, e)
    BY <2>7, Zenon DEF Take, RowsStep
  <2>8. QED
    BY <1>1, <2>1, <2>2, <2>3, <2>4, <2>5, <2>6, <2>7, Zenon DEF Next
<1>2. CASE UNCHANGED vars
  BY <1>2, Zenon DEF vars, rows, RowsStep
<1>3. QED
  BY <1>1, <1>2, Zenon

LEMMA RowsKept ==
  ASSUME Base, RowsStep
  PROVE  RowsOK'
<1> USE DeliveryAssumption
<1>0. RowsOK /\ requeued \in Nat /\ MaxAttempts \in Nat
  BY DEF Base, RowsOK
<1>1. CASE UNCHANGED <<rows, requeued>>
  BY <1>0, <1>1, Zenon DEF RowsOK, rows
<1>2. ASSUME NEW k \in Works, Move(k) \/ L!Request(k) \/ L!Publish(k), UNCHANGED requeued
      PROVE  RowsOK'
  <2>1. status' \in [Works -> Statuses]
    BY <1>0, <1>2 DEF RowsOK, Move, L!Request, L!Publish, L!Claim, L!Start, L!Finish,
       L!RequestCancel, L!Expire, L!RunsOut, L!Moves, Statuses
  <2>2. cancel' \in [Works -> BOOLEAN]
    BY <1>0, <1>2, Zenon DEF RowsOK, Move, L!Request, L!Publish, L!Claim, L!Start, L!Finish,
       L!RequestCancel, L!Expire, L!RunsOut
  <2>3. /\ lease' \in [Works -> Leases]
        /\ attempt' \in [Works -> 0..MaxAttempts]
        /\ \A j \in Works : lease'[j].gen - attempt'[j] = lease[j].gen - attempt[j]
    <3>1. lease[k] \in Leases /\ attempt[k] \in 0..MaxAttempts
      BY <1>0, Zenon DEF RowsOK
    <3>2. CASE L!Claim(k)
      <4> DEFINE l == [gen |-> lease[k].gen + 1, held |-> TRUE, live |-> TRUE]
      <4>1. l \in Leases /\ l.gen = lease[k].gen + 1
        BY <3>1 DEF Leases
      <4>2. lease' = [lease EXCEPT ![k] = l] /\ attempt' = [attempt EXCEPT ![k] = attempt[k] + 1]
            /\ attempt[k] < MaxAttempts
        BY <3>2, Zenon DEF L!Claim
      <4> HIDE DEF l
      <4>3. lease' \in [Works -> Leases] /\ attempt' \in [Works -> 0..MaxAttempts]
        BY <1>0, <3>1, <4>1, <4>2 DEF RowsOK
      <4>4. QED
        BY <1>0, <3>1, <4>1, <4>2, <4>3 DEF RowsOK, Leases
    <3>3. CASE ~L!Claim(k)
      <4>1. UNCHANGED attempt
        BY <1>2, <3>3, Zenon DEF Move, L!Request, L!Publish, L!Start, L!Finish,
           L!RequestCancel, L!Expire, L!RunsOut
      <4>2. \/ UNCHANGED lease
            \/ \E l \in Leases : l.gen = lease[k].gen /\ lease' = [lease EXCEPT ![k] = l]
        BY <1>2, <3>1, <3>3, Zenon DEF Move, L!Request, L!Publish, L!Start, L!Finish, L!Ends,
           L!RequestCancel, L!Expire, L!RunsOut, Leases
      <4>3. QED
        BY <1>0, <4>1, <4>2 DEF RowsOK, Leases
    <3>4. QED
      BY <3>2, <3>3, Zenon
  <2>4. \A j \in Works : lease'[j].gen <= MaxAttempts * requeued + attempt'[j]
    <3>1. SUFFICES ASSUME NEW j \in Works
                   PROVE  lease'[j].gen <= MaxAttempts * requeued + attempt'[j]
      OBVIOUS
    <3>2. /\ lease[j].gen \in Nat /\ attempt[j] \in Nat /\ lease'[j].gen \in Nat
          /\ attempt'[j] \in Nat /\ lease[j].gen <= MaxAttempts * requeued + attempt[j]
      BY <1>0, <2>3 DEF RowsOK, Leases
    <3>3. lease'[j].gen - attempt'[j] = lease[j].gen - attempt[j]
      BY <2>3, Zenon
    <3>4. MaxAttempts * requeued \in Nat
      BY <1>0
    <3>5. QED
      BY <3>2, <3>3, <3>4
  <2>5. QED
    BY <1>0, <1>2, <2>1, <2>2, <2>3, <2>4, Zenon DEF RowsOK
<1>3. ASSUME NEW k \in Works, RequeueDeadLetter(k)
      PROVE  RowsOK'
  <2>1. /\ requeued' = requeued + 1 /\ requeued < MaxRequeues /\ UNCHANGED lease
        /\ status' = [status EXCEPT ![k] = "retry_wait"]
        /\ attempt' = [attempt EXCEPT ![k] = 0] /\ cancel' = [cancel EXCEPT ![k] = FALSE]
    BY <1>3, Zenon DEF RequeueDeadLetter, L!Requeue, L!Moves
  <2>2. /\ status' \in [Works -> Statuses] /\ attempt' \in [Works -> 0..MaxAttempts]
        /\ cancel' \in [Works -> BOOLEAN] /\ requeued' \in 0..MaxRequeues
    BY <1>0, <2>1 DEF RowsOK, Statuses
  <2>3. ASSUME NEW j \in Works
        PROVE  lease'[j].gen <= MaxAttempts * requeued' + attempt'[j]
    <3>1. /\ lease[j].gen \in Nat /\ attempt[j] \in 0..MaxAttempts /\ attempt'[j] \in Nat
          /\ lease[j].gen <= MaxAttempts * requeued + attempt[j]
      BY <1>0, <2>2 DEF RowsOK, Leases
    <3>2. MaxAttempts * requeued \in Nat /\ MaxAttempts * (requeued + 1) = MaxAttempts * requeued + MaxAttempts
      BY <1>0
    <3>3. QED
      BY <2>1, <3>1, <3>2
  <2>4. QED
    BY <1>0, <2>1, <2>2, <2>3, Zenon DEF RowsOK
<1>4. QED
  BY <1>1, <1>2, <1>3, Zenon DEF RowsStep, Register, Publishes

\* Finished work stays finished, unless a requeue writes a message for it; work
\* is new only to the step that writes its first message.
LEMMA TerminalStays ==
  ASSUME Base, RowsStep, NEW k \in Works, status[k] \in Terminal
  PROVE  \/ status'[k] \in Terminal
         \/ \E m \in Msgs : m \notin Written /\ outbox'[m].work = k /\ \A j \in Written : j < m
<1>0. status \in [Works -> Statuses] /\ OutboxOK
  BY Zenon DEF Base, RowsOK
<1>1. CASE UNCHANGED <<rows, requeued>>
  BY <1>1, Zenon DEF rows
<1>2. ASSUME NEW j \in Works, Move(j) \/ L!Request(j) \/ L!Publish(j)
      PROVE  status'[k] \in Terminal
  BY <1>0, <1>2, Zenon DEF Move, L!Request, L!Publish, L!Claim, L!Start, L!Finish, L!Waiting, L!Leased,
     L!RequestCancel, L!Expire, L!RunsOut, L!Moves, Terminal
<1>3. ASSUME NEW j \in Works, RequeueDeadLetter(j)
      PROVE  \/ status'[k] \in Terminal
             \/ \E m \in Msgs : m \notin Written /\ outbox'[m].work = k /\ \A i \in Written : i < m
  <2>1. status' = [status EXCEPT ![j] = "retry_wait"] /\ Enqueue(j, TRUE)
    BY <1>3, Zenon DEF RequeueDeadLetter, L!Requeue, L!Moves
  <2>2. CASE j = k
    BY <1>0, <2>1, <2>2, EnqueueRow, Zenon
  <2>3. CASE j # k
    BY <1>0, <2>1, <2>3, Zenon
  <2>4. QED
    BY <2>2, <2>3, Zenon
<1>4. QED
  BY <1>1, <1>2, <1>3, Zenon DEF RowsStep, Register, Publishes

-----------------------------------------------------------------------------
(* The rows of the outbox: one is written, one changes its state, or none.  *)

OutboxStep ==
  /\ Grows
  /\ \A m \in Written' : m \notin Written => outbox'[m].st = "pending"
  /\ \A i, j \in Written' : i \notin Written /\ j \notin Written => i = j

LEMMA EnqueueStep ==
  ASSUME OutboxOK, NEW k \in Works, NEW b \in BOOLEAN, Enqueue(k, b)
  PROVE  OutboxStep
<1>1. PICK m \in Msgs : /\ outbox'[m].st = "pending" /\ \A j \in Msgs : j # m => outbox'[j] = outbox[j]
  BY EnqueueRow, Zenon
<1>2. QED
  BY <1>1, EnqueueRow DEF OutboxStep, Written

LEMMA ClockOutbox ==
  ASSUME Base, NEW m \in Msgs, MessageAvailable(m) \/ OutboxLeaseRunsOut(m)
  PROVE  /\ OutboxStep /\ Written' = Written /\ outbox'[m].st = outbox[m].st
         /\ outbox'[m].by = outbox[m].by /\ \A j \in Msgs : j # m => outbox'[j] = outbox[j]
<1>1. OutboxOK /\ outbox[m] \in Row
  BY Zenon DEF Base, OutboxOK
<1>2. m \in Written
  BY Zenon DEF MessageAvailable, OutboxLeaseRunsOut, Written
<1>3. /\ outbox' \in [Msgs -> Row] /\ \A j \in Msgs : j # m => outbox'[j] = outbox[j]
      /\ outbox'[m].st = outbox[m].st /\ outbox'[m].work = outbox[m].work
      /\ outbox'[m].by = outbox[m].by
  <2>1. CASE MessageAvailable(m)
    BY <1>1, <2>1, Zenon DEF MessageAvailable, Row, OutboxOK
  <2>2. CASE OutboxLeaseRunsOut(m)
    BY <1>1, <2>2, Zenon DEF OutboxLeaseRunsOut, Row, OutboxOK
  <2>3. QED
    BY <2>1, <2>2, Zenon
<1>4. outbox'[m].st # "none" /\ (outbox'[m].st = "leased") = (outbox'[m].by # None)
  BY <1>1, <1>2, <1>3, Zenon DEF OutboxOK, Written
<1>5. QED
  BY <1>1, <1>2, <1>3, <1>4, ChangeRow, Zenon DEF OutboxStep

LEMMA ClaimRow ==
  ASSUME Base, NEW p \in Publishers, NEW m \in Msgs, ClaimOutbox(p, m)
  PROVE  /\ OutboxStep /\ Written' = Written /\ m \in Written /\ outbox'[m].st = "leased"
         /\ outbox'[m].by = p /\ \A j \in Msgs : j # m => outbox'[j] = outbox[j]
<1>1. OutboxOK /\ outbox[m] \in Row
  BY Zenon DEF Base, OutboxOK
<1>2. m \in Written
  BY Zenon DEF ClaimOutbox, Claimable, Written
<1>3. /\ outbox' \in [Msgs -> Row] /\ \A j \in Msgs : j # m => outbox'[j] = outbox[j]
      /\ outbox'[m].st = "leased" /\ outbox'[m].work = outbox[m].work /\ outbox'[m].by = p
  BY <1>1 DEF ClaimOutbox, Row, OutboxOK
<1>4. outbox'[m].st # "none" /\ (outbox'[m].st = "leased") = (outbox'[m].by # None)
  BY <1>3, DeliveryAssumption, Zenon
<1>5. QED
  BY <1>1, <1>2, <1>3, <1>4, ChangeRow, Zenon DEF OutboxStep

\* _update_outbox_state() leaves a row alone that is somebody else's.
LEMMA LeaveRow ==
  ASSUME Base, NEW p \in Publishers, pub[p].pc # "idle",
         NEW st \in {"pending", "published", "dead_letter"}, NEW b \in BOOLEAN, Leave(p, st, b)
  PROVE  /\ OutboxStep /\ Written' = Written
         /\ \A j \in Msgs : \/ outbox'[j] = outbox[j]
                            \/ /\ j = pub[p].msg /\ outbox[j].st = "leased" /\ outbox[j].by = p
                               /\ outbox'[j].st = st
<1> DEFINE m == pub[p].msg
<1>1. OutboxOK /\ m \in Written /\ m \in Msgs /\ outbox[m] \in Row
  BY WorkOfRow, Zenon DEF Base, Refs
<1>2. CASE outbox[m].st = "leased" /\ outbox[m].by = p
  <2>1. /\ outbox' \in [Msgs -> Row] /\ \A j \in Msgs : j # m => outbox'[j] = outbox[j]
        /\ outbox'[m].st = st /\ outbox'[m].work = outbox[m].work /\ outbox'[m].by = None
    BY <1>1, <1>2, Zenon DEF Leave, Row, OutboxOK
  <2>2. outbox'[m].st # "none" /\ (outbox'[m].st = "leased") = (outbox'[m].by # None)
    BY <2>1, Zenon
  <2> HIDE DEF m
  <2>3. Grows /\ Written' = Written
    BY <1>1, <2>1, <2>2, ChangeRow, Zenon
  <2>4. QED
    BY <1>2, <2>1, <2>3, Zenon DEF OutboxStep, m
<1>3. CASE ~(outbox[m].st = "leased" /\ outbox[m].by = p)
  BY <1>1, <1>3, KeepRows, Zenon DEF Leave, OutboxStep
<1>4. QED
  BY <1>2, <1>3, Zenon

LEMMA RedriveRow ==
  ASSUME Base, NEW k \in Works, NEW m \in Msgs, Redrive(k, m)
  PROVE  /\ OutboxStep /\ Written' = Written /\ outbox'[m].st = "pending"
         /\ \A j \in Msgs : j # m => outbox'[j] = outbox[j]
<1>1. OutboxOK /\ outbox[m] \in Row /\ outbox[m].by = None
  BY Zenon DEF Base, OutboxOK, Redrive
<1>2. m \in Written
  BY Zenon DEF Redrive, Written
<1>3. /\ outbox' \in [Msgs -> Row] /\ \A j \in Msgs : j # m => outbox'[j] = outbox[j]
      /\ outbox'[m].st = "pending" /\ outbox'[m].work = outbox[m].work /\ outbox'[m].by = None
  BY <1>1, Zenon DEF Redrive, Row, OutboxOK
<1>4. outbox'[m].st # "none" /\ (outbox'[m].st = "leased") = (outbox'[m].by # None)
  BY <1>3, Zenon
<1>5. QED
  BY <1>1, <1>2, <1>3, <1>4, ChangeRow, Zenon DEF OutboxStep

\* What MarkOutbox does, by the outcome of the XADD.
LEMMA MarkCases ==
  ASSUME Base, NEW p \in Publishers, MarkOutbox(p)
  PROVE  /\ pub[p].pc # "idle"
         /\ \E st \in {"pending", "published", "dead_letter"}, b \in BOOLEAN :
              Leave(p, st, b) /\ (st = "published" => pub[p].pc = "mark")
  BY Zenon DEF MarkOutbox

LEMMA NextOutbox ==
  ASSUME Base, [Next]_vars
  PROVE  OutboxStep
<1>0. OutboxOK /\ (UNCHANGED outbox => OutboxStep)
  BY KeepRows, Zenon DEF Base, OutboxStep
<1>1. CASE Clock
  BY <1>0, <1>1, ClockOutbox, Zenon DEF Clock, LeaseRunsOut, BecomesDue
<1>2. CASE Operator
  BY <1>0, <1>2, EnqueueStep, Zenon DEF Operator, Register, RequestCancel, RequeueDeadLetter
<1>3. CASE Reconciler
  BY <1>0, <1>3, RedriveRow, Zenon DEF Reconciler, ReconcileLease
<1>4. CASE Faults
  BY <1>0, <1>4, Zenon DEF Faults, XaddRaises, PublisherDies, StoreRaises, TaskDies, RedisLoses
<1>5. CASE \E p \in Publishers : PublisherStep(p)
  BY <1>0, <1>5, ClaimRow, MarkCases, LeaveRow, Zenon DEF PublisherStep, Xadd
<1>6. ASSUME NEW w \in Workers, TaskStep(w)
      PROVE  OutboxStep
  <2>1. CASE Fail(w)
    <3>1. Work(w) \in Works
      BY <2>1, WorkOfRow, Zenon DEF Fail, At
    <3>2. Enqueue(Work(w), FALSE) \/ UNCHANGED outbox
      BY <2>1, Zenon DEF Fail
    <3>3. QED
      BY <1>0, <3>1, <3>2, EnqueueStep, Zenon
  <2>2. CASE ~Fail(w)
    BY <1>0, <1>6, <2>2, Zenon DEF TaskStep, Check, Verify, MarkPublished, Claim, Start, Run, Settle,
       Succeed, Cancel, Remove
  <2>3. QED
    BY <2>1, <2>2, Zenon
<1>7. CASE \E w \in Workers, e \in Entries : Take(w, e)
  BY <1>0, <1>7, Zenon DEF Take
<1>8. CASE UNCHANGED vars
  BY <1>0, <1>8, Zenon DEF vars
<1>9. QED
  BY <1>1, <1>2, <1>3, <1>4, <1>5, <1>6, <1>7, <1>8, Zenon DEF Next

-----------------------------------------------------------------------------
(* The tasks and the stream.                                               *)

\* A task goes on with the same entry.
Moved(w, pc) ==
  /\ task[w].pc # "idle"
  /\ task' \in [Workers -> Task]
  /\ task'[w].pc = pc /\ task'[w].msg = task[w].msg /\ task'[w].entry = task[w].entry
  /\ \A v \in Workers : v # w => task'[v] = task[v]

\* The task is done with its message: the outcome is recorded, or the next
\* message is written.
Acks(w) == status'[Work(w)] \in Terminal \/ Enqueue(Work(w), FALSE)

TasksStep ==
  \/ UNCHANGED <<stream, task>>
  \/ \E w \in Workers, pc \in TaskSteps :
       /\ Moved(w, pc) /\ UNCHANGED stream
       /\ pc = "poison" => ~Verified(w) /\ UNCHANGED outbox
       /\ pc = "ack" => Acks(w)
  \/ \E w \in Workers : task[w].pc # "idle" /\ Return(w) /\ UNCHANGED stream
  \/ \E w \in Workers : Remove(w)
  \/ \E w \in Workers, e \in Entries : Take(w, e)
  \/ \E m \in Written : AppendEntry(m) /\ UNCHANGED task
  \/ RedisLoses

LEMMA GotoMoves ==
  ASSUME Base, NEW w \in Workers, NEW pc \in TaskSteps, task[w].pc # "idle", Goto(w, pc)
  PROVE  Moved(w, pc)
<1>1. task \in [Workers -> Task] /\ task[w] \in Task
  BY Zenon DEF Base, Refs
<1>2. /\ task' \in [Workers -> Task]
      /\ task'[w].pc = pc /\ task'[w].msg = task[w].msg /\ task'[w].entry = task[w].entry
      /\ \A v \in Workers : v # w => task'[v] = task[v]
  BY <1>1, Zenon DEF Goto, Task
<1>3. QED
  BY <1>2, Zenon DEF Moved

LEMMA StepNames ==
  {"check", "verify", "append", "reverify", "claim", "recheck", "poison", "start", "run", "settle",
   "succeed", "cancel", "fenced", "fail_retry", "fail_final", "ack"} = TaskSteps
  BY Zenon DEF TaskSteps

LEMMA TaskTasks ==
  ASSUME Base, NEW w \in Workers, TaskStep(w)
  PROVE  TasksStep
<1>0. \A pc \in TaskSteps : task[w].pc # "idle" /\ Goto(w, pc) => Moved(w, pc)
  BY GotoMoves, Zenon
<1>1. SUFFICES \/ \E pc \in TaskSteps :
                    /\ Moved(w, pc) /\ UNCHANGED stream
                    /\ pc = "poison" => ~Verified(w) /\ UNCHANGED outbox
                    /\ pc = "ack" => Acks(w)
               \/ task[w].pc # "idle" /\ Return(w) /\ UNCHANGED stream
               \/ Remove(w)
  BY Zenon DEF TasksStep
<1> USE <1>0, StepNames
<1>2. CASE Check(w)
  <2>1. CASE DeliveryComplete(Work(w)) /\ Goto(w, "ack")
    <3>1. Acks(w)
      BY <1>2, <2>1, Zenon DEF Check, DeliveryComplete, Acks, rows
    <3>2. QED
      BY <1>2, <2>1, <3>1, Zenon DEF Check, At
  <2>2. CASE ~(DeliveryComplete(Work(w)) /\ Goto(w, "ack"))
    BY <1>2, <2>2, Zenon DEF Check, At
  <2>3. QED
    BY <2>1, <2>2, Zenon
<1>3. CASE Verify(w)
  BY <1>3, Zenon DEF Verify, At
<1>4. CASE MarkPublished(w)
  BY <1>4, Zenon DEF MarkPublished, At
<1>5. CASE Claim(w)
  <2>1. CASE ~CanClaim(Work(w)) /\ Goto(w, "recheck")
    BY <1>5, <2>1, Zenon DEF Claim, At
  <2>2. CASE task' = [task EXCEPT ![w].pc = "start", ![w].gen = lease[Work(w)].gen + 1]
    <3>1. task[w].pc # "idle" /\ UNCHANGED stream
      BY <1>5, Zenon DEF Claim, At
    <3>2. Work(w) \in Works /\ lease[Work(w)].gen + 1 \in Nat
      BY <3>1, WorkOfRow DEF Base, RowsOK, Leases
    <3>3. task \in [Workers -> Task] /\ task[w] \in Task
      BY Zenon DEF Base, Refs
    <3>4. Moved(w, "start")
      BY <2>2, <3>1, <3>2, <3>3, Zenon DEF Moved, Task
    <3>5. QED
      BY <3>1, <3>4, Zenon
  <2>3. QED
    BY <1>5, <2>1, <2>2, Zenon DEF Claim
<1>6. CASE Start(w) \/ Run(w) \/ Settle(w)
  BY <1>6, Zenon DEF Start, Run, Settle, At
<1>7. CASE Succeed(w)
  BY <1>7, Zenon DEF Succeed, At, Acks, Finish, Terminal
<1>8. CASE Cancel(w)
  BY <1>8, Zenon DEF Cancel, At, Acks, Finish, Terminal
<1>9. CASE Fail(w)
  BY <1>9, Zenon DEF Fail, At, Acks, Finish, Terminal, LeaveFencedFailure
<1>10. QED
  BY <1>2, <1>3, <1>4, <1>5, <1>6, <1>7, <1>8, <1>9, Zenon DEF TaskStep

LEMMA NextTasks ==
  ASSUME Base, [Next]_vars
  PROVE  TasksStep
<1>1. CASE Clock
  BY <1>1, Zenon DEF Clock, LeaseRunsOut, BecomesDue, MessageAvailable, OutboxLeaseRunsOut, TasksStep
<1>2. CASE Operator
  BY <1>2, Zenon DEF Operator, Register, RequestCancel, RequeueDeadLetter, TasksStep
<1>3. CASE Reconciler
  BY <1>3, Zenon DEF Reconciler, ReconcileLease, Redrive, TasksStep
<1>4. ASSUME NEW p \in Publishers, PublisherStep(p) \/ XaddRaises(p) \/ PublisherDies(p)
      PROVE  TasksStep
  <2>1. pub[p].pc = "send" => pub[p].msg \in Written
    BY Zenon DEF Base, Refs
  <2>2. QED
    BY <1>4, <2>1, Zenon DEF PublisherStep, ClaimOutbox, Xadd, MarkOutbox, XaddRaises, PublisherDies, TasksStep
<1>5. ASSUME NEW w \in Workers, StoreRaises(w)
      PROVE  TasksStep
  BY <1>5, GotoMoves, StepNames, Zenon DEF StoreRaises, At, TasksStep
<1>6. ASSUME NEW w \in Workers, TaskDies(w)
      PROVE  TasksStep
  BY <1>6, Zenon DEF TaskDies, At, TasksStep
<1>7. CASE RedisLoses
  BY <1>7, Zenon DEF TasksStep
<1>8. CASE \E w \in Workers : TaskStep(w)
  BY <1>8, TaskTasks, Zenon
<1>9. CASE \E w \in Workers, e \in Entries : Take(w, e)
  BY <1>9, Zenon DEF TasksStep
<1>10. CASE UNCHANGED vars
  BY <1>10, Zenon DEF vars, TasksStep
<1>11. QED
  BY <1>1, <1>2, <1>3, <1>4, <1>5, <1>6, <1>7, <1>8, <1>9, <1>10, Zenon DEF Next, Faults

\* An entry of the stream is new, and no task is busy with its predecessor.
LEMMA AppendFresh ==
  ASSUME Base, NEW m \in Written, AppendEntry(m)
  PROVE  \E e \in Entries :
           /\ stream[e].st = "free" /\ \A w \in Workers : task[w].entry # e
           /\ stream' \in [Entries -> Entry] /\ stream'[e] = [msg |-> m, st |-> "new"]
           /\ \A f \in Entries : f # e => stream'[f] = stream[f]
<1> DEFINE e == CHOOSE f \in FreeEntries : TRUE
<1>1. e \in FreeEntries
  BY Zenon DEF AppendEntry
<1>2. stream' = [stream EXCEPT ![e] = [msg |-> m, st |-> "new"]]
  BY Zenon DEF AppendEntry
<1> HIDE DEF e
<1>3. e \in Entries /\ stream[e].st = "free" /\ \A w \in Workers : task[w].entry # e
  BY <1>1, Zenon DEF FreeEntries
<1>4. m \in 0..MaxMsgs
  BY DEF Written, Msgs
<1>5. [msg |-> m, st |-> "new"] \in Entry
  BY <1>4, Zenon DEF Entry
<1>6. stream \in [Entries -> Entry]
  BY Zenon DEF Base, Refs
<1>7. QED
  BY <1>2, <1>3, <1>5, <1>6, Zenon

LEMMA IdleTyped == IdleTask \in Task /\ IdleTask.pc = "idle" /\ NoEntry \in Entry /\ NoEntry.st = "free"
  BY DeliveryAssumption DEF IdleTask, Task, NoEntry, Entry

LEMMA ReturnEffect ==
  ASSUME Base, NEW w \in Workers, Return(w)
  PROVE  /\ task' \in [Workers -> Task] /\ task'[w].pc = "idle"
         /\ \A v \in Workers : v # w => task'[v] = task[v]
  BY IdleTyped, Zenon DEF Base, Refs, Return

LEMMA RemoveEffect ==
  ASSUME Base, NEW w \in Workers, Remove(w)
  PROVE  /\ task[w].entry \in Entries /\ stream' \in [Entries -> Entry]
         /\ stream'[task[w].entry].st = "free"
         /\ \A f \in Entries : f # task[w].entry => stream'[f] = stream[f]
<1>1. task[w].entry \in Entries /\ stream \in [Entries -> Entry]
  BY Zenon DEF Base, Refs, Busy, Remove, At
<1>2. stream' = [stream EXCEPT ![task[w].entry] = NoEntry]
  BY Zenon DEF Remove
<1>3. QED
  BY <1>1, <1>2, IdleTyped, Zenon

LEMMA TakeEffect ==
  ASSUME Base, NEW w \in Workers, NEW e \in Entries, Take(w, e)
  PROVE  /\ stream[e].st # "free" /\ stream[e].msg \in Written
         /\ stream' \in [Entries -> Entry] /\ stream'[e].msg = stream[e].msg /\ stream'[e].st = "pending"
         /\ \A f \in Entries : f # e => stream'[f] = stream[f]
         /\ task' \in [Workers -> Task] /\ task'[w].pc = "check"
         /\ task'[w].msg = stream[e].msg /\ task'[w].entry = e
         /\ \A v \in Workers : v # w => task'[v] = task[v]
<1>1. stream \in [Entries -> Entry] /\ task \in [Workers -> Task] /\ stream[e].st # "free"
  BY Zenon DEF Base, Refs, Take
<1>2. stream[e] \in Entry /\ stream[e].msg \in Written
  BY <1>1, Zenon DEF Base, Refs
<1>3. stream' \in [Entries -> Entry] /\ stream'[e].msg = stream[e].msg /\ stream'[e].st = "pending"
      /\ \A f \in Entries : f # e => stream'[f] = stream[f]
  BY <1>1, <1>2, Zenon DEF Take, Entry
<1> DEFINE t == [pc |-> "check", entry |-> e, msg |-> stream[e].msg, gen |-> 0]
<1>4. t \in Task /\ t.pc = "check" /\ t.msg = stream[e].msg /\ t.entry = e
  BY <1>2, StepNames, DeliveryAssumption DEF Task, Entry, Entries
<1>5. task' = [task EXCEPT ![w] = t]
  BY Zenon DEF Take
<1> HIDE DEF t
<1>6. QED
  BY <1>1, <1>2, <1>3, <1>4, <1>5, Zenon

LEMMA TasksKept ==
  ASSUME Base, TasksStep, OutboxStep
  PROVE  /\ stream' \in [Entries -> Entry] /\ task' \in [Workers -> Task]
         /\ \A e \in Entries : stream'[e].st # "free" => stream'[e].msg \in Written'
         /\ \A w \in Workers : Busy(w)'
<1> DEFINE G == /\ stream' \in [Entries -> Entry] /\ task' \in [Workers -> Task]
                /\ \A e \in Entries : stream'[e].st # "free" => stream'[e].msg \in Written'
                /\ \A w \in Workers : Busy(w)'
<1>0. /\ stream \in [Entries -> Entry] /\ task \in [Workers -> Task] /\ Written \subseteq Written'
      /\ \A e \in Entries : stream[e].st # "free" => stream[e].msg \in Written
      /\ \A w \in Workers : Busy(w)
  BY Zenon DEF Base, Refs, OutboxStep, Grows
<1>1. CASE UNCHANGED <<stream, task>>
  BY <1>0, <1>1, Zenon DEF Busy, Entries
<1>2. ASSUME NEW w \in Workers, NEW pc \in TaskSteps, Moved(w, pc), UNCHANGED stream
      PROVE  G
  BY <1>0, <1>2 DEF Moved, Busy, Entries
<1>3. ASSUME NEW w \in Workers, Return(w), UNCHANGED stream
      PROVE  G
  BY <1>0, <1>3, ReturnEffect, Zenon DEF Busy, Entries
<1>4. ASSUME NEW w \in Workers, Remove(w)
      PROVE  G
  <2>1. Return(w)
    BY <1>4, Zenon DEF Remove
  <2>2. QED
    BY <1>0, <1>4, <2>1, ReturnEffect, RemoveEffect DEF Busy, Entries
<1>5. ASSUME NEW w \in Workers, NEW e \in Entries, Take(w, e)
      PROVE  G
  BY <1>0, <1>5, TakeEffect DEF Busy, Entries
<1>6. ASSUME NEW m \in Written, AppendEntry(m), UNCHANGED task
      PROVE  G
  <2>1. PICK e \in Entries :
           /\ stream[e].st = "free" /\ \A w \in Workers : task[w].entry # e
           /\ stream' \in [Entries -> Entry] /\ stream'[e] = [msg |-> m, st |-> "new"]
           /\ \A f \in Entries : f # e => stream'[f] = stream[f]
    BY <1>6, AppendFresh, Zenon
  <2>2. stream'[e].msg = m
    BY <2>1
  <2>3. QED
    BY <1>0, <1>6, <2>1, <2>2 DEF Busy, Entries
<1>7. CASE RedisLoses
  <2>1. stream' = [e \in Entries |-> NoEntry] /\ UNCHANGED task
    BY <1>7, Zenon DEF RedisLoses
  <2>2. QED
    BY <1>0, <2>1, IdleTyped, Zenon DEF Busy, Entries
<1>8. QED
  BY <1>1, <1>2, <1>3, <1>4, <1>5, <1>6, <1>7, Zenon DEF TasksStep

-----------------------------------------------------------------------------
(* The publications.                                                       *)

\* What was sent was sent before, but for the message a publisher just sent.
PubsStep ==
  /\ pub' \in [Publishers -> Publication]
  /\ \A p \in Publishers : pub'[p].pc # "idle" => pub'[p].msg \in Written'
  /\ \A m \in Written' : Sent(m)' =>
       \/ m \in Written /\ Sent(m)
       \/ \E p \in Publishers : Xadd(p) /\ pub[p].msg = m

LEMMA SamePubs ==
  ASSUME Base, OutboxStep, UNCHANGED pub,
         \A m \in Written : \/ outbox'[m].st = outbox[m].st /\ outbox'[m].by = outbox[m].by
                            \/ outbox'[m].st = "pending"
  PROVE  PubsStep
<1>1. pub \in [Publishers -> Publication] /\ \A p \in Publishers : pub[p].pc # "idle" => pub[p].msg \in Written
  BY Zenon DEF Base, Refs
<1>2. ASSUME NEW m \in Written', Sent(m)'
      PROVE  m \in Written /\ Sent(m)
  <2>1. outbox'[m].st # "pending"
    BY <1>2, Zenon DEF Sent
  <2>2. m \in Written /\ outbox'[m].st = outbox[m].st /\ outbox'[m].by = outbox[m].by
    BY <1>2, <2>1, Zenon DEF OutboxStep
  <2>3. QED
    BY <1>2, <2>2, Zenon DEF Sent
<1>3. QED
  BY <1>1, <1>2, Zenon DEF PubsStep, OutboxStep, Grows, Publication

\* One publisher goes on with its message, stops or dies; the rows as LeaveRow
\* and ClaimRow leave them.
LEMMA OnePub ==
  ASSUME Base, OutboxStep, NEW p \in Publishers,
         NEW x \in Publication, pub' = [pub EXCEPT ![p] = x],
         x.pc # "idle" => x.msg \in Written,
         x.pc = "mark" => pub[p].pc = "mark" /\ x.msg = pub[p].msg,
         \A m \in Written :
            \/ outbox'[m].st = outbox[m].st /\ outbox'[m].by = outbox[m].by
            \/ outbox'[m].st \in {"pending", "dead_letter"}
            \/ outbox'[m].st = "leased" /\ outbox'[m].by = p /\ x.pc # "mark"
            \/ outbox'[m].st = "published" /\ Sent(m)
  PROVE  PubsStep
<1>1. pub \in [Publishers -> Publication] /\ \A q \in Publishers : pub[q].pc # "idle" => pub[q].msg \in Written
  BY Zenon DEF Base, Refs
<1>2. pub' \in [Publishers -> Publication] /\ pub'[p] = x /\ \A q \in Publishers : q # p => pub'[q] = pub[q]
  BY <1>1, Zenon
<1>3. ASSUME NEW m \in Written', Sent(m)'
      PROVE  m \in Written /\ Sent(m)
  <2>1. outbox'[m].st \in {"published", "leased"}
    BY <1>3, Zenon DEF Sent
  <2>2. m \in Written
    BY <1>3, <2>1, Zenon DEF OutboxStep
  <2>3. \/ outbox'[m].st = outbox[m].st /\ outbox'[m].by = outbox[m].by
        \/ outbox'[m].st = "leased" /\ outbox'[m].by = p /\ x.pc # "mark"
        \/ Sent(m)
    BY <2>1, <2>2, Zenon
  <2>4. ASSUME outbox'[m].st = outbox[m].st, outbox'[m].by = outbox[m].by
        PROVE  Sent(m)
    BY <1>2, <1>3, <2>4 DEF Sent
  <2>5. ASSUME outbox'[m].st = "leased", outbox'[m].by = p, x.pc # "mark"
        PROVE  FALSE
    BY <1>2, <1>3, <2>5, Zenon DEF Sent
  <2>6. QED
    BY <2>2, <2>3, <2>4, <2>5, Zenon
<1>4. QED
  BY <1>1, <1>2, <1>3, Zenon DEF PubsStep, OutboxStep, Grows

LEMMA PublisherPubs ==
  ASSUME Base, OutboxStep, NEW p \in Publishers,
         PublisherStep(p) \/ XaddRaises(p) \/ PublisherDies(p)
  PROVE  PubsStep
<1>0. /\ pub \in [Publishers -> Publication] /\ pub[p] \in Publication
      /\ pub[p].pc # "idle" => pub[p].msg \in Written
  BY Zenon DEF Base, Refs
<1>1. IdlePub \in Publication /\ IdlePub.pc = "idle"
  BY DeliveryAssumption DEF IdlePub, Publication
<1>2. ASSUME NEW m \in Msgs, ClaimOutbox(p, m)
      PROVE  PubsStep
  <2> DEFINE x == [pc |-> "send", msg |-> m]
  <2>1. x \in Publication /\ x.pc = "send" /\ x.msg = m
    BY DEF Publication, Msgs
  <2>2. pub' = [pub EXCEPT ![p] = x]
    BY <1>2, Zenon DEF ClaimOutbox
  <2> HIDE DEF x
  <2>3. m \in Written /\ outbox'[m].st = "leased" /\ outbox'[m].by = p
        /\ \A j \in Written : j # m => outbox'[j] = outbox[j]
    BY <1>2, ClaimRow, Zenon DEF Written
  <2>4. QED
    BY <2>1, <2>2, <2>3, OnePub, Zenon
<1>3. CASE MarkOutbox(p)
  <2>1. pub' = [pub EXCEPT ![p] = IdlePub] /\ pub[p].pc # "idle"
    BY <1>3, MarkCases, Zenon DEF MarkOutbox
  <2>2. PICK st \in {"pending", "published", "dead_letter"}, b \in BOOLEAN :
              Leave(p, st, b) /\ (st = "published" => pub[p].pc = "mark")
    BY <1>3, MarkCases, Zenon
  <2>3. \A j \in Written : \/ outbox'[j] = outbox[j]
                           \/ /\ j = pub[p].msg /\ outbox[j].st = "leased" /\ outbox[j].by = p
                              /\ outbox'[j].st = st
    BY <2>1, <2>2, LeaveRow DEF Written
  <2>4. \A j \in Written : \/ outbox'[j] = outbox[j]
                           \/ outbox'[j].st \in {"pending", "dead_letter"}
                           \/ outbox'[j].st = "published" /\ Sent(j)
    BY <2>2, <2>3, Zenon DEF Sent
  <2>5. QED
    BY <1>1, <2>1, <2>4, OnePub, Zenon
<1>4. CASE PublisherDies(p)
  BY <1>1, <1>4, OnePub, Zenon DEF PublisherDies
<1>5. CASE XaddRaises(p)
  <2>1. UNCHANGED outbox /\ pub[p].pc = "send"
    BY <1>5, Zenon DEF XaddRaises
  <2>2. PICK pc \in {"failed", "refused"} : pub' = [pub EXCEPT ![p].pc = pc]
    BY <1>5, Zenon DEF XaddRaises
  <2> DEFINE x == [pub[p] EXCEPT !.pc = pc]
  <2>3. x \in Publication /\ x.pc = pc /\ x.msg = pub[p].msg
    BY <1>0, Zenon DEF Publication
  <2>4. pub' = [pub EXCEPT ![p] = x]
    BY <1>0, <2>2, Zenon
  <2> HIDE DEF x
  <2>5. QED
    BY <1>0, <2>1, <2>3, <2>4, OnePub, Zenon
<1>6. CASE Xadd(p)
  <2>1. pub[p].pc = "send" /\ UNCHANGED outbox /\ pub' = [pub EXCEPT ![p].pc = "mark"]
    BY <1>6, Zenon DEF Xadd
  <2>2. /\ pub' \in [Publishers -> Publication] /\ pub'[p].msg = pub[p].msg
        /\ \A q \in Publishers : q # p => pub'[q] = pub[q]
    BY <1>0, <2>1, Zenon DEF Publication
  <2>3. \A q \in Publishers : pub'[q].pc # "idle" => pub'[q].msg \in Written'
    BY <1>0, <2>1, <2>2, Zenon DEF Base, Refs, OutboxStep, Grows
  <2>4. ASSUME NEW m \in Written', Sent(m)', m # pub[p].msg
        PROVE  m \in Written /\ Sent(m)
    BY <2>1, <2>2, <2>4, Zenon DEF Sent, Written
  <2>5. QED
    BY <1>6, <2>2, <2>3, <2>4, Zenon DEF PubsStep
<1>7. QED
  BY <1>2, <1>3, <1>4, <1>5, <1>6, Zenon DEF PublisherStep

LEMMA NextPubs ==
  ASSUME Base, [Next]_vars, OutboxStep
  PROVE  PubsStep
<1>0. Written \subseteq Msgs
  BY Zenon DEF Written
<1>1. UNCHANGED <<outbox, pub>> => PubsStep
  BY SamePubs, Zenon
<1>2. ASSUME NEW k \in Works, NEW b \in BOOLEAN, Enqueue(k, b), UNCHANGED pub
      PROVE  PubsStep
  <2>1. OutboxOK
    BY Zenon DEF Base
  <2>2. \A m \in Written : outbox'[m] = outbox[m]
    BY <1>0, <1>2, <2>1, EnqueueRow, Zenon
  <2>3. QED
    BY <1>2, <2>2, SamePubs, Zenon
<1>3. CASE Clock
  <2>1. ASSUME NEW m \in Msgs, MessageAvailable(m) \/ OutboxLeaseRunsOut(m)
        PROVE  PubsStep
    <3>1. UNCHANGED pub
      BY <2>1, Zenon DEF MessageAvailable, OutboxLeaseRunsOut
    <3>2. QED
      BY <1>0, <2>1, <3>1, ClockOutbox, SamePubs, Zenon
  <2>2. QED
    BY <1>1, <1>3, <2>1, Zenon DEF Clock, LeaseRunsOut, BecomesDue
<1>4. CASE Operator
  BY <1>1, <1>2, <1>4, Zenon DEF Operator, Register, RequestCancel, RequeueDeadLetter
<1>5. CASE Reconciler
  <2>1. ASSUME NEW k \in Works, NEW m \in Msgs, Redrive(k, m)
        PROVE  PubsStep
    <3>1. UNCHANGED pub
      BY <2>1, Zenon DEF Redrive
    <3>2. QED
      BY <1>0, <2>1, <3>1, RedriveRow, SamePubs, Zenon
  <2>2. QED
    BY <1>1, <1>5, <2>1, Zenon DEF Reconciler, ReconcileLease
<1>6. CASE Faults
  BY <1>1, <1>6, PublisherPubs, Zenon DEF Faults, StoreRaises, TaskDies, RedisLoses
<1>7. CASE \E p \in Publishers : PublisherStep(p)
  BY <1>7, PublisherPubs, Zenon
<1>8. ASSUME NEW w \in Workers, TaskStep(w)
      PROVE  PubsStep
  <2>1. CASE Fail(w)
    <3>1. Work(w) \in Works
      BY <2>1, WorkOfRow, Zenon DEF Fail, At
    <3>2. UNCHANGED pub /\ (Enqueue(Work(w), FALSE) \/ UNCHANGED outbox)
      BY <2>1, Zenon DEF Fail
    <3>3. QED
      BY <1>1, <1>2, <3>1, <3>2, Zenon
  <2>2. CASE ~Fail(w)
    BY <1>1, <1>8, <2>2, Zenon DEF TaskStep, Check, Verify, MarkPublished, Claim, Start, Run, Settle,
       Succeed, Cancel, Remove
  <2>3. QED
    BY <2>1, <2>2, Zenon
<1>9. CASE \E w \in Workers, e \in Entries : Take(w, e)
  BY <1>1, <1>9, Zenon DEF Take
<1>10. CASE UNCHANGED vars
  BY <1>1, <1>10, Zenon DEF vars
<1>11. QED
  BY <1>3, <1>4, <1>5, <1>6, <1>7, <1>8, <1>9, <1>10, Zenon DEF Next

LEMMA NextRest ==
  ASSUME Base, [Next]_vars
  PROVE  Rest'
<1>0. due \in [Works -> BOOLEAN] /\ inbox \subseteq Msgs /\ faults \in 0..MaxFaults
  BY Zenon DEF Base, Rest
<1>1. Fault \/ UNCHANGED faults => faults' \in 0..MaxFaults
  BY <1>0, DeliveryAssumption DEF Fault
<1>2. (UNCHANGED due \/ \E k \in Works, b \in BOOLEAN : due' = [due EXCEPT ![k] = b]) => due' \in [Works -> BOOLEAN]
  BY <1>0, Zenon
<1>3. (UNCHANGED inbox \/ \E m \in Written : inbox' = inbox \cup {m}) => inbox' \subseteq Msgs
  BY <1>0, Zenon DEF Written
<1>4. SUFFICES /\ Fault \/ UNCHANGED faults
               /\ UNCHANGED due \/ \E k \in Works, b \in BOOLEAN : due' = [due EXCEPT ![k] = b]
               /\ UNCHANGED inbox \/ \E m \in Written : inbox' = inbox \cup {m}
  BY <1>1, <1>2, <1>3, Zenon DEF Rest, Msgs
<1>5. CASE Clock
  BY <1>5, Zenon DEF Clock, LeaseRunsOut, BecomesDue, MessageAvailable, OutboxLeaseRunsOut
<1>6. CASE Operator
  BY <1>6, Zenon DEF Operator, Register, RequestCancel, RequeueDeadLetter
<1>7. CASE Reconciler
  BY <1>7, Zenon DEF Reconciler, ReconcileLease, Redrive
<1>8. CASE Faults
  BY <1>8, Zenon DEF Faults, XaddRaises, PublisherDies, StoreRaises, TaskDies, RedisLoses
<1>9. CASE \E p \in Publishers : PublisherStep(p)
  BY <1>9, Zenon DEF PublisherStep, ClaimOutbox, Xadd, MarkOutbox
<1>10. ASSUME NEW w \in Workers, TaskStep(w)
      PROVE   /\ Fault \/ UNCHANGED faults
              /\ UNCHANGED due \/ \E k \in Works, b \in BOOLEAN : due' = [due EXCEPT ![k] = b]
              /\ UNCHANGED inbox \/ \E m \in Written : inbox' = inbox \cup {m}
  <2>1. CASE MarkPublished(w)
    <3>1. task[w].msg \in Written
      BY <2>1, WorkOfRow, Zenon DEF MarkPublished, At
    <3>2. QED
      BY <2>1, <3>1, Zenon DEF MarkPublished
  <2>2. CASE Fail(w)
    <3>1. Work(w) \in Works
      BY <2>2, WorkOfRow, Zenon DEF Fail, At
    <3>2. QED
      BY <2>2, <3>1, Zenon DEF Fail
  <2>3. CASE ~MarkPublished(w) /\ ~Fail(w)
    BY <1>10, <2>3, Zenon DEF TaskStep, Check, Verify, Claim, Start, Run, Settle, Succeed, Cancel, Remove
  <2>4. QED
    BY <2>1, <2>2, <2>3, Zenon
<1>11. CASE \E w \in Workers, e \in Entries : Take(w, e)
  BY <1>11, Zenon DEF Take
<1>12. CASE UNCHANGED vars
  BY <1>12, Zenon DEF vars
<1>13. QED
  BY <1>5, <1>6, <1>7, <1>8, <1>9, <1>10, <1>11, <1>12, Zenon DEF Next

LEMMA BaseStep ==
  ASSUME Base, [Next]_vars
  PROVE  Base' /\ RowsStep /\ OutboxStep /\ TasksStep /\ PubsStep
<1>1. RowsStep /\ OutboxStep /\ TasksStep /\ PubsStep
  BY NextRows, NextOutbox, NextTasks, NextPubs, Zenon
<1>2. RowsOK'
  BY <1>1, RowsKept, Zenon
<1>3. OutboxOK'
  BY <1>1, Zenon DEF OutboxStep, Grows
<1>4. Refs'
  BY <1>1, TasksKept, Zenon DEF PubsStep, Refs, Entries
<1>5. QED
  BY <1>1, <1>2, <1>3, <1>4, NextRest, Zenon DEF Base

-----------------------------------------------------------------------------
(* Nothing is lost.                                                        *)

LEMMA DoneStays ==
  ASSUME Base, RowsStep, OutboxStep, NEW m \in Written, Done(m)
  PROVE  Done(m)'
<1>1. outbox[m].work \in Works /\ outbox'[m].work = outbox[m].work /\ Written \subseteq Msgs
  BY WorkOfRow, Zenon DEF OutboxStep, Grows, Written
<1>2. ASSUME NEW j \in Msgs, j > m, outbox[j].work = outbox[m].work
      PROVE  outbox'[j].work = outbox'[m].work
  <2>1. j \in Written
    BY <1>1, <1>2, DeliveryAssumption, Zenon DEF Base, OutboxOK, Written
  <2>2. QED
    BY <1>1, <1>2, <2>1, Zenon DEF OutboxStep, Grows
<1>3. CASE status[outbox[m].work] \in Terminal
  <2>1. \/ status'[outbox[m].work] \in Terminal
        \/ \E j \in Msgs : j \notin Written /\ outbox'[j].work = outbox[m].work /\ \A i \in Written : i < j
    BY <1>1, <1>3, TerminalStays, Zenon
  <2>2. \A j \in Msgs : (\A i \in Written : i < j) => j > m
    BY <1>1, Zenon DEF Msgs
  <2>3. QED
    BY <1>1, <2>1, <2>2, Zenon DEF Done, Msgs
<1>4. QED
  BY <1>1, <1>2, <1>3, Zenon DEF Done, Msgs

LEMMA AckDone ==
  ASSUME Base, OutboxStep, NEW w \in Workers, task[w].pc # "idle", Acks(w),
         NEW m, m = task[w].msg
  PROVE  Done(m)'
<1>1. m \in Written /\ m \in Msgs /\ Work(w) \in Works /\ Work(w) = outbox[m].work
  BY WorkOfRow, Zenon DEF Work
<1>2. outbox'[m].work = outbox[m].work
  BY <1>1, Zenon DEF OutboxStep, Grows
<1>3. CASE status'[Work(w)] \in Terminal
  BY <1>1, <1>2, <1>3, Zenon DEF Done
<1>4. CASE Enqueue(Work(w), FALSE)
  <2>1. OutboxOK
    BY Zenon DEF Base
  <2>2. PICK j \in Msgs : outbox'[j].work = Work(w) /\ \A i \in Written : i < j
    BY <1>1, <1>4, <2>1, EnqueueRow, Zenon
  <2>3. j > m
    BY <1>1, <2>2, Zenon DEF Msgs
  <2>4. QED
    BY <1>1, <1>2, <2>2, <2>3, Zenon DEF Done, Msgs
<1>5. QED
  BY <1>3, <1>4, Zenon DEF Acks

LEMMA AckedKept ==
  ASSUME Base, RowsStep, OutboxStep, TasksStep, AckedIsDone
  PROVE  AckedIsDone'
<1>1. SUFFICES ASSUME NEW w \in Workers, NEW m, task'[w].pc = "ack", m = task'[w].msg
               PROVE  Done(m)'
  BY Zenon DEF AckedIsDone, Done
<1>2. CASE task'[w] = task[w]
  <2>1. m \in Written /\ Done(m)
    BY <1>1, <1>2, WorkOfRow, Zenon DEF AckedIsDone
  <2>2. QED
    BY <2>1, DoneStays, Zenon
<1>3. CASE task'[w] # task[w]
  <2>1. ASSUME NEW v \in Workers, Return(v)
        PROVE  task'[w].pc = "idle" \/ task'[w] = task[w]
    BY <2>1, ReturnEffect, Zenon
  <2>2. ASSUME NEW v \in Workers, NEW e \in Entries, Take(v, e)
        PROVE  task'[w].pc = "check" \/ task'[w] = task[w]
    BY <2>2, TakeEffect, Zenon
  <2>3. PICK v \in Workers, pc \in TaskSteps : Moved(v, pc) /\ (pc = "ack" => Acks(v))
    BY <1>1, <1>3, <2>1, <2>2, Zenon DEF TasksStep, Remove, RedisLoses
  <2>4. v = w /\ pc = "ack"
    BY <1>1, <1>3, <2>3, Zenon DEF Moved
  <2>5. task[w].pc # "idle" /\ Acks(w) /\ m = task[w].msg
    BY <1>1, <2>3, <2>4, Zenon DEF Moved
  <2>6. QED
    BY <2>5, AckDone, Zenon
<1>4. QED
  BY <1>2, <1>3, Zenon

\* Only a task that verified the message, or one whose message is done, takes the
\* last entry of a message that was sent.
LEMMA CarriedStays ==
  ASSUME Base, TasksStep, AckedIsDone, ~RedisMayLose, NEW m \in Written, Carried(m), Sent(m), Sent(m)'
  PROVE  Carried(m)' \/ Done(m)
<1>1. PICK e \in Entries : /\ stream[e].st # "free" /\ stream[e].msg = m
                           /\ \A w \in Workers : task[w].entry = e => task[w].pc # "poison"
  BY Zenon DEF Carried
<1>2. \A w \in Workers : task[w].pc # "idle" /\ task[w].entry = e => task[w].msg = m
  BY <1>1, Zenon DEF Base, Refs, Busy
<1> DEFINE Stays == /\ stream'[e].st # "free" /\ stream'[e].msg = m
                    /\ \A w \in Workers : task'[w].entry = e => task'[w].pc # "poison"
<1>3. Stays => Carried(m)'
  BY Zenon DEF Carried, Entries
<1>4. CASE UNCHANGED <<stream, task>>
  BY <1>1, <1>3, <1>4, Zenon
<1>5. ASSUME NEW w \in Workers, NEW pc \in TaskSteps, Moved(w, pc), UNCHANGED stream,
             pc = "poison" => ~Verified(w) /\ UNCHANGED outbox
      PROVE  Stays
  <2>1. ASSUME pc = "poison", task[w].entry = e
        PROVE  FALSE
    <3>1. task[w].msg = m /\ outbox[m].st \notin {"leased", "published"}
      BY <1>2, <1>5, <2>1, Zenon DEF Moved, Verified
    <3>2. QED
      BY <3>1, Zenon DEF Sent
  <2>2. QED
    BY <1>1, <1>5, <2>1, Zenon DEF Moved
<1>6. ASSUME NEW w \in Workers, Return(w), UNCHANGED stream
      PROVE  Stays
  BY <1>1, <1>6, ReturnEffect, Zenon
<1>7. ASSUME NEW w \in Workers, Remove(w)
      PROVE  Stays \/ Done(m)
  <2>1. CASE task[w].entry = e
    <3>1. task[w].pc = "ack"
      BY <1>1, <1>7, <2>1, Zenon DEF Remove, At
    <3>2. task[w].msg = m /\ Done(task[w].msg)
      BY <1>2, <2>1, <3>1, Zenon DEF AckedIsDone
    <3>3. QED
      BY <3>2, Zenon
  <2>2. CASE task[w].entry # e
    <3>1. Return(w)
      BY <1>7, Zenon DEF Remove
    <3>2. QED
      BY <1>1, <1>7, <2>2, <3>1, ReturnEffect, RemoveEffect, Zenon
  <2>3. QED
    BY <2>1, <2>2, Zenon
<1>8. ASSUME NEW w \in Workers, NEW f \in Entries, Take(w, f)
      PROVE  Stays
  <2>1. /\ task'[w].pc = "check" /\ \A v \in Workers : v # w => task'[v] = task[v]
        /\ \A d \in Entries : stream[d].st # "free" => stream'[d].st # "free" /\ stream'[d].msg = stream[d].msg
    BY <1>8, TakeEffect, Zenon
  <2>2. QED
    BY <1>1, <2>1, Zenon
<1>9. ASSUME NEW j \in Written, AppendEntry(j), UNCHANGED task
      PROVE  Stays
  <2>1. PICK f \in Entries : stream[f].st = "free" /\ \A g \in Entries : g # f => stream'[g] = stream[g]
    BY <1>9, AppendFresh, Zenon
  <2>2. QED
    BY <1>1, <1>9, <2>1, Zenon
<1>10. ~RedisLoses
  BY Zenon DEF RedisLoses
<1>11. QED
  BY <1>3, <1>4, <1>5, <1>6, <1>7, <1>8, <1>9, <1>10, Zenon DEF TasksStep

LEMMA XaddCarries ==
  ASSUME Base, NEW p \in Publishers, Xadd(p), NEW m, m = pub[p].msg
  PROVE  Carried(m)'
<1>1. m \in Written /\ AppendEntry(m) /\ UNCHANGED task
  BY Zenon DEF Xadd, Base, Refs
<1>2. PICK e \in Entries :
           /\ \A w \in Workers : task[w].entry # e
           /\ stream'[e] = [msg |-> m, st |-> "new"]
  BY <1>1, AppendFresh, Zenon
<1>3. stream'[e].st # "free" /\ stream'[e].msg = m
  BY <1>2
<1>4. \E f \in Entries : /\ stream'[f].st # "free" /\ stream'[f].msg = m
                         /\ \A w \in Workers : task'[w].entry = f => task'[w].pc # "poison"
  BY <1>1, <1>2, <1>3, Zenon
<1>5. QED
  BY <1>4, Zenon DEF Carried, Entries

LEMMA SentKept ==
  ASSUME Base, RowsStep, OutboxStep, TasksStep, PubsStep, AckedIsDone, SentIsCarried
  PROVE  SentIsCarried'
<1>1. SUFFICES ASSUME ~RedisMayLose, NEW m \in Written', Sent(m)'
               PROVE  (Carried(m) \/ Done(m))'
  BY Zenon DEF SentIsCarried
<1>2. CASE m \in Written /\ Sent(m)
  <2>1. Carried(m) \/ Done(m)
    BY <1>1, <1>2, Zenon DEF SentIsCarried
  <2>2. Carried(m)' \/ Done(m)
    BY <1>1, <1>2, <2>1, CarriedStays, Zenon
  <2>3. QED
    BY <1>2, <2>2, DoneStays, Zenon
<1>3. ASSUME NEW p \in Publishers, Xadd(p), pub[p].msg = m
      PROVE  Carried(m)'
  BY <1>3, XaddCarries, Zenon
<1>4. QED
  BY <1>1, <1>2, <1>3, Zenon DEF PubsStep

LEMMA RegisteredKept ==
  ASSUME Base, RowsStep, OutboxStep, Registered
  PROVE  Registered'
<1>0. status \in [Works -> Statuses] /\ OutboxOK /\ OutboxOK'
  BY Zenon DEF Base, RowsOK, OutboxStep, Grows
<1>1. SUFFICES ASSUME NEW k \in Works, status'[k] # "none"
               PROVE  \E m \in Msgs : Latest(m, k)'
  BY Zenon DEF Registered, Msgs
<1>2. \A m \in Msgs : outbox'[m].work = k => m \in Written'
  BY <1>0, DeliveryAssumption, Zenon DEF OutboxOK, Written, Msgs
<1>3. CASE \E m \in Written' : m \notin Written /\ outbox'[m].work = k
  <2>1. PICK m \in Written' : m \notin Written /\ outbox'[m].work = k
    BY <1>3, Zenon
  <2>2. PICK n \in 0..MaxMsgs : Written = 1..n
    BY <1>0, Zenon DEF OutboxOK
  <2>3. m \in Msgs /\ m > n
    BY <2>1, <2>2, DeliveryAssumption DEF Written, Msgs
  <2>4. ASSUME NEW j \in Msgs, j > m, outbox'[j].work = k
        PROVE  FALSE
    <3>1. j \in Written' /\ j \notin Written
      BY <1>2, <2>2, <2>3, <2>4 DEF Msgs
    <3>2. j = m
      BY <2>1, <3>1, Zenon DEF OutboxStep
    <3>3. QED
      BY <2>4, <3>2 DEF Msgs
  <2>5. QED
    BY <2>1, <2>3, <2>4, Zenon DEF Latest, Msgs
<1>4. CASE ~\E m \in Written' : m \notin Written /\ outbox'[m].work = k
  <2>1. status[k] # "none"
    <3>1. SUFFICES ASSUME status[k] = "none" PROVE FALSE
      OBVIOUS
    <3>2. ~(UNCHANGED <<rows, requeued>>)
      BY <1>1, <3>1, Zenon DEF rows
    <3>3. ASSUME NEW j \in Works, Move(j) \/ L!Publish(j)
          PROVE  FALSE
      BY <1>0, <1>1, <3>1, <3>3, Zenon DEF Move, L!Publish, L!Claim, L!Start, L!Finish, L!Waiting, L!Leased,
         L!RequestCancel, L!Expire, L!RunsOut, L!Moves
    <3>4. ASSUME NEW j \in Works, RequeueDeadLetter(j)
          PROVE  FALSE
      BY <1>0, <1>1, <3>1, <3>4, Zenon DEF RequeueDeadLetter, L!Requeue, L!Moves
    <3>5. PICK j \in Works : Register(j)
      BY <3>2, <3>3, <3>4, Zenon DEF RowsStep, Publishes
    <3>6. j = k
      BY <1>0, <1>1, <3>1, <3>5, Zenon DEF Register, L!Request, L!Moves
    <3>7. Enqueue(k, TRUE)
      BY <3>5, <3>6, Zenon DEF Register
    <3>8. \E m \in Msgs : m \notin Written /\ outbox'[m].work = k
      BY <1>0, <3>7, EnqueueRow, Zenon
    <3>9. QED
      BY <1>2, <1>4, <3>8, Zenon
  <2>2. PICK m \in Msgs : Latest(m, k)
    BY <2>1, Zenon DEF Registered
  <2>3. m \in Written /\ outbox'[m].work = k
    BY <1>0, <2>2, DeliveryAssumption, Zenon DEF Latest, OutboxOK, OutboxStep, Grows, Written
  <2>4. ASSUME NEW j \in Msgs, j > m, outbox'[j].work = k
        PROVE  FALSE
    <3>1. j \in Written
      BY <1>2, <1>4, <2>4, Zenon
    <3>2. outbox[j].work = k
      BY <2>4, <3>1, Zenon DEF OutboxStep, Grows
    <3>3. QED
      BY <2>2, <2>4, <3>2, Zenon DEF Latest
  <2>5. QED
    BY <2>3, <2>4, Zenon DEF Latest, Msgs
<1>5. QED
  BY <1>3, <1>4, Zenon

-----------------------------------------------------------------------------
(* The theorems.                                                           *)

LEMMA DeliveryInit == Init => DeliveryInv
<1> SUFFICES ASSUME Init PROVE DeliveryInv
  OBVIOUS
<1> USE DeliveryAssumption
<1>1. RowsOK
  <2>1. /\ status = [k \in Works |-> "none"] /\ attempt = [k \in Works |-> 0]
        /\ cancel = [k \in Works |-> FALSE] /\ requeued = 0
        /\ lease \in [Works -> [gen : {0}, held : {FALSE}, live : {FALSE}]]
    BY Zenon DEF Init, L!Init
  <2>2. lease \in [Works -> Leases] /\ \A k \in Works : lease[k].gen = 0
    <3>1. ASSUME NEW A \in SUBSET Nat, NEW B \in SUBSET BOOLEAN
          PROVE  \A l \in [gen : A, held : B, live : B] : l \in Leases /\ l.gen \in A
      BY <3>1, Zenon DEF Leases
    <3>2. {0} \in SUBSET Nat /\ {FALSE} \in SUBSET BOOLEAN
      OBVIOUS
    <3>3. \A l \in [gen : {0}, held : {FALSE}, live : {FALSE}] : l \in Leases /\ l.gen \in {0}
      BY <3>1, <3>2, Zenon
    <3>4. QED
      BY <2>1, <3>3, Zenon
  <2>3. \A k \in Works : lease[k].gen <= MaxAttempts * requeued + attempt[k]
    BY <2>1, <2>2
  <2>4. QED
    BY <2>1, <2>2, <2>3 DEF RowsOK, Statuses
<1>2. NoRow \in Row /\ NoRow.st = "none" /\ NoRow.work = None /\ NoRow.by = None
  BY Zenon DEF NoRow, Row
<1>3. Written = {}
  BY <1>2, Zenon DEF Init, Written
<1>4. OutboxOK
  <2>1. Written = 1..0 /\ 0 \in 0..MaxMsgs
    BY <1>3
  <2>2. QED
    BY <1>2, <2>1, Zenon DEF Init, OutboxOK
<1>5. IdlePub \in Publication /\ IdlePub.pc = "idle"
  BY DEF IdlePub, Publication
<1>6. Refs
  BY <1>5, IdleTyped, Zenon DEF Init, Refs, Busy
<1>7. Rest
  BY DEF Init, Rest
<1>8. Registered
  BY Zenon DEF Init, L!Init, Registered
<1>9. AckedIsDone
  BY IdleTyped, Zenon DEF Init, AckedIsDone
<1>10. SentIsCarried
  BY <1>3, Zenon DEF SentIsCarried
<1>11. QED
  BY <1>1, <1>4, <1>6, <1>7, <1>8, <1>9, <1>10, Zenon DEF DeliveryInv, Base

LEMMA DeliveryStep == DeliveryInv /\ [Next]_vars => DeliveryInv'
<1> SUFFICES ASSUME DeliveryInv, [Next]_vars PROVE DeliveryInv'
  OBVIOUS
<1>1. Base' /\ RowsStep /\ OutboxStep /\ TasksStep /\ PubsStep
  BY BaseStep, Zenon DEF DeliveryInv
<1>2. QED
  BY <1>1, RegisteredKept, AckedKept, SentKept, Zenon DEF DeliveryInv

\* The invariant the theorems below rest on.
THEOREM DeliveryInvariant == Spec => []DeliveryInv
<1>1. QED
  BY DeliveryInit, DeliveryStep, PTL DEF Spec

\* Every variable keeps its type, and an outbox row has an owner exactly while it
\* is leased, as the CHECK of outbox_messages demands.
THEOREM DeliveryTypeCorrect == Spec => []TypeOK
<1>1. DeliveryInv => TypeOK
  BY Zenon DEF DeliveryInv, Base, RowsOK, OutboxOK, Refs, Rest, TypeOK, Row, Entry, Publication, Task
<1>2. QED
  BY <1>1, DeliveryInvariant, PTL

\* A task acknowledges its entry only once the outcome is durable, whatever
\* crashes, is redelivered or is reclaimed in between (_process, acknowledge).
THEOREM AcksAreDurable == Spec => []AckedIsDurable
<1>1. DeliveryInv => AckedIsDurable
  BY Zenon DEF DeliveryInv, AckedIsDone, AckedIsDurable, Done, Work
<1>2. QED
  BY <1>1, DeliveryInvariant, PTL

\* As long as Redis keeps its data, unfinished work always has a notification on
\* its way: neither a quarantined entry nor an acknowledged one was the last.
THEOREM WorkIsNotified == ASSUME ~RedisMayLose PROVE Spec => []NotificationInFlight
<1>1. ASSUME DeliveryInv PROVE NotificationInFlight
  <2>1. SUFFICES ASSUME NEW k \in Works, status[k] \notin Terminal \cup {"none"}
                 PROVE  \/ \E m \in Msgs : /\ outbox[m].work = k
                                           /\ outbox[m].st \in {"pending", "leased", "dead_letter"}
                        \/ Announced(k)
    BY Zenon DEF NotificationInFlight
  <2>2. PICK m \in Msgs : Latest(m, k)
    BY <1>1, <2>1, Zenon DEF DeliveryInv, Registered
  <2>3. outbox[m].work = k /\ m \in Written /\ outbox[m] \in Row
    BY <1>1, <2>2, DeliveryAssumption, Zenon DEF DeliveryInv, Base, OutboxOK, Latest, Written
  <2>4. CASE outbox[m].st = "published"
    <3>1. Carried(m) \/ Done(m)
      BY <1>1, <2>3, <2>4, Zenon DEF DeliveryInv, SentIsCarried, Sent
    <3>2. ~Done(m)
      BY <2>1, <2>2, <2>3, Zenon DEF Done, Latest
    <3>3. QED
      BY <2>3, <3>1, <3>2, Zenon DEF Carried, Announced
  <2>5. CASE outbox[m].st # "published"
    BY <2>3, <2>5, Zenon DEF Row, Written
  <2>6. QED
    BY <2>4, <2>5, Zenon
<1>2. QED
  BY <1>1, DeliveryInvariant, PTL

\* However often work is redelivered, reclaimed or published twice, it is claimed
\* at most max_attempts times per requeue.
THEOREM ExecutionsAreBounded == Spec => []ExecutionsBounded
<1>1. DeliveryInv => ExecutionsBounded
  <2>1. SUFFICES ASSUME DeliveryInv, NEW k \in Works
                 PROVE  lease[k].gen <= MaxAttempts * (requeued + 1)
    BY Zenon DEF ExecutionsBounded
  <2>2. /\ lease[k].gen \in Nat /\ attempt[k] \in 0..MaxAttempts /\ requeued \in Nat
        /\ lease[k].gen <= MaxAttempts * requeued + attempt[k]
    BY <2>1 DEF DeliveryInv, Base, RowsOK, Leases
  <2>3. MaxAttempts * requeued \in Nat /\ MaxAttempts * (requeued + 1) = MaxAttempts * requeued + MaxAttempts
    BY <2>2, DeliveryAssumption
  <2>4. QED
    BY <2>2, <2>3, DeliveryAssumption
<1>2. QED
  BY <1>1, DeliveryInvariant, PTL

\* A message moves its work to published at most once, however often it is
\* delivered (append_from_inbox).
THEOREM MessagesPublishAtMostOnce == Spec => MessagesPublishOnce
<1>1. DeliveryInv /\ [Next]_vars => [PublishedByNewMessage]_vars
  <2>1. SUFFICES ASSUME Base, [Next]_vars, NEW k \in Works,
                        status[k] # "published", status'[k] = "published"
                 PROVE  \E m \in inbox' \ inbox : outbox[m].work = k
    BY Zenon DEF DeliveryInv, PublishedByNewMessage
  <2>2. status \in [Works -> Statuses] /\ RowsStep
    BY <2>1, NextRows, Zenon DEF Base, RowsOK
  <2>3. ~UNCHANGED <<rows, requeued>>
    BY <2>1, Zenon DEF rows
  <2>4. ASSUME NEW j \in Works, Move(j) \/ L!Request(j) \/ L!Requeue(j)
        PROVE  FALSE
    BY <2>1, <2>2, <2>4, Zenon DEF Move, L!Request, L!Claim, L!Start, L!Finish, L!RequestCancel, L!Expire,
       L!Requeue, L!RunsOut, L!Moves
  <2>5. PICK w \in Workers : Publishes(w)
    BY <2>2, <2>3, <2>4, Zenon DEF RowsStep, Register, RequeueDeadLetter
  <2>6. k = Work(w)
    BY <2>1, <2>2, <2>5, Zenon DEF Publishes, L!Publish, L!Moves
  <2>7. QED
    BY <2>5, <2>6, Zenon DEF Publishes, Known, Work
<1>2. QED
  BY <1>1, DeliveryInvariant, PTL DEF Spec, MessagesPublishOnce

\* To whoever looks at the work items only, the delivery is an execution of
\* WorkLifecycle: nothing a publisher, a worker, the reconciler or a fault does
\* takes an item where WorkerStateStore would not.
THEOREM DeliveryImplementsLifecycle == Spec => L!Spec
<1>1. Init => L!Init
  BY Zenon DEF Init
<1>2. DeliveryInv /\ [Next]_vars => [L!Next]_(L!vars)
  <2>1. SUFFICES ASSUME Base, [Next]_vars PROVE [L!Next]_(L!vars)
    BY Zenon DEF DeliveryInv
  <2>2. RowsStep
    BY <2>1, NextRows, Zenon
  <2>3. CASE UNCHANGED <<rows, requeued>>
    BY <2>3, Zenon DEF rows, L!vars
  <2>4. ASSUME NEW k \in Works, Move(k) \/ L!Publish(k) PROVE L!Next
    BY <2>4, Zenon DEF Move, L!Next
  <2>5. ASSUME NEW k \in Works, Register(k) \/ RequeueDeadLetter(k) PROVE L!Next
    BY <2>5, Zenon DEF Register, RequeueDeadLetter, L!Next
  <2>6. QED
    BY <2>2, <2>3, <2>4, <2>5, Zenon DEF RowsStep, Publishes
<1>3. QED
  BY <1>1, <1>2, DeliveryInvariant, PTL DEF Spec, L!Spec

=============================================================================
