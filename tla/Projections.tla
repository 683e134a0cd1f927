----------------------------- MODULE Projections -----------------------------
(***************************************************************************)
(* Event appends of one tenant, and the projection engines that replay them *)
(* into a read model: catch_up() page by page from a checkpoint, rebuild()  *)
(* with its reset, several engines at once.                                *)
(*                                                                         *)
(* The read model is the additive one, usage-quota: a row is the number of  *)
(* the events counted into it and the position of the last of them.  Each   *)
(* aggregate reports into a row of its own.  Statements of one transaction  *)
(* are separate steps where another transaction can come between them:     *)
(* an append takes its position before it commits, and a reset deletes the  *)
(* rows before the checkpoint.                                             *)
(***************************************************************************)
EXTENDS Naturals, FiniteSets

CONSTANTS
  Aggregates,     \* the aggregates of the tenant
  Writers,        \* the connections that append
  Engines,        \* the connections that run a ProjectionEngine
  None,           \* no aggregate, no engine
  PageSize,       \* ProjectionEngine.page_size
  MaxPosition,    \* bound: global positions ever allocated
  MaxRebuilds     \* bound: rebuilds ever started

Positions == 1..MaxPosition

ASSUME ProjectionAssumption ==
  /\ None \notin Aggregates \cup Engines
  /\ PageSize \in Nat \ {0}
  /\ MaxPosition \in Nat /\ MaxRebuilds \in Nat

VARIABLES
  next,           \* the next value of the identity column global_position
  log,            \* the aggregate whose event was committed at each position
  version,        \* the aggregate_sequence of the event at each position
  writer,         \* the append each writer has in progress
  view,           \* the committed rows of usage_quota_projection
  checkpoint,     \* the committed row of projection_checkpoints
  engine,         \* what each engine is doing
  rebuilds        \* rebuilds so far

ledger == <<next, log, version, writer>>
vars == <<next, log, version, writer, view, checkpoint, engine, rebuilds>>

NoRow == [count |-> 0, last |-> 0]
NoAppend == [agg |-> None, pos |-> 0]
IdleEngine == [pc |-> "idle", cursor |-> 0, page |-> {},
               seen |-> [a \in Aggregates |-> 0], doomed |-> {}]

\* Every variable keeps its type.
TypeOK ==
  /\ next \in 1..(MaxPosition + 1)
  /\ log \in [Positions -> Aggregates \cup {None}]
  /\ version \in [Positions -> 0..MaxPosition]
  /\ writer \in [Writers -> [agg : Aggregates \cup {None}, pos : 0..MaxPosition]]
  /\ view \in [Aggregates -> [count : 0..MaxPosition, last : 0..MaxPosition]]
  /\ checkpoint \in 0..MaxPosition
  /\ engine \in [Engines -> [pc : {"idle", "open", "read", "apply", "unlink", "corrupt"},
                             cursor : 0..MaxPosition, page : SUBSET Positions,
                             seen : [Aggregates -> 0..MaxPosition],
                             doomed : SUBSET Aggregates]]
  /\ rebuilds \in 0..MaxRebuilds

Init ==
  /\ next = 1
  /\ log = [p \in Positions |-> None]
  /\ version = [p \in Positions |-> 0]
  /\ writer = [w \in Writers |-> NoAppend]
  /\ view = [a \in Aggregates |-> NoRow]
  /\ checkpoint = 0
  /\ engine = [e \in Engines |-> IdleEngine]
  /\ rebuilds = 0

Committed == {p \in Positions : log[p] # None}

\* The committed events of aggregate a up to position p.
EventsOf(a, p) == {q \in Committed : log[q] = a /\ q <= p}

-----------------------------------------------------------------------------
(* Appends.                                                                *)

\* Mutant of CommitLockFree: the commit lock is not taken.
CommitLockIgnored == TRUE

\* The row lock of tenant_event_commit_locks is free.
CommitLockFree == \A w \in Writers : writer[w] = NoAppend

\* _append_in_transaction: the commit lock, then the INSERT that takes the
\* next position.
Insert(w, a) ==
  /\ writer[w] = NoAppend
  /\ CommitLockFree
  /\ next <= MaxPosition
  /\ writer' = [writer EXCEPT ![w] = [agg |-> a, pos |-> next]]
  /\ next' = next + 1
  /\ UNCHANGED <<log, version, view, checkpoint, engine, rebuilds>>

\* aggregate_sequence continues the stream of the aggregate.
NextVersion(a) == Cardinality(EventsOf(a, MaxPosition)) + 1

Commit(w) ==
  LET a == writer[w].agg
      p == writer[w].pos IN
  /\ a # None
  /\ log' = [log EXCEPT ![p] = a]
  /\ version' = [version EXCEPT ![p] = NextVersion(a)]
  /\ writer' = [writer EXCEPT ![w] = NoAppend]
  /\ UNCHANGED <<next, view, checkpoint, engine, rebuilds>>

\* A conflict or an error after the INSERT: the position is never used again.
Rollback(w) ==
  /\ writer[w] # NoAppend
  /\ writer' = [writer EXCEPT ![w] = NoAppend]
  /\ UNCHANGED <<next, log, version, view, checkpoint, engine, rebuilds>>

-----------------------------------------------------------------------------
(* catch_up().                                                             *)

Step(e, new) ==
  /\ engine' = [engine EXCEPT ![e] = new]
  /\ UNCHANGED <<next, log, version, writer, rebuilds>>

\* The committed checkpoint becomes the cursor; aggregate_versions is empty.
ReadCheckpoint(e) ==
  /\ engine[e].pc \in {"idle", "open"}
  /\ Step(e, [IdleEngine EXCEPT !.pc = "read", !.cursor = checkpoint])
  /\ UNCHANGED <<view, checkpoint>>

\* read_all(): the first PageSize committed events after the cursor.
PageAfter(c) ==
  {p \in Committed : p > c /\ Cardinality({q \in Committed : c < q /\ q <= p}) <= PageSize}

LastOf(page) == CHOOSE p \in page : \A q \in page : q <= p

\* What _validate_page() finds as the version before the event at p.
PreviousVersion(e, page, p) ==
  LET before == {q \in page : q < p /\ log[q] = log[p]} IN
  IF before # {} THEN version[LastOf(before)]
  ELSE IF engine[e].seen[log[p]] # 0 THEN engine[e].seen[log[p]]
  ELSE version[p] - 1

ValidPage(e, page) == \A p \in page : version[p] = PreviousVersion(e, page, p) + 1

SeenAfter(e, page) ==
  [a \in Aggregates |->
     LET mine == {p \in page : log[p] = a} IN
     IF mine = {} THEN engine[e].seen[a] ELSE version[LastOf(mine)]]

\* read_all() and _validate_page(): the end of the log, a page to apply, or
\* ReplayCorruptionError.
ReadPage(e) ==
  LET page == PageAfter(engine[e].cursor) IN
  /\ engine[e].pc = "read"
  /\ \/ page = {} /\ Step(e, IdleEngine)
     \/ page # {} /\ ValidPage(e, page)
        /\ Step(e, [engine[e] EXCEPT !.pc = "apply", !.page = page,
                                     !.seen = SeenAfter(e, page)])
     \/ page # {} /\ ~ValidPage(e, page)
        /\ Step(e, [engine[e] EXCEPT !.pc = "corrupt"])
  /\ UNCHANGED <<view, checkpoint>>

\* Mutant of CountInto: the guard on last_global_position is dropped.
CountAgain(page) ==
  [a \in Aggregates |->
     LET mine == {p \in page : log[p] = a} IN
     IF mine = {} THEN view[a]
     ELSE [count |-> view[a].count + Cardinality(mine), last |-> LastOf(mine)]]

\* _apply_usage() for each event of the page: only what is past the row counts.
CountInto(page) ==
  [a \in Aggregates |->
     LET new == {p \in page : log[p] = a /\ p > view[a].last} IN
     IF new = {} THEN view[a]
     ELSE [count |-> view[a].count + Cardinality(new), last |-> LastOf(new)]]

\* The rows that apply() would lock and a reset in progress has deleted.
Blocked(page) ==
  \E f \in Engines : \E p \in page : log[p] \in engine[f].doomed

Continue(e, c) ==
  IF Cardinality(engine[e].page) = PageSize
  THEN [engine[e] EXCEPT !.pc = "read", !.cursor = c, !.page = {}]
  ELSE IdleEngine

\* The comparison with expected_checkpoint.
Expected(e) == checkpoint = engine[e].cursor

\* apply() under the lock of the checkpoint row: already applied by another
\* engine, applied now, or ConcurrencyError.
Apply(e) ==
  LET page == engine[e].page IN
  /\ engine[e].pc = "apply"
  /\ \/ /\ checkpoint >= LastOf(page)
        /\ Step(e, Continue(e, checkpoint))
        /\ UNCHANGED <<view, checkpoint>>
     \/ /\ checkpoint < LastOf(page) /\ Expected(e)
        /\ ~Blocked(page)
        /\ view' = CountInto(page)
        /\ checkpoint' = LastOf(page)
        /\ Step(e, Continue(e, LastOf(page)))
     \/ /\ checkpoint < LastOf(page) /\ ~Expected(e)
        /\ Step(e, IdleEngine)
        /\ UNCHANGED <<view, checkpoint>>

-----------------------------------------------------------------------------
(* rebuild().                                                              *)

\* reset(): DELETE of the rows.  Rows another reset is deleting are waited for.
ResetRows(e) ==
  /\ engine[e].pc = "idle"
  /\ rebuilds < MaxRebuilds
  /\ \A f \in Engines : engine[f].doomed = {}
  /\ rebuilds' = rebuilds + 1
  /\ engine' = [engine EXCEPT ![e] =
                  [IdleEngine EXCEPT !.pc = "unlink",
                                     !.doomed = {a \in Aggregates : view[a] # NoRow}]]
  /\ UNCHANGED <<next, log, version, writer, view, checkpoint>>

\* Mutant of ResetCheckpoint: the checkpoint row is left in place.
ResetKeepingCheckpoint(e) ==
  /\ engine[e].pc = "unlink"
  /\ view' = [a \in Aggregates |-> IF a \in engine[e].doomed THEN NoRow ELSE view[a]]
  /\ UNCHANGED checkpoint
  /\ Step(e, [IdleEngine EXCEPT !.pc = "open"])

\* reset(): DELETE of the checkpoint, commit; catch_up() follows.
ResetCheckpoint(e) ==
  /\ engine[e].pc = "unlink"
  /\ view' = [a \in Aggregates |-> IF a \in engine[e].doomed THEN NoRow ELSE view[a]]
  /\ checkpoint' = 0
  /\ Step(e, [IdleEngine EXCEPT !.pc = "open"])

\* Any error, or the end of the process: the transaction in progress is rolled
\* back.  One of two transactions that wait for each other's rows ends so.
Abandon(e) ==
  /\ engine[e].pc # "idle"
  /\ Step(e, IdleEngine)
  /\ UNCHANGED <<view, checkpoint>>

Next ==
  \/ \E w \in Writers, a \in Aggregates : Insert(w, a)
  \/ \E w \in Writers : Commit(w) \/ Rollback(w)
  \/ \E e \in Engines :
        \/ ReadCheckpoint(e) \/ ReadPage(e) \/ Apply(e)
        \/ ResetRows(e) \/ ResetCheckpoint(e) \/ Abandon(e)

Spec == Init /\ [][Next]_vars

-----------------------------------------------------------------------------
(* Properties.                                                             *)

\* The checkpoint never passes an event that is still to be committed: the
\* commit lock makes positions visible in order, so catch_up() skips nothing.
CheckpointBehindAppends ==
  \A w \in Writers : writer[w] # NoAppend => checkpoint < writer[w].pos

\* Every committed event up to the checkpoint is in its row, whatever engines
\* caught up, rebuilt or died at the same time.
CheckpointCovered ==
  \A p \in Committed : p <= checkpoint => p <= view[log[p]].last

\* A row counts each event up to its own position exactly once: a page applied
\* twice, or a rebuild racing a catch_up, neither loses usage nor doubles it.
CountedOnce ==
  \A a \in Aggregates : view[a].count = Cardinality(EventsOf(a, view[a].last))

\* The versions of an aggregate are gapless and in the order of the positions: the
\* version of an event is the number of events of its aggregate up to it, whichever
\* appends roll back (_append_in_transaction()).
Gapless == \A p \in Committed : version[p] = Cardinality(EventsOf(log[p], p))

\* ReplayCorruptionError is raised only when committed ordering violates the
\* gapless aggregate contract (its docstring).
CorruptionIsReal ==
  (\E e \in Engines : engine[e].pc = "corrupt") => ~Gapless
=============================================================================
