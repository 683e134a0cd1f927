-------------------------- MODULE ProjectionsProofs --------------------------
(***************************************************************************)
(* Proofs about Projections for any number of aggregates, writers and       *)
(* engines, any page size and any number of events and rebuilds.           *)
(***************************************************************************)
EXTENDS Projections, FiniteSetTheorems, TLAPS

-----------------------------------------------------------------------------
(* Sets of positions.                                                      *)

LEMMA PositionsFinite ==
  ASSUME NEW S \in SUBSET Positions
  PROVE  /\ IsFiniteSet(S) /\ Cardinality(S) \in Nat /\ Cardinality(S) <= MaxPosition
         /\ S # Positions => Cardinality(S) < MaxPosition
<1>1. IsFiniteSet(Positions) /\ Cardinality(Positions) = MaxPosition
  BY ProjectionAssumption, FS_Interval DEF Positions
<1>2. IsFiniteSet(S) /\ Cardinality(S) <= MaxPosition /\ (Cardinality(S) = MaxPosition => S = Positions)
  BY <1>1, FS_Subset
<1>3. Cardinality(S) \in Nat
  BY <1>2, FS_CardinalityType
<1>4. QED
  BY <1>2, <1>3, ProjectionAssumption

\* LastOf() of a page is the greatest of its positions.
LEMMA LastOfPage ==
  ASSUME NEW S \in SUBSET Positions, S # {}
  PROVE  LastOf(S) \in S /\ \A q \in S : q <= LastOf(S)
<1> DEFINE Above(i) == {j \in S : j > i}
<1> DEFINE T == {Above(i) : i \in S}
<1>0. S \subseteq Nat
  BY DEF Positions
<1>1. IsWellFoundedOn(StrictSubsetOrdering(S), SUBSET S)
  BY PositionsFinite, FS_FiniteSubsetsOfFinite, FS_StrictSubsetOrderingWellFounded, Zenon
<1>2. T \subseteq SUBSET S /\ T # {}
  <2>1. \A i \in S : Above(i) \in SUBSET S
    OBVIOUS
  <2> HIDE DEF Above
  <2>2. QED
    BY <2>1
<1>3. \E x \in T : \A y \in T : ~(<<y, x>> \in StrictSubsetOrdering(S))
  <2> HIDE DEF T
  <2> QED
    BY <1>1, <1>2, WFMin
<1>4. PICK i \in S : \A j \in S : <<Above(j), Above(i)>> \notin StrictSubsetOrdering(S)
  BY <1>3, Zenon
<1>5. ASSUME NEW j \in S, j > i
      PROVE  FALSE
  <2>1. Above(j) \subseteq Above(i)
    <3>1. \A k \in S : k > j => k > i
      BY <1>0, <1>5
    <3>2. QED
      BY <3>1
  <2>2. j \in Above(i) /\ j \notin Above(j)
    BY <1>0, <1>5
  <2>3. <<Above(j), Above(i)>> \in StrictSubsetOrdering(S)
    <3>1. Above(j) \in SUBSET S /\ Above(i) \in SUBSET S /\ Above(j) # Above(i)
      BY <2>2
    <3> HIDE DEF Above
    <3>2. QED
      BY <2>1, <3>1 DEF StrictSubsetOrdering
  <2>4. QED
    BY <2>3, <1>4
<1>6. \E p \in S : \A q \in S : q <= p
  BY <1>0, <1>5
<1>7. QED
  BY <1>6 DEF LastOf

-----------------------------------------------------------------------------
(* The inductive invariant.                                                *)

Rows == [count : Nat, last : 0..MaxPosition]

Engine ==
  [pc : {"idle", "open", "read", "apply", "unlink", "corrupt"},
   cursor : 0..MaxPosition, page : SUBSET Positions,
   seen : [Aggregates -> 0..MaxPosition], doomed : SUBSET Aggregates]

Typed ==
  /\ next \in 1..(MaxPosition + 1)
  /\ log \in [Positions -> Aggregates \cup {None}]
  /\ version \in [Positions -> 0..MaxPosition]
  /\ writer \in [Writers -> [agg : Aggregates \cup {None}, pos : 0..MaxPosition]]
  /\ view \in [Aggregates -> Rows]
  /\ checkpoint \in 0..MaxPosition
  /\ engine \in [Engines -> Engine]
  /\ rebuilds \in 0..MaxRebuilds

\* One append at a time: it has the last position taken, and all that is committed
\* lies before it.
Appends ==
  /\ \A w \in Writers : writer[w] # NoAppend =>
       /\ writer[w].agg \in Aggregates
       /\ writer[w].pos \in Positions /\ writer[w].pos = next - 1
       /\ log[writer[w].pos] = None
  /\ \A v, w \in Writers : writer[v] # NoAppend /\ writer[w] # NoAppend => v = w
  /\ \A p \in Committed : p < next

\* A position that was reached is the position of a committed event.
Reached(p) == p = 0 \/ p \in Committed

Marks ==
  /\ Reached(checkpoint)
  /\ \A a \in Aggregates : Reached(view[a].last)
  /\ \A e \in Engines : Reached(engine[e].cursor)

\* A page that was read is not empty and leaves out no event after its cursor.
Pages ==
  \A e \in Engines : engine[e].pc = "apply" =>
    /\ engine[e].page # {} /\ engine[e].page \subseteq Committed
    /\ \A p \in Committed, q \in engine[e].page :
         engine[e].cursor < p /\ p <= q => p \in engine[e].page

ProjInv == Typed /\ Appends /\ Marks /\ Pages /\ CheckpointCovered /\ CountedOnce

\* What the steps of an engine rely on.
LEMMA Basics ==
  ASSUME Typed
  PROVE  /\ Committed \subseteq Positions /\ Positions \subseteq Nat /\ next \in Nat /\ checkpoint \in Nat
         /\ \A a \in Aggregates : view[a].last \in Nat /\ view[a].count \in Nat
         /\ \A e \in Engines : engine[e] \in Engine /\ engine[e].cursor \in Nat
         /\ MaxPosition \in Nat /\ Reached(0) /\ None \notin Aggregates /\ 0 \notin Committed
  BY ProjectionAssumption DEF Typed, Committed, Positions, Rows, Engine, Reached

LEMMA IdleTyped == IdleEngine \in Engine /\ IdleEngine.pc = "idle" /\ IdleEngine.cursor = 0
  BY ProjectionAssumption DEF IdleEngine, Engine

LEMMA ProjInit == Init => ProjInv
<1> SUFFICES ASSUME Init PROVE ProjInv
  OBVIOUS
<1> USE ProjectionAssumption
<1>1. NoRow \in Rows /\ NoRow.count = 0 /\ NoRow.last = 0
  BY DEF NoRow, Rows
<1>2. NoAppend \in [agg : Aggregates \cup {None}, pos : 0..MaxPosition]
  BY DEF NoAppend
<1>3. IdleEngine \in Engine /\ IdleEngine.pc = "idle" /\ IdleEngine.cursor = 0
  BY IdleTyped
<1>4. Typed
  BY <1>1, <1>2, <1>3 DEF Init, Typed
<1>5. Committed = {}
  BY DEF Init, Committed
<1>6. Appends
  BY <1>5 DEF Init, Appends
<1>7. /\ \A e \in Engines : engine[e] = IdleEngine
      /\ \A a \in Aggregates : view[a] = NoRow
      /\ checkpoint = 0
  BY DEF Init
<1>8. Marks /\ Pages /\ CheckpointCovered
  BY <1>1, <1>3, <1>5, <1>7 DEF Marks, Reached, Pages, CheckpointCovered
<1>9. CountedOnce
  <2>1. \A a \in Aggregates : EventsOf(a, view[a].last) = {}
    BY <1>5 DEF EventsOf
  <2>2. QED
    BY <1>1, <1>7, <2>1, FS_EmptySet DEF CountedOnce
<1>10. QED
  BY <1>4, <1>6, <1>8, <1>9 DEF ProjInv

-----------------------------------------------------------------------------
(* Appends.                                                                *)

LEMMA InsertInv ==
  ASSUME ProjInv, NEW w \in Writers, NEW a \in Aggregates, Insert(w, a)
  PROVE  ProjInv'
<1> USE ProjectionAssumption
<1>1. /\ Typed /\ Appends /\ \A v \in Writers : writer[v] = NoAppend
      /\ next' = next + 1 /\ writer' = [writer EXCEPT ![w] = [agg |-> a, pos |-> next]]
      /\ next \in Positions
      /\ UNCHANGED <<log, version, view, checkpoint, engine, rebuilds>>
  BY DEF ProjInv, Insert, CommitLockFree, Typed, Positions
<1>2. Typed'
  BY <1>1 DEF Typed, Positions
<1>3. Committed' = Committed
  BY <1>1 DEF Committed
<1>4. log[next] = None
  <2>1. next \notin Committed
    BY <1>1, Basics DEF Appends
  <2>2. QED
    BY <1>1, <2>1 DEF Committed
<1>5. /\ writer'[w] = [agg |-> a, pos |-> next]
      /\ \A v \in Writers \ {w} : writer'[v] = NoAppend
  BY <1>1 DEF Typed
<1>6. Appends'
  <2>1. \A v \in Writers : writer'[v] # NoAppend => v = w
    BY <1>5
  <2>2. \A p \in Committed : p < next'
    BY <1>1, Basics DEF Appends
  <2>3. next = next' - 1
    BY <1>1, Basics
  <2>4. QED
    BY <1>1, <1>3, <1>4, <1>5, <2>1, <2>2, <2>3 DEF Appends
<1>7. Marks' /\ Pages' /\ CheckpointCovered' /\ CountedOnce'
  BY <1>1, <1>3 DEF ProjInv, Marks, Reached, Pages, CheckpointCovered, CountedOnce, EventsOf
<1>8. QED
  BY <1>2, <1>6, <1>7 DEF ProjInv

LEMMA RollbackInv ==
  ASSUME ProjInv, NEW w \in Writers, Rollback(w)
  PROVE  ProjInv'
<1>1. /\ writer' = [writer EXCEPT ![w] = NoAppend] /\ Typed /\ Appends
      /\ UNCHANGED <<next, log, version, view, checkpoint, engine, rebuilds>>
  BY DEF ProjInv, Rollback
<1>2. Committed' = Committed
  BY <1>1 DEF Committed
<1>3. writer'[w] = NoAppend /\ \A v \in Writers \ {w} : writer'[v] = writer[v]
  BY <1>1 DEF Typed
<1>4. Typed'
  BY <1>1, ProjectionAssumption DEF Typed, NoAppend
<1>5. Appends'
  BY <1>1, <1>2, <1>3 DEF Appends
<1>6. Marks' /\ Pages' /\ CheckpointCovered' /\ CountedOnce'
  BY <1>1, <1>2 DEF ProjInv, Marks, Reached, Pages, CheckpointCovered, CountedOnce, EventsOf
<1>7. QED
  BY <1>4, <1>5, <1>6 DEF ProjInv

\* The committed event comes after everything that was committed, so no mark has
\* passed it and no page has missed it.
LEMMA CommitInv ==
  ASSUME ProjInv, NEW w \in Writers, Commit(w)
  PROVE  ProjInv'
<1> USE ProjectionAssumption
<1> DEFINE a == writer[w].agg
<1> DEFINE p == writer[w].pos
<1>1. /\ Typed /\ Appends /\ a # None
      /\ log' = [log EXCEPT ![p] = a] /\ version' = [version EXCEPT ![p] = NextVersion(a)]
      /\ writer' = [writer EXCEPT ![w] = NoAppend]
      /\ UNCHANGED <<next, view, checkpoint, engine, rebuilds>>
  BY DEF ProjInv, Commit
<1>2. writer[w] # NoAppend
  BY <1>1 DEF NoAppend
<1>3. a \in Aggregates /\ p \in Positions /\ p = next - 1 /\ log[p] = None
  BY <1>1, <1>2 DEF Appends
<1> HIDE DEF a, p
<1>4. p \in Nat /\ p \notin Committed /\ \A q \in Committed : q < p
  <2>1. p \in Nat /\ p \notin Committed
    BY <1>3, Basics, <1>1 DEF Committed
  <2>2. \A q \in Committed : q \in Nat /\ q # p /\ q < next
    BY <1>1, <2>1, Basics DEF Appends
  <2>3. QED
    BY <1>1, <1>3, <2>1, <2>2, Basics
<1>5. Committed' = Committed \cup {p} /\ log'[p] = a /\ \A q \in Committed : log'[q] = log[q]
  <2>1. log'[p] = a /\ \A q \in Positions \ {p} : log'[q] = log[q]
    BY <1>1, <1>3 DEF Typed
  <2>2. \A q \in Positions : log'[q] # None <=> q = p \/ log[q] # None
    BY <1>3, <2>1
  <2>3. Committed' = Committed \cup {p}
    BY <1>3, <2>2, Zenon DEF Committed
  <2>4. QED
    BY <1>4, <2>1, <2>3 DEF Committed
<1>6. Typed'
  <2>1. NextVersion(a) \in 0..MaxPosition
    <3>1. EventsOf(a, MaxPosition) \in SUBSET Positions /\ EventsOf(a, MaxPosition) # Positions
      BY <1>3, <1>4 DEF EventsOf, Committed
    <3>2. QED
      BY <3>1, PositionsFinite DEF NextVersion
  <2>2. QED
    BY <1>1, <1>3, <2>1 DEF Typed, NoAppend
<1>7. Appends'
  <2>1. \A v \in Writers : writer'[v] = NoAppend
    BY <1>1, <1>2 DEF Appends, Typed
  <2>2. p < next
    BY <1>1, <1>3, <1>4, Basics
  <2>3. QED
    BY <1>1, <1>5, <2>1, <2>2 DEF Appends
<1>8. Marks'
  BY <1>1, <1>5 DEF ProjInv, Marks, Reached
<1>9. Pages'
  <2> SUFFICES ASSUME NEW e \in Engines, engine[e].pc = "apply"
               PROVE  /\ engine[e].page # {} /\ engine[e].page \subseteq Committed'
                      /\ \A r \in Committed', q \in engine[e].page :
                           engine[e].cursor < r /\ r <= q => r \in engine[e].page
    BY <1>1 DEF Pages
  <2>1. /\ engine[e].page # {} /\ engine[e].page \subseteq Committed
        /\ \A r \in Committed, q \in engine[e].page :
             engine[e].cursor < r /\ r <= q => r \in engine[e].page
    BY DEF ProjInv, Pages
  <2>2. \A q \in engine[e].page : ~(p <= q)
    BY <1>1, <1>4, <2>1, Basics
  <2>3. QED
    BY <1>5, <2>1, <2>2
<1>10. ASSUME NEW m, Reached(m) PROVE m \in Nat /\ m < p
  <2>1. 0 < p
    BY <1>3 DEF Positions
  <2>2. QED
    BY <1>1, <1>4, <1>10, <2>1, Basics DEF Reached
<1>11. CheckpointCovered'
  <2>1. checkpoint < p /\ checkpoint \in Nat
    BY <1>10 DEF ProjInv, Marks
  <2>2. \A q \in Committed : q <= checkpoint => q <= view[log[q]].last
    BY DEF ProjInv, CheckpointCovered
  <2>3. ~(p <= checkpoint)
    BY <1>4, <2>1
  <2>4. QED
    BY <1>1, <1>5, <2>2, <2>3 DEF CheckpointCovered
<1>12. CountedOnce'
  <2>1. ASSUME NEW b \in Aggregates PROVE EventsOf(b, view[b].last)' = EventsOf(b, view[b].last)
    <3>1. view[b].last \in Nat /\ view[b].last < p
      BY <1>10 DEF ProjInv, Marks
    <3>2. ~(p <= view[b].last)
      BY <1>4, <3>1
    <3>3. QED
      BY <1>1, <1>5, <3>2 DEF EventsOf
  <2>2. QED
    BY <1>1, <2>1 DEF ProjInv, CountedOnce
<1>13. QED
  BY <1>6, <1>7, <1>8, <1>9, <1>11, <1>12 DEF ProjInv

-----------------------------------------------------------------------------
(* Engines.                                                                *)

\* An engine moves; the read model and its checkpoint stay.
LEMMA EngineMoves ==
  ASSUME ProjInv, NEW e \in Engines, NEW new \in Engine,
         engine' = [engine EXCEPT ![e] = new], rebuilds' \in 0..MaxRebuilds,
         UNCHANGED <<next, log, version, writer, view, checkpoint>>,
         Reached(new.cursor),
         new.pc = "apply" =>
           /\ new.page # {} /\ new.page \subseteq Committed
           /\ \A p \in Committed, q \in new.page : new.cursor < p /\ p <= q => p \in new.page
  PROVE  ProjInv'
<1>1. Typed /\ Appends
  BY DEF ProjInv
<1>2. Committed' = Committed
  BY DEF Committed
<1>3. engine'[e] = new /\ \A f \in Engines \ {e} : engine'[f] = engine[f]
  BY <1>1 DEF Typed
<1>4. Typed'
  BY <1>1 DEF Typed
<1>5. Appends' /\ CheckpointCovered' /\ CountedOnce'
  BY <1>1, <1>2 DEF ProjInv, Appends, CheckpointCovered, CountedOnce, EventsOf
<1>6. Marks'
  BY <1>2, <1>3 DEF ProjInv, Marks, Reached
<1>7. Pages'
  BY <1>2, <1>3 DEF ProjInv, Pages
<1>8. QED
  BY <1>4, <1>5, <1>6, <1>7 DEF ProjInv

LEMMA PageAfterCloses ==
  ASSUME Typed, NEW c \in Nat
  PROVE  /\ PageAfter(c) \subseteq Committed
         /\ \A p \in Committed, q \in PageAfter(c) : c < p /\ p <= q => p \in PageAfter(c)
<1>1. PageAfter(c) \subseteq Committed
  BY DEF PageAfter
<1>2. ASSUME NEW p \in Committed, NEW q \in PageAfter(c), c < p, p <= q
      PROVE  p \in PageAfter(c)
  <2> DEFINE P == {r \in Committed : c < r /\ r <= p}
  <2> DEFINE Q == {r \in Committed : c < r /\ r <= q}
  <2>1. P \in SUBSET Q /\ Q \in SUBSET Positions
    BY <1>1, <1>2, Basics
  <2>2. Cardinality(Q) <= PageSize
    BY <1>2 DEF PageAfter
  <2>3. Cardinality(P) <= Cardinality(Q) /\ Cardinality(P) \in Nat /\ Cardinality(Q) \in Nat
    <3>1. IsFiniteSet(Q) /\ Cardinality(Q) \in Nat /\ Cardinality(P) \in Nat
      BY <2>1, PositionsFinite
    <3> HIDE DEF P, Q
    <3>2. QED
      BY <2>1, <3>1, FS_Subset
  <2>4. Cardinality(P) <= PageSize
    BY <2>2, <2>3, ProjectionAssumption
  <2>5. p > c
    BY <1>2, Basics
  <2>6. QED
    BY <2>4, <2>5 DEF PageAfter
<1>3. QED
  BY <1>1, <1>2

LEMMA ReadCheckpointInv ==
  ASSUME ProjInv, NEW e \in Engines, ReadCheckpoint(e)
  PROVE  ProjInv'
<1> DEFINE new == [IdleEngine EXCEPT !.pc = "read", !.cursor = checkpoint]
<1>1. new \in Engine /\ new.pc = "read" /\ new.cursor = checkpoint
  BY IdleTyped, Zenon DEF ProjInv, Typed, Engine
<1>2. /\ engine' = [engine EXCEPT ![e] = new]
      /\ UNCHANGED <<next, log, version, writer, view, checkpoint, rebuilds>>
  BY DEF ReadCheckpoint, Step
<1> HIDE DEF new
<1>3. Reached(new.cursor) /\ rebuilds' \in 0..MaxRebuilds
  BY <1>1, <1>2 DEF ProjInv, Marks, Typed
<1>4. QED
  BY <1>1, <1>2, <1>3, EngineMoves, Zenon

LEMMA ReadPageInv ==
  ASSUME ProjInv, NEW e \in Engines, ReadPage(e)
  PROVE  ProjInv'
<1> DEFINE page == PageAfter(engine[e].cursor)
<1>1. /\ Typed /\ engine[e] \in Engine /\ engine[e].pc = "read" /\ Reached(engine[e].cursor)
      /\ UNCHANGED <<next, log, version, writer, view, checkpoint, rebuilds>>
      /\ rebuilds' \in 0..MaxRebuilds
  BY DEF ProjInv, Typed, Marks, ReadPage, Step
<1>2. /\ page \subseteq Committed /\ page \in SUBSET Positions
      /\ \A p \in Committed, q \in page : engine[e].cursor < p /\ p <= q => p \in page
  BY <1>1, Basics, PageAfterCloses
<1>3. CASE page = {} /\ Step(e, IdleEngine)
  BY <1>1, <1>3, IdleTyped, Basics, EngineMoves, Zenon DEF Step
<1>4. CASE page # {} /\ Step(e, [engine[e] EXCEPT !.pc = "apply", !.page = page,
                                                  !.seen = SeenAfter(e, page)])
  <2> DEFINE new == [engine[e] EXCEPT !.pc = "apply", !.page = page, !.seen = SeenAfter(e, page)]
  <2>1. SeenAfter(e, page) \in [Aggregates -> 0..MaxPosition]
    <3> SUFFICES ASSUME NEW a \in Aggregates
                 PROVE  LET mine == {p \in page : log[p] = a} IN
                        (IF mine = {} THEN engine[e].seen[a] ELSE version[LastOf(mine)]) \in 0..MaxPosition
      BY DEF SeenAfter
    <3> DEFINE mine == {p \in page : log[p] = a}
    <3>1. engine[e].seen[a] \in 0..MaxPosition
      BY <1>1 DEF Engine
    <3>2. mine # {} => version[LastOf(mine)] \in 0..MaxPosition
      <4>1. mine \in SUBSET Positions
        BY <1>2
      <4> HIDE DEF mine
      <4>2. mine # {} => LastOf(mine) \in Positions
        BY <4>1, LastOfPage
      <4>3. QED
        BY <1>1, <4>2 DEF Typed
    <3>3. QED
      BY <3>1, <3>2
  <2> DEFINE seen == SeenAfter(e, page)
  <2> HIDE DEF page, seen
  <2>2. /\ new \in Engine /\ new.pc = "apply" /\ new.page = page /\ new.cursor = engine[e].cursor
    BY <1>1, <1>2, <2>1, Zenon DEF Engine
  <2>3. engine' = [engine EXCEPT ![e] = new]
    BY <1>4 DEF Step
  <2> HIDE DEF new
  <2>4. QED
    BY <1>1, <1>2, <1>4, <2>2, <2>3, EngineMoves, Zenon
<1>5. CASE Step(e, [engine[e] EXCEPT !.pc = "corrupt"])
  <2> DEFINE new == [engine[e] EXCEPT !.pc = "corrupt"]
  <2>1. new \in Engine /\ new.pc = "corrupt" /\ new.cursor = engine[e].cursor
    BY <1>1 DEF Engine
  <2>2. engine' = [engine EXCEPT ![e] = new]
    BY <1>5 DEF Step
  <2> HIDE DEF new
  <2>3. QED
    BY <1>1, <2>1, <2>2, EngineMoves, Zenon
<1>6. QED
  BY <1>3, <1>4, <1>5 DEF ReadPage

LEMMA AbandonInv ==
  ASSUME ProjInv, NEW e \in Engines, Abandon(e)
  PROVE  ProjInv'
<1>1. Typed /\ Step(e, IdleEngine) /\ UNCHANGED <<view, checkpoint>>
  BY DEF ProjInv, Abandon
<1>2. rebuilds' \in 0..MaxRebuilds
  BY <1>1 DEF Typed, Step
<1>3. QED
  BY <1>1, <1>2, IdleTyped, Basics, EngineMoves, Zenon DEF Step

LEMMA ResetRowsInv ==
  ASSUME ProjInv, NEW e \in Engines, ResetRows(e)
  PROVE  ProjInv'
<1> DEFINE gone == {a \in Aggregates : view[a] # NoRow}
<1> DEFINE new == [IdleEngine EXCEPT !.pc = "unlink", !.doomed = gone]
<1>1. gone \in SUBSET Aggregates
  OBVIOUS
<1> HIDE DEF gone
<1>2. new \in Engine /\ new.pc = "unlink" /\ new.cursor = 0
  BY <1>1, IdleTyped, Zenon DEF Engine
<1>3. /\ engine' = [engine EXCEPT ![e] = new] /\ rebuilds' \in 0..MaxRebuilds
      /\ UNCHANGED <<next, log, version, writer, view, checkpoint>>
  BY ProjectionAssumption DEF ResetRows, ProjInv, Typed, gone
<1> HIDE DEF new
<1>4. Reached(new.cursor)
  BY <1>2 DEF Reached
<1>5. QED
  BY <1>2, <1>3, <1>4, EngineMoves, Zenon

-----------------------------------------------------------------------------
(* Steps that change the read model.                                       *)

\* The read model and the checkpoint are replaced together.
LEMMA ModelMoves ==
  ASSUME ProjInv, NEW e \in Engines, NEW new \in Engine,
         engine' = [engine EXCEPT ![e] = new],
         UNCHANGED <<next, log, version, writer, rebuilds>>,
         new.pc # "apply", Reached(new.cursor),
         view' \in [Aggregates -> Rows], checkpoint' \in 0..MaxPosition, Reached(checkpoint'),
         \A a \in Aggregates : /\ Reached(view'[a].last)
                               /\ view'[a].count = Cardinality(EventsOf(a, view'[a].last)),
         \A p \in Committed : p <= checkpoint' => p <= view'[log[p]].last
  PROVE  ProjInv'
<1>1. Typed /\ Appends
  BY DEF ProjInv
<1>2. Committed' = Committed
  BY DEF Committed
<1>3. engine'[e] = new /\ \A f \in Engines \ {e} : engine'[f] = engine[f]
  BY <1>1 DEF Typed
<1>4. Typed'
  BY <1>1 DEF Typed
<1>5. Appends' /\ CheckpointCovered'
  BY <1>1, <1>2 DEF Appends, CheckpointCovered
<1>6. CountedOnce'
  BY <1>2 DEF CountedOnce, EventsOf
<1>7. Marks'
  BY <1>2, <1>3 DEF ProjInv, Marks, Reached
<1>8. Pages'
  BY <1>2, <1>3 DEF ProjInv, Pages
<1>9. QED
  BY <1>4, <1>5, <1>6, <1>7, <1>8 DEF ProjInv

LEMMA NoEventsBefore ==
  ASSUME Typed, NEW a \in Aggregates
  PROVE  Cardinality(EventsOf(a, 0)) = 0
<1>1. EventsOf(a, 0) = {}
  BY Basics DEF EventsOf, Positions
<1>2. QED
  BY <1>1, FS_EmptySet

LEMMA ResetCheckpointInv ==
  ASSUME ProjInv, NEW e \in Engines, ResetCheckpoint(e)
  PROVE  ProjInv'
<1> DEFINE new == [IdleEngine EXCEPT !.pc = "open"]
<1>1. new \in Engine /\ new.pc = "open" /\ new.cursor = 0
  BY IdleTyped DEF Engine
<1>2. /\ engine' = [engine EXCEPT ![e] = new] /\ checkpoint' = 0
      /\ UNCHANGED <<next, log, version, writer, rebuilds>>
      /\ view' = [a \in Aggregates |-> IF a \in engine[e].doomed THEN NoRow ELSE view[a]]
  BY DEF ResetCheckpoint, Step
<1> HIDE DEF new
<1>3. Typed /\ 0 \in 0..MaxPosition
  BY ProjectionAssumption DEF ProjInv
<1>4. NoRow \in Rows /\ NoRow.count = 0 /\ NoRow.last = 0
  BY <1>3 DEF NoRow, Rows
<1>5. view' \in [Aggregates -> Rows]
  BY <1>2, <1>3, <1>4 DEF Typed
<1>6. \A a \in Aggregates : /\ Reached(view'[a].last)
                            /\ view'[a].count = Cardinality(EventsOf(a, view'[a].last))
  <2> TAKE a \in Aggregates
  <2>1. CASE a \in engine[e].doomed
    BY <1>2, <1>3, <1>4, <2>1, NoEventsBefore DEF Reached
  <2>2. CASE a \notin engine[e].doomed
    BY <1>2, <2>2 DEF ProjInv, Marks, CountedOnce
  <2>3. QED
    BY <2>1, <2>2
<1>7. \A p \in Committed : ~(p <= 0)
  BY <1>3, Basics DEF Positions
<1>8. QED
  BY <1>1, <1>2, <1>3, <1>5, <1>6, <1>7, ModelMoves, Zenon DEF Reached

LEMMA ContinueTyped ==
  ASSUME NEW e \in Engines, engine[e] \in Engine, NEW c \in 0..MaxPosition, Reached(c)
  PROVE  /\ Continue(e, c) \in Engine /\ Continue(e, c).pc \in {"idle", "read"}
         /\ Reached(Continue(e, c).cursor)
<1> DEFINE on == [engine[e] EXCEPT !.pc = "read", !.cursor = c, !.page = {}]
<1>1. on \in Engine /\ on.pc = "read" /\ on.cursor = c
  BY Zenon DEF Engine
<1>2. Continue(e, c) = on \/ Continue(e, c) = IdleEngine
  BY DEF Continue
<1> HIDE DEF on
<1>3. QED
  BY <1>1, <1>2, IdleTyped DEF Reached

\* CountInto(): a row counts what is new to it, which is all that lies between its
\* position and the last event of the page that is its own.
LEMMA CountIntoRow ==
  ASSUME ProjInv, NEW e \in Engines, engine[e].pc = "apply", Expected(e), NEW a \in Aggregates
  PROVE  LET row == CountInto(engine[e].page)[a] IN
         /\ row \in Rows /\ Reached(row.last) /\ view[a].last <= row.last
         /\ row.count = Cardinality(EventsOf(a, row.last))
         /\ \A p \in engine[e].page : log[p] = a => p <= row.last
<1> DEFINE page == engine[e].page
<1> DEFINE new == {p \in page : log[p] = a /\ p > view[a].last}
<1> DEFINE row == CountInto(page)[a]
<1>1. /\ Typed /\ page \subseteq Committed /\ checkpoint = engine[e].cursor
      /\ \A p \in Committed, q \in page : checkpoint < p /\ p <= q => p \in page
  BY DEF ProjInv, Pages, Expected
<1>2. /\ view[a] \in Rows /\ Reached(view[a].last) /\ view[a].last \in Nat /\ view[a].count \in Nat
      /\ view[a].count = Cardinality(EventsOf(a, view[a].last))
  BY <1>1, Basics DEF ProjInv, Typed, Marks, CountedOnce
<1>3. \A p \in page : p \in Nat
  BY <1>1, Basics
<1>4. CASE new = {}
  <2>1. row = view[a]
    BY <1>4 DEF CountInto
  <2>2. \A p \in page : log[p] = a => p <= view[a].last
    <3>1. \A x \in Nat, y \in Nat : ~(x > y) => x <= y
      OBVIOUS
    <3>2. QED
      BY <1>2, <1>3, <1>4, <3>1, Zenon
  <2>3. QED
    BY <1>2, <2>1, <2>2
<1>5. CASE new # {}
  <2>1. row = [count |-> view[a].count + Cardinality(new), last |-> LastOf(new)]
    BY <1>5 DEF CountInto
  <2>2. new \in SUBSET Positions
    BY <1>1, Basics
  <2>3. LastOf(new) \in new /\ (\A q \in new : q <= LastOf(new)) /\ IsFiniteSet(new) /\ Cardinality(new) \in Nat
    <3> HIDE DEF new
    <3> QED
      BY <1>5, <2>2, LastOfPage, PositionsFinite
  <2>4. LastOf(new) \in page /\ log[LastOf(new)] = a /\ LastOf(new) > view[a].last /\ LastOf(new) \in Nat
    BY <1>3, <2>3
  <2>5. EventsOf(a, LastOf(new)) = EventsOf(a, view[a].last) \cup new
    <3>1. ASSUME NEW q \in Committed, log[q] = a, q <= LastOf(new), ~(q <= view[a].last)
          PROVE  q \in new
      <4>1. q \in Nat /\ checkpoint \in Nat
        BY <1>1, Basics
      <4>2. ~(q <= checkpoint)
        BY <3>1 DEF ProjInv, CheckpointCovered
      <4>3. q \in page
        BY <1>1, <2>4, <3>1, <4>1, <4>2
      <4>4. QED
        BY <1>2, <3>1, <4>1, <4>3
    <3>2. \A q \in new : q \in Committed /\ log[q] = a /\ q <= LastOf(new)
      BY <1>1, <2>3
    <3>3. \A q \in Committed : q <= view[a].last => q <= LastOf(new)
      BY <1>1, <1>2, <2>4, Basics
    <3> HIDE DEF new
    <3>4. QED
      BY <3>1, <3>2, <3>3 DEF EventsOf
  <2>6. Cardinality(EventsOf(a, LastOf(new))) = view[a].count + Cardinality(new)
    <3>1. EventsOf(a, view[a].last) \in SUBSET Positions
      BY <1>1, Basics DEF EventsOf
    <3>2. IsFiniteSet(EventsOf(a, view[a].last))
      BY <3>1, PositionsFinite
    <3>3. EventsOf(a, view[a].last) \cap new = {}
      BY <1>2, <1>3 DEF EventsOf
    <3> HIDE DEF new
    <3>4. QED
      BY <1>2, <2>3, <2>5, <3>2, <3>3, FS_Union, FS_EmptySet
  <2>7. \A p \in page : log[p] = a => p <= LastOf(new)
    BY <1>2, <1>3, <2>3, <2>4
  <2> HIDE DEF new, row
  <2>8. row.count = view[a].count + Cardinality(new) /\ row.last = LastOf(new)
    BY <2>1
  <2>9. row \in Rows
    <3>1. LastOf(new) \in 0..MaxPosition
      BY <1>1, <2>4, Basics DEF Positions
    <3>2. QED
      BY <1>2, <2>1, <2>3, <3>1 DEF Rows
  <2>10. Reached(row.last) /\ view[a].last <= row.last
    BY <1>1, <1>2, <2>4, <2>8 DEF Reached
  <2>11. QED
    BY <2>6, <2>7, <2>8, <2>9, <2>10 DEF row
<1>6. QED
  BY <1>4, <1>5, Zenon

LEMMA ApplyInv ==
  ASSUME ProjInv, NEW e \in Engines, Apply(e)
  PROVE  ProjInv'
<1> DEFINE page == engine[e].page
<1>1. /\ Typed /\ engine[e] \in Engine /\ engine[e].pc = "apply" /\ Reached(checkpoint)
      /\ UNCHANGED <<next, log, version, writer, rebuilds>> /\ rebuilds' \in 0..MaxRebuilds
      /\ checkpoint \in 0..MaxPosition
  BY DEF ProjInv, Typed, Marks, Apply, Step
<1>2. page # {} /\ page \subseteq Committed /\ page \in SUBSET Positions
  BY <1>1, Basics DEF ProjInv, Pages
<1>3. LastOf(page) \in page /\ \A q \in page : q <= LastOf(page)
  BY <1>2, LastOfPage
<1>4. Reached(LastOf(page)) /\ LastOf(page) \in 0..MaxPosition /\ LastOf(page) \in Nat
  BY <1>1, <1>2, <1>3, Basics DEF Reached, Positions
<1>5. CASE Step(e, Continue(e, checkpoint)) /\ UNCHANGED <<view, checkpoint>>
  <2>1. /\ Continue(e, checkpoint) \in Engine /\ Continue(e, checkpoint).pc \in {"idle", "read"}
        /\ Reached(Continue(e, checkpoint).cursor)
    BY <1>1, ContinueTyped
  <2>2. QED
    BY <1>1, <1>5, <2>1, EngineMoves, Zenon DEF Step
<1>6. CASE Step(e, IdleEngine) /\ UNCHANGED <<view, checkpoint>>
  BY <1>1, <1>6, IdleTyped, Basics, EngineMoves, Zenon DEF Step
<1>7. CASE /\ checkpoint < LastOf(page) /\ Expected(e)
           /\ view' = CountInto(page) /\ checkpoint' = LastOf(page)
           /\ Step(e, Continue(e, LastOf(page)))
  <2>1. /\ Continue(e, LastOf(page)) \in Engine /\ Continue(e, LastOf(page)).pc \in {"idle", "read"}
        /\ Reached(Continue(e, LastOf(page)).cursor)
    BY <1>1, <1>4, ContinueTyped
  <2>2. \A a \in Aggregates :
          /\ view'[a] \in Rows /\ Reached(view'[a].last) /\ view[a].last <= view'[a].last
          /\ view'[a].count = Cardinality(EventsOf(a, view'[a].last))
          /\ \A p \in page : log[p] = a => p <= view'[a].last
    BY <1>1, <1>7, CountIntoRow, Zenon
  <2>3. view' \in [Aggregates -> Rows]
    BY <1>7, <2>2, Zenon DEF CountInto
  <2>4. ASSUME NEW p \in Committed, p <= LastOf(page) PROVE p <= view'[log[p]].last
    <3>1. log[p] \in Aggregates /\ p \in Nat /\ checkpoint \in Nat
      BY <1>1, Basics DEF Typed, Committed
    <3>2. CASE p <= checkpoint
      <4>1. p <= view[log[p]].last
        BY <3>2 DEF ProjInv, CheckpointCovered
      <4>2. view[log[p]].last \in Nat /\ view'[log[p]].last \in Nat
        BY <1>1, <2>2, <3>1, Basics DEF Rows
      <4>3. QED
        BY <2>2, <3>1, <4>1, <4>2
    <3>3. CASE ~(p <= checkpoint)
      <4>1. checkpoint < p /\ checkpoint = engine[e].cursor
        BY <1>7, <3>1, <3>3 DEF Expected
      <4>2. p \in page
        BY <1>1, <1>3, <2>4, <4>1 DEF ProjInv, Pages
      <4>3. QED
        BY <2>2, <3>1, <4>2
    <3>4. QED
      BY <3>2, <3>3
  <2>5. QED
    BY <1>1, <1>4, <1>7, <2>1, <2>2, <2>3, <2>4, ModelMoves, Zenon DEF Step
<1>8. QED
  BY <1>5, <1>6, <1>7 DEF Apply

-----------------------------------------------------------------------------
(* The gapless versions of an aggregate.                                    *)

\* A commit adds one event, after all others.
LEMMA CommitAdds ==
  ASSUME ProjInv, NEW w \in Writers, Commit(w)
  PROVE  \E p \in Positions, a \in Aggregates :
           /\ p \notin Committed /\ \A q \in Committed : q < p
           /\ Committed' = Committed \cup {p}
           /\ log'[p] = a /\ version'[p] = NextVersion(a)
           /\ \A q \in Committed : log'[q] = log[q] /\ version'[q] = version[q]
<1>1. /\ Typed /\ Appends /\ writer[w].agg # None
      /\ log' = [log EXCEPT ![writer[w].pos] = writer[w].agg]
      /\ version' = [version EXCEPT ![writer[w].pos] = NextVersion(writer[w].agg)]
  BY DEF ProjInv, Commit
<1>2. writer[w] # NoAppend
  BY <1>1 DEF NoAppend
<1>3. PICK p \in Positions, a \in Aggregates :
        p = writer[w].pos /\ a = writer[w].agg /\ p = next - 1 /\ log[p] = None
  BY <1>1, <1>2 DEF Appends
<1>4. p \notin Committed /\ \A q \in Committed : q < p
  <2>1. p \in Nat /\ p \notin Committed
    BY <1>1, <1>3, Basics DEF Committed
  <2>2. \A q \in Committed : q \in Nat /\ q # p /\ q < next
    BY <1>1, <2>1, Basics DEF Appends
  <2>3. QED
    BY <1>1, <1>3, <2>1, <2>2, Basics
<1>5. /\ log'[p] = a /\ version'[p] = NextVersion(a)
      /\ \A q \in Positions \ {p} : log'[q] = log[q] /\ version'[q] = version[q]
  BY <1>1, <1>3 DEF Typed
<1>6. a # None
  BY <1>1, <1>3
<1>7. Committed' = Committed \cup {p}
  <2>1. \A q \in Positions : log'[q] # None <=> q = p \/ log[q] # None
    BY <1>5, <1>6
  <2>2. QED
    BY <1>3, <2>1, Zenon DEF Committed
<1>8. \A q \in Committed : log'[q] = log[q] /\ version'[q] = version[q]
  BY <1>4, <1>5 DEF Committed
<1>9. QED
  BY <1>4, <1>5, <1>7, <1>8, Zenon

\* What was committed up to a position that was reached stays.
LEMMA CommitKeepsEvents ==
  ASSUME ProjInv, NEW w \in Writers, Commit(w), NEW c, Reached(c)
  PROVE  \A b : EventsOf(b, c)' = EventsOf(b, c)
<1>1. PICK p \in Positions :
        /\ p \notin Committed /\ \A q \in Committed : q < p
        /\ Committed' = Committed \cup {p}
        /\ \A q \in Committed : log'[q] = log[q]
  BY CommitAdds, Zenon
<1>2. ~(p <= c)
  <2>1. p \in Nat /\ 0 < p /\ (c \in Committed => c \in Nat)
    BY Basics DEF ProjInv, Positions
  <2>2. QED
    BY <1>1, <2>1 DEF Reached
<1>3. QED
  BY <1>1, <1>2, Zenon DEF EventsOf

\* An event is one more than those before it.
LEMMA OneMore ==
  ASSUME Typed, NEW p \in Committed, NEW c \in Nat, c < p,
         \A q \in Committed : log[q] = log[p] /\ c < q => ~(q < p)
  PROVE  Cardinality(EventsOf(log[p], p)) = Cardinality(EventsOf(log[p], c)) + 1
<1>0. Committed \subseteq Positions /\ Positions \subseteq Nat
  BY Basics
<1>1. EventsOf(log[p], p) = EventsOf(log[p], c) \cup {p} /\ p \notin EventsOf(log[p], c)
  <2>1. \A q \in Committed : log[q] = log[p] => (q <= p <=> q <= c \/ q = p)
    BY <1>0
  <2>2. ~(p <= c)
    BY <1>0
  <2>3. QED
    BY <2>1, <2>2, Zenon DEF EventsOf
<1>2. EventsOf(log[p], c) \in SUBSET Positions
  BY <1>0, Zenon DEF EventsOf
<1>3. IsFiniteSet(EventsOf(log[p], c))
  BY <1>2, PositionsFinite, Zenon
<1>4. QED
  BY <1>1, <1>3, FS_AddElement

LEMMA NoneMore ==
  ASSUME Typed, NEW a, NEW c \in Nat, NEW d \in Nat, c <= d,
         \A q \in Committed : log[q] = a /\ c < q => ~(q <= d)
  PROVE  EventsOf(a, d) = EventsOf(a, c)
<1>1. Committed \subseteq Nat
  BY Basics
<1>2. \A q \in Committed : log[q] = a => (q <= d <=> q <= c)
  BY <1>1
<1>3. QED
  BY <1>2, Zenon DEF EventsOf

LEMMA GaplessCommit ==
  ASSUME ProjInv, Gapless, NEW w \in Writers, Commit(w)
  PROVE  Gapless'
<1>1. PICK p \in Positions, a \in Aggregates :
        /\ p \notin Committed /\ \A q \in Committed : q < p
        /\ Committed' = Committed \cup {p}
        /\ log'[p] = a /\ version'[p] = NextVersion(a)
        /\ \A q \in Committed : log'[q] = log[q] /\ version'[q] = version[q]
  BY CommitAdds, Zenon
<1>2. ASSUME NEW q \in Committed
      PROVE  \E b : log'[q] = b /\ version'[q] = Cardinality(EventsOf(b, q)')
  <2>1. PICK b : b = log[q]
    OBVIOUS
  <2>2. log'[q] = b /\ version'[q] = version[q] /\ EventsOf(b, q)' = EventsOf(b, q)
    BY <1>1, <2>1, CommitKeepsEvents, Zenon DEF Reached
  <2>3. version[q] = Cardinality(EventsOf(b, q))
    BY <2>1, Zenon DEF Gapless
  <2>4. QED
    BY <2>2, <2>3, Zenon
<1>3. version'[p] = Cardinality(EventsOf(a, p)')
  <2> DEFINE E == EventsOf(a, MaxPosition)
  <2>1. EventsOf(a, p)' = E \cup {p} /\ p \notin E
    <3>1. Typed /\ p \in Nat /\ MaxPosition \in Nat /\ p <= p
      BY Basics DEF ProjInv, Positions
    <3>2. \A q \in Committed : q <= p /\ q <= MaxPosition
      BY <1>1, <3>1, Basics DEF Positions
    <3>3. QED
      BY <1>1, <3>1, <3>2, Zenon DEF EventsOf
  <2>2. E \in SUBSET Positions
    BY Zenon DEF EventsOf, Committed
  <2>3. version'[p] = Cardinality(E) + 1
    BY <1>1 DEF NextVersion
  <2> HIDE DEF E
  <2>4. IsFiniteSet(E)
    BY <2>2, PositionsFinite, Zenon
  <2>5. QED
    BY <2>1, <2>3, <2>4, FS_AddElement
<1>4. ASSUME NEW q \in Committed'
      PROVE  version'[q] = Cardinality({r \in Committed' : log'[r] = log'[q] /\ r <= q})
  <2>1. PICK b : log'[q] = b /\ version'[q] = Cardinality(EventsOf(b, q)')
    BY <1>1, <1>2, <1>3, Zenon
  <2>2. EventsOf(b, q)' = {r \in Committed' : log'[r] = b /\ r <= q}
    BY Zenon DEF EventsOf
  <2>3. QED
    BY <2>1, <2>2, Zenon
<1>5. QED
  BY <1>4, Zenon DEF Gapless, EventsOf

LEMMA GaplessStep == ProjInv /\ Gapless /\ [Next]_vars => Gapless'
<1> SUFFICES ASSUME ProjInv, Gapless, [Next]_vars PROVE Gapless'
  OBVIOUS
<1>1. CASE UNCHANGED <<log, version>>
  <2>1. Committed' = Committed
    BY <1>1, Zenon DEF Committed
  <2>2. QED
    BY <1>1, <2>1, Zenon DEF Gapless, EventsOf
<1>2. QED
  BY <1>1, GaplessCommit, Zenon
     DEF Next, vars, Insert, Rollback, ReadCheckpoint, ReadPage, Apply, ResetRows, ResetCheckpoint,
         Abandon, Step

-----------------------------------------------------------------------------
(* An engine that has the read model for itself.                            *)

\* The versions an engine has seen are those of the events up to c.
Remembers(seen, c) ==
  \A a \in Aggregates : seen[a] # 0 => seen[a] = Cardinality(EventsOf(a, c))

\* The engine goes on from the committed checkpoint with the versions up to it.
Follows(r) ==
  /\ r.pc # "corrupt"
  /\ r.pc \in {"read", "apply"} => r.cursor = checkpoint
  /\ r.pc = "read" => Remembers(r.seen, r.cursor)
  /\ r.pc = "apply" => Remembers(r.seen, LastOf(r.page)) /\ \A p \in r.page : r.cursor < p

LoneInv == \A e \in Engines : Follows(engine[e])

\* A page of the log after cursor c: complete up to its end.
PageOf(page, c) ==
  /\ page \in SUBSET Committed /\ \A p \in page : c < p
  /\ \A p \in Committed, q \in page : c < p /\ p <= q => p \in page

LEMMA ValidLone ==
  ASSUME ProjInv, Gapless, NEW e \in Engines, Remembers(engine[e].seen, engine[e].cursor),
         NEW page, PageOf(page, engine[e].cursor)
  PROVE  ValidPage(e, page)
<1> SUFFICES ASSUME NEW p \in page PROVE version[p] = PreviousVersion(e, page, p) + 1
  BY Zenon DEF ValidPage
<1> DEFINE before == {q \in page : q < p /\ log[q] = log[p]}
<1>1. /\ Typed /\ page \subseteq Committed /\ p \in Committed /\ Committed \subseteq Positions
      /\ Positions \subseteq Nat /\ engine[e].cursor \in Nat /\ engine[e].cursor < p
  BY Basics DEF ProjInv, PageOf
<1>2. log[p] \in Aggregates /\ version[p] \in Nat /\ version[p] = Cardinality(EventsOf(log[p], p))
  <2>1. log[p] \in Aggregates /\ version[p] \in 0..MaxPosition
    BY <1>1 DEF Typed, Committed
  <2>2. QED
    BY <1>1, <2>1, ProjectionAssumption DEF Gapless
<1>3. CASE before # {}
  <2>1. before \in SUBSET Positions
    BY <1>1
  <2>2. PICK b : b = LastOf(before) /\ b \in before /\ \A q \in before : q <= b
    BY <1>3, <2>1, LastOfPage
  <2>3. b \in Committed /\ b \in Nat /\ b < p /\ log[b] = log[p] /\ engine[e].cursor < b
    BY <1>1, <2>2 DEF PageOf
  <2>4. ASSUME NEW q \in Committed, log[q] = log[p], b < q, q < p PROVE FALSE
    <3>1. q \in Nat /\ p \in Nat
      BY <1>1
    <3>2. engine[e].cursor < q /\ q <= p
      BY <1>1, <2>3, <2>4, <3>1
    <3>3. q \in before
      BY <2>4, <3>2 DEF PageOf
    <3>4. QED
      BY <2>2, <2>3, <2>4, <3>1, <3>3
  <2>5. Cardinality(EventsOf(log[p], p)) = Cardinality(EventsOf(log[p], b)) + 1
    BY <1>1, <2>3, <2>4, OneMore, Zenon
  <2>6. version[b] = Cardinality(EventsOf(log[p], b))
    BY <2>3, Zenon DEF Gapless
  <2>7. PreviousVersion(e, page, p) = version[b]
    BY <1>3, <2>2, Zenon DEF PreviousVersion
  <2>8. QED
    BY <1>2, <2>5, <2>6, <2>7, Zenon
<1>4. CASE before = {} /\ engine[e].seen[log[p]] # 0
  <2>1. ASSUME NEW q \in Committed, log[q] = log[p], engine[e].cursor < q, q < p PROVE FALSE
    <3>1. q <= p
      BY <1>1, <2>1
    <3>2. q \in before
      BY <2>1, <3>1 DEF PageOf
    <3>3. QED
      BY <1>4, <3>2
  <2>2. Cardinality(EventsOf(log[p], p)) = Cardinality(EventsOf(log[p], engine[e].cursor)) + 1
    BY <1>1, <2>1, OneMore, Zenon
  <2>3. PreviousVersion(e, page, p) = engine[e].seen[log[p]]
    BY <1>4, Zenon DEF PreviousVersion
  <2>4. QED
    BY <1>2, <1>4, <2>2, <2>3, Zenon DEF Remembers
<1>5. CASE before = {} /\ engine[e].seen[log[p]] = 0
  <2>1. PreviousVersion(e, page, p) = version[p] - 1
    BY <1>5, Zenon DEF PreviousVersion
  <2>2. QED
    BY <1>2, <2>1
<1>6. QED
  BY <1>3, <1>4, <1>5, Zenon

LEMMA SeenLone ==
  ASSUME ProjInv, Gapless, NEW e \in Engines, Remembers(engine[e].seen, engine[e].cursor),
         NEW page, PageOf(page, engine[e].cursor), page # {}
  PROVE  Remembers(SeenAfter(e, page), LastOf(page))
<1>1. /\ Typed /\ page \subseteq Committed /\ Committed \subseteq Positions
      /\ Positions \subseteq Nat /\ engine[e].cursor \in Nat
  BY Basics DEF ProjInv, PageOf
<1>2. PICK l : l = LastOf(page) /\ l \in page /\ l \in Nat /\ engine[e].cursor < l
               /\ \A q \in page : q <= l
  BY <1>1, LastOfPage DEF PageOf
<1> SUFFICES ASSUME NEW a \in Aggregates, SeenAfter(e, page)[a] # 0
             PROVE  SeenAfter(e, page)[a] = Cardinality(EventsOf(a, l))
  BY <1>2, Zenon DEF Remembers
<1> DEFINE mine == {p \in page : log[p] = a}
<1>3. ASSUME NEW q \in Committed, log[q] = a, engine[e].cursor < q, q <= l PROVE q \in mine
  BY <1>2, <1>3, Zenon DEF PageOf
<1>4. CASE mine = {}
  <2>1. SeenAfter(e, page)[a] = engine[e].seen[a]
    BY <1>4, Zenon DEF SeenAfter
  <2>2. engine[e].cursor <= l
    BY <1>1, <1>2
  <2>3. EventsOf(a, l) = EventsOf(a, engine[e].cursor)
    BY <1>1, <1>2, <1>3, <1>4, <2>2, NoneMore
  <2>4. QED
    BY <2>1, <2>3, Zenon DEF Remembers
<1>5. CASE mine # {}
  <2>1. mine \in SUBSET Positions
    BY <1>1
  <2>2. PICK b : b = LastOf(mine) /\ b \in mine /\ \A q \in mine : q <= b
    BY <1>5, <2>1, LastOfPage
  <2>3. b \in Committed /\ b \in Nat /\ log[b] = a /\ b <= l /\ engine[e].cursor < b
    BY <1>1, <1>2, <2>2 DEF PageOf
  <2>4. SeenAfter(e, page)[a] = version[b]
    BY <1>5, <2>2, Zenon DEF SeenAfter
  <2>5. ASSUME NEW q \in Committed, log[q] = a, b < q, q <= l PROVE FALSE
    <3>1. q \in Nat /\ engine[e].cursor < q
      BY <1>1, <2>3, <2>5
    <3>2. q \in mine
      BY <1>3, <2>5, <3>1, Zenon
    <3>3. QED
      BY <2>2, <2>3, <2>5, <3>1, <3>2
  <2>6. EventsOf(a, l) = EventsOf(a, b)
    BY <1>1, <1>2, <2>3, <2>5, NoneMore, Zenon
  <2>7. QED
    BY <2>3, <2>4, <2>6, Zenon DEF Gapless
<1>6. QED
  BY <1>4, <1>5, Zenon

\* One engine at most serves the read model.
Alone == \A e, f \in Engines : e = f

\* Only what one engine is doing changes.
LEMMA LoneMoves ==
  ASSUME Typed, Alone, NEW e \in Engines, NEW new, engine' = [engine EXCEPT ![e] = new], Follows(new)'
  PROVE  LoneInv'
<1>1. \A f \in Engines : engine'[f] = new
  BY Zenon DEF Alone, Typed
<1>2. QED
  BY <1>1, Zenon DEF LoneInv, Follows, Remembers

\* What an engine has seen is not disturbed by an append.
LEMMA LoneAppends ==
  ASSUME ProjInv, LoneInv, UNCHANGED <<engine, checkpoint>>,
         \A c : Reached(c) => \A a : EventsOf(a, c)' = EventsOf(a, c)
  PROVE  LoneInv'
<1> SUFFICES ASSUME NEW e \in Engines PROVE Follows(engine[e])'
  BY Zenon DEF LoneInv
<1>1. Follows(engine[e]) /\ engine'[e] = engine[e]
  BY Zenon DEF LoneInv
<1>2. ASSUME NEW c, Reached(c), NEW seen, Remembers(seen, c)
      PROVE  \A a \in Aggregates : seen[a] # 0 => seen[a] = Cardinality(EventsOf(a, c)')
  BY <1>2, Zenon DEF Remembers
<1>3. engine[e].pc = "apply" => Reached(LastOf(engine[e].page))
  <2>1. ASSUME engine[e].pc = "apply" PROVE Reached(LastOf(engine[e].page))
    <3>1. /\ engine[e].page # {} /\ engine[e].page \subseteq Committed
          /\ engine[e].page \in SUBSET Positions
      BY <2>1, Basics DEF ProjInv, Pages
    <3>2. QED
      BY <3>1, LastOfPage DEF Reached
  <2>2. QED
    BY <2>1
<1>4. Reached(engine[e].cursor)
  BY Zenon DEF ProjInv, Marks
<1>5. PICK r : r = engine[e]
  OBVIOUS
<1>6. Follows(r)'
  <2>1. r.pc = "read" => Remembers(r.seen, r.cursor)'
    <3>1. ASSUME r.pc = "read" PROVE Remembers(r.seen, r.cursor)'
      <4>1. PICK c, seen : c = r.cursor /\ seen = r.seen
        OBVIOUS
      <4>2. Reached(c) /\ Remembers(seen, c)
        BY <1>1, <1>4, <1>5, <3>1, <4>1, Zenon DEF Follows
      <4>3. Remembers(seen, c)'
        BY <1>2, <4>2, Zenon DEF Remembers
      <4>4. QED
        BY <4>1, <4>3, Zenon
    <3>2. QED
      BY <3>1, Zenon
  <2>2. r.pc = "apply" => Remembers(r.seen, LastOf(r.page))'
    <3>1. ASSUME r.pc = "apply" PROVE Remembers(r.seen, LastOf(r.page))'
      <4>1. PICK c, seen : c = LastOf(r.page) /\ seen = r.seen
        OBVIOUS
      <4>2. Reached(c) /\ Remembers(seen, c)
        BY <1>1, <1>3, <1>5, <3>1, <4>1, Zenon DEF Follows
      <4>3. Remembers(seen, c)'
        BY <1>2, <4>2, Zenon DEF Remembers
      <4>4. QED
        BY <4>1, <4>3, Zenon
    <3>2. QED
      BY <3>1, Zenon
  <2>3. QED
    BY <1>1, <1>5, <2>1, <2>2, Zenon DEF Follows
<1>7. QED
  BY <1>1, <1>5, <1>6, Zenon DEF Follows, Remembers

\* The steps of the engine.
LEMMA LoneReads ==
  ASSUME ProjInv, Gapless, Alone, LoneInv, NEW e \in Engines, ReadPage(e)
  PROVE  LoneInv'
<1>1. PICK page : page = PageAfter(engine[e].cursor)
  OBVIOUS
<1>2. /\ Typed /\ engine[e] \in Engine /\ engine[e].pc = "read" /\ engine[e].cursor = checkpoint
      /\ Remembers(engine[e].seen, engine[e].cursor)
      /\ UNCHANGED <<log, checkpoint>>
  BY Zenon DEF ProjInv, Typed, LoneInv, Follows, ReadPage, Step
<1>3. PageOf(page, engine[e].cursor)
  <2>1. engine[e].cursor \in Nat /\ Committed \subseteq Nat
    BY <1>2, Basics
  <2>2. \A p \in page : engine[e].cursor < p
    BY <1>1, <2>1 DEF PageAfter
  <2>3. QED
    BY <1>1, <1>2, <2>1, <2>2, PageAfterCloses DEF PageOf
<1>4. CASE Step(e, IdleEngine)
  <2>1. Follows(IdleEngine)'
    BY IdleTyped DEF Follows
  <2>2. QED
    BY <1>2, <1>4, <2>1, LoneMoves, Zenon DEF Step, IdleEngine
<1>5. CASE page # {} /\ Step(e, [engine[e] EXCEPT !.pc = "apply", !.page = page,
                                                  !.seen = SeenAfter(e, page)])
  <2>1. PICK new : new = [engine[e] EXCEPT !.pc = "apply", !.page = page, !.seen = SeenAfter(e, page)]
    OBVIOUS
  <2>2. /\ new.pc = "apply" /\ new.page = page /\ new.seen = SeenAfter(e, page)
        /\ new.cursor = engine[e].cursor
    BY <1>2, <2>1, Zenon DEF Engine
  <2>3. Remembers(new.seen, LastOf(page))
    BY <1>2, <1>3, <1>5, <2>2, SeenLone, Zenon
  <2>4. Remembers(new.seen, LastOf(page))'
    BY <1>2, <2>3, Zenon DEF Remembers, EventsOf, Committed
  <2>5. Follows(new)'
    BY <1>2, <1>3, <2>2, <2>4 DEF Follows, PageOf
  <2>6. QED
    BY <1>2, <1>5, <2>1, <2>5, LoneMoves, Zenon DEF Step
<1>6. ValidPage(e, page)
  BY <1>2, <1>3, ValidLone, Zenon
<1>7. QED
  BY <1>1, <1>4, <1>5, <1>6, Zenon DEF ReadPage

LEMMA LoneApplies ==
  ASSUME ProjInv, Gapless, Alone, LoneInv, NEW e \in Engines, Apply(e)
  PROVE  LoneInv'
<1>1. PICK l : l = LastOf(engine[e].page)
  OBVIOUS
<1>2. /\ Typed /\ engine[e] \in Engine /\ engine[e].pc = "apply" /\ engine[e].cursor = checkpoint
      /\ Remembers(engine[e].seen, l) /\ \A p \in engine[e].page : engine[e].cursor < p
      /\ UNCHANGED log
  BY <1>1, Zenon DEF ProjInv, Typed, LoneInv, Follows, Apply, Step
<1>3. ~(checkpoint >= l)
  <2>1. /\ engine[e].page # {} /\ engine[e].page \in SUBSET Positions /\ Positions \subseteq Nat
        /\ checkpoint \in Nat
    BY <1>2, Basics DEF ProjInv, Pages
  <2>2. l \in engine[e].page
    BY <1>1, <2>1, LastOfPage
  <2>3. checkpoint < l /\ l \in Nat
    BY <1>2, <2>1, <2>2, Zenon
  <2>4. QED
    BY <2>1, <2>3
<1>4. CASE Step(e, IdleEngine)
  <2>1. Follows(IdleEngine)'
    BY IdleTyped DEF Follows
  <2>2. QED
    BY <1>2, <1>4, <2>1, LoneMoves, Zenon DEF Step, IdleEngine
<1>5. CASE checkpoint' = l /\ Step(e, [engine[e] EXCEPT !.pc = "read", !.cursor = l, !.page = {}])
  <2>1. PICK new : new = [engine[e] EXCEPT !.pc = "read", !.cursor = l, !.page = {}]
    OBVIOUS
  <2>2. new.pc = "read" /\ new.cursor = l /\ new.seen = engine[e].seen
    BY <1>2, <2>1, Zenon DEF Engine
  <2>3. Remembers(new.seen, l)'
    <3>1. Remembers(new.seen, l)
      BY <1>2, <2>2, Zenon
    <3>2. QED
      BY <1>2, <3>1, Zenon DEF Remembers, EventsOf, Committed
  <2>4. Follows(new)'
    BY <1>5, <2>2, <2>3 DEF Follows
  <2>5. QED
    BY <1>2, <1>5, <2>1, <2>4, LoneMoves, Zenon DEF Step
<1>6. QED
  BY <1>1, <1>3, <1>4, <1>5, Zenon DEF Apply, Continue

LEMMA LoneStep == ProjInv /\ Gapless /\ Alone /\ LoneInv /\ [Next]_vars => LoneInv'
<1> SUFFICES ASSUME ProjInv, Gapless, Alone, LoneInv, [Next]_vars PROVE LoneInv'
  OBVIOUS
<1>0. Typed
  BY Zenon DEF ProjInv
<1>1. CASE UNCHANGED <<log, engine, checkpoint>>
  <2>1. Committed' = Committed
    BY <1>1, Zenon DEF Committed
  <2>2. QED
    BY <1>1, <2>1, LoneAppends, Zenon DEF EventsOf
<1>2. ASSUME NEW w \in Writers, Commit(w) PROVE LoneInv'
  BY <1>2, CommitKeepsEvents, LoneAppends, Zenon DEF Commit
<1>3. ASSUME NEW e \in Engines, ReadCheckpoint(e) PROVE LoneInv'
  <2>1. PICK new : new = [IdleEngine EXCEPT !.pc = "read", !.cursor = checkpoint]
    OBVIOUS
  <2>2. new.pc = "read" /\ new.cursor = checkpoint /\ \A a \in Aggregates : new.seen[a] = 0
    BY <2>1 DEF IdleEngine
  <2>3. checkpoint' = checkpoint /\ engine' = [engine EXCEPT ![e] = new]
    BY <1>3, <2>1, Zenon DEF ReadCheckpoint, Step
  <2>4. Follows(new)'
    BY <2>2, <2>3 DEF Follows, Remembers
  <2>5. QED
    BY <1>0, <2>3, <2>4, LoneMoves, Zenon
<1>4. ASSUME NEW e \in Engines, NEW new, engine' = [engine EXCEPT ![e] = new],
             new.pc \in {"idle", "open", "unlink"}
      PROVE  LoneInv'
  <2>1. Follows(new)'
    BY <1>4 DEF Follows
  <2>2. QED
    BY <1>0, <1>4, <2>1, LoneMoves, Zenon
<1>5. ASSUME NEW e \in Engines, ResetRows(e) \/ ResetCheckpoint(e) \/ Abandon(e) PROVE LoneInv'
  <2>1. /\ IdleEngine.pc = "idle" /\ [IdleEngine EXCEPT !.pc = "open"].pc = "open"
        /\ \A D : [IdleEngine EXCEPT !.pc = "unlink", !.doomed = D].pc = "unlink"
    BY DEF IdleEngine
  <2>2. QED
    BY <1>4, <1>5, <2>1, Zenon DEF ResetRows, ResetCheckpoint, Abandon, Step
<1>6. QED
  BY <1>1, <1>2, <1>3, <1>5, LoneReads, LoneApplies, Zenon DEF Next, vars, Insert, Rollback

-----------------------------------------------------------------------------
(* The theorems.                                                           *)

LEMMA ProjNext == ProjInv /\ [Next]_vars => ProjInv'
<1> SUFFICES ASSUME ProjInv, [Next]_vars PROVE ProjInv'
  OBVIOUS
<1>1. CASE UNCHANGED vars
  <2>1. Committed' = Committed
    BY <1>1 DEF vars, Committed
  <2>2. QED
    BY <1>1, <2>1, Zenon DEF vars, ProjInv, Typed, Appends, Marks, Reached, Pages, CheckpointCovered,
                      CountedOnce, EventsOf
<1>2. CASE Next
  BY <1>2, InsertInv, CommitInv, RollbackInv, ReadCheckpointInv, ReadPageInv, ApplyInv,
     ResetRowsInv, ResetCheckpointInv, AbandonInv DEF Next
<1>3. QED
  BY <1>1, <1>2

\* The invariant the theorems rest on holds of every behaviour.
THEOREM ProjectionInvariant == Spec => []ProjInv
  BY ProjInit, ProjNext, PTL DEF Spec

\* Positions, versions, rows and engines keep their types.
THEOREM ProjectionTypeCorrect == Spec => []TypeOK
<1>1. ProjInv => TypeOK
  <2> SUFFICES ASSUME ProjInv PROVE TypeOK
    OBVIOUS
  <2>1. \A a \in Aggregates : view[a].count \in 0..MaxPosition
    <3> TAKE a \in Aggregates
    <3>1. EventsOf(a, view[a].last) \in SUBSET Positions
      BY DEF EventsOf, Committed
    <3>2. QED
      BY <3>1, PositionsFinite, ProjectionAssumption DEF ProjInv, CountedOnce
  <2>2. view \in [Aggregates -> [count : 0..MaxPosition, last : 0..MaxPosition]]
    BY <2>1 DEF ProjInv, Typed, Rows
  <2>3. QED
    BY <2>2 DEF ProjInv, Typed, TypeOK, Engine
<1>2. QED
  BY <1>1, ProjectionInvariant, PTL

\* catch_up() never skips an event: the commit lock keeps the checkpoint behind every
\* append that is still to be committed.
THEOREM CheckpointStaysBehind == Spec => []CheckpointBehindAppends
<1>1. ProjInv => CheckpointBehindAppends
  <2> SUFFICES ASSUME ProjInv, NEW w \in Writers, writer[w] # NoAppend
               PROVE  checkpoint < writer[w].pos
    BY DEF CheckpointBehindAppends
  <2>1. /\ Typed /\ Reached(checkpoint) /\ writer[w].pos \in Positions
        /\ writer[w].pos = next - 1 /\ writer[w].pos \notin Committed
        /\ \A p \in Committed : p < next
    BY DEF ProjInv, Marks, Appends, Committed
  <2>2. writer[w].pos \in Nat /\ 0 < writer[w].pos /\ next \in Nat
    BY <2>1, Basics DEF Positions
  <2>3. CASE checkpoint = 0
    BY <2>2, <2>3
  <2>4. CASE checkpoint \in Committed
    <3>1. checkpoint # writer[w].pos /\ checkpoint < next /\ checkpoint \in Nat
      BY <2>1, <2>4, Basics
    <3>2. QED
      BY <2>1, <2>2, <3>1
  <2>5. QED
    BY <2>1, <2>3, <2>4 DEF Reached
<1>2. QED
  BY <1>1, ProjectionInvariant, PTL

\* Every event up to the checkpoint is in the read model, whichever engines catch up,
\* rebuild or stop at the same time.
THEOREM CheckpointIsCovered == Spec => []CheckpointCovered
<1>1. ProjInv => CheckpointCovered
  BY DEF ProjInv
<1>2. QED
  BY <1>1, ProjectionInvariant, PTL

\* Every row counts each of its events exactly once, for any page size and any number of
\* engines and rebuilds.
THEOREM EventsAreCountedOnce == Spec => []CountedOnce
<1>1. ProjInv => CountedOnce
  BY DEF ProjInv
<1>2. QED
  BY <1>1, ProjectionInvariant, PTL

\* The versions of every aggregate are gapless and in the order of the positions,
\* whichever appends roll back (_append_in_transaction() under the commit lock).
THEOREM VersionsAreGapless == Spec => []Gapless
<1>1. Init => Gapless
  BY DEF Init, Gapless, Committed
<1>2. QED
  BY <1>1, GaplessStep, ProjectionInvariant, PTL DEF Spec

\* A ProjectionEngine that has the read model for itself never raises
\* ReplayCorruptionError, whatever is appended meanwhile and however often it rebuilds
\* or is restarted: with the theorem above, one that does has met another engine.
THEOREM LoneEngineIsNeverCorrupt ==
  Spec => [](Alone => \A e \in Engines : engine[e].pc # "corrupt")
<1>1. Init => LoneInv
  <2> SUFFICES ASSUME Init, NEW e \in Engines PROVE Follows(engine[e])
    BY Zenon DEF LoneInv
  <2>1. engine[e].pc = "idle"
    BY IdleTyped DEF Init
  <2>2. QED
    BY <2>1 DEF Follows
<1>2. ProjInv /\ Gapless /\ (Alone => LoneInv) /\ [Next]_vars => (Alone => LoneInv)'
  BY LoneStep, Zenon DEF Alone
<1>3. (Alone => LoneInv) => (Alone => \A e \in Engines : engine[e].pc # "corrupt")
  BY Zenon DEF LoneInv, Follows
<1>4. QED
  BY <1>1, <1>2, <1>3, ProjectionInvariant, VersionsAreGapless, PTL DEF Spec
=============================================================================
