-------------------------- MODULE SupervisorProofs ---------------------------
(***************************************************************************)
(* Proofs about Supervisor for any number of tenants, entries and faults    *)
(* and any max_concurrency and batch size: its tasks are bounded, a drain   *)
(* leaves it quiet, tenants take turns, and an entry is started once more   *)
(* than there were faults at most.                                         *)
(***************************************************************************)
EXTENDS Supervisor, FiniteSetTheorems, TLAPS

-----------------------------------------------------------------------------
(* What run_batch() builds from a batch.                                   *)

\* A collection of subsets of a finite set has a smallest member.
LEMMA FiniteMin ==
  ASSUME NEW S, IsFiniteSet(S), NEW T, T \subseteq SUBSET S, T # {}
  PROVE  \E A \in T : \A B \in T : B \subseteq A => B = A
<1>1. FiniteSubsetsOf(S) = SUBSET S
  BY FS_FiniteSubsetsOfFinite
<1>2. IsWellFoundedOn(StrictSubsetOrdering(S), SUBSET S)
  BY <1>1, FS_StrictSubsetOrderingWellFounded, Zenon
<1>3. PICK A \in T : \A B \in T : <<B, A>> \notin StrictSubsetOrdering(S)
  BY <1>2, WFMin
<1>4. ASSUME NEW B \in T, B \subseteq A PROVE B = A
  <2>1. A \in SUBSET S /\ B \in SUBSET S
    OBVIOUS
  <2>2. QED
    BY <1>3, <1>4, <2>1, Zenon DEF StrictSubsetOrdering
<1>5. QED
  BY <1>4

\* The positions of a batch: a finite set of numbers.
Positions(D) == IsFiniteSet(D) /\ D \subseteq Nat

LEMMA PositionsSub ==
  ASSUME NEW D, Positions(D), NEW s \in SUBSET D
  PROVE  Positions(s)
  BY FS_Subset, Zenon DEF Positions

LEMMA MaxIn ==
  ASSUME NEW D, Positions(D), D # {}
  PROVE  Max(D) \in D
<1> DEFINE Top(s, x) == x \in s /\ \A y \in s : x >= y
           T == {s \in SUBSET D : s # {} /\ \A x : ~Top(s, x)}
<1>1. T = {}
  <2> SUFFICES ASSUME T # {} PROVE FALSE
    OBVIOUS
  <2>1. PICK A \in T : \A B \in T : B \subseteq A => B = A
    <3> T \subseteq SUBSET D
      BY Zenon
    <3> IsFiniteSet(D)
      BY Zenon DEF Positions
    <3> HIDE DEF T
    <3> QED
      BY FiniteMin
  <2>2. A \subseteq Nat /\ A \in SUBSET D
    BY <2>1 DEF Positions
  <2>3. PICK x \in A : TRUE
    BY <2>1, Zenon
  <2>4. CASE A = {x}
    <3>1. Top(A, x)
      BY <2>2, <2>3, <2>4
    <3>2. QED
      BY <2>1, <3>1, Zenon
  <2>5. CASE A # {x}
    <3>1. A \ {x} \in SUBSET D /\ A \ {x} # {} /\ A \ {x} # A
      BY <2>2, <2>3, <2>5
    <3>2. A \ {x} \notin T
      BY <2>1, <3>1, Zenon
    <3>3. PICK m : Top(A \ {x}, m)
      BY <3>1, <3>2, Zenon
    <3>4. Top(A, m) \/ Top(A, x)
      BY <2>2, <2>3, <3>3
    <3>5. QED
      BY <2>1, <3>4, Zenon
  <2>6. QED
    BY <2>4, <2>5
<1>2. \E x \in D : \A y \in D : x >= y
  BY <1>1, Zenon
<1>3. QED
  BY <1>2, Zenon DEF Max

\* h maps every set of positions to the scheduler after the entries at them.
Folds(b, q, D, h) ==
  h = [s \in SUBSET D |-> IF s = {} THEN b ELSE Add(h[s \ {Max(s)}], q[Max(s)])]

Chosen(b, q, D) == CHOOSE h : Folds(b, q, D, h)

LEMMA FoldIsChosen ==
  ASSUME NEW b, NEW q
  PROVE  AddAll(b, q) = Chosen(b, q, DOMAIN q)[DOMAIN q]
  BY Zenon DEF AddAll, MapThenFoldSet, Chosen, Folds

LEMMA FoldsAt ==
  ASSUME NEW b, NEW q, NEW D, NEW h, Folds(b, q, D, h), NEW s \in SUBSET D
  PROVE  /\ s = {} => h[s] = b
         /\ s # {} => h[s] = Add(h[s \ {Max(s)}], q[Max(s)])
  BY Zenon DEF Folds

LEMMA FoldsEmpty ==
  ASSUME NEW b, NEW q, NEW D, NEW h, Folds(b, q, D, h)
  PROVE  h[{}] = b
<1>1. {} \in SUBSET D
  OBVIOUS
<1>2. QED
  BY <1>1, Zenon DEF Folds

LEMMA FoldsUnique ==
  ASSUME NEW b, NEW q, NEW D, Positions(D), NEW g, NEW h, Folds(b, q, D, g), Folds(b, q, D, h)
  PROVE  g = h
<1>1. \A s \in SUBSET D : g[s] = h[s]
  <2> DEFINE T == {s \in SUBSET D : g[s] # h[s]}
  <2> SUFFICES ASSUME T # {} PROVE FALSE
    BY Zenon
  <2>0. PICK A \in T : \A B \in T : B \subseteq A => B = A
    <3> T \subseteq SUBSET D
      BY Zenon
    <3> IsFiniteSet(D)
      BY Zenon DEF Positions
    <3> HIDE DEF T
    <3> QED
      BY FiniteMin
  <2>1. A \in SUBSET D /\ g[A] # h[A] /\ \A B \in SUBSET D : g[B] # h[B] /\ B \subseteq A => B = A
    BY <2>0, Zenon
  <2>2. A # {}
    <3>1. g[{}] = b /\ h[{}] = b
      BY FoldsEmpty
    <3>2. QED
      BY <2>1, <3>1, Zenon
  <2>3. Max(A) \in A
    BY <2>1, <2>2, MaxIn, PositionsSub
  <2>4. g[A \ {Max(A)}] = h[A \ {Max(A)}]
    BY <2>1, <2>3
  <2>5. /\ g[A] = Add(g[A \ {Max(A)}], q[Max(A)])
        /\ h[A] = Add(h[A \ {Max(A)}], q[Max(A)])
    BY <2>1, <2>2, FoldsAt
  <2>6. QED
    BY <2>1, <2>4, <2>5, Zenon
<1>2. g = [s \in SUBSET D |-> g[s]] /\ h = [s \in SUBSET D |-> h[s]]
  BY Zenon DEF Folds
<1>3. QED
  BY <1>1, <1>2, Zenon

Cut(h, R) == [s \in SUBSET R |-> h[s]]

LEMMA FoldsRestrict ==
  ASSUME NEW b, NEW q, NEW D, NEW R \in SUBSET D, NEW h, Folds(b, q, D, h)
  PROVE  Folds(b, q, R, Cut(h, R))
<1>1. ASSUME NEW s \in SUBSET R
      PROVE  h[s] = IF s = {} THEN b
                    ELSE Add(Cut(h, R)[s \ {Max(s)}], q[Max(s)])
  <2>1. s \in SUBSET D /\ s \ {Max(s)} \in SUBSET R
    OBVIOUS
  <2>2. Cut(h, R)[s \ {Max(s)}] = h[s \ {Max(s)}]
    BY <2>1, Zenon DEF Cut
  <2>3. QED
    BY <2>1, <2>2, FoldsAt
<1>2. Cut(h, R) = [s \in SUBSET R |-> Cut(h, R)[s]] /\ \A s \in SUBSET R : Cut(h, R)[s] = h[s]
  BY Zenon DEF Cut
<1>3. QED
  BY <1>1, <1>2, Zenon DEF Folds

LEMMA FoldsExist ==
  ASSUME NEW b, NEW q, NEW D, Positions(D)
  PROVE  Folds(b, q, D, Chosen(b, q, D))
<1> DEFINE T == {s \in SUBSET D : ~Folds(b, q, s, Chosen(b, q, s))}
<1> SUFFICES ASSUME T # {} PROVE FALSE
  BY Zenon
<1>1. PICK A \in T : \A B \in T : B \subseteq A => B = A
  <2> T \subseteq SUBSET D
    BY Zenon
  <2> IsFiniteSet(D)
    BY Zenon DEF Positions
  <2> HIDE DEF T
  <2> QED
    BY FiniteMin
<1>2. A \in SUBSET D /\ ~Folds(b, q, A, Chosen(b, q, A)) /\ Positions(A)
  <2>1. A \in SUBSET D /\ ~Folds(b, q, A, Chosen(b, q, A))
    BY <1>1, Zenon
  <2>2. QED
    BY <2>1, PositionsSub
<1>3. ASSUME NEW B, B \subseteq A, B # A
      PROVE  Positions(B) /\ Folds(b, q, B, Chosen(b, q, B))
  <2>1. B \in SUBSET A /\ B \in SUBSET D
    BY <1>2, <1>3
  <2>2. QED
    BY <1>1, <1>2, <1>3, <2>1, PositionsSub, Zenon
<1> DEFINE Before(s) == s \ {Max(s)}
           H == [s \in SUBSET A |->
                   IF s = {} THEN b ELSE Add(Chosen(b, q, Before(s))[Before(s)], q[Max(s)])]
<1>4. ASSUME NEW r \in SUBSET A, r # A
      PROVE  Chosen(b, q, r)[r] = H[r]
  <2>1. Positions(r) /\ Folds(b, q, r, Chosen(b, q, r)) /\ r \in SUBSET r
    BY <1>3, <1>4, Zenon
  <2>2. CASE r = {}
    BY <2>1, <2>2, FoldsEmpty
  <2>3. CASE r # {}
    <3> DEFINE p == Before(r)
    <3>1. p \in SUBSET r /\ p \subseteq A /\ p # A
      BY <1>4
    <3>2. Positions(p) /\ Folds(b, q, p, Chosen(b, q, p))
      BY <1>3, <3>1, Zenon
    <3>3. Chosen(b, q, r)[r] = Add(Chosen(b, q, r)[p], q[Max(r)])
      BY <2>1, <2>3, FoldsAt
    <3>4. Chosen(b, q, p) = Cut(Chosen(b, q, r), p)
      <4> HIDE DEF p
      <4>1. Folds(b, q, p, Cut(Chosen(b, q, r), p))
        BY <2>1, <3>1, FoldsRestrict, Zenon
      <4>2. QED
        BY <3>2, <4>1, FoldsUnique, Zenon
    <3>5. Chosen(b, q, p)[p] = Chosen(b, q, r)[p]
      <4> HIDE DEF p
      <4> QED
        BY <3>4, Zenon DEF Cut
    <3>6. QED
      BY <2>3, <3>3, <3>5, Zenon
  <2>4. QED
    BY <2>2, <2>3
<1>5. Folds(b, q, A, H)
  <2>1. ASSUME NEW s \in SUBSET A, s # {}
        PROVE  Chosen(b, q, Before(s))[Before(s)] = H[Before(s)]
    <3>1. Max(s) \in s
      BY <1>2, <2>1, PositionsSub, MaxIn
    <3>2. Before(s) \in SUBSET A /\ Before(s) # A
      BY <3>1
    <3>3. QED
      BY <1>4, <3>2, Zenon
  <2>2. \A s \in SUBSET A : H[s] = IF s = {} THEN b ELSE Add(H[Before(s)], q[Max(s)])
    BY <2>1, Zenon
  <2>3. H = [s \in SUBSET A |-> H[s]]
    BY Zenon
  <2> HIDE DEF H
  <2>4. QED
    BY <2>2, <2>3, Zenon DEF Folds
<1>6. QED
  BY <1>2, <1>5, Zenon DEF Chosen

\* What holds of the scheduler before a batch, and is carried on by every entry
\* of it, holds after the batch: the states it may be in after n entries are I[n].
LEMMA BatchInduction ==
  ASSUME NEW b, NEW S, NEW q \in Seq(S), NEW I, b \in I[0],
         \A n \in 1..Len(q) : \A s \in I[n - 1] : Add(s, q[n]) \in I[n]
  PROVE  AddAll(b, q) \in I[Len(q)]
<1> DEFINE D == 1..Len(q)
           C == Chosen(b, q, D)
           T == {s \in SUBSET D : \E n \in 0..Len(q) : s = 1..n /\ C[s] \notin I[n]}
<1>1. D = DOMAIN q /\ Len(q) \in Nat /\ Positions(D)
  <2>1. D = DOMAIN q /\ Len(q) \in Nat
    OBVIOUS
  <2>2. IsFiniteSet(D)
    BY <2>1, FS_Interval
  <2>3. D \subseteq Nat
    OBVIOUS
  <2>4. QED
    BY <2>1, <2>2, <2>3, Zenon DEF Positions
<1>2. Folds(b, q, D, C)
  BY <1>1, FoldsExist, Zenon
<1> HIDE DEF C
<1>3. T = {}
  <2> SUFFICES ASSUME T # {} PROVE FALSE
    OBVIOUS
  <2>1. PICK A \in T : \A B \in T : B \subseteq A => B = A
    <3> T \subseteq SUBSET D
      BY Zenon
    <3> IsFiniteSet(D)
      BY <1>1, Zenon DEF Positions
    <3> HIDE DEF T, D
    <3> QED
      BY FiniteMin
  <2>2. PICK n \in 0..Len(q) : A = 1..n /\ C[A] \notin I[n]
    BY <2>1, Zenon
  <2>3. A \in SUBSET D
    BY <2>1, Zenon
  <2>4. n # 0
    <3>1. CASE n = 0
      <4>1. A = {}
        BY <2>2, <3>1
      <4>2. C[A] = b
        BY <1>2, <4>1, FoldsEmpty
      <4>3. QED
        BY <2>2, <3>1, <4>2
    <3>2. QED
      BY <3>1
  <2>5. n \in 1..Len(q) /\ n - 1 \in 0..Len(q) /\ n \in Nat
    BY <1>1, <2>2, <2>4
  <2>6. Max(A) = n
    <3>1. A # {} /\ Positions(A)
      <4>1. A # {}
        BY <2>2, <2>5
      <4>2. Positions(A)
        BY <1>1, <2>3, PositionsSub, Zenon
      <4>3. QED
        BY <4>1, <4>2
    <3>2. n \in A /\ \A y \in A : n >= y
      BY <2>2, <2>5
    <3>3. Max(A) \in A /\ \A y \in A : Max(A) >= y
      BY <3>2, Zenon DEF Max
    <3>4. QED
      BY <2>2, <2>5, <3>3
  <2>7. A \ {n} = 1..(n - 1) /\ A \ {n} \in SUBSET D /\ A \ {n} # A /\ A # {} /\ A \ {n} \subseteq A
    BY <2>2, <2>3, <2>5
  <2>8. C[A \ {n}] \in I[n - 1]
    BY <2>1, <2>5, <2>7, Zenon
  <2>9. C[A] = Add(C[A \ {n}], q[n])
    <3>1. A # {} => C[A] = Add(C[A \ {Max(A)}], q[Max(A)])
      <4> HIDE DEF D
      <4> QED
        BY <1>2, <2>3, FoldsAt
    <3>2. QED
      BY <2>6, <2>7, <3>1, Zenon
  <2>10. QED
    BY <2>2, <2>5, <2>8, <2>9, Zenon
<1>4. C[D] \in I[Len(q)]
  <2>1. Len(q) \in 0..Len(q) /\ D \in SUBSET D
    BY <1>1
  <2>2. QED
    BY <1>3, <2>1, Zenon
<1>5. QED
  BY <1>1, <1>4, FoldIsChosen, Zenon DEF C
-----------------------------------------------------------------------------
(* The scheduler.                                                          *)

Scheds == [pc : {"idle", "read", "run", "wait"}, queues : [Tenants -> Seq(Deliveries)],
           order : Seq(Tenants), waits : SUBSET Tasks, served : [Tenants -> Nat]]

\* An entry is in the queue of its tenant, and there once.
Queues(s) ==
  \A t \in Tenants :
    IsInjective(s.queues[t]) /\ \A i \in DOMAIN s.queues[t] : TenantOf[s.queues[t][i]] = t

\* RoundRobin of one scheduler, and why it stays so: along the round the tenants
\* have been served ever more often.
Round(s) ==
  /\ IsInjective(s.order)
  /\ Range(s.order) = {t \in Tenants : s.queues[t] # <<>>}
  /\ \A i, j \in DOMAIN s.order : i < j => s.served[s.order[i]] <= s.served[s.order[j]]
  /\ \A t, u \in Tenants : s.queues[t] # <<>> => s.served[u] <= s.served[t] + 1

\* The scheduler holds d.
Holds(s, d) == d \in Range(s.queues[TenantOf[d]])

LEMMA AppendFacts ==
  ASSUME NEW S, NEW q \in Seq(S), NEW e \in S
  PROVE  /\ Append(q, e) \in Seq(S) /\ Append(q, e) # <<>>
         /\ DOMAIN q = 1..Len(q) /\ Len(q) \in Nat
         /\ DOMAIN Append(q, e) = 1..(Len(q) + 1)
         /\ Append(q, e)[Len(q) + 1] = e
         /\ \A i \in DOMAIN q : Append(q, e)[i] = q[i]
  OBVIOUS

LEMMA AppendDistinct ==
  ASSUME NEW S, NEW q \in Seq(S), NEW e \in S, IsInjective(q), e \notin Range(q)
  PROVE  IsInjective(Append(q, e))
<1> DEFINE r == Append(q, e)
<1>1. \A i \in DOMAIN q : q[i] # e
  BY Zenon DEF Range
<1>2. /\ Len(q) \in Nat /\ DOMAIN q = 1..Len(q) /\ DOMAIN r = 1..(Len(q) + 1)
      /\ r[Len(q) + 1] = e /\ \A i \in DOMAIN q : r[i] = q[i]
  BY AppendFacts
<1> HIDE DEF r
<1>3. \A i \in DOMAIN r : i \in DOMAIN q \/ i = Len(q) + 1
  BY <1>2
<1>4. IsInjective(r)
  BY <1>1, <1>2, <1>3, Zenon DEF IsInjective
<1>5. QED
  BY <1>4 DEF r

LEMMA AppendSet ==
  ASSUME NEW S, NEW q \in Seq(S), NEW e \in S
  PROVE  Range(Append(q, e)) = Range(q) \cup {e}
<1> DEFINE r == Append(q, e)
<1>1. /\ Len(q) \in Nat /\ DOMAIN q = 1..Len(q) /\ DOMAIN r = 1..(Len(q) + 1)
      /\ r[Len(q) + 1] = e /\ \A i \in DOMAIN q : r[i] = q[i]
  BY AppendFacts
<1> HIDE DEF r
<1>2. \A i \in DOMAIN r : i \in DOMAIN q \/ i = Len(q) + 1
  BY <1>1
<1>3. \A i \in DOMAIN q : i \in DOMAIN r
  BY <1>1
<1>4. Len(q) + 1 \in DOMAIN r
  BY <1>1
<1>5. Range(r) = Range(q) \cup {e}
  BY <1>1, <1>2, <1>3, <1>4, Zenon DEF Range
<1>6. QED
  BY <1>5 DEF r

LEMMA NonEmpty ==
  ASSUME NEW S, NEW q \in Seq(S), q # <<>>
  PROVE  Len(q) \in Nat \ {0}
  OBVIOUS

LEMMA TailFacts ==
  ASSUME NEW S, NEW q \in Seq(S), q # <<>>
  PROVE  /\ Tail(q) \in Seq(S) /\ Len(q) \in Nat \ {0} /\ Head(q) = q[1] /\ Head(q) \in S
         /\ DOMAIN q = 1..Len(q) /\ DOMAIN Tail(q) = 1..(Len(q) - 1)
         /\ \A i \in DOMAIN Tail(q) : Tail(q)[i] = q[i + 1]
         /\ Tail(q) = <<>> <=> Len(q) = 1
<1>1. Tail(q) \in Seq(S) /\ Head(q) \in S
  OBVIOUS
<1>2. Len(q) \in Nat \ {0} /\ Head(q) = q[1] 
  OBVIOUS
<1>3. DOMAIN q = 1..Len(q) /\ DOMAIN Tail(q) = 1..(Len(q) - 1)
  OBVIOUS
<1>4. \A i \in DOMAIN Tail(q) : Tail(q)[i] = q[i + 1]
  OBVIOUS
<1>5. Len(Tail(q)) = Len(q) - 1
  OBVIOUS
<1>6. Tail(q) = <<>> <=> Len(q) = 1
  <2>1. CASE Tail(q) = <<>>
    BY <1>2, <1>5, <2>1
  <2>2. CASE Tail(q) # <<>>
    <3>1. Len(Tail(q)) \in Nat \ {0}
      BY <1>1, <2>2, NonEmpty, Zenon
    <3>2. QED
      BY <1>2, <1>5, <2>2, <3>1
  <2>3. QED
    BY <2>1, <2>2
<1>7. QED
  BY <1>1, <1>2, <1>3, <1>4, <1>6

LEMMA TailDistinct ==
  ASSUME NEW S, NEW q \in Seq(S), q # <<>>, IsInjective(q)
  PROVE  IsInjective(Tail(q)) /\ Range(Tail(q)) = Range(q) \ {Head(q)} /\ Head(q) \in Range(q)
<1> DEFINE r == Tail(q)
<1>1. /\ Len(q) \in Nat \ {0} /\ DOMAIN q = 1..Len(q) /\ DOMAIN r = 1..(Len(q) - 1)
      /\ Head(q) = q[1] /\ \A i \in DOMAIN r : r[i] = q[i + 1]
  BY TailFacts
<1> HIDE DEF r
<1>2. \A i \in DOMAIN r : i + 1 \in DOMAIN q /\ i + 1 # 1
  BY <1>1
<1>3. \A i \in DOMAIN q : i # 1 => i - 1 \in DOMAIN r /\ r[i - 1] = q[i]
  BY <1>1
<1>4. 1 \in DOMAIN q
  BY <1>1
<1>5. IsInjective(r)
  BY <1>1 DEF IsInjective
<1>6. Range(r) = Range(q) \ {Head(q)}
  <2>1. ASSUME NEW x \in Range(r) PROVE x \in Range(q) \ {Head(q)}
    <3>1. PICK i \in DOMAIN r : x = r[i]
      BY <2>1, Zenon DEF Range
    <3>2. x = q[i + 1] /\ i + 1 \in DOMAIN q /\ x # q[1]
      BY <1>1, <1>2, <1>4, <3>1, Zenon DEF IsInjective
    <3>3. QED
      BY <1>1, <3>2, Zenon DEF Range
  <2>2. ASSUME NEW x \in Range(q) \ {Head(q)} PROVE x \in Range(r)
    <3>1. PICK i \in DOMAIN q : x = q[i]
      BY <2>2, Zenon DEF Range
    <3>2. i # 1
      BY <1>1, <2>2, <3>1, Zenon
    <3>3. QED
      BY <1>3, <3>1, <3>2, Zenon DEF Range
  <2>3. QED
    BY <2>1, <2>2, Zenon
<1>7. QED
  BY <1>1, <1>4, <1>5, <1>6, Zenon DEF Range, r

LEMMA AddFields ==
  ASSUME NEW s \in Scheds, NEW d \in Deliveries
  PROVE  /\ TenantOf[d] \in Tenants
         /\ Add(s, d) \in Scheds
         /\ Add(s, d).served = s.served
         /\ Add(s, d).queues[TenantOf[d]] = Append(s.queues[TenantOf[d]], d)
         /\ \A u \in Tenants : u # TenantOf[d] => Add(s, d).queues[u] = s.queues[u]
         /\ s.queues[TenantOf[d]] = <<>> => Add(s, d).order = Append(s.order, TenantOf[d])
         /\ s.queues[TenantOf[d]] # <<>> => Add(s, d).order = s.order
<1> DEFINE t == TenantOf[d]
<1>1. t \in Tenants
  BY SupervisorAssumption
<1>2. Add(s, d).pc = s.pc /\ Add(s, d).waits = s.waits /\ Add(s, d).served = s.served
  BY DEF Scheds, Add
<1>3. Add(s, d).queues = [s.queues EXCEPT ![t] = Append(@, d)]
  BY DEF Scheds, Add
<1>4. Add(s, d).order = IF s.queues[t] = <<>> THEN Append(s.order, t) ELSE s.order
  BY DEF Scheds, Add
<1>5. Add(s, d) = [s EXCEPT !.queues = Add(s, d).queues, !.order = Add(s, d).order]
  <2>1. Add(s, d) = [s EXCEPT !.queues = [s.queues EXCEPT ![t] = Append(@, d)],
                              !.order = IF s.queues[t] = <<>> THEN Append(s.order, t) ELSE s.order]
    BY DEF Add
  <2>2. QED
    BY <1>3, <1>4, <2>1, Zenon
<1>6. s.queues \in [Tenants -> Seq(Deliveries)] /\ s.order \in Seq(Tenants)
  BY DEF Scheds
<1>7. Append(s.queues[t], d) \in Seq(Deliveries) /\ Append(s.order, t) \in Seq(Tenants)
  BY <1>1, <1>6, AppendFacts
<1>8. Add(s, d).queues \in [Tenants -> Seq(Deliveries)] /\ Add(s, d).order \in Seq(Tenants)
  BY <1>3, <1>4, <1>6, <1>7, Zenon
<1>9. Add(s, d) \in Scheds
  <2> DEFINE q == Add(s, d).queues
             o == Add(s, d).order
  <2>1. q \in [Tenants -> Seq(Deliveries)] /\ o \in Seq(Tenants)
    BY <1>8, Zenon
  <2> HIDE DEF q, o
  <2>2. [s EXCEPT !.queues = q, !.order = o] \in Scheds
    BY <2>1, Zenon DEF Scheds
  <2>3. QED
    BY <1>5, <2>2, Zenon DEF q, o
<1>10. QED
  BY <1>1, <1>2, <1>3, <1>4, <1>6, <1>9, Zenon

LEMMA MoreThanOne == \A n \in Nat \ {0} : n > 1 <=> n # 1
  OBVIOUS

LEMMA PopFields ==
  ASSUME NEW s \in Scheds, s.order # <<>>, NEW t, t = Head(s.order), s.queues[t] # <<>>
  PROVE  /\ t \in Tenants
         /\ Pop(s) \in Scheds
         /\ Pop(s).queues[t] = Tail(s.queues[t]) /\ Pop(s).served[t] = s.served[t] + 1
         /\ \A u \in Tenants : u # t => Pop(s).queues[u] = s.queues[u] /\ Pop(s).served[u] = s.served[u]
         /\ Tail(s.queues[t]) # <<>> => Pop(s).order = Append(Tail(s.order), t)
         /\ Tail(s.queues[t]) = <<>> => Pop(s).order = Tail(s.order)
<1>0. s.queues \in [Tenants -> Seq(Deliveries)] /\ s.order \in Seq(Tenants) /\ s.served \in [Tenants -> Nat]
  BY DEF Scheds
<1>1. t \in Tenants
  BY <1>0, TailFacts
<1>3. Pop(s).queues = [s.queues EXCEPT ![t] = Tail(@)] /\ Pop(s).served = [s.served EXCEPT ![t] = @ + 1]
  BY DEF Scheds, Pop
<1>4. Pop(s).order = IF Len(s.queues[t]) > 1 THEN Append(Tail(s.order), t) ELSE Tail(s.order)
  BY DEF Scheds, Pop
<1>5. Pop(s) = [s EXCEPT !.queues = Pop(s).queues, !.order = Pop(s).order, !.served = Pop(s).served]
  <2>1. Pop(s) = [s EXCEPT !.queues = [s.queues EXCEPT ![t] = Tail(@)],
                           !.order = IF Len(s.queues[t]) > 1 THEN Append(Tail(s.order), t) ELSE Tail(s.order),
                           !.served = [s.served EXCEPT ![t] = @ + 1]]
    BY DEF Pop
  <2>2. QED
    BY <1>3, <1>4, <2>1, Zenon
<1>6. Tail(s.queues[t]) \in Seq(Deliveries) /\ Tail(s.order) \in Seq(Tenants)
  BY <1>0, <1>1, TailFacts
<1>7. Append(Tail(s.order), t) \in Seq(Tenants)
  BY <1>1, <1>6, AppendFacts
<1>8. Pop(s).queues \in [Tenants -> Seq(Deliveries)] /\ Pop(s).order \in Seq(Tenants)
  <2>1. Pop(s).queues \in [Tenants -> Seq(Deliveries)]
    BY <1>0, <1>3, <1>6, Zenon
  <2>2. Pop(s).order \in Seq(Tenants)
    BY <1>4, <1>6, <1>7, Zenon
  <2>3. QED
    BY <2>1, <2>2
<1>9. Pop(s).served \in [Tenants -> Nat]
  BY <1>0, <1>1, <1>3
<1>10. Pop(s) \in Scheds
  <2> DEFINE q == Pop(s).queues
             o == Pop(s).order
             v == Pop(s).served
  <2>1. q \in [Tenants -> Seq(Deliveries)] /\ o \in Seq(Tenants) /\ v \in [Tenants -> Nat]
    BY <1>8, <1>9, Zenon
  <2> HIDE DEF q, o, v
  <2>2. [s EXCEPT !.queues = q, !.order = o, !.served = v] \in Scheds
    BY <2>1, Zenon DEF Scheds
  <2>3. QED
    BY <1>5, <2>2, Zenon DEF q, o, v
<1>11. Len(s.queues[t]) > 1 <=> Tail(s.queues[t]) # <<>>
  <2> DEFINE q == s.queues[t]
  <2>1. q \in Seq(Deliveries) /\ q # <<>>
    BY <1>0, <1>1
  <2> HIDE DEF q
  <2>2. Len(q) \in Nat \ {0} /\ (Tail(q) = <<>> <=> Len(q) = 1)
    BY <2>1, TailFacts, Zenon
  <2>3. Len(q) > 1 <=> Tail(q) # <<>>
    <3>1. Len(q) \in Nat \ {0}
      BY <2>2, Zenon
    <3>2. Len(q) > 1 <=> Len(q) # 1
      BY <3>1, MoreThanOne, Zenon
    <3>3. QED
      BY <2>2, <3>2, Zenon
  <2>4. QED
    BY <2>3 DEF q
<1>12. /\ Tail(s.queues[t]) # <<>> => Pop(s).order = Append(Tail(s.order), t)
       /\ Tail(s.queues[t]) = <<>> => Pop(s).order = Tail(s.order)
  BY <1>4, <1>11, Zenon
<1>13. QED
  BY <1>0, <1>1, <1>3, <1>10, <1>12, Zenon

\* The scheduler while a batch is added: nobody has been served, and what it holds
\* is among the entries E.
Filling(s, E) ==
  /\ s \in Scheds /\ Round(s) /\ Queues(s)
  /\ \A t \in Tenants : s.served[t] = 0 /\ Range(s.queues[t]) \subseteq E

LEMMA AddFills ==
  ASSUME NEW E, NEW s, Filling(s, E), NEW d \in Deliveries \ E
  PROVE  Filling(Add(s, d), E \cup {d})
<1> DEFINE t == TenantOf[d]
           r == Add(s, d)
<1>1. /\ s \in Scheds /\ Round(s) /\ Queues(s)
      /\ s.queues \in [Tenants -> Seq(Deliveries)] /\ s.order \in Seq(Tenants)
      /\ s.served \in [Tenants -> Nat]
      /\ \A u \in Tenants : s.served[u] = 0 /\ Range(s.queues[u]) \subseteq E
  BY DEF Filling, Scheds
<1>2. /\ t \in Tenants /\ r \in Scheds /\ r.served = s.served
      /\ r.queues[t] = Append(s.queues[t], d)
      /\ \A u \in Tenants : u # t => r.queues[u] = s.queues[u]
      /\ s.queues[t] = <<>> => r.order = Append(s.order, t)
      /\ s.queues[t] # <<>> => r.order = s.order
  <2>1. s \in Scheds /\ d \in Deliveries
    BY <1>1
  <2>2. QED
    BY <2>1, AddFields, Zenon
<1>3. t = TenantOf[d]
  OBVIOUS
<1> HIDE DEF t, r
<1>4. /\ r.queues[t] = Append(s.queues[t], d) /\ s.queues[t] \in Seq(Deliveries)
      /\ \A u \in Tenants : u # t => r.queues[u] = s.queues[u]
  BY <1>1, <1>2, Zenon
<1>5. d \notin Range(s.queues[t])
  BY <1>1, <1>2
<1>6. Queues(r)
  <2>1. IsInjective(r.queues[t])
    BY <1>1, <1>2, <1>4, <1>5, AppendDistinct DEF Queues
  <2>2. \A i \in DOMAIN r.queues[t] : TenantOf[r.queues[t][i]] = t
    <3>1. \A i \in DOMAIN s.queues[t] : TenantOf[s.queues[t][i]] = t
      BY <1>1, <1>2, Zenon DEF Queues
    <3>2. PICK q \in Seq(Deliveries) : q = s.queues[t]
      BY <1>4
    <3>3. \A i \in DOMAIN Append(q, d) : i \in DOMAIN q \/ i = Len(q) + 1
      BY <3>2, AppendFacts
    <3>4. Append(q, d)[Len(q) + 1] = d /\ \A i \in DOMAIN q : Append(q, d)[i] = q[i]
      BY <3>2, AppendFacts
    <3>5. \A i \in DOMAIN q : TenantOf[q[i]] = t
      BY <3>1, <3>2, Zenon
    <3>6. \A i \in DOMAIN Append(q, d) : TenantOf[Append(q, d)[i]] = t
      BY <1>3, <3>3, <3>4, <3>5
    <3>7. QED
      BY <1>4, <3>2, <3>6
  <2>3. QED
    BY <1>1, <1>4, <2>1, <2>2, Zenon DEF Queues
<1>7. \A u \in Tenants : r.served[u] = 0 /\ Range(r.queues[u]) \subseteq E \cup {d}
  <2>1. Range(r.queues[t]) = Range(s.queues[t]) \cup {d}
    BY <1>4, AppendSet
  <2>2. QED
    BY <1>1, <1>2, <1>4, <2>1, Zenon
<1>8. r.queues[t] # <<>>
  BY <1>4, AppendFacts
<1>9. IsInjective(r.order) /\ Range(r.order) = {u \in Tenants : r.queues[u] # <<>>}
      /\ \A i \in DOMAIN r.order : r.order[i] \in Tenants
  <2>1. IsInjective(s.order) /\ Range(s.order) = {u \in Tenants : s.queues[u] # <<>>}
    BY <1>1 DEF Round
  <2>2. CASE s.queues[t] = <<>>
    <3>1. r.order = Append(s.order, t) /\ t \notin Range(s.order)
      BY <1>2, <2>1, <2>2, Zenon
    <3>2. IsInjective(r.order) /\ Range(r.order) = Range(s.order) \cup {t}
      BY <1>1, <1>2, <2>1, <3>1, AppendDistinct, AppendSet
    <3>3. Range(r.order) = {u \in Tenants : r.queues[u] # <<>>}
      BY <1>2, <1>4, <1>8, <2>1, <3>2, Zenon
    <3>4. QED
      BY <3>2, <3>3, Zenon DEF Range
  <2>3. CASE s.queues[t] # <<>>
    <3>1. r.order = s.order
      BY <1>2, <2>3, Zenon
    <3>2. Range(r.order) = {u \in Tenants : r.queues[u] # <<>>}
      BY <1>2, <1>4, <1>8, <2>1, <2>3, <3>1, Zenon
    <3>3. QED
      BY <2>1, <3>1, <3>2, Zenon DEF Range
  <2>4. QED
    BY <2>2, <2>3
<1>10. Round(r)
  BY <1>7, <1>9 DEF Round
<1>11. QED
  BY <1>2, <1>6, <1>7, <1>10, Zenon DEF Filling, r

\* add() of the entries of a batch one by one.
LEMMA BatchFills ==
  ASSUME NEW S \in SUBSET Deliveries, NEW batch \in Injection(1..Cardinality(S), S), NEW b, Filling(b, {})
  PROVE  Filling(AddAll(b, batch), S)
<1> DEFINE n == Cardinality(S)
           Before(m) == {batch[i] : i \in 1..m}
           I == [m \in 0..Len(batch) |-> {s \in Scheds : Filling(s, Before(m))}]
<1>1. /\ IsFiniteSet(S) /\ n \in Nat /\ batch \in [1..n -> S]
      /\ \A i, j \in 1..n : i # j => batch[i] # batch[j]
  <2>1. IsFiniteSet(S) /\ n \in Nat
    BY FS_Subset, FS_CardinalityType, SupervisorAssumption
  <2>2. QED
    BY <2>1, Zenon DEF Injection, IsInjective
<1>2. batch \in Seq(S) /\ batch \in Seq(Deliveries) /\ Len(batch) = n
  BY <1>1
<1> HIDE DEF n
<1>3. b \in I[0]
  <2>1. Before(0) = {} /\ 0 \in 0..Len(batch)
    BY <1>1, <1>2
  <2>2. QED
    BY <2>1, Zenon DEF Filling
<1>4. ASSUME NEW m \in 1..Len(batch), NEW s \in I[m - 1]
      PROVE  Add(s, batch[m]) \in I[m]
  <2>1. m \in 0..Len(batch) /\ m - 1 \in 0..Len(batch) /\ m \in 1..n
    BY <1>1, <1>2
  <2>2. Filling(s, Before(m - 1))
    BY <1>4, <2>1, Zenon
  <2>3. batch[m] \in Deliveries
    BY <1>1, <2>1
  <2>4. batch[m] \notin Before(m - 1)
    BY <1>1, <2>1
  <2>5. Before(m) = Before(m - 1) \cup {batch[m]}
    <3>1. 1..m = (1..(m - 1)) \cup {m}
      BY <1>1, <2>1
    <3>2. QED
      BY <3>1, Zenon
  <2> HIDE DEF Before
  <2>6. Filling(Add(s, batch[m]), Before(m))
    BY <2>2, <2>3, <2>4, <2>5, AddFills
  <2>7. QED
    BY <2>1, <2>6, Zenon DEF Filling
<1>5. AddAll(b, batch) \in I[Len(batch)]
  <2> HIDE DEF I
  <2>1. QED
    BY <1>2, <1>3, <1>4, BatchInduction, Zenon
<1>6. Filling(AddAll(b, batch), Before(n))
  <2>1. n \in 0..Len(batch)
    BY <1>1, <1>2
  <2>2. QED
    BY <1>2, <1>5, <2>1, Zenon
<1>7. Before(n) \subseteq S
  BY <1>1, Zenon
<1> HIDE DEF Before
<1>8. QED
  BY <1>6, <1>7 DEF Filling

\* pop() keeps the round: the tenant served has been served least, and goes to the
\* end of it, or leaves it with its queue empty.
LEMMA PopKeeps ==
  ASSUME NEW s \in Scheds, Round(s), Queues(s), s.order # <<>>
  PROVE  /\ Pop(s) \in Scheds /\ Round(Pop(s)) /\ Queues(Pop(s))
         /\ Popped(s) \in Deliveries /\ Holds(s, Popped(s)) /\ ~Holds(Pop(s), Popped(s))
         /\ \A d \in Deliveries : Holds(Pop(s), d) => Holds(s, d)
<1> DEFINE t == Head(s.order)
           r == Pop(s)
           q == s.queues[t]
<1>1. s.queues \in [Tenants -> Seq(Deliveries)] /\ s.order \in Seq(Tenants) /\ s.served \in [Tenants -> Nat]
  BY DEF Scheds
<1>2. /\ t \in Tenants /\ t = s.order[1] /\ t \in Range(s.order)
      /\ DOMAIN s.order = 1..Len(s.order) /\ Len(s.order) \in Nat \ {0}
  <2>1. IsInjective(s.order)
    BY DEF Round
  <2>2. QED
    BY <1>1, <2>1, TailFacts, TailDistinct
<1>3. q # <<>> /\ q \in Seq(Deliveries)
  BY <1>1, <1>2 DEF Round
<1>4. /\ r \in Scheds
      /\ r.queues[t] = Tail(q) /\ r.served[t] = s.served[t] + 1
      /\ \A u \in Tenants : u # t => r.queues[u] = s.queues[u] /\ r.served[u] = s.served[u]
      /\ Tail(q) # <<>> => r.order = Append(Tail(s.order), t)
      /\ Tail(q) = <<>> => r.order = Tail(s.order)
  BY <1>3, PopFields
<1>5. Popped(s) = Head(q)
  BY DEF Popped
<1> HIDE DEF t, r, q
<1>6. /\ Tail(q) \in Seq(Deliveries) /\ IsInjective(q) /\ IsInjective(Tail(q))
      /\ Range(Tail(q)) = Range(q) \ {Head(q)} /\ Head(q) \in Range(q) /\ Head(q) \in Deliveries
  <2>1. IsInjective(q)
    BY <1>2 DEF Queues, q
  <2>2. QED
    BY <1>3, <2>1, TailFacts, TailDistinct
<1>7. \A x \in Range(q) : TenantOf[x] = t
  <2>1. \A i \in DOMAIN q : TenantOf[q[i]] = t
    BY <1>2 DEF Queues, q
  <2>2. QED
    BY <2>1, Zenon DEF Range
<1>8. \A u \in Tenants : Range(r.queues[u]) \subseteq Range(s.queues[u])
  BY <1>4, <1>6 DEF q
<1>9. Queues(r)
  <2>1. \A i \in DOMAIN Tail(q) : TenantOf[Tail(q)[i]] = t
    BY <1>6, <1>7, Zenon DEF Range
  <2>2. \A i \in DOMAIN r.queues[t] : TenantOf[r.queues[t][i]] = t
    BY <1>4, <2>1, Zenon
  <2>3. IsInjective(r.queues[t])
    BY <1>4, <1>6, Zenon
  <2>4. \A u \in Tenants : u # t => r.queues[u] = s.queues[u]
    BY <1>4, Zenon
  <2>5. QED
    BY <1>2, <2>2, <2>3, <2>4, Zenon DEF Queues
<1>10. /\ Holds(s, Popped(s)) /\ ~Holds(r, Popped(s))
       /\ \A d \in Deliveries : Holds(r, d) => Holds(s, d)
  <2>1. \A u \in Tenants : r.queues[u] \in Seq(Deliveries) /\ s.queues[u] \in Seq(Deliveries)
    BY <1>1, <1>4 DEF Scheds
  <2>2. \A d \in Deliveries : /\ Holds(r, d) <=> d \in Range(r.queues[TenantOf[d]])
                              /\ Holds(s, d) <=> d \in Range(s.queues[TenantOf[d]])
    BY SupervisorAssumption DEF Holds
  <2>3. TenantOf[Head(q)] = t
    BY <1>6, <1>7, Zenon
  <2>4. Holds(s, Popped(s)) /\ ~Holds(r, Popped(s))
    BY <1>4, <1>5, <1>6, <2>2, <2>3 DEF q
  <2>5. \A d \in Deliveries : TenantOf[d] \in Tenants
    BY SupervisorAssumption
  <2>6. QED
    BY <1>8, <2>2, <2>4, <2>5, Zenon
<1>11. /\ IsInjective(r.order)
       /\ Range(r.order) = {u \in Tenants : r.queues[u] # <<>>}
  <2>1. IsInjective(s.order) /\ Range(s.order) = {u \in Tenants : s.queues[u] # <<>>}
    BY DEF Round
  <2>2. /\ IsInjective(Tail(s.order)) /\ Range(Tail(s.order)) = Range(s.order) \ {t}
        /\ Tail(s.order) \in Seq(Tenants)
    BY <1>1, <2>1, TailDistinct, TailFacts DEF t
  <2>3. CASE Tail(q) # <<>>
    <3>1. r.order = Append(Tail(s.order), t)
      BY <1>4, <2>3
    <3>2. IsInjective(r.order) /\ Range(r.order) = (Range(s.order) \ {t}) \cup {t}
      <4>1. t \notin Range(Tail(s.order))
        BY <2>2, Zenon
      <4>2. IsInjective(Append(Tail(s.order), t))
        BY <1>2, <2>2, <4>1, AppendDistinct, Zenon
      <4>3. Range(Append(Tail(s.order), t)) = Range(Tail(s.order)) \cup {t}
        <5> DEFINE o == Tail(s.order)
        <5>1. o \in Seq(Tenants)
          BY <2>2
        <5> HIDE DEF o
        <5>2. Range(Append(o, t)) = Range(o) \cup {t}
          BY <1>2, <5>1, AppendSet
        <5>3. QED
          BY <5>2 DEF o
      <4>4. QED
        BY <2>2, <3>1, <4>2, <4>3, Zenon
    <3>3. Range(r.order) = {u \in Tenants : r.queues[u] # <<>>}
      BY <1>2, <1>4, <2>1, <2>3, <3>2
    <3>4. QED
      BY <3>2, <3>3
  <2>4. CASE Tail(q) = <<>>
    <3>1. r.order = Tail(s.order)
      BY <1>4, <2>4
    <3>2. Range(r.order) = {u \in Tenants : r.queues[u] # <<>>}
      BY <1>2, <1>4, <2>1, <2>2, <2>4, <3>1, Zenon
    <3>3. QED
      BY <2>2, <3>1, <3>2
  <2>5. QED
    BY <2>3, <2>4
<1>12. \A u \in Tenants : u \in Range(s.order) => s.served[t] <= s.served[u]
  <2>1. ASSUME NEW u \in Tenants, u \in Range(s.order) PROVE s.served[t] <= s.served[u]
    <3>1. PICK i \in DOMAIN s.order : u = s.order[i]
      BY <2>1, Zenon DEF Range
    <3>2. s.served[t] \in Nat /\ s.served[u] \in Nat
      BY <1>1, <1>2
    <3>3. 1 \in DOMAIN s.order /\ (i = 1 \/ 1 < i)
      BY <1>2
    <3>4. CASE i = 1
      BY <1>2, <3>1, <3>2, <3>4
    <3>5. CASE 1 < i
      BY <1>2, <3>1, <3>3, <3>5, Zenon DEF Round
    <3>6. QED
      BY <3>3, <3>4, <3>5
  <2>2. QED
    BY <2>1
<1>13. \A u \in Tenants : s.served[u] \in Nat /\ r.served[u] \in Nat /\ s.served[u] <= r.served[u]
  <2>1. s.served \in [Tenants -> Nat] /\ r.served \in [Tenants -> Nat]
    BY <1>1, <1>4, Zenon DEF Scheds
  <2>2. \A u \in Tenants : r.served[u] = s.served[u] \/ r.served[u] = s.served[u] + 1
    BY <1>4, Zenon
  <2>3. QED
    BY <2>1, <2>2
<1>14. \A u, v \in Tenants : s.queues[u] # <<>> => s.served[v] <= s.served[u] + 1
  BY DEF Round
<1>15. \A u, v \in Tenants : r.queues[u] # <<>> => r.served[v] <= r.served[u] + 1
  <2>1. ASSUME NEW u \in Tenants, NEW v \in Tenants, r.queues[u] # <<>>
        PROVE  r.served[v] <= r.served[u] + 1
    <3>1. s.queues[u] # <<>> /\ u \in Range(s.order)
      BY <1>2, <1>3, <1>4, <2>1 DEF q, Round
    <3>2. CASE v = t
      BY <1>2, <1>4, <1>12, <1>13, <3>1, <3>2
    <3>3. CASE v # t
      BY <1>4, <1>13, <1>14, <3>1, <3>3
    <3>4. QED
      BY <3>2, <3>3
  <2>2. QED
    BY <2>1
<1>16. \A i, j \in DOMAIN r.order : i < j => r.served[r.order[i]] <= r.served[r.order[j]]
  <2> DEFINE o == Tail(s.order)
  <2>1. /\ o \in Seq(Tenants) /\ DOMAIN o = 1..(Len(s.order) - 1)
        /\ \A i \in DOMAIN o : o[i] = s.order[i + 1]
    BY <1>1, TailFacts
  <2> HIDE DEF o
  <2>2. \A i \in DOMAIN o : o[i] \in Tenants /\ o[i] # t
    <3>1. \A i \in DOMAIN o : i + 1 \in DOMAIN s.order /\ i + 1 # 1 /\ 1 \in DOMAIN s.order
      BY <1>2, <2>1
    <3>2. QED
      <4>1. \A i \in DOMAIN o : o[i] \in Tenants
        BY <2>1
      <4>2. \A i \in DOMAIN o : s.order[i + 1] # s.order[1]
        BY <3>1, Zenon DEF Round, IsInjective
      <4>3. QED
        BY <1>2, <2>1, <4>1, <4>2, Zenon
  <2>3. \A i, j \in DOMAIN o : i < j => r.served[o[i]] <= r.served[o[j]]
    <3>1. ASSUME NEW i \in DOMAIN o, NEW j \in DOMAIN o, i < j
          PROVE  r.served[o[i]] <= r.served[o[j]]
      <4>1. i + 1 \in DOMAIN s.order /\ j + 1 \in DOMAIN s.order /\ i + 1 < j + 1
        BY <1>2, <2>1, <3>1
      <4>2. s.served[s.order[i + 1]] <= s.served[s.order[j + 1]]
        BY <4>1, Zenon DEF Round
      <4>3. QED
        BY <1>4, <2>1, <2>2, <4>2
    <3>2. QED
      BY <3>1
  <2>4. CASE Tail(q) = <<>>
    BY <1>4, <2>3, <2>4, Zenon DEF o
  <2>5. CASE Tail(q) # <<>>
    <3>1. r.order = Append(o, t)
      BY <1>4, <2>5 DEF o
    <3>2. /\ DOMAIN r.order = 1..Len(s.order) /\ r.order[Len(s.order)] = t
          /\ \A i \in DOMAIN o : r.order[i] = o[i]
      BY <1>2, <2>1, <3>1, AppendFacts
    <3>3. ASSUME NEW i \in DOMAIN r.order, NEW j \in DOMAIN r.order, i < j
          PROVE  r.served[r.order[i]] <= r.served[r.order[j]]
      <4>1. i \in DOMAIN o /\ r.order[i] = o[i]
        BY <1>2, <2>1, <3>2, <3>3
      <4>2. CASE j \in DOMAIN o
        BY <2>3, <3>2, <3>3, <4>1, <4>2
      <4>3. CASE j \notin DOMAIN o
        <5>1. r.order[j] = t
          BY <1>2, <2>1, <3>2, <3>3, <4>3
        <5>2. s.served[o[i]] <= s.served[t] + 1
          BY <1>2, <1>3, <1>14, <2>2, <4>1 DEF q
        <5>3. QED
          BY <1>4, <2>2, <4>1, <5>1, <5>2
      <4>4. QED
        BY <4>2, <4>3
    <3>4. QED
      BY <3>3
  <2>6. QED
    BY <2>4, <2>5
<1>17. Round(r)
  BY <1>11, <1>15, <1>16, Zenon DEF Round
<1>18. QED
  BY <1>4, <1>5, <1>6, <1>9, <1>10, <1>17, Zenon DEF r

\* What the models of poll_once(), recover_once() and run_batch() make of a scheduler.
Fit(s) == s \in Scheds /\ Round(s) /\ Queues(s)

LEMMA MovedFits ==
  ASSUME NEW s, Fit(s), NEW pc \in {"idle", "read", "run", "wait"}, NEW w \in SUBSET Tasks
  PROVE  /\ Fit([s EXCEPT !.pc = pc, !.waits = w]) /\ Fit([s EXCEPT !.pc = pc])
         /\ \A d : /\ Holds([s EXCEPT !.pc = pc, !.waits = w], d) <=> Holds(s, d)
                   /\ Holds([s EXCEPT !.pc = pc], d) <=> Holds(s, d)
<1>1. ASSUME NEW r \in Scheds, r.queues = s.queues, r.order = s.order, r.served = s.served
      PROVE  Fit(r) /\ \A d : Holds(r, d) <=> Holds(s, d)
  BY <1>1, Zenon DEF Fit, Round, Queues, Holds
<1> DEFINE r1 == [s EXCEPT !.pc = pc, !.waits = w]
           r2 == [s EXCEPT !.pc = pc]
<1>2. r1 \in Scheds /\ r1.queues = s.queues /\ r1.order = s.order /\ r1.served = s.served
  BY Zenon DEF Fit, Scheds
<1>3. r2 \in Scheds /\ r2.queues = s.queues /\ r2.order = s.order /\ r2.served = s.served
  BY Zenon DEF Fit, Scheds
<1> HIDE DEF r1, r2
<1>4. Fit(r1) /\ Fit(r2) /\ \A d : (Holds(r1, d) <=> Holds(s, d)) /\ (Holds(r2, d) <=> Holds(s, d))
  BY <1>1, <1>2, <1>3, Zenon
<1>5. QED
  BY <1>4, Zenon DEF r1, r2

\* A scheduler whose queues are empty.
LEMMA EmptyFits ==
  ASSUME NEW s \in Scheds, s.queues = NoQueues, s.order = <<>>
  PROVE  Fit(s) /\ \A d \in Deliveries : ~Holds(s, d)
<1>1. \A t \in Tenants : s.queues[t] = <<>>
  BY DEF NoQueues
<1>2. DOMAIN <<>> = {} /\ Len(<<>>) = 0
  OBVIOUS
<1>3. Queues(s)
  BY <1>1, <1>2, Zenon DEF Queues, IsInjective
<1>4. Round(s)
  BY <1>1, <1>2, Zenon DEF Round, IsInjective, Range
<1>5. \A d \in Deliveries : s.queues[TenantOf[d]] = <<>>
  BY <1>1, SupervisorAssumption
<1>6. \A d \in Deliveries : ~Holds(s, d)
  BY <1>2, <1>5, Zenon DEF Holds, Range
<1>7. QED
  BY <1>3, <1>4, <1>6, Zenon DEF Fit

LEMMA IdleFits ==
  /\ Fit(IdleLoop) /\ (\A d \in Deliveries : ~Holds(IdleLoop, d))
  /\ Filling([IdleLoop EXCEPT !.pc = "run"], {})
<1> DEFINE s == [IdleLoop EXCEPT !.pc = "run"]
<1>1. NoQueues \in [Tenants -> Seq(Deliveries)] /\ <<>> \in Seq(Tenants)
  BY DEF NoQueues
<1>2. IdleLoop \in Scheds /\ IdleLoop.queues = NoQueues /\ IdleLoop.order = <<>>
  BY <1>1 DEF IdleLoop, Scheds
<1>3. s \in Scheds /\ s.queues = NoQueues /\ s.order = <<>> /\ s.served = [t \in Tenants |-> 0]
  BY <1>1, Zenon DEF IdleLoop, Scheds
<1> HIDE DEF s
<1>4. \A t \in Tenants : Range(s.queues[t]) = {}
  <2>1. DOMAIN <<>> = {} /\ \A t \in Tenants : s.queues[t] = <<>>
    BY <1>3 DEF NoQueues
  <2>2. QED
    BY <2>1, Zenon DEF Range
<1>5. Filling(s, {})
  BY <1>3, <1>4, EmptyFits, Zenon DEF Filling, Fit
<1>6. QED
  BY <1>2, <1>5, EmptyFits DEF s

LEMMA DroppedFits ==
  ASSUME NEW s, Fit(s)
  PROVE  LET r == [s EXCEPT !.queues = NoQueues, !.order = <<>>] IN
         Fit(r) /\ \A d \in Deliveries : ~Holds(r, d)
<1> DEFINE r == [s EXCEPT !.queues = NoQueues, !.order = <<>>]
<1>1. NoQueues \in [Tenants -> Seq(Deliveries)] /\ <<>> \in Seq(Tenants)
  BY DEF NoQueues
<1>2. r \in Scheds /\ r.queues = NoQueues /\ r.order = <<>>
  BY <1>1, Zenon DEF Fit, Scheds
<1> HIDE DEF r
<1>3. Fit(r) /\ \A d \in Deliveries : ~Holds(r, d)
  BY <1>2, EmptyFits
<1>4. QED
  BY <1>3 DEF r

LEMMA FilledFits ==
  ASSUME NEW S \in SUBSET Deliveries, NEW s, Filling(s, S)
  PROVE  Fit(s) /\ \A d \in Deliveries : Holds(s, d) => d \in S
<1>1. s \in Scheds /\ Fit(s)
  BY DEF Filling, Fit
<1>2. s.queues \in [Tenants -> Seq(Deliveries)]
  BY <1>1 DEF Scheds
<1>3. \A d \in Deliveries : TenantOf[d] \in Tenants /\ s.queues[TenantOf[d]] \in Seq(Deliveries)
  BY <1>2, SupervisorAssumption
<1>4. \A d \in Deliveries : Holds(s, d) => d \in Range(s.queues[TenantOf[d]])
  BY DEF Holds
<1>5. QED
  BY <1>1, <1>3, <1>4 DEF Filling

-----------------------------------------------------------------------------
(* The inductive invariant.                                                *)

Running == {k \in Tasks : task[k] = "running"}

\* self._active has every running task and no more than max_concurrency.
Tracked ==
  /\ task \in [Tasks -> {"none", "running", "ended", "raised"}]
  /\ Running \subseteq active
  /\ IsFiniteSet(active) /\ Cardinality(active) <= MaxConcurrency

\* From the call of drain() on, whatever still runs is what it waits for.
Draining ==
  /\ draining \/ drain = NoDrain
  /\ drain.result = "waiting" => Running \subseteq drain.waits
  /\ drain.result = "drained" => Running = {}

SupervisorInv == Tracked /\ Draining

LEMMA NoDrainFields == NoDrain.result = "none"
  BY DEF NoDrain

LEMMA SupervisorInit == Init => SupervisorInv
<1> SUFFICES ASSUME Init PROVE SupervisorInv
  OBVIOUS
<1>1. task \in [Tasks -> {"none", "running", "ended", "raised"}] /\ Running = {}
  BY DEF Init, Running
<1>2. IsFiniteSet(active) /\ Cardinality(active) = 0
  BY FS_EmptySet DEF Init
<1>3. Tracked
  BY <1>1, <1>2, SupervisorAssumption DEF Tracked
<1>4. QED
  BY <1>1, <1>3, NoDrainFields DEF Init, SupervisorInv, Draining

-----------------------------------------------------------------------------
(* The steps.                                                              *)

\* Steps of a loop that neither start nor reap a task.
LEMMA LoopKeeps ==
  ASSUME SupervisorInv, UNCHANGED <<task, active, draining, drain>>
  PROVE  SupervisorInv'
<1>1. Running' = Running
  BY DEF Running, Tasks
<1>2. QED
  BY <1>1 DEF SupervisorInv, Tracked, Draining, NoDrain, Tasks

\* run_batch() starts a task: there is room, and no drain has begun.
LEMMA StartKeeps ==
  ASSUME SupervisorInv, NEW k, ~Full, ~draining, task' = [task EXCEPT ![k] = "running"],
         active' = active \cup {k}, UNCHANGED <<draining, drain>>
  PROVE  SupervisorInv'
<1>1. task \in [Tasks -> {"none", "running", "ended", "raised"}] /\ Running \subseteq active
      /\ IsFiniteSet(active)
  BY DEF SupervisorInv, Tracked
<1>2. task' \in [Tasks -> {"none", "running", "ended", "raised"}] /\ Running' \subseteq Running \cup {k}
  BY <1>1, Zenon DEF Running, Tasks
<1>3. Cardinality(active) \in Nat /\ Cardinality(active) < MaxConcurrency
  BY <1>1, FS_CardinalityType, SupervisorAssumption DEF Full
<1>4. IsFiniteSet(active') /\ Cardinality(active') <= Cardinality(active) + 1 /\ Cardinality(active') \in Nat
  <2>1. IsFiniteSet(active \cup {k})
        /\ Cardinality(active \cup {k}) = IF k \in active THEN Cardinality(active) ELSE Cardinality(active) + 1
    BY <1>1, FS_AddElement, Zenon
  <2>2. QED
    BY <1>3, <2>1
<1>5. Tracked'
  BY <1>1, <1>2, <1>3, <1>4, SupervisorAssumption DEF Tracked, Tasks
<1>6. drain' = NoDrain
  BY DEF SupervisorInv, Draining
<1>7. QED
  BY <1>5, <1>6, NoDrainFields DEF SupervisorInv, Draining, NoDrain

\* A task ends.
LEMMA EndKeeps ==
  ASSUME SupervisorInv, NEW k \in Tasks, NEW end \in {"ended", "raised"},
         task' = [task EXCEPT ![k] = end], UNCHANGED <<active, draining, drain>>
  PROVE  SupervisorInv'
<1>1. task \in [Tasks -> {"none", "running", "ended", "raised"}]
  BY DEF SupervisorInv, Tracked
<1>2. task' \in [Tasks -> {"none", "running", "ended", "raised"}] /\ Running' \subseteq Running
  BY <1>1 DEF Running, Tasks
<1>3. QED
  BY <1>2 DEF SupervisorInv, Tracked, Draining, NoDrain, Tasks

\* _wait_one() reaps tasks that have ended, whichever loop started them.
LEMMA WakeKeeps ==
  ASSUME SupervisorInv, NEW l \in Loops, Wake(l)
  PROVE  SupervisorInv'
<1>1. active' = active \ Reaped(l) /\ UNCHANGED <<task, draining, drain>>
  BY DEF Wake
<1>2. Running' = Running /\ Running \cap Reaped(l) = {}
  BY <1>1 DEF Running, Reaped, Finished, Tasks
<1>3. IsFiniteSet(active) /\ Cardinality(active) \in Nat /\ Cardinality(active) <= MaxConcurrency
  BY FS_CardinalityType DEF SupervisorInv, Tracked
<1>4. IsFiniteSet(active') /\ Cardinality(active') \in Nat /\ Cardinality(active') <= Cardinality(active)
  BY <1>1, <1>3, FS_Subset, FS_CardinalityType
<1>5. Cardinality(active') <= MaxConcurrency
  BY <1>3, <1>4, SupervisorAssumption
<1>6. QED
  BY <1>1, <1>2, <1>4, <1>5 DEF SupervisorInv, Tracked, Draining, NoDrain, Tasks

LEMMA DrainKeeps ==
  ASSUME SupervisorInv, StartDrain \/ EndDrain
  PROVE  SupervisorInv'
<1>1. UNCHANGED <<task, active>>
  BY DEF StartDrain, EndDrain
<1>2. Running' = Running /\ Tracked'
  BY <1>1 DEF SupervisorInv, Tracked, Running, Tasks
<1>3. CASE StartDrain
  <2>1. draining' /\ Running \subseteq active
    BY <1>3 DEF StartDrain, SupervisorInv, Tracked
  <2>2. CASE active = {}
    BY <1>2, <1>3, <2>1, <2>2 DEF StartDrain, SupervisorInv, Draining
  <2>3. CASE active # {}
    BY <1>2, <1>3, <2>1, <2>3 DEF StartDrain, SupervisorInv, Draining
  <2>4. QED
    BY <2>2, <2>3
<1>4. CASE EndDrain
  <2>1. draining' /\ Running \subseteq drain.waits
    BY <1>4, NoDrainFields DEF EndDrain, SupervisorInv, Draining
  <2>2. drain.waits = Finished(drain.waits) => Running = {}
    BY <2>1 DEF Finished, Running
  <2>3. CASE drain.waits = Finished(drain.waits)
    BY <1>2, <1>4, <2>1, <2>2, <2>3 DEF EndDrain, SupervisorInv, Draining
  <2>4. CASE drain.waits # Finished(drain.waits)
    BY <1>2, <1>4, <2>1, <2>4 DEF EndDrain, SupervisorInv, Draining
  <2>5. QED
    BY <2>3, <2>4
<1>5. QED
  BY <1>3, <1>4

LEMMA SupervisorStep == SupervisorInv /\ [Next]_vars => SupervisorInv'
<1> SUFFICES ASSUME SupervisorInv, [Next]_vars PROVE SupervisorInv'
  OBVIOUS
<1>1. ASSUME NEW l \in Loops, Call(l) \/ Finish(l)
      PROVE  SupervisorInv'
  BY <1>1, LoopKeeps, Zenon DEF Call, Finish, WaitOne
<1>2. ASSUME NEW l \in Loops, Schedule(l)
      PROVE  SupervisorInv'
  <2>1. CASE UNCHANGED <<task, active, draining, drain>>
    BY <2>1, LoopKeeps
  <2>2. CASE ~UNCHANGED <<task, active, draining, drain>>
    <3>1. /\ ~Full /\ ~draining /\ UNCHANGED <<draining, drain>>
          /\ \E k : task' = [task EXCEPT ![k] = "running"] /\ active' = active \cup {k}
      BY <1>2, <2>2, Zenon DEF Schedule, WaitOne, Stops
    <3>2. QED
      BY <3>1, StartKeeps, Zenon
  <2>3. QED
    BY <2>1, <2>2
<1>3. ASSUME NEW l \in Loops, Wake(l)
      PROVE  SupervisorInv'
  BY <1>3, WakeKeeps
<1>4. CASE Read \/ Reclaim
  BY <1>4, LoopKeeps, Zenon DEF Read, Reclaim
<1>5. ASSUME NEW k \in Tasks, Acknowledge(k) \/ LeavePending(k)
      PROVE  SupervisorInv'
  BY <1>5, EndKeeps, Zenon DEF Acknowledge, LeavePending
<1>6. CASE StartDrain \/ EndDrain
  BY <1>6, DrainKeeps
<1>7. CASE UNCHANGED vars
  BY <1>7, LoopKeeps DEF vars
<1>8. QED
  BY <1>1, <1>2, <1>3, <1>4, <1>5, <1>6, <1>7, Zenon DEF Next

-----------------------------------------------------------------------------
(* How often an entry is started.                                          *)

Queued(l, d) == IF Holds(loop[l], d) THEN 1 ELSE 0

\* The tasks started for an entry, and those its places in the queues will start.
Load(d) == Runs(d) + Queued(Poller, d) + Queued(Recoverer, d)

Working(d) == \E k \in Tasks : k[1] = d /\ task[k] = "running"

\* Every start but the first has cost a fault, and so has losing hold of an entry
\* that was started.
Loaded(d) ==
  /\ stream[d] = "new" => Runs(d) = 0 /\ ~InHand(d)
  /\ Load(d) <= faults + 1
  /\ stream[d] = "pending" /\ ~InHand(d) => Runs(d) <= faults

QueueInv ==
  /\ TypeOK
  /\ loop \in [Loops -> Scheds]
  /\ \A l \in Loops : Fit(loop[l])
  /\ \A d \in Deliveries : Loaded(d)

LEMMA TasksFinite == IsFiniteSet(Tasks)
<1>1. IsFiniteSet(1..(MaxFaults + 1))
  BY FS_Interval, SupervisorAssumption
<1>2. QED
  BY <1>1, FS_Product, SupervisorAssumption DEF Tasks

LEMMA RunsType == \A d : Runs(d) \in Nat /\ Runs(d)' \in Nat
<1>1. ASSUME NEW d, NEW t
      PROVE  Cardinality({k \in Tasks : k[1] = d /\ t[k] # "none"}) \in Nat
  <2>1. {k \in Tasks : k[1] = d /\ t[k] # "none"} \subseteq Tasks
    OBVIOUS
  <2>2. QED
    BY <2>1, TasksFinite, FS_Subset, FS_CardinalityType
<1>2. ASSUME NEW d PROVE Runs(d) \in Nat /\ Runs(d)' \in Nat
  <2>1. Cardinality({k \in Tasks : k[1] = d /\ task[k] # "none"}) \in Nat
    BY <1>1, Zenon
  <2>2. Cardinality({k \in Tasks : k[1] = d /\ task'[k] # "none"}) \in Nat
    BY <1>1, Zenon
  <2>3. QED
    BY <2>1, <2>2, Zenon DEF Runs, Tasks
<1>3. QED
  BY <1>2, Zenon

LEMMA RunsStay ==
  ASSUME \A k \in Tasks : task'[k] = "none" <=> task[k] = "none"
  PROVE  \A d : Runs(d)' = Runs(d)
<1>1. ASSUME NEW d PROVE Runs(d)' = Runs(d)
  <2>1. {k \in Tasks : k[1] = d /\ task'[k] # "none"} = {k \in Tasks : k[1] = d /\ task[k] # "none"}
    BY Zenon
  <2>2. QED
    BY <2>1, Zenon DEF Runs, Tasks
<1>2. QED
  BY <1>1

LEMMA RunsStart ==
  ASSUME TypeOK, NEW j \in Tasks, task' = [task EXCEPT ![j] = "running"]
  PROVE  /\ Runs(j[1])' <= Runs(j[1]) + 1
         /\ \A d : d # j[1] => Runs(d)' = Runs(d)
         /\ \A d : Working(d)' <=> (Working(d) \/ d = j[1])
<1> DEFINE Started(d, t) == {k \in Tasks : k[1] = d /\ t[k] # "none"}
<1>1. task'[j] = "running" /\ \A k \in Tasks : k # j => task'[k] = task[k]
  BY DEF TypeOK
<1>2. \A d : Runs(d) = Cardinality(Started(d, task)) /\ Runs(d)' = Cardinality(Started(d, task'))
  BY Zenon DEF Runs, Tasks
<1>3. \A d : d # j[1] => Started(d, task') = Started(d, task)
  BY <1>1, Zenon
<1>4. Started(j[1], task') = Started(j[1], task) \cup {j}
  BY <1>1, Zenon
<1>5. IsFiniteSet(Started(j[1], task))
  BY TasksFinite, FS_Subset
<1>6. \A d : Working(d)' <=> (Working(d) \/ d = j[1])
  BY <1>1, Zenon DEF Working, Tasks
<1> HIDE DEF Started
<1>7. Cardinality(Started(j[1], task')) <= Cardinality(Started(j[1], task)) + 1
  <2>1. Cardinality(Started(j[1], task)) \in Nat
    BY <1>5, FS_CardinalityType
  <2>2. \/ Cardinality(Started(j[1], task) \cup {j}) = Cardinality(Started(j[1], task))
        \/ Cardinality(Started(j[1], task) \cup {j}) = Cardinality(Started(j[1], task)) + 1
    BY <1>5, FS_AddElement
  <2>3. \/ Cardinality(Started(j[1], task')) = Cardinality(Started(j[1], task))
        \/ Cardinality(Started(j[1], task')) = Cardinality(Started(j[1], task)) + 1
    BY <1>4, <2>2, Zenon
  <2>4. QED
    BY <2>1, <2>3
<1>8. QED
  BY <1>2, <1>3, <1>6, <1>7, Zenon

\* The other loop.
Other(l) == IF l = Poller THEN Recoverer ELSE Poller

LEMMA TwoLoops ==
  ASSUME NEW l \in Loops
  PROVE  /\ Other(l) \in Loops /\ Other(l) # l /\ \A m \in Loops : m = l \/ m = Other(l)
         /\ \A d : /\ Load(d) = Runs(d) + Queued(l, d) + Queued(Other(l), d)
                   /\ Load(d)' = Runs(d)' + Queued(l, d)' + Queued(Other(l), d)'
<1>1. /\ Other(l) \in Loops /\ Other(l) # l /\ \A m \in Loops : m = l \/ m = Other(l)
      /\ (l = Poller /\ Other(l) = Recoverer) \/ (l = Recoverer /\ Other(l) = Poller)
  BY SupervisorAssumption DEF Other, Loops
<1>2. \A d : /\ Queued(Poller, d) \in Nat /\ Queued(Recoverer, d) \in Nat
             /\ Queued(Poller, d)' \in Nat /\ Queued(Recoverer, d)' \in Nat
  BY DEF Queued
<1>3. \A d : /\ Load(d) = Runs(d) + Queued(l, d) + Queued(Other(l), d)
             /\ Load(d)' = Runs(d)' + Queued(l, d)' + Queued(Other(l), d)'
  <2>1. CASE l = Poller /\ Other(l) = Recoverer
    BY <2>1, Zenon DEF Load
  <2>2. CASE l = Recoverer /\ Other(l) = Poller
    BY <1>2, <2>2, RunsType DEF Load
  <2>3. QED
    BY <1>1, <2>1, <2>2
<1>4. QED
  BY <1>1, <1>3, Zenon

LEMMA InHandOf ==
  ASSUME NEW l \in Loops
  PROVE  \A d : /\ InHand(d) <=> Working(d) \/ Holds(loop[l], d) \/ Holds(loop[Other(l)], d)
                /\ InHand(d)' <=> Working(d)' \/ Holds(loop'[l], d) \/ Holds(loop'[Other(l)], d)
<1>1. Other(l) \in Loops /\ \A m \in Loops : m = l \/ m = Other(l)
  BY TwoLoops, Zenon
<1>2. \A d : /\ InHand(d) <=> Working(d) \/ \E m \in Loops : Holds(loop[m], d)
             /\ InHand(d)' <=> Working(d)' \/ \E m \in Loops : Holds(loop'[m], d)
  BY Zenon DEF InHand, Working, Holds, Tasks, Loops
<1>3. \A f, d : (\E m \in Loops : Holds(f[m], d)) <=> Holds(f[l], d) \/ Holds(f[Other(l)], d)
  BY <1>1, Zenon
<1>4. QED
  BY <1>2, <1>3, Zenon

\* An entry that is started no more often, and is held by no one who did not hold
\* it, stays within its load: it left a queue, or is in hand as before.
LEMMA LessLoad ==
  ASSUME NEW e, Loaded(e), faults \in Nat, faults' \in Nat, faults' >= faults,
         stream'[e] = stream[e], Runs(e)' = Runs(e), Runs(e) \in Nat,
         Load(e) \in Nat, Load(e)' \in Nat, Load(e)' <= Load(e), Runs(e) <= Load(e)',
         Load(e)' < Load(e) \/ (InHand(e)' <=> InHand(e)), InHand(e)' => InHand(e)
  PROVE  Loaded(e)'
<1>1. (stream[e] = "new" => Runs(e) = 0 /\ ~InHand(e))'
  BY Zenon DEF Loaded
<1>2. Load(e) <= faults + 1
  BY Zenon DEF Loaded
<1>3. (Load(e) <= faults + 1)'
  BY <1>2
<1>4. (stream[e] = "pending" /\ ~InHand(e) => Runs(e) <= faults)'
  <2>1. CASE Load(e)' < Load(e)
    <3>1. Runs(e) <= faults'
      BY <1>2, <2>1
    <3>2. QED
      BY <3>1, Zenon
  <2>2. CASE InHand(e)' <=> InHand(e)
    <3>1. stream[e] = "pending" /\ ~InHand(e) => Runs(e) <= faults
      BY Zenon DEF Loaded
    <3>2. Runs(e) <= faults => Runs(e)' <= faults'
      OBVIOUS
    <3>3. QED
      BY <2>2, <3>1, <3>2, Zenon
  <2>3. QED
    BY <2>1, <2>2
<1>5. QED
  BY <1>1, <1>3, <1>4, Zenon DEF Loaded

\* A loop takes up the entries S, or gives up some of what it holds.
LEMMA LoadMoves ==
  ASSUME QueueInv, NEW l \in Loops, NEW s, loop' = [loop EXCEPT ![l] = s],
         UNCHANGED task, faults' \in Nat, faults' >= faults,
         NEW d \in Deliveries, NEW S,
         d \notin S => stream'[d] = stream[d] /\ (Holds(s, d) => Holds(loop[l], d)),
         d \in S => /\ stream'[d] = "pending"
                    /\ stream[d] = "new" \/ (stream[d] = "pending" /\ (InHand(d) => faults' >= faults + 1))
  PROVE  Loaded(d)'
<1> DEFINE m == Other(l)
<1>1. /\ m \in Loops /\ m # l
      /\ Load(d) = Runs(d) + Queued(l, d) + Queued(m, d)
      /\ Load(d)' = Runs(d)' + Queued(l, d)' + Queued(m, d)'
  BY TwoLoops, Zenon
<1>2. /\ InHand(d) <=> Working(d) \/ Holds(loop[l], d) \/ Holds(loop[m], d)
      /\ InHand(d)' <=> Working(d)' \/ Holds(loop'[l], d) \/ Holds(loop'[m], d)
  BY InHandOf, Zenon
<1>3. loop'[l] = s /\ loop'[m] = loop[m]
  BY <1>1 DEF QueueInv
<1>4. Runs(d)' = Runs(d) /\ Runs(d) \in Nat /\ (Working(d)' <=> Working(d)) /\ faults \in Nat
  <2>1. Runs(d)' = Runs(d) /\ Runs(d) \in Nat
    BY RunsType, RunsStay, Zenon
  <2>2. Working(d)' <=> Working(d)
    BY Zenon DEF Working, Tasks
  <2>3. faults \in Nat
    BY SupervisorAssumption DEF QueueInv, TypeOK
  <2>4. QED
    BY <2>1, <2>2, <2>3
<1>5. Loaded(d)
  BY DEF QueueInv
<1> HIDE DEF m
<1>6. /\ Queued(l, d)' = IF Holds(s, d) THEN 1 ELSE 0
      /\ Queued(m, d)' = Queued(m, d)
      /\ Holds(loop'[l], d) <=> Holds(s, d)
      /\ Holds(loop'[m], d) <=> Holds(loop[m], d)
  BY <1>3 DEF Queued, Holds
<1>7. /\ Queued(l, d) = IF Holds(loop[l], d) THEN 1 ELSE 0
      /\ Queued(m, d) = IF Holds(loop[m], d) THEN 1 ELSE 0
  BY Zenon DEF Queued
<1>8. CASE d \notin S
  <2>1. stream'[d] = stream[d] /\ (Holds(s, d) => Holds(loop[l], d))
    BY <1>8
  <2>2. /\ Load(d) \in Nat /\ Load(d)' \in Nat
        /\ Load(d)' <= Load(d) /\ Runs(d) <= Load(d)'
    BY <1>1, <1>4, <1>6, <1>7, <2>1
  <2>3. Load(d)' < Load(d) \/ (Holds(s, d) <=> Holds(loop[l], d))
    BY <1>1, <1>4, <1>6, <1>7, <2>1
  <2>4. /\ InHand(d)' => InHand(d)
        /\ Load(d)' < Load(d) \/ (InHand(d)' <=> InHand(d))
    BY <1>2, <1>4, <1>6, <2>1, <2>3, Zenon
  <2>5. QED
    BY <1>4, <1>5, <2>1, <2>2, <2>4, LessLoad, Zenon
<1>9. CASE d \in S
  <2>1. /\ stream'[d] = "pending"
        /\ stream[d] = "new" \/ (stream[d] = "pending" /\ (InHand(d) => faults' >= faults + 1))
    BY <1>9
  <2>2. Load(d)' \in Nat /\ Load(d)' <= Load(d) + 1 /\ Load(d) \in Nat /\ Runs(d) <= Load(d)
    BY <1>1, <1>4, <1>6, <1>7
  <2>3. ~InHand(d) => Load(d)' <= Runs(d) + 1
    <3>1. ~InHand(d) => Queued(m, d) = 0
      BY <1>2, <1>7, Zenon
    <3>2. QED
      BY <1>1, <1>4, <1>6, <3>1
  <2>4. CASE InHand(d)
    <3>1. faults' >= faults + 1 /\ Load(d) <= faults + 1
      BY <1>5, <2>1, <2>4, Zenon DEF Loaded
    <3>2. Load(d)' <= faults' + 1 /\ Runs(d) <= faults'
      BY <1>4, <2>2, <3>1
    <3>3. QED
      BY <1>4, <2>1, <3>2 DEF Loaded
  <2>5. CASE ~InHand(d)
    <3>1. Runs(d) <= faults
      BY <1>4, <1>5, <2>1, <2>5 DEF Loaded
    <3>2. Load(d)' <= faults' + 1 /\ Runs(d) <= faults'
      BY <1>4, <2>2, <2>3, <2>5, <3>1
    <3>3. QED
      BY <1>4, <2>1, <3>2 DEF Loaded
  <2>6. QED
    BY <2>4, <2>5
<1>10. QED
  BY <1>8, <1>9

LEMMA LoopTypes ==
  ASSUME NEW f \in [Loops -> Scheds], NEW l \in Loops
  PROVE  /\ f[l] \in Scheds
         /\ f[l].pc \in {"idle", "read", "run", "wait"}
         /\ f[l].queues \in [Tenants -> Seq(Deliveries)]
         /\ f[l].order \in Seq(Tenants)
         /\ f[l].waits \subseteq Tasks
         /\ f[l].served \in [Tenants -> Nat]
<1>1. f[l] \in Scheds
  OBVIOUS
<1>2. QED
  BY <1>1 DEF Scheds

LEMMA LoopsFit ==
  ASSUME QueueInv, NEW l \in Loops, NEW s, Fit(s), loop' = [loop EXCEPT ![l] = s]
  PROVE  loop' \in [Loops -> Scheds] /\ \A m \in Loops : Fit(loop'[m])
<1>1. s \in Scheds /\ loop \in [Loops -> Scheds]
  BY DEF Fit, QueueInv
<1>2. loop' \in [Loops -> Scheds]
  BY <1>1
<1>3. \A m \in Loops : loop'[m] = IF m = l THEN s ELSE loop[m]
  BY <1>1
<1>4. QED
  BY <1>2, <1>3, Zenon DEF QueueInv

LEMMA QueueInvParts ==
  ASSUME stream' \in [Deliveries -> {"new", "pending", "gone"}],
         task' \in [Tasks -> {"none", "running", "ended", "raised"}],
         active' \subseteq {k \in Tasks : task'[k] # "none"},
         draining' \in BOOLEAN, faults' \in 0..MaxFaults,
         drain'.result \in {"none", "waiting", "drained", "timeout"}, drain'.waits \subseteq Tasks,
         loop' \in [Loops -> Scheds], \A l \in Loops : Fit(loop'[l]),
         \A d \in Deliveries : Loaded(d)'
  PROVE  QueueInv'
<1>1. \A l \in Loops : /\ loop'[l].pc \in {"idle", "read", "run", "wait"}
                       /\ loop'[l].queues \in [Tenants -> Seq(Deliveries)]
                       /\ loop'[l].order \in Seq(Tenants)
                       /\ loop'[l].waits \subseteq Tasks
                       /\ loop'[l].served \in [Tenants -> Nat]
  BY LoopTypes
<1>2. TypeOK'
  BY <1>1, Zenon DEF TypeOK, Tasks, Loops
<1>3. QED
  BY <1>2, Zenon DEF QueueInv, Loops, Scheds, Fit, Tasks, Queues, Round

\* A step of a loop that starts no task: it takes up the entries S, or gives up
\* some of what it holds.
LEMMA MoveKeeps ==
  ASSUME QueueInv, NEW l \in Loops, NEW s, Fit(s), loop' = [loop EXCEPT ![l] = s], NEW S,
         stream' \in [Deliveries -> {"new", "pending", "gone"}],
         UNCHANGED <<task, draining, drain>>, active' \subseteq active,
         faults' \in 0..MaxFaults, faults' >= faults,
         \A d \in Deliveries : d \notin S =>
           stream'[d] = stream[d] /\ (Holds(s, d) => Holds(loop[l], d)),
         \A d \in Deliveries : d \in S =>
           /\ stream'[d] = "pending"
           /\ stream[d] = "new" \/ (stream[d] = "pending" /\ (InHand(d) => faults' >= faults + 1))
  PROVE  QueueInv'
<1>1. loop' \in [Loops -> Scheds] /\ \A m \in Loops : Fit(loop'[m])
  BY LoopsFit, Zenon
<1>2. faults' \in Nat
  BY SupervisorAssumption
<1>3. \A d \in Deliveries : Loaded(d)'
  <2>1. ASSUME NEW d \in Deliveries PROVE Loaded(d)'
    <3>1. d \notin S => stream'[d] = stream[d] /\ (Holds(s, d) => Holds(loop[l], d))
      OBVIOUS
    <3>2. d \in S =>
            /\ stream'[d] = "pending"
            /\ stream[d] = "new" \/ (stream[d] = "pending" /\ (InHand(d) => faults' >= faults + 1))
      OBVIOUS
    <3>3. QED
      BY <1>2, <3>1, <3>2, LoadMoves, Zenon
  <2>2. QED
    BY <2>1
<1>4. /\ task' \in [Tasks -> {"none", "running", "ended", "raised"}]
      /\ active' \subseteq {k \in Tasks : task'[k] # "none"}
      /\ draining' \in BOOLEAN
      /\ drain'.result \in {"none", "waiting", "drained", "timeout"} /\ drain'.waits \subseteq Tasks
  BY DEF QueueInv, TypeOK
<1>5. QED
  BY <1>1, <1>3, <1>4, QueueInvParts

\* A loop whose scheduler goes from s to r starts an entry that it held, or leaves
\* the starts of the entry alone.
LEMMA StartLoaded ==
  ASSUME NEW e, NEW l, NEW m, NEW s, NEW r, NEW h, Loaded(e),
         faults \in Nat, UNCHANGED <<stream, faults>>, Holds(r, e) => Holds(s, e),
         Runs(e) \in Nat, Runs(e)' \in Nat,
         Load(e) = Runs(e) + Queued(l, e) + Queued(m, e),
         Load(e)' = Runs(e)' + Queued(l, e)' + Queued(m, e)',
         Queued(l, e) = (IF Holds(s, e) THEN 1 ELSE 0),
         Queued(l, e)' = (IF Holds(r, e) THEN 1 ELSE 0),
         Queued(m, e)' = Queued(m, e), Queued(m, e) \in Nat,
         InHand(e) <=> Working(e) \/ Holds(s, e) \/ Holds(h, e),
         InHand(e)' <=> Working(e)' \/ Holds(r, e) \/ Holds(h, e),
         \/ Runs(e)' <= Runs(e) + 1 /\ Working(e)' /\ Holds(s, e) /\ ~Holds(r, e)
         \/ Runs(e)' = Runs(e) /\ (Working(e)' <=> Working(e))
  PROVE  Loaded(e)'
<1>1. /\ Load(e) \in Nat /\ Load(e)' \in Nat
      /\ Load(e)' <= Load(e) /\ Runs(e)' <= Load(e)'
  OBVIOUS
<1>2. CASE Runs(e)' <= Runs(e) + 1 /\ Working(e)' /\ Holds(s, e) /\ ~Holds(r, e)
  <2>1. InHand(e) /\ InHand(e)' /\ Load(e) <= faults + 1 /\ stream[e] # "new"
    BY <1>2, Zenon DEF Loaded
  <2>2. (Load(e) <= faults + 1)'
    BY <1>1, <2>1
  <2>3. QED
    BY <2>1, <2>2, Zenon DEF Loaded
<1>3. CASE Runs(e)' = Runs(e) /\ (Working(e)' <=> Working(e))
  <2>1. Load(e)' < Load(e) \/ (Holds(r, e) <=> Holds(s, e))
    BY <1>3
  <2>2. Load(e)' < Load(e) \/ (InHand(e)' <=> InHand(e))
    BY <1>3, <2>1, Zenon
  <2>3. InHand(e)' => InHand(e)
    BY <1>3, Zenon
  <2>4. stream'[e] = stream[e] /\ faults' \in Nat /\ faults' >= faults /\ Runs(e) <= Load(e)'
    BY <1>1, <1>3
  <2>5. QED
    BY <1>1, <1>3, <2>2, <2>3, <2>4, LessLoad, Zenon
<1>4. QED
  BY <1>2, <1>3

LEMMA StartLoads ==
  ASSUME QueueInv, NEW l \in Loops, loop[l].order # <<>>,
         NEW d, d = Popped(loop[l]), NEW k, k = <<d, Runs(d) + 1>>,
         loop' = [loop EXCEPT ![l] = Pop(@)], task' = [task EXCEPT ![k] = "running"],
         active' = active \cup {k}, UNCHANGED <<stream, draining, drain, faults>>
  PROVE  QueueInv'
<1> DEFINE m == Other(l)
           s == loop[l]
           r == Pop(s)
<1>1. /\ d \in Deliveries /\ Holds(s, d) /\ ~Holds(r, d) /\ Fit(r)
      /\ \A e \in Deliveries : Holds(r, e) => Holds(s, e)
  <2>1. s \in Scheds /\ Round(s) /\ Queues(s)
    BY DEF QueueInv, Fit
  <2>2. QED
    BY <2>1, PopKeeps, Zenon DEF Fit
<1>2. loop' = [loop EXCEPT ![l] = r]
  OBVIOUS
<1>3. /\ m \in Loops /\ m # l
      /\ \A e : /\ Load(e) = Runs(e) + Queued(l, e) + Queued(m, e)
                /\ Load(e)' = Runs(e)' + Queued(l, e)' + Queued(m, e)'
      /\ \A e : /\ InHand(e) <=> Working(e) \/ Holds(s, e) \/ Holds(loop[m], e)
                /\ InHand(e)' <=> Working(e)' \/ Holds(loop'[l], e) \/ Holds(loop'[m], e)
  <2>1. /\ m \in Loops /\ m # l
        /\ \A e : /\ Load(e) = Runs(e) + Queued(l, e) + Queued(m, e)
                  /\ Load(e)' = Runs(e)' + Queued(l, e)' + Queued(m, e)'
    BY TwoLoops, Zenon
  <2>2. \A e : /\ InHand(e) <=> Working(e) \/ Holds(s, e) \/ Holds(loop[m], e)
               /\ InHand(e)' <=> Working(e)' \/ Holds(loop'[l], e) \/ Holds(loop'[m], e)
    BY InHandOf, Zenon
  <2>3. QED
    BY <2>1, <2>2, Zenon
<1>4. loop'[l] = r /\ loop'[m] = loop[m]
  BY <1>2, <1>3 DEF QueueInv
<1> HIDE DEF m, r, s
<1>5. /\ \A e : Queued(l, e) = IF Holds(s, e) THEN 1 ELSE 0
      /\ \A e : Queued(l, e)' = IF Holds(r, e) THEN 1 ELSE 0
      /\ \A e : Queued(m, e)' = Queued(m, e) /\ Queued(m, e) \in Nat
  <2>1. \A e : Queued(l, e) = IF Holds(s, e) THEN 1 ELSE 0
    BY Zenon DEF Queued, s
  <2>2. \A e : Queued(l, e)' = IF Holds(r, e) THEN 1 ELSE 0
    BY <1>4 DEF Queued, Holds
  <2>3. \A e : Queued(m, e)' = Queued(m, e) /\ Queued(m, e) \in Nat
    BY <1>4 DEF Queued, Holds
  <2>4. QED
    BY <2>1, <2>2, <2>3, Zenon
<1>6. faults \in Nat /\ faults <= MaxFaults /\ MaxFaults \in Nat /\ \A e \in Deliveries : Loaded(e)
  BY SupervisorAssumption DEF QueueInv, TypeOK
<1>7. \A e : Runs(e) \in Nat /\ Runs(e)' \in Nat
  BY RunsType, Zenon
<1>8. Runs(d) + 1 <= faults + 1 /\ InHand(d)
  <2>1. Load(d) <= faults + 1 /\ Load(d) = Runs(d) + Queued(l, d) + Queued(m, d)
    BY <1>1, <1>3, <1>6, Zenon DEF Loaded
  <2>2. Queued(l, d) = 1
    BY <1>1, <1>5, Zenon
  <2>3. Queued(m, d) \in Nat /\ Runs(d) \in Nat
    BY <1>5, <1>7, Zenon
  <2>4. InHand(d)
    BY <1>1, <1>3, Zenon
  <2>5. QED
    BY <1>6, <2>1, <2>2, <2>3, <2>4
<1>9. k \in Tasks /\ k[1] = d
  <2>1. PICK n \in Nat : n = Runs(d)
    BY <1>7, Zenon
  <2>2. n + 1 \in 1..(MaxFaults + 1)
    BY <1>6, <1>8, <2>1
  <2>3. k = <<d, n + 1>>
    BY <2>1, Zenon
  <2>4. QED
    BY <1>1, <2>2, <2>3 DEF Tasks
<1>10. /\ Runs(d)' <= Runs(d) + 1
       /\ \A e : e # d => Runs(e)' = Runs(e)
       /\ \A e : Working(e)' <=> (Working(e) \/ e = d)
  <2>1. TypeOK
    BY DEF QueueInv
  <2>2. QED
    BY <1>9, <2>1, RunsStart, Zenon
<1>11. ASSUME NEW e \in Deliveries PROVE Loaded(e)'
  <2>1. Loaded(e) /\ (Holds(r, e) => Holds(s, e))
    BY <1>1, <1>6
  <2>2. /\ Load(e) = Runs(e) + Queued(l, e) + Queued(m, e)
        /\ Load(e)' = Runs(e)' + Queued(l, e)' + Queued(m, e)'
    BY <1>3, Zenon
  <2>3. /\ Queued(l, e) = IF Holds(s, e) THEN 1 ELSE 0
        /\ Queued(l, e)' = IF Holds(r, e) THEN 1 ELSE 0
        /\ Queued(m, e)' = Queued(m, e) /\ Queued(m, e) \in Nat
    BY <1>5, Zenon
  <2>4. /\ InHand(e) <=> Working(e) \/ Holds(s, e) \/ Holds(loop[m], e)
        /\ InHand(e)' <=> Working(e)' \/ Holds(r, e) \/ Holds(loop[m], e)
    BY <1>3, <1>4, Zenon
  <2>5. CASE e = d
    <3>1. Runs(e)' <= Runs(e) + 1 /\ Working(e)' /\ Holds(s, e) /\ ~Holds(r, e)
      BY <1>1, <1>10, <2>5, Zenon
    <3>2. QED
      BY <1>6, <1>7, <2>1, <2>2, <2>3, <2>4, <3>1, StartLoaded, Zenon
  <2>6. CASE e # d
    <3>1. Runs(e)' = Runs(e) /\ (Working(e)' <=> Working(e))
      BY <1>10, <2>6, Zenon
    <3>2. QED
      BY <1>6, <1>7, <2>1, <2>2, <2>3, <2>4, <3>1, StartLoaded, Zenon
  <2>7. QED
    BY <2>5, <2>6
<1>12. loop' \in [Loops -> Scheds] /\ \A n \in Loops : Fit(loop'[n])
  BY <1>1, <1>2, LoopsFit, Zenon
<1>13. /\ task' \in [Tasks -> {"none", "running", "ended", "raised"}]
       /\ active' \subseteq {j \in Tasks : task'[j] # "none"}
  <2>1. /\ task \in [Tasks -> {"none", "running", "ended", "raised"}]
        /\ active \subseteq {j \in Tasks : task[j] # "none"} /\ k \in Tasks
    BY <1>9 DEF QueueInv, TypeOK
  <2>2. task' \in [Tasks -> {"none", "running", "ended", "raised"}]
    BY <2>1, Zenon
  <2>3. \A j \in Tasks : task'[j] = IF j = k THEN "running" ELSE task[j]
    BY <2>1, Zenon
  <2>4. active' \subseteq {j \in Tasks : task'[j] # "none"}
    BY <2>1, <2>3
  <2>5. QED
    BY <2>2, <2>4
<1>14. /\ stream' \in [Deliveries -> {"new", "pending", "gone"}]
       /\ draining' \in BOOLEAN /\ faults' \in 0..MaxFaults
       /\ drain'.result \in {"none", "waiting", "drained", "timeout"} /\ drain'.waits \subseteq Tasks
  BY DEF QueueInv, TypeOK
<1>15. QED
  BY <1>11, <1>12, <1>13, <1>14, QueueInvParts

\* A task ends, with its entry gone or at the cost of a fault.
LEMMA EndLoads ==
  ASSUME QueueInv, NEW k \in Tasks, NEW end \in {"ended", "raised"}, task[k] = "running",
         task' = [task EXCEPT ![k] = end], UNCHANGED <<active, loop, draining, drain>>,
         \/ stream' = [stream EXCEPT ![k[1]] = "gone"] /\ UNCHANGED faults
         \/ UNCHANGED stream /\ faults < MaxFaults /\ faults' = faults + 1
  PROVE  QueueInv'
<1>1. k[1] \in Deliveries
  BY DEF Tasks
<1>2. /\ stream \in [Deliveries -> {"new", "pending", "gone"}]
      /\ task \in [Tasks -> {"none", "running", "ended", "raised"}]
      /\ active \subseteq {j \in Tasks : task[j] # "none"}
      /\ faults \in Nat /\ faults <= MaxFaults /\ MaxFaults \in Nat
  BY SupervisorAssumption DEF QueueInv, TypeOK
<1>3. /\ stream' \in [Deliveries -> {"new", "pending", "gone"}]
      /\ task' \in [Tasks -> {"none", "running", "ended", "raised"}]
  BY <1>1, <1>2, Zenon
<1>4. \A j \in Tasks : task'[j] = IF j = k THEN end ELSE task[j]
  BY <1>2, Zenon
<1>5. active' \subseteq {j \in Tasks : task'[j] # "none"}
  BY <1>2, <1>4
<1>6. faults' \in 0..MaxFaults /\ faults' \in Nat /\ faults' >= faults
  BY <1>2
<1>7. \A d : Runs(d)' = Runs(d) /\ Runs(d) \in Nat
  <2>1. \A j \in Tasks : task'[j] = "none" <=> task[j] = "none"
    BY <1>4
  <2>2. QED
    BY <2>1, RunsStay, RunsType, Zenon
<1>8. ASSUME NEW d \in Deliveries PROVE Loaded(d)'
  <2>1. Loaded(d)
    BY DEF QueueInv
  <2>2. Load(d)' = Load(d) /\ Load(d) \in Nat /\ Runs(d) <= Load(d)
    <3>1. /\ Queued(Poller, d)' = Queued(Poller, d) /\ Queued(Recoverer, d)' = Queued(Recoverer, d)
          /\ Queued(Poller, d) \in Nat /\ Queued(Recoverer, d) \in Nat
      BY DEF Queued, Holds
    <3>2. Runs(d)' = Runs(d) /\ Runs(d) \in Nat
      BY <1>7, Zenon
    <3>3. QED
      BY <3>1, <3>2 DEF Load
  <2>3. Runs(d)' = Runs(d) /\ Runs(d) \in Nat
    BY <1>7, Zenon
  <2>4. CASE d = k[1]
    <3>1. InHand(d)
      BY <2>4, Zenon DEF InHand
    <3>2. stream[d] # "new"
      BY <2>1, <3>1 DEF Loaded
    <3>3. \/ stream'[d] = "gone"
          \/ stream'[d] = stream[d] /\ faults' = faults + 1
      BY <1>1, <1>2, <2>4
    <3>4. QED
      BY <1>2, <1>6, <2>1, <2>2, <2>3, <3>2, <3>3 DEF Loaded
  <2>5. CASE d # k[1]
    <3>1. stream'[d] = stream[d]
      BY <1>1, <1>2, <2>5
    <3>2. InHand(d)' <=> InHand(d)
      <4>1. \A j \in Tasks : j[1] = d => task'[j] = task[j]
        BY <1>4, <2>5
      <4>2. QED
        BY <4>1, Zenon DEF InHand, Tasks, Loops
    <3>3. QED
      BY <1>2, <1>6, <2>1, <2>2, <2>3, <3>1, <3>2 DEF Loaded
  <2>6. QED
    BY <2>4, <2>5
<1>9. /\ loop' \in [Loops -> Scheds] /\ \A l \in Loops : Fit(loop'[l])
      /\ draining' \in BOOLEAN
      /\ drain'.result \in {"none", "waiting", "drained", "timeout"} /\ drain'.waits \subseteq Tasks
  BY DEF QueueInv, TypeOK
<1>10. QED
  BY <1>3, <1>5, <1>6, <1>8, <1>9, QueueInvParts

\* Steps that leave the entries and the queues alone.
LEMMA RestKeeps ==
  ASSUME QueueInv, UNCHANGED <<stream, task, active, loop, faults>>, draining' \in BOOLEAN,
         drain'.result \in {"none", "waiting", "drained", "timeout"}, drain'.waits \subseteq Tasks
  PROVE  QueueInv'
<1>1. ASSUME NEW d \in Deliveries PROVE Loaded(d)'
  <2>1. Loaded(d)
    BY DEF QueueInv
  <2>2. Loaded(d)' <=> Loaded(d)
    BY Zenon DEF Loaded, Load, Queued, Holds, Runs, InHand, Tasks, Loops
  <2>3. QED
    BY <2>1, <2>2
<1>2. /\ stream' \in [Deliveries -> {"new", "pending", "gone"}]
      /\ task' \in [Tasks -> {"none", "running", "ended", "raised"}]
      /\ active' \subseteq {k \in Tasks : task'[k] # "none"}
      /\ faults' \in 0..MaxFaults
      /\ loop' \in [Loops -> Scheds] /\ \A l \in Loops : Fit(loop'[l])
  BY DEF QueueInv, TypeOK
<1>3. QED
  BY <1>1, <1>2, QueueInvParts

LEMMA QueueInit == Init => QueueInv
<1> SUFFICES ASSUME Init PROVE QueueInv
  OBVIOUS
<1>1. Fit(IdleLoop) /\ IdleLoop \in Scheds /\ \A d \in Deliveries : ~Holds(IdleLoop, d)
  BY IdleFits DEF Fit
<1>2. loop \in [Loops -> Scheds] /\ \A l \in Loops : loop[l] = IdleLoop
  BY <1>1 DEF Init
<1>3. \A l \in Loops : Fit(loop[l])
  BY <1>1, <1>2, Zenon
<1>4. ASSUME NEW d \in Deliveries PROVE Loaded(d)
  <2>1. {k \in Tasks : k[1] = d /\ task[k] # "none"} = {}
    BY DEF Init
  <2>2. Runs(d) = 0
    BY <2>1, FS_EmptySet, Zenon DEF Runs
  <2>3. Poller \in Loops /\ Recoverer \in Loops
    BY DEF Loops
  <2>4. ~Holds(loop[Poller], d) /\ ~Holds(loop[Recoverer], d)
    BY <1>1, <1>2, <2>3, Zenon
  <2>5. Queued(Poller, d) = 0 /\ Queued(Recoverer, d) = 0
    BY <2>4 DEF Queued
  <2>6. stream[d] = "new" /\ faults = 0
    BY DEF Init
  <2>7. ~InHand(d)
    <3>1. \A k \in Tasks : task[k] # "running"
      BY DEF Init
    <3>2. \A l \in Loops : ~Holds(loop[l], d)
      BY <1>1, <1>2, Zenon
    <3>3. QED
      BY <3>1, <3>2, Zenon DEF InHand, Holds
  <2>8. QED
    BY <2>2, <2>5, <2>6, <2>7 DEF Loaded, Load
<1>5. TypeOK
  <2>1. \A l \in Loops : /\ loop[l].pc \in {"idle", "read", "run", "wait"}
                         /\ loop[l].queues \in [Tenants -> Seq(Deliveries)]
                         /\ loop[l].order \in Seq(Tenants)
                         /\ loop[l].waits \subseteq Tasks
                         /\ loop[l].served \in [Tenants -> Nat]
    BY <1>2, LoopTypes
  <2>2. /\ stream \in [Deliveries -> {"new", "pending", "gone"}]
        /\ task \in [Tasks -> {"none", "running", "ended", "raised"}]
        /\ active = {} /\ draining \in BOOLEAN
    BY Zenon DEF Init
  <2>3. /\ drain.result \in {"none", "waiting", "drained", "timeout"} /\ drain.waits \subseteq Tasks
        /\ faults \in 0..MaxFaults
    BY SupervisorAssumption DEF Init, NoDrain
  <2>4. active \subseteq {k \in Tasks : task[k] # "none"}
    BY <2>2
  <2>5. QED
    BY <2>1, <2>2, <2>3, <2>4, Zenon DEF TypeOK
<1>6. QED
  BY <1>2, <1>3, <1>4, <1>5, Zenon DEF QueueInv

\* The scheduler of a batch that was read.
LEMMA BatchStarts ==
  ASSUME NEW l \in Loops, NEW S \in SUBSET Deliveries, NEW batch \in Injection(1..Cardinality(S), S),
         StartBatch(l, batch)
  PROVE  \E s : /\ loop' = [loop EXCEPT ![l] = s] /\ Fit(s)
                /\ \A d \in Deliveries : Holds(s, d) => d \in S
<1>1. CASE draining
  BY <1>1, IdleFits, Zenon DEF StartBatch
<1>2. CASE ~draining
  <2> DEFINE s == AddAll([IdleLoop EXCEPT !.pc = "run"], batch)
  <2>1. Filling(s, S)
    BY IdleFits, BatchFills, Zenon
  <2>2. loop' = [loop EXCEPT ![l] = s]
    BY <1>2, Zenon DEF StartBatch
  <2> HIDE DEF s
  <2>3. QED
    BY <2>1, <2>2, FilledFits, Zenon
<1>3. QED
  BY <1>1, <1>2

LEMMA ReadKeeps ==
  ASSUME QueueInv, Read
  PROVE  QueueInv'
<1>1. PICK S \in SUBSET {d \in Deliveries : stream[d] = "new"} :
        /\ stream' = [d \in Deliveries |-> IF d \in S THEN "pending" ELSE stream[d]]
        /\ \E batch \in Injection(1..Cardinality(S), S) : StartBatch(Poller, batch)
  BY DEF Read
<1>2. S \in SUBSET Deliveries /\ Poller \in Loops /\ \A d \in S : stream[d] = "new"
  BY DEF Loops
<1>3. PICK s : /\ loop' = [loop EXCEPT ![Poller] = s] /\ Fit(s)
               /\ \A d \in Deliveries : Holds(s, d) => d \in S
  BY <1>1, <1>2, BatchStarts
<1>4. /\ stream' \in [Deliveries -> {"new", "pending", "gone"}]
      /\ \A d \in Deliveries : stream'[d] = IF d \in S THEN "pending" ELSE stream[d]
  BY <1>1 DEF QueueInv, TypeOK
<1>5. /\ UNCHANGED <<task, active, draining, drain, faults>>
      /\ faults' \in 0..MaxFaults /\ faults' >= faults
  <2>1. UNCHANGED <<task, active, draining, drain, faults>>
    BY Zenon DEF Read
  <2>2. faults \in 0..MaxFaults
    BY Zenon DEF QueueInv, TypeOK
  <2>3. QED
    BY <2>1, <2>2, SupervisorAssumption
<1>6. QED
  BY <1>2, <1>3, <1>4, <1>5, MoveKeeps, Zenon

LEMMA ReclaimKeeps ==
  ASSUME QueueInv, Reclaim
  PROVE  QueueInv'
<1>1. PICK S \in SUBSET {d \in Deliveries : stream[d] = "pending"} :
        /\ faults + Cardinality({d \in S : InHand(d)}) <= MaxFaults
        /\ faults' = faults + Cardinality({d \in S : InHand(d)})
        /\ \E batch \in Injection(1..Cardinality(S), S) : StartBatch(Recoverer, batch)
  BY Zenon DEF Reclaim
<1> DEFINE C == Cardinality({d \in S : InHand(d)})
<1>2. S \in SUBSET Deliveries /\ Recoverer \in Loops /\ \A d \in S : stream[d] = "pending"
  BY DEF Loops
<1>3. PICK s : /\ loop' = [loop EXCEPT ![Recoverer] = s] /\ Fit(s)
               /\ \A d \in Deliveries : Holds(s, d) => d \in S
  BY <1>1, <1>2, BatchStarts
<1>4. IsFiniteSet({d \in S : InHand(d)}) /\ C \in Nat
  BY <1>2, FS_Subset, FS_CardinalityType, SupervisorAssumption
<1>5. \A d \in S : InHand(d) => C >= 1
  <2>1. ASSUME NEW d \in S, InHand(d) PROVE C # 0
    BY <1>4, <2>1, FS_EmptySet
  <2>2. QED
    BY <1>4, <2>1
<1>6. UNCHANGED <<stream, task, active, draining, drain>>
  BY DEF Reclaim
<1>7. /\ faults \in Nat /\ MaxFaults \in Nat /\ stream \in [Deliveries -> {"new", "pending", "gone"}]
  BY SupervisorAssumption DEF QueueInv, TypeOK
<1> HIDE DEF C
<1>8. /\ faults' \in 0..MaxFaults /\ faults' >= faults
      /\ \A d \in S : InHand(d) => faults' >= faults + 1
  <2>1. faults' = faults + C /\ faults + C <= MaxFaults
    BY <1>1, Zenon DEF C
  <2>2. QED
    BY <1>4, <1>5, <1>7, <2>1
<1>9. QED
  BY <1>2, <1>3, <1>6, <1>7, <1>8, MoveKeeps, Zenon

\* The steps of run_batch().
LEMMA RunKeeps ==
  ASSUME QueueInv, NEW l \in Loops, Call(l) \/ Schedule(l) \/ Finish(l) \/ Wake(l)
  PROVE  QueueInv'
<1>1. /\ Fit(loop[l]) /\ loop \in [Loops -> Scheds] /\ stream \in [Deliveries -> {"new", "pending", "gone"}]
      /\ active \subseteq Tasks /\ faults \in 0..MaxFaults /\ faults \in Nat
  BY SupervisorAssumption DEF QueueInv, TypeOK
<1>2. ASSUME NEW s, Fit(s), loop' = [loop EXCEPT ![l] = s], active' \subseteq active,
             \A d \in Deliveries : Holds(s, d) => Holds(loop[l], d),
             UNCHANGED <<stream, task, draining, drain, faults>>
      PROVE  QueueInv'
  <2>1. faults' \in 0..MaxFaults /\ faults' >= faults
    BY <1>1, <1>2
  <2>2. PICK S : S = {}
    BY Zenon
  <2>3. /\ \A d \in Deliveries : d \notin S => stream'[d] = stream[d] /\ (Holds(s, d) => Holds(loop[l], d))
        /\ \A d \in Deliveries : d \notin S
    BY <1>2, <2>2
  <2>4. /\ stream' \in [Deliveries -> {"new", "pending", "gone"}]
        /\ UNCHANGED <<task, draining, drain>>
    BY <1>1, <1>2
  <2>5. QED
    BY <1>2, <2>1, <2>3, <2>4, MoveKeeps, Zenon
<1>3. ASSUME NEW pc \in {"idle", "read", "run", "wait"}, NEW w \in SUBSET Tasks,
             \/ loop' = [loop EXCEPT ![l] = [loop[l] EXCEPT !.pc = pc, !.waits = w]]
             \/ loop' = [loop EXCEPT ![l] = [loop[l] EXCEPT !.pc = pc]],
             active' \subseteq active, UNCHANGED <<stream, task, draining, drain, faults>>
      PROVE  QueueInv'
  <2>1. \A s : s = loop[l] => /\ Fit([s EXCEPT !.pc = pc, !.waits = w]) /\ Fit([s EXCEPT !.pc = pc])
                              /\ \A d : /\ Holds([s EXCEPT !.pc = pc, !.waits = w], d) <=> Holds(s, d)
                                        /\ Holds([s EXCEPT !.pc = pc], d) <=> Holds(s, d)
    BY <1>1, MovedFits, Zenon
  <2>2. PICK s : /\ loop' = [loop EXCEPT ![l] = s] /\ Fit(s)
                 /\ \A d \in Deliveries : Holds(s, d) => Holds(loop[l], d)
    BY <1>3, <2>1, Zenon
  <2>3. QED
    BY <1>2, <1>3, <2>2, Zenon
<1>4. ASSUME WaitOne(l) PROVE QueueInv'
  <2>1. /\ loop' = [loop EXCEPT ![l] = [loop[l] EXCEPT !.pc = "wait", !.waits = active]]
        /\ UNCHANGED <<stream, task, active, draining, drain, faults>>
    BY <1>1, <1>4, Zenon DEF WaitOne
  <2>2. QED
    BY <1>1, <1>3, <2>1, Zenon
<1>5. ASSUME loop' = [loop EXCEPT ![l] = IdleLoop], active' \subseteq active,
             UNCHANGED <<stream, task, draining, drain, faults>>
      PROVE  QueueInv'
  BY <1>2, <1>5, IdleFits, Zenon
<1>6. CASE Call(l)
  <2>1. /\ loop' = [loop EXCEPT ![l] = [loop[l] EXCEPT !.pc = "read"]]
        /\ UNCHANGED <<stream, task, active, draining, drain, faults>>
    BY <1>6 DEF Call
  <2>2. QED
    BY <1>3, <2>1, Zenon
<1>7. CASE Schedule(l)
  <2>1. CASE WaitOne(l)
    BY <1>4, <2>1
  <2>2. CASE /\ loop' = [loop EXCEPT ![l].queues = NoQueues, ![l].order = <<>>]
             /\ UNCHANGED <<stream, task, active, draining, drain, faults>>
    <3> DEFINE s == [loop[l] EXCEPT !.queues = NoQueues, !.order = <<>>]
    <3>1. Fit(s) /\ \A d \in Deliveries : ~Holds(s, d)
      BY <1>1, DroppedFits, Zenon
    <3>2. loop' = [loop EXCEPT ![l] = s]
      BY <1>1, <2>2, Zenon
    <3> HIDE DEF s
    <3>3. QED
      BY <1>2, <2>2, <3>1, <3>2, Zenon
  <2>3. CASE LET d == Popped(loop[l])
                 k == <<d, Runs(d) + 1>> IN
             /\ loop' = [loop EXCEPT ![l] = Pop(@)]
             /\ task' = [task EXCEPT ![k] = "running"]
             /\ active' = active \cup {k}
             /\ UNCHANGED <<stream, draining, drain, faults>>
    <3>1. loop[l].order # <<>>
      BY <1>7, Zenon DEF Schedule
    <3>2. QED
      BY <2>3, <3>1, StartLoads, Zenon
  <2>4. QED
    BY <1>7, <2>1, <2>2, <2>3, Zenon DEF Schedule
<1>8. CASE Finish(l)
  <2>1. CASE WaitOne(l)
    BY <1>4, <2>1
  <2>2. CASE ~WaitOne(l)
    <3>1. /\ loop' = [loop EXCEPT ![l] = IdleLoop]
          /\ UNCHANGED <<stream, task, active, draining, drain, faults>>
      BY <1>8, <2>2, Zenon DEF Finish
    <3>2. QED
      BY <1>5, <3>1
  <2>3. QED
    BY <2>1, <2>2
<1>9. CASE Wake(l)
  <2>1. active' \subseteq active /\ UNCHANGED <<stream, task, draining, drain, faults>>
    BY <1>9 DEF Wake
  <2>2. \/ loop' = [loop EXCEPT ![l] = IdleLoop]
        \/ loop' = [loop EXCEPT ![l] = [loop[l] EXCEPT !.pc = "run", !.waits = {}]]
    BY <1>9, Zenon DEF Wake
  <2>3. CASE loop' = [loop EXCEPT ![l] = IdleLoop]
    BY <1>5, <2>1, <2>3
  <2>4. CASE loop' = [loop EXCEPT ![l] = [loop[l] EXCEPT !.pc = "run", !.waits = {}]]
    <3>1. {} \in SUBSET Tasks
      OBVIOUS
    <3>2. QED
      BY <1>3, <2>1, <2>4, <3>1, Zenon
  <2>5. QED
    BY <2>2, <2>3, <2>4
<1>10. QED
  BY <1>6, <1>7, <1>8, <1>9

LEMMA QueueStep == QueueInv /\ [Next]_vars => QueueInv'
<1> SUFFICES ASSUME QueueInv, [Next]_vars PROVE QueueInv'
  OBVIOUS
<1>1. ASSUME NEW l \in Loops, Call(l) \/ Schedule(l) \/ Finish(l) \/ Wake(l)
      PROVE  QueueInv'
  BY <1>1, RunKeeps
<1>2. CASE Read \/ Reclaim
  BY <1>2, ReadKeeps, ReclaimKeeps
<1>3. ASSUME NEW k \in Tasks, Acknowledge(k) \/ LeavePending(k)
      PROVE  QueueInv'
  BY <1>3, EndLoads DEF Acknowledge, LeavePending
<1>4. draining \in BOOLEAN /\ active \subseteq Tasks
      /\ drain.result \in {"none", "waiting", "drained", "timeout"} /\ drain.waits \subseteq Tasks
  BY DEF QueueInv, TypeOK
<1>5. CASE StartDrain
  <2>1. /\ UNCHANGED <<stream, task, active, loop, faults>> /\ draining' \in BOOLEAN
        /\ \/ drain' = [result |-> "drained", waits |-> {}]
           \/ drain' = [result |-> "waiting", waits |-> active]
    BY <1>5 DEF StartDrain
  <2>2. drain'.result \in {"none", "waiting", "drained", "timeout"} /\ drain'.waits \subseteq Tasks
    BY <1>4, <2>1
  <2>3. QED
    BY <2>1, <2>2, RestKeeps
<1>6. CASE EndDrain
  <2>1. /\ UNCHANGED <<stream, task, active, loop, draining, faults>>
        /\ \/ drain' = [result |-> "drained", waits |-> {}]
           \/ drain' = [result |-> "timeout", waits |-> {}]
    BY <1>6 DEF EndDrain
  <2>2. drain'.result \in {"none", "waiting", "drained", "timeout"} /\ drain'.waits \subseteq Tasks
    BY <2>1
  <2>3. QED
    BY <1>4, <2>1, <2>2, RestKeeps
<1>7. CASE UNCHANGED vars
  BY <1>4, <1>7, RestKeeps DEF vars
<1>8. QED
  BY <1>1, <1>2, <1>3, <1>5, <1>6, <1>7, Zenon DEF Next

-----------------------------------------------------------------------------
(* The theorems.                                                           *)

\* The invariant the theorems below rest on.
THEOREM SupervisorInvariant == Spec => []SupervisorInv
<1>1. QED
  BY SupervisorInit, SupervisorStep, PTL DEF Spec

\* No more than max_concurrency tasks run, though the loops around poll_once() and
\* recover_once() fill one set and reap each other's tasks.
THEOREM ConcurrencyIsBounded == Spec => []ConcurrencyBounded
<1>1. ASSUME SupervisorInv PROVE ConcurrencyBounded
  <2>1. /\ Running \subseteq active /\ IsFiniteSet(active)
        /\ Cardinality(active) <= MaxConcurrency /\ Cardinality(active) \in Nat
    BY <1>1, FS_CardinalityType DEF SupervisorInv, Tracked
  <2>2. Cardinality(Running) \in Nat /\ Cardinality(Running) <= Cardinality(active)
    BY <2>1, FS_Subset, FS_CardinalityType
  <2>3. Cardinality(Running) <= MaxConcurrency
    BY <2>1, <2>2, SupervisorAssumption
  <2>4. QED
    BY <2>3 DEF ConcurrencyBounded, Running
<1>2. QED
  BY <1>1, SupervisorInvariant, PTL

\* Once drain() has returned True nothing runs and nothing is started, even if a
\* read or a batch was in progress when it was called.
THEOREM DrainLeavesQuiet == Spec => []DrainedIsQuiet
<1>1. SupervisorInv => DrainedIsQuiet
  BY DEF SupervisorInv, Draining, DrainedIsQuiet, Running
<1>2. QED
  BY <1>1, SupervisorInvariant, PTL

\* The invariant of the queues and of how often an entry is started.
THEOREM QueueInvariant == Spec => []QueueInv
<1>1. QED
  BY QueueInit, QueueStep, PTL DEF Spec

\* Every variable keeps its type: an entry is started once more than there were
\* faults at most, so a task always has a number, whatever batches are reclaimed.
THEOREM SupervisorIsTyped == Spec => []TypeOK
<1>1. QueueInv => TypeOK
  BY DEF QueueInv
<1>2. QED
  BY <1>1, QueueInvariant, PTL

\* In every batch a tenant with an entry waiting is never two starts behind another,
\* and the round has each tenant with queued entries once, however the batch was
\* ordered and wherever a drain, a wait or an exception cut it (FairTenantScheduler).
THEOREM TenantsTakeTurns == Spec => []RoundRobin
<1>1. QueueInv => RoundRobin
  <2>1. ASSUME QueueInv, NEW l \in Loops
        PROVE  /\ IsInjective(loop[l].order)
               /\ Range(loop[l].order) = {t \in Tenants : loop[l].queues[t] # <<>>}
               /\ \A t, u \in Tenants :
                    loop[l].queues[t] # <<>> => loop[l].served[u] <= loop[l].served[t] + 1
    BY <2>1, Zenon DEF QueueInv, Fit, Round
  <2>2. QED
    BY <2>1, Zenon DEF RoundRobin
<1>2. QED
  BY <1>1, QueueInvariant, PTL

\* However batches, reclaims and exceptions interleave in the two loops, an entry is
\* started again only if a task failed to end it or it was reclaimed from one that had
\* it in hand: without faults every entry is processed at most once.
THEOREM EntriesStartOncePerFault == Spec => []StartsCostFaults
<1>1. QueueInv => StartsCostFaults
  <2> SUFFICES ASSUME QueueInv, NEW d \in Deliveries PROVE Runs(d) <= faults + 1
    BY DEF StartsCostFaults
  <2>1. Load(d) <= faults + 1 /\ faults \in Nat
    BY SupervisorAssumption DEF QueueInv, Loaded, TypeOK
  <2>2. Runs(d) \in Nat /\ Queued(Poller, d) \in Nat /\ Queued(Recoverer, d) \in Nat
    BY RunsType DEF Queued
  <2>3. QED
    BY <2>1, <2>2 DEF Load
<1>2. QED
  BY <1>1, QueueInvariant, PTL
=============================================================================
