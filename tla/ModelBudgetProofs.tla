-------------------------- MODULE ModelBudgetProofs --------------------------
(***************************************************************************)
(* Proofs about ModelBudget for any number of runs, requests, leases,       *)
(* months and rebuilds, any limits and any quotas.  What a sum of tokens is  *)
(* follows from the equation of the fold that computes it, by way of the    *)
(* well-founded order of the subsets of a finite set.                       *)
(***************************************************************************)
EXTENDS ModelBudget, FiniteSetTheorems, TLAPS

-----------------------------------------------------------------------------
(* Sums over finite sets.                                                  *)

Pick(s) == CHOOSE x \in s : TRUE

\* h maps every subset of S to the sum of f over it.
Sums(f, S, h) ==
  h = [s \in SUBSET S |-> IF s = {} THEN 0 ELSE f[Pick(s)] + h[s \ {Pick(s)}]]

\* A collection of subsets of a finite set has a minimal one: what induction over
\* finite sets rests on below.
LEMMA FiniteMin ==
  ASSUME NEW S, IsFiniteSet(S), NEW T, T \subseteq SUBSET S, T # {}
  PROVE  \E A \in T : \A B \in T : B \subseteq A => B = A
<1>1. FiniteSubsetsOf(S) = SUBSET S
  BY FS_FiniteSubsetsOfFinite
<1>2. IsWellFoundedOn(StrictSubsetOrdering(S), SUBSET S)
  BY <1>1, FS_StrictSubsetOrderingWellFounded, Zenon
<1>3. PICK A \in T : \A B \in T : <<B, A>> \notin StrictSubsetOrdering(S)
  BY <1>2, WFMin
<1>4. ASSUME NEW B \in T, B \subseteq A PROVE B = A
  <2>1. A \in SUBSET S /\ B \in SUBSET S
    OBVIOUS
  <2>2. QED
    BY <1>3, <1>4, <2>1, Zenon DEF StrictSubsetOrdering
<1>5. QED
  BY <1>4

LEMMA SumsAt ==
  ASSUME NEW f, NEW S, NEW h, Sums(f, S, h), NEW s \in SUBSET S
  PROVE  h[s] = IF s = {} THEN 0 ELSE f[Pick(s)] + h[s \ {Pick(s)}]
  BY Zenon DEF Sums

LEMMA PickIn ==
  ASSUME NEW s, s # {}
  PROVE  Pick(s) \in s
  BY Zenon DEF Pick

\* There is at most one such function.
LEMMA SumsUnique ==
  ASSUME NEW f, NEW S, IsFiniteSet(S), NEW g, NEW h, Sums(f, S, g), Sums(f, S, h)
  PROVE  g = h
<1>1. \A s \in SUBSET S : g[s] = h[s]
  <2> DEFINE T == {s \in SUBSET S : g[s] # h[s]}
  <2> SUFFICES ASSUME T # {} PROVE FALSE
    BY Zenon
  <2>0. PICK A \in T : \A B \in T : B \subseteq A => B = A
    <3> T \subseteq SUBSET S
      BY Zenon
    <3> HIDE DEF T
    <3> QED
      BY FiniteMin
  <2>1. A \in SUBSET S /\ g[A] # h[A] /\ \A B \in SUBSET S : g[B] # h[B] /\ B \subseteq A => B = A
    BY <2>0, Zenon
  <2>2. A # {}
    BY <2>1, SumsAt, Zenon
  <2>3. g[A \ {Pick(A)}] = h[A \ {Pick(A)}]
    BY <2>1, <2>2, PickIn
  <2>4. QED
    BY <2>1, <2>2, <2>3, SumsAt
<1>2. g = [s \in SUBSET S |-> g[s]] /\ h = [s \in SUBSET S |-> h[s]]
  BY Zenon DEF Sums
<1>3. QED
  BY <1>1, <1>2, Zenon

\* A function of all sums over S has the sums over a subset of S.
LEMMA SumsRestrict ==
  ASSUME NEW f, NEW S, NEW R \in SUBSET S, NEW h, Sums(f, S, h)
  PROVE  Sums(f, R, [s \in SUBSET R |-> h[s]])
<1>1. ASSUME NEW s \in SUBSET R
      PROVE  h[s] = IF s = {} THEN 0 ELSE f[Pick(s)] + [r \in SUBSET R |-> h[r]][s \ {Pick(s)}]
  <2>1. s \in SUBSET S /\ s \ {Pick(s)} \in SUBSET R
    OBVIOUS
  <2>2. QED
    BY <2>1, SumsAt
<1>2. QED
  BY <1>1, Zenon DEF Sums

\* The function of sums that the fold defines.
Chosen(f, S) == CHOOSE h : Sums(f, S, h)

\* There is such a function: a smallest set without one could be given one.
LEMMA SumsExist ==
  ASSUME NEW f, NEW S, IsFiniteSet(S)
  PROVE  Sums(f, S, Chosen(f, S))
<1> DEFINE T == {s \in SUBSET S : ~Sums(f, s, Chosen(f, s))}
<1> SUFFICES ASSUME T # {} PROVE FALSE
  BY Zenon
<1>1. PICK A \in T : \A B \in T : B \subseteq A => B = A
  <2> T \subseteq SUBSET S
    BY Zenon
  <2> HIDE DEF T
  <2> QED
    BY FiniteMin
<1>2. A \in SUBSET S /\ ~Sums(f, A, Chosen(f, A))
  BY <1>1, Zenon
<1>3. ASSUME NEW B, B \subseteq A, B # A
      PROVE  IsFiniteSet(B) /\ Sums(f, B, Chosen(f, B))
  BY <1>1, <1>2, <1>3, FS_Subset
<1> DEFINE H == [s \in SUBSET A |->
                   IF s = {} THEN 0 ELSE f[Pick(s)] + Chosen(f, s \ {Pick(s)})[s \ {Pick(s)}]]
<1>4. ASSUME NEW r \in SUBSET A, r # A
      PROVE  Chosen(f, r)[r] = H[r]
  <2>1. IsFiniteSet(r) /\ Sums(f, r, Chosen(f, r)) /\ r \in SUBSET r
    BY <1>3, <1>4, Zenon
  <2>2. CASE r = {}
    BY <2>1, <2>2, SumsAt
  <2>3. CASE r # {}
    <3> DEFINE p == r \ {Pick(r)}
    <3>1. p \in SUBSET r /\ p \subseteq A /\ p # A
      BY <1>4
    <3>2. IsFiniteSet(p) /\ Sums(f, p, Chosen(f, p))
      BY <1>3, <3>1, Zenon
    <3>3. Chosen(f, r)[r] = f[Pick(r)] + Chosen(f, r)[p]
      BY <2>1, <2>3, SumsAt
    <3>4. Chosen(f, p) = [s \in SUBSET p |-> Chosen(f, r)[s]]
      BY <2>1, <3>1, <3>2, SumsRestrict, SumsUnique, Zenon
    <3>5. Chosen(f, p)[p] = Chosen(f, r)[p]
      BY <3>4
    <3>6. QED
      BY <2>3, <3>3, <3>5
  <2>4. QED
    BY <2>2, <2>3
<1>5. Sums(f, A, H)
  <2>1. ASSUME NEW s \in SUBSET A, s # {}
        PROVE  Chosen(f, s \ {Pick(s)})[s \ {Pick(s)}] = H[s \ {Pick(s)}]
    <3>1. s \ {Pick(s)} \in SUBSET A /\ s \ {Pick(s)} # A
      BY <2>1, PickIn
    <3>2. QED
      BY <1>4, <3>1, Zenon
  <2>2. \A s \in SUBSET A : H[s] = IF s = {} THEN 0 ELSE f[Pick(s)] + H[s \ {Pick(s)}]
    BY <2>1, Zenon
  <2>3. H = [s \in SUBSET A |-> H[s]]
    OBVIOUS
  <2> HIDE DEF H
  <2>4. QED
    BY <2>2, <2>3, Zenon DEF Sums
<1>6. QED
  BY <1>2, <1>5, Zenon DEF Chosen

\* The fold of the library is the value of that function at S.
LEMMA SumIsChosen ==
  ASSUME NEW f, NEW S
  PROVE  SumFunctionOnSet(f, S) = Chosen(f, S)[S]
  BY Zenon DEF SumFunctionOnSet, FoldFunctionOnSet, MapThenFoldSet, Sums, Pick, Chosen

LEMMA SumEmpty ==
  ASSUME NEW f
  PROVE  SumFunctionOnSet(f, {}) = 0
<1>1. Sums(f, {}, Chosen(f, {})) /\ {} \in SUBSET {}
  BY SumsExist, FS_EmptySet
<1>2. QED
  BY <1>1, SumsAt, SumIsChosen

\* The equation of the fold.
LEMMA SumPick ==
  ASSUME NEW f, NEW S, IsFiniteSet(S), S # {}
  PROVE  SumFunctionOnSet(f, S) = f[Pick(S)] + SumFunctionOnSet(f, S \ {Pick(S)})
<1> DEFINE p == S \ {Pick(S)}
<1>1. p \in SUBSET S /\ S \in SUBSET S /\ IsFiniteSet(p)
  BY FS_Subset
<1>2. Sums(f, S, Chosen(f, S)) /\ Sums(f, p, Chosen(f, p))
  BY <1>1, SumsExist, Zenon
<1>3. Chosen(f, S)[S] = f[Pick(S)] + Chosen(f, S)[p]
  BY <1>1, <1>2, SumsAt
<1>4. Chosen(f, p) = [s \in SUBSET p |-> Chosen(f, S)[s]]
  BY <1>1, <1>2, SumsRestrict, SumsUnique, Zenon
<1>5. Chosen(f, p)[p] = Chosen(f, S)[p]
  BY <1>4
<1>6. QED
  BY <1>3, <1>5, SumIsChosen

LEMMA SumType ==
  ASSUME NEW f, NEW S, IsFiniteSet(S), \A x \in S : f[x] \in Nat
  PROVE  SumFunctionOnSet(f, S) \in Nat
<1> DEFINE T == {s \in SUBSET S : SumFunctionOnSet(f, s) \notin Nat}
<1> SUFFICES ASSUME T # {} PROVE FALSE
  BY Zenon
<1>1. PICK A \in T : \A B \in T : B \subseteq A => B = A
  <2> T \subseteq SUBSET S
    BY Zenon
  <2> HIDE DEF T
  <2> QED
    BY FiniteMin
<1>2. A \in SUBSET S /\ SumFunctionOnSet(f, A) \notin Nat /\ IsFiniteSet(A)
  BY <1>1, FS_Subset
<1>3. A # {}
  BY <1>2, SumEmpty
<1>4. Pick(A) \in A
  BY <1>3, PickIn
<1>5. SumFunctionOnSet(f, A \ {Pick(A)}) \in Nat
  BY <1>1, <1>2, <1>4
<1>6. QED
  BY <1>2, <1>3, <1>4, <1>5, SumPick

\* Any element may be taken out first, not only the one the fold picks.
LEMMA SumRemove ==
  ASSUME NEW f, NEW S, IsFiniteSet(S), \A y \in S : f[y] \in Nat, NEW x \in S
  PROVE  SumFunctionOnSet(f, S) = f[x] + SumFunctionOnSet(f, S \ {x})
<1> DEFINE Wrong(s) == \E y \in s : SumFunctionOnSet(f, s) # f[y] + SumFunctionOnSet(f, s \ {y})
<1> DEFINE T == {s \in SUBSET S : Wrong(s)}
<1> SUFFICES ASSUME T # {} PROVE FALSE
  BY Zenon
<1>1. PICK A \in T : \A B \in T : B \subseteq A => B = A
  <2> T \subseteq SUBSET S
    BY Zenon
  <2> HIDE DEF T
  <2> QED
    BY FiniteMin
<1>2. A \in SUBSET S /\ IsFiniteSet(A)
  BY <1>1, FS_Subset
<1>3. PICK y \in A : SumFunctionOnSet(f, A) # f[y] + SumFunctionOnSet(f, A \ {y})
  BY <1>1, Zenon
<1> DEFINE p == Pick(A)
<1>4. p \in A /\ SumFunctionOnSet(f, A) = f[p] + SumFunctionOnSet(f, A \ {p})
  BY <1>2, <1>3, PickIn, SumPick
<1>5. p # y
  BY <1>3, <1>4, Zenon
<1> HIDE DEF p
<1>6. A \ {p} \in SUBSET S /\ A \ {p} # A /\ A \ {y} \in SUBSET S /\ A \ {y} # A
  BY <1>2, <1>3, <1>4
<1>7. ~Wrong(A \ {p}) /\ ~Wrong(A \ {y})
  <2>1. ASSUME NEW B \in SUBSET S, B \subseteq A, B # A PROVE ~Wrong(B)
    <3>1. B \notin T
      BY <1>1, <2>1, Zenon
    <3> HIDE DEF Wrong
    <3>2. QED
      BY <3>1
  <2>2. A \ {p} \subseteq A /\ A \ {y} \subseteq A
    OBVIOUS
  <2> HIDE DEF T, Wrong
  <2>3. QED
    BY <1>6, <2>1, <2>2
<1>8. y \in A \ {p} /\ p \in A \ {y}
  BY <1>3, <1>4, <1>5
<1>9. /\ SumFunctionOnSet(f, A \ {p}) = f[y] + SumFunctionOnSet(f, (A \ {p}) \ {y})
      /\ SumFunctionOnSet(f, A \ {y}) = f[p] + SumFunctionOnSet(f, (A \ {y}) \ {p})
  BY <1>7, <1>8, Zenon
<1>10. (A \ {p}) \ {y} = (A \ {y}) \ {p} /\ IsFiniteSet((A \ {y}) \ {p})
  BY <1>2, FS_Subset
<1>11. f[p] \in Nat /\ f[y] \in Nat /\ SumFunctionOnSet(f, (A \ {y}) \ {p}) \in Nat
  BY <1>2, <1>3, <1>4, <1>10, SumType
<1>12. SumFunctionOnSet(f, A) = f[p] + (f[y] + SumFunctionOnSet(f, (A \ {y}) \ {p}))
  BY <1>4, <1>9, <1>10
<1>13. QED
  BY <1>3, <1>9, <1>11, <1>12

LEMMA SumAdd ==
  ASSUME NEW f, NEW S, IsFiniteSet(S), NEW x, x \notin S, \A y \in S \cup {x} : f[y] \in Nat
  PROVE  SumFunctionOnSet(f, S \cup {x}) = f[x] + SumFunctionOnSet(f, S)
<1>1. IsFiniteSet(S \cup {x}) /\ (S \cup {x}) \ {x} = S
  BY FS_AddElement
<1>2. QED
  BY <1>1, SumRemove

\* A sum is bounded by another that has, at the same place, at least as much of
\* everything that is not zero.
LEMMA SumBound ==
  ASSUME NEW S, IsFiniteSet(S), NEW f, NEW g, \A x \in S : f[x] \in Nat /\ g[x] \in Nat,
         NEW C \in SUBSET S, NEW D \in SUBSET S,
         \A x \in C : f[x] = 0 \/ (x \in D /\ f[x] <= g[x])
  PROVE  SumFunctionOnSet(f, C) <= SumFunctionOnSet(g, D)
<1> DEFINE Below(s, r) == \A x \in s : f[x] = 0 \/ (x \in r /\ f[x] <= g[x])
<1> DEFINE T == {s \in SUBSET S : \E r \in SUBSET S : Below(s, r) /\ ~(SumFunctionOnSet(f, s) <= SumFunctionOnSet(g, r))}
<1> SUFFICES ASSUME T # {} PROVE FALSE
  BY Zenon
<1>1. PICK A \in T : \A B \in T : B \subseteq A => B = A
  <2> T \subseteq SUBSET S
    BY Zenon
  <2> HIDE DEF T
  <2> QED
    BY FiniteMin
<1>2. A \in SUBSET S
  BY <1>1, Zenon
<1>3. PICK R \in SUBSET S : Below(A, R) /\ ~(SumFunctionOnSet(f, A) <= SumFunctionOnSet(g, R))
  BY <1>1, Zenon
<1>4. \A s \in SUBSET S : IsFiniteSet(s) /\ SumFunctionOnSet(f, s) \in Nat /\ SumFunctionOnSet(g, s) \in Nat
  BY FS_Subset, SumType
<1>5. A # {}
  BY <1>3, <1>4, SumEmpty
<1>6. PICK p \in A : TRUE
  BY <1>5
<1> DEFINE B == A \ {p}
<1>7. B \in SUBSET S /\ B \notin T
  BY <1>1, <1>2, <1>6
<1>8. SumFunctionOnSet(f, A) = f[p] + SumFunctionOnSet(f, B) /\ f[p] \in Nat /\ g[p] \in Nat
  BY <1>2, <1>4, <1>6, SumRemove
<1>9. CASE f[p] = 0
  <2>1. Below(B, R)
    BY <1>3
  <2>2. SumFunctionOnSet(f, B) <= SumFunctionOnSet(g, R)
    BY <1>7, <2>1
  <2>3. QED
    BY <1>3, <1>4, <1>7, <1>8, <1>9, <2>2
<1>10. CASE f[p] # 0
  <2>1. p \in R /\ f[p] <= g[p] /\ Below(B, R \ {p}) /\ R \ {p} \in SUBSET S
    BY <1>3, <1>6, <1>10
  <2>2. SumFunctionOnSet(g, R) = g[p] + SumFunctionOnSet(g, R \ {p})
    BY <1>4, <2>1, SumRemove
  <2>3. SumFunctionOnSet(f, B) <= SumFunctionOnSet(g, R \ {p})
    BY <1>7, <2>1, Zenon
  <2>4. SumFunctionOnSet(f, B) \in Nat /\ SumFunctionOnSet(g, R \ {p}) \in Nat
    BY <1>4, <1>7, <2>1
  <2>5. QED
    BY <1>3, <1>8, <2>1, <2>2, <2>3, <2>4
<1>11. QED
  BY <1>9, <1>10

-----------------------------------------------------------------------------
(* The inductive invariant.                                                *)

Statuses == {"none", "active", "charged", "released"}

Typed ==
  /\ status \in [Requests -> [Generations -> Statuses]]
  /\ calling \subseteq Requests \X Generations
  /\ rows \subseteq Requests
  /\ tx # None => tx.req \in Requests /\ tx.gen \in Generations

\* A reservation that is active or charged.
Engaged(q, g) == status[q][g] \in {"active", "charged"}

\* A request is engaged under one generation at most.
Exclusive ==
  \A q \in Requests : \A g, h \in Generations : Engaged(q, g) /\ Engaged(q, h) => g = h

\* The projection never has a row without a charge, and misses none unless a
\* rebuild is in progress or was given up.
Projected ==
  /\ rows \subseteq Charged
  /\ rebuild = "none" => Charged \subseteq rows

BudgetInv == Typed /\ Exclusive /\ Projected

LEMMA BudgetInit == Init => BudgetInv
<1> SUFFICES ASSUME Init PROVE BudgetInv
  OBVIOUS
<1>1. status = [q \in Requests |-> [g \in Generations |-> "none"]]
  BY DEF Init
<1>2. Typed
  BY <1>1 DEF Init, Typed, Statuses
<1>3. Exclusive
  BY <1>1 DEF Exclusive, Engaged
<1>4. Charged = {}
  BY <1>1 DEF Charged
<1>5. QED
  BY <1>2, <1>3, <1>4 DEF Init, BudgetInv, Projected

-----------------------------------------------------------------------------
(* A reservation changes its state.                                        *)

Sets(q, g, st) == status' = [status EXCEPT ![q][g] = st]

LEMMA SetsFields ==
  ASSUME Typed, NEW q \in Requests, NEW g \in Generations, NEW st \in Statuses, Sets(q, g, st)
  PROVE  /\ status' \in [Requests -> [Generations -> Statuses]]
         /\ status'[q][g] = st
         /\ \A p \in Requests, h \in Generations :
              p # q \/ h # g => status'[p][h] = status[p][h]
  BY DEF Typed, Sets

\* An engaged reservation that stays engaged or is released excludes others as
\* before.
LEMMA SettledExclusive ==
  ASSUME Typed, Exclusive, NEW q \in Requests, NEW g \in Generations, NEW st \in Statuses,
         Sets(q, g, st), Engaged(q, g)
  PROVE  Exclusive'
<1>1. \A p \in Requests, h \in Generations : Engaged(p, h)' => Engaged(p, h)
  BY SetsFields DEF Engaged
<1>2. QED
  BY <1>1 DEF Exclusive, Generations

\* A charge is one more charged request.
LEMMA ChargedGrows ==
  ASSUME Typed, NEW q \in Requests, NEW g \in Generations, Sets(q, g, "charged"), Engaged(q, g)
  PROVE  Charged' = Charged \cup {q}
<1>0. "charged" \in Statuses
  BY DEF Statuses
<1>1. /\ status'[q][g] = "charged"
      /\ \A p \in Requests, h \in Generations : p # q \/ h # g => status'[p][h] = status[p][h]
  BY <1>0, SetsFields
<1>2. \A p \in Requests : p \in Charged' <=> p \in Charged \/ p = q
  BY <1>1 DEF Charged, Generations
<1>3. Charged \subseteq Requests /\ Charged' \subseteq Requests
  BY DEF Charged
<1>4. QED
  BY <1>2, <1>3

\* Reserving and releasing leave the charges alone.
LEMMA ChargedStays ==
  ASSUME Typed, NEW q \in Requests, NEW g \in Generations, NEW st \in {"active", "released"},
         Sets(q, g, st), status[q][g] # "charged"
  PROVE  Charged' = Charged
<1>0. st \in Statuses
  BY DEF Statuses
<1>1. /\ status'[q][g] = st
      /\ \A p \in Requests, h \in Generations : p # q \/ h # g => status'[p][h] = status[p][h]
  BY <1>0, SetsFields
<1>2. \A p \in Requests : p \in Charged' <=> p \in Charged
  BY <1>1 DEF Charged, Generations
<1>3. Charged \subseteq Requests /\ Charged' \subseteq Requests
  BY DEF Charged
<1>4. QED
  BY <1>2, <1>3

LEMMA ReservingFields ==
  ASSUME NEW q, NEW g, NEW st, NEW a, NEW b
  PROVE  Reserving(q, g, st, a, b).req = q /\ Reserving(q, g, st, a, b).gen = g
  BY DEF Reserving

-----------------------------------------------------------------------------
(* The steps.                                                              *)

\* A step of reserve() before its commit.
LEMMA ReadsKeep ==
  ASSUME BudgetInv, UNCHANGED <<status, calling, rows, rebuild>>,
         tx' # None => tx'.req \in Requests /\ tx'.gen \in Generations
  PROVE  BudgetInv'
<1>1. Charged' = Charged
  BY DEF Charged, Generations
<1>2. Typed'
  BY DEF BudgetInv, Typed, Generations
<1>3. Exclusive'
  BY DEF BudgetInv, Exclusive, Engaged, Generations
<1>4. QED
  BY <1>1, <1>2, <1>3 DEF BudgetInv, Projected

LEMMA CommitKeeps ==
  ASSUME BudgetInv, ReserveCommit
  PROVE  BudgetInv'
<1> DEFINE q == tx.req
<1> DEFINE g == tx.gen
<1>1. q \in Requests /\ g \in Generations /\ tx' = None /\ UNCHANGED <<rows, rebuild>>
  BY DEF BudgetInv, Typed, ReserveCommit
<1>2. CASE UNCHANGED <<status, calling>>
  BY <1>1, <1>2, ReadsKeep
<1>3. CASE /\ Unreserved(q) /\ Sets(q, g, "active") /\ calling' = calling \cup {<<q, g>>}
  <2> HIDE DEF q, g
  <2>0. Typed /\ "active" \in Statuses
    BY DEF BudgetInv, Statuses
  <2>1. /\ status' \in [Requests -> [Generations -> Statuses]]
        /\ status'[q][g] = "active"
        /\ \A p \in Requests, h \in Generations : p # q \/ h # g => status'[p][h] = status[p][h]
    BY <1>1, <1>3, <2>0, SetsFields
  <2>2. Typed'
    BY <1>1, <1>3, <2>0, <2>1 DEF Typed, Generations
  <2>3. \A h \in Generations : ~Engaged(q, h)
    BY <1>3 DEF Unreserved, Engaged
  <2>4. Exclusive'
    <3>1. SUFFICES ASSUME NEW p \in Requests, NEW h \in Generations, NEW i \in Generations,
                          Engaged(p, h)', Engaged(p, i)'
                   PROVE  h = i
      BY DEF Exclusive, Generations
    <3>2. CASE p = q
      BY <2>1, <2>3, <3>1, <3>2 DEF Engaged
    <3>3. CASE p # q
      BY <2>1, <3>1, <3>3 DEF Engaged, BudgetInv, Exclusive
    <3>4. QED
      BY <3>2, <3>3
  <2>5. Charged' = Charged
    BY <1>1, <1>3, <2>0, <2>3, ChargedStays DEF Engaged
  <2>6. QED
    BY <1>1, <2>2, <2>4, <2>5 DEF BudgetInv, Projected
<1>4. QED
  BY <1>2, <1>3 DEF ReserveCommit, Sets

LEMMA ChargeKeeps ==
  ASSUME BudgetInv, NEW q \in Requests, NEW g \in Generations, NEW t, Charge(q, g, t)
  PROVE  BudgetInv'
<1>1. Typed /\ Exclusive /\ Engaged(q, g) /\ Sets(q, g, "charged") /\ "charged" \in Statuses
  BY DEF BudgetInv, Charge, Settles, Engaged, Sets, Statuses
<1>2. rows' = rows \cup {q} /\ UNCHANGED <<tx, rebuild>> /\ calling' \subseteq calling
  BY DEF Charge
<1>3. Typed'
  BY <1>1, <1>2, SetsFields DEF Typed, Generations
<1>4. QED
  BY <1>1, <1>2, <1>3, SettledExclusive, ChargedGrows DEF BudgetInv, Projected

LEMMA FailKeeps ==
  ASSUME BudgetInv, NEW q \in Requests, NEW g \in Generations, Fail(q, g)
  PROVE  BudgetInv'
<1>1. /\ Typed /\ Exclusive /\ Engaged(q, g) /\ status[q][g] # "charged"
      /\ Sets(q, g, "released") /\ "released" \in Statuses
  BY DEF BudgetInv, Fail, Settles, Engaged, Sets, Statuses
<1>2. UNCHANGED <<rows, tx, rebuild>> /\ calling' \subseteq calling
  BY DEF Fail
<1>3. Typed'
  BY <1>1, <1>2, SetsFields DEF Typed, Generations
<1>4. Charged' = Charged
  BY <1>1, ChargedStays
<1>5. QED
  BY <1>1, <1>2, <1>3, <1>4, SettledExclusive DEF BudgetInv, Projected

\* The steps of a rebuild: rows comes and goes, the ledger stays.
LEMMA RebuildKeeps ==
  ASSUME BudgetInv, UNCHANGED <<status, calling, tx>>, rows' \subseteq Charged,
         rebuild' = "none" => Charged \subseteq rows'
  PROVE  BudgetInv'
<1>1. Charged' = Charged /\ Charged \subseteq Requests
  BY DEF Charged, Generations
<1>2. Typed'
  BY <1>1 DEF BudgetInv, Typed, Generations
<1>3. Exclusive'
  BY DEF BudgetInv, Exclusive, Engaged, Generations
<1>4. QED
  BY <1>1, <1>2, <1>3 DEF BudgetInv, Projected

LEMMA BudgetStep == BudgetInv /\ [Next]_vars => BudgetInv'
<1> SUFFICES ASSUME BudgetInv, [Next]_vars PROVE BudgetInv'
  OBVIOUS
<1>0. /\ tx # None => tx.req \in Requests /\ tx.gen \in Generations
      /\ rows \subseteq Charged
  BY DEF BudgetInv, Typed, Projected
<1>1. ASSUME NEW r \in Runs, Claim(r) \/ LeaseEnds(r)
      PROVE  BudgetInv'
  BY <1>0, <1>1, ReadsKeep DEF Claim, LeaseEnds
<1>2. ASSUME NEW q \in Requests, NEW g \in Generations, ReserveBegin(q, g)
      PROVE  BudgetInv'
  BY <1>2, ReadsKeep, ReservingFields DEF ReserveBegin
<1>3. ASSUME NEW q \in Requests, NEW g \in Generations, Succeed(q, g) \/ RecordUsageFailure(q, g)
      PROVE  BudgetInv'
  BY <1>3, ChargeKeeps DEF Succeed, RecordUsageFailure
<1>4. ASSUME NEW q \in Requests, NEW g \in Generations, Fail(q, g)
      PROVE  BudgetInv'
  BY <1>4, FailKeeps
<1>5. ASSUME NEW q \in Requests, NEW g \in Generations, GiveUp(q, g)
      PROVE  BudgetInv'
  <2>1. calling' \subseteq calling /\ UNCHANGED <<status, rows, tx, rebuild>>
    BY <1>5 DEF GiveUp
  <2>2. Charged' = Charged
    BY <2>1 DEF Charged, Generations
  <2>3. Typed' /\ Exclusive'
    BY <2>1 DEF BudgetInv, Typed, Exclusive, Engaged, Generations
  <2>4. QED
    BY <2>1, <2>2, <2>3 DEF BudgetInv, Projected
<1>6. CASE ReserveTest \/ ReserveReadTenant \/ ReserveReadRun
  <2>1. UNCHANGED <<status, calling, rows, rebuild>> /\ tx # None
    BY <1>6 DEF ReserveTest, ReserveReadTenant, ReserveReadRun
  <2>2. tx' = None \/ \E st, a, b : tx' = Reserving(tx.req, tx.gen, st, a, b)
    BY <1>6 DEF ReserveTest, ReserveReadTenant, ReserveReadRun
  <2>3. QED
    BY <1>0, <2>1, <2>2, ReadsKeep, ReservingFields
<1>7. CASE ReserveCommit
  BY <1>7, CommitKeeps
<1>8. CASE NewPeriod
  BY <1>0, <1>8, ReadsKeep DEF NewPeriod
<1>9. CASE BeginRebuild \/ Reset \/ ReplayPage \/ EndRebuild \/ RebuildFails
  <2>1. UNCHANGED <<status, calling, tx>>
    BY <1>9 DEF BeginRebuild, Reset, ReplayPage, EndRebuild, RebuildFails
  <2>2. rows' \subseteq Charged /\ (rebuild' = "none" => Charged \subseteq rows')
    BY <1>0, <1>9 DEF BeginRebuild, Reset, ReplayPage, EndRebuild, RebuildFails
  <2>3. QED
    BY <2>1, <2>2, RebuildKeeps
<1>10. CASE UNCHANGED vars
  BY <1>0, <1>10, ReadsKeep DEF vars
<1>11. QED
  BY <1>1, <1>2, <1>3, <1>4, <1>5, <1>6, <1>7, <1>8, <1>9, <1>10 DEF Next

-----------------------------------------------------------------------------
(* What a state of the reservations and charges counts against a quota.     *)

Pairs == Requests \X Generations
LimitOf == [x \in Pairs |-> Limit[x[1]]]
Active(st, S) == {x \in S \X Generations : st[x[1]][x[2]] = "active"}
Kept(ch) == [q \in Requests |-> Min({ch[q].tokens, Limit[q]})]
Within(ch, S, P) == {q \in S : ch[q].period \in P}

Count(st, ch, S, P) ==
  SumFunctionOnSet(LimitOf, Active(st, S)) + SumFunctionOnSet(Kept(ch), Within(ch, S, P))

StatusType == [Requests -> [Generations -> Statuses]]
ChargeType == [Requests -> [tokens : Nat, period : Nat]]

LEMMA MinOfTwo ==
  ASSUME NEW a \in Nat, NEW b \in Nat
  PROVE  Min({a, b}) \in Nat /\ Min({a, b}) <= a /\ Min({a, b}) <= b /\ (a = 0 => Min({a, b}) = 0)
<1>1. \E x \in {a, b} : \A y \in {a, b} : x =< y
  <2>1. CASE a <= b
    BY <2>1
  <2>2. CASE ~(a <= b)
    BY <2>2
  <2>3. QED
    BY <2>1, <2>2
<1>2. Min({a, b}) \in {a, b} /\ \A y \in {a, b} : Min({a, b}) =< y
  BY <1>1, Zenon DEF Min
<1>3. QED
  BY <1>2

LEMMA Finite ==
  /\ IsFiniteSet(Requests) /\ IsFiniteSet(Pairs)
  /\ \A S \in SUBSET Requests : IsFiniteSet(S)
  /\ \A S \in SUBSET Pairs : IsFiniteSet(S)
<1>1. IsFiniteSet(Requests) /\ IsFiniteSet(Generations)
  BY BudgetAssumption, FS_Interval DEF Generations
<1>2. IsFiniteSet(Pairs)
  BY <1>1, FS_Product DEF Pairs
<1>3. QED
  BY <1>1, <1>2, FS_Subset

LEMMA LimitOfType == \A x \in Pairs : LimitOf[x] \in Nat
  BY BudgetAssumption DEF LimitOf, Pairs

LEMMA KeptType ==
  ASSUME NEW ch \in ChargeType, NEW q \in Requests
  PROVE  /\ Kept(ch)[q] \in Nat /\ Kept(ch)[q] <= ch[q].tokens /\ Kept(ch)[q] <= Limit[q]
         /\ ch[q].tokens = 0 => Kept(ch)[q] = 0
<1>1. ch[q].tokens \in Nat /\ Limit[q] \in Nat
  BY BudgetAssumption DEF ChargeType
<1>2. Kept(ch)[q] = Min({ch[q].tokens, Limit[q]})
  BY Zenon DEF Kept
<1>3. QED
  BY <1>1, <1>2, MinOfTwo

LEMMA CountTerms ==
  ASSUME NEW st \in StatusType, NEW ch \in ChargeType, NEW S \in SUBSET Requests, NEW P
  PROVE  /\ Active(st, S) \in SUBSET Pairs /\ Within(ch, S, P) \in SUBSET Requests
         /\ IsFiniteSet(Active(st, S)) /\ IsFiniteSet(Within(ch, S, P))
         /\ SumFunctionOnSet(LimitOf, Active(st, S)) \in Nat
         /\ SumFunctionOnSet(Kept(ch), Within(ch, S, P)) \in Nat
         /\ Count(st, ch, S, P) \in Nat
<1>1. Active(st, S) \in SUBSET Pairs /\ Within(ch, S, P) \in SUBSET Requests
  BY DEF Active, Within, Pairs
<1>2. IsFiniteSet(Active(st, S)) /\ IsFiniteSet(Within(ch, S, P))
  BY <1>1, Finite, Zenon
<1>3. SumFunctionOnSet(LimitOf, Active(st, S)) \in Nat
  BY <1>1, <1>2, LimitOfType, SumType
<1>4. SumFunctionOnSet(Kept(ch), Within(ch, S, P)) \in Nat
  BY <1>1, <1>2, KeptType, SumType
<1>5. QED
  BY <1>1, <1>2, <1>3, <1>4 DEF Count

\* Two ledgers that differ in one reservation only, active in the second.
Reserves(st, st2, q, g) ==
  /\ st[q][g] # "active" /\ st2[q][g] = "active"
  /\ \A p \in Requests, h \in Generations : p # q \/ h # g => st2[p][h] = st[p][h]

\* One more active reservation counts its limit.
LEMMA CountReserve ==
  ASSUME NEW st \in StatusType, NEW st2 \in StatusType, NEW ch \in ChargeType,
         NEW S \in SUBSET Requests, NEW P, NEW q \in Requests, NEW g \in Generations,
         Reserves(st, st2, q, g)
  PROVE  Count(st2, ch, S, P) = Count(st, ch, S, P) + IF q \in S THEN Limit[q] ELSE 0
<1>1. Limit[q] \in Nat
  BY BudgetAssumption
<1>2. CASE q \in S
  <2>1. Active(st2, S) = Active(st, S) \cup {<<q, g>>} /\ <<q, g>> \notin Active(st, S)
    BY <1>2 DEF Active, Reserves
  <2>2. LimitOf[<<q, g>>] = Limit[q] /\ <<q, g>> \in Pairs
    BY Zenon DEF LimitOf, Pairs
  <2>3. SumFunctionOnSet(LimitOf, Active(st2, S)) = Limit[q] + SumFunctionOnSet(LimitOf, Active(st, S))
    BY <2>1, <2>2, CountTerms, LimitOfType, SumAdd
  <2>4. QED
    BY <1>1, <1>2, <2>3, CountTerms DEF Count
<1>3. CASE q \notin S
  <2>1. Active(st2, S) = Active(st, S)
    BY <1>3 DEF Active, Reserves
  <2>2. QED
    BY <1>3, <2>1, CountTerms DEF Count
<1>4. QED
  BY <1>2, <1>3

\* What a charge counts is at most what was reserved for it.
LEMMA CountCharge ==
  ASSUME NEW st \in StatusType, NEW ch \in ChargeType, NEW S \in SUBSET Requests, NEW P,
         NEW q \in Requests, NEW t \in Nat, NEW n \in Nat, ch[q].tokens = 0
  PROVE  Count(st, [ch EXCEPT ![q] = [tokens |-> t, period |-> n]], S, P)
           <= Count(st, ch, S, P) + IF q \in S THEN Limit[q] ELSE 0
<1> DEFINE ch2 == [ch EXCEPT ![q] = [tokens |-> t, period |-> n]]
<1>1. ch2 \in ChargeType /\ \A p \in Requests : p # q => ch2[p] = ch[p]
  BY DEF ChargeType
<1> HIDE DEF ch2
<1> DEFINE A == SumFunctionOnSet(Kept(ch2), Within(ch2, S, P))
           B == SumFunctionOnSet(Kept(ch), Within(ch, S, P))
           R == Within(ch2, S, P) \ {q}
<1>2. A \in Nat /\ B \in Nat /\ Limit[q] \in Nat
  BY <1>1, CountTerms, BudgetAssumption, Zenon
<1>3. \A p \in Requests : Kept(ch2)[p] \in Nat /\ Kept(ch)[p] \in Nat
  BY <1>1, KeptType
<1>4. \A p \in R : p \in Within(ch, S, P) /\ Kept(ch2)[p] = Kept(ch)[p]
  BY <1>1 DEF Within, Kept
<1>5. R \in SUBSET Requests /\ Within(ch, S, P) \in SUBSET Requests /\ Within(ch2, S, P) \in SUBSET Requests
  BY DEF Within
<1>6. SumFunctionOnSet(Kept(ch2), R) <= B /\ SumFunctionOnSet(Kept(ch2), R) \in Nat
  <2>1. \A p \in R : p \in Within(ch, S, P) /\ Kept(ch2)[p] <= Kept(ch)[p]
    BY <1>3, <1>4, <1>5
  <2> HIDE DEF R
  <2>2. IsFiniteSet(R)
    BY <1>5, Finite
  <2>3. QED
    BY <1>3, <1>5, <2>1, <2>2, Finite, SumBound, SumType
<1>7. A <= B + IF q \in S THEN Limit[q] ELSE 0
  <2>1. CASE q \in Within(ch2, S, P)
    <3>1. A = Kept(ch2)[q] + SumFunctionOnSet(Kept(ch2), R)
      <4> DEFINE W == Within(ch2, S, P)
      <4>1. IsFiniteSet(W) /\ \A p \in W : Kept(ch2)[p] \in Nat
        BY <1>3, <1>5, Finite
      <4> HIDE DEF W
      <4>2. SumFunctionOnSet(Kept(ch2), W) = Kept(ch2)[q] + SumFunctionOnSet(Kept(ch2), W \ {q})
        BY <2>1, <4>1, SumRemove DEF W
      <4>3. QED
        BY <4>2 DEF W
    <3>2. Kept(ch2)[q] <= Limit[q] /\ q \in S
      BY <1>1, <2>1, KeptType DEF Within
    <3>3. QED
      BY <1>2, <1>3, <1>6, <3>1, <3>2
  <2>2. CASE q \notin Within(ch2, S, P)
    <3>1. R = Within(ch2, S, P)
      BY <2>2
    <3>2. A <= B
      BY <1>6, <3>1, Zenon
    <3> HIDE DEF A, B
    <3>3. QED
      BY <1>2, <3>2
  <2>3. QED
    BY <2>1, <2>2
<1>8. Count(st, ch2, S, P) <= Count(st, ch, S, P) + IF q \in S THEN Limit[q] ELSE 0
  <2> DEFINE X == SumFunctionOnSet(LimitOf, Active(st, S))
             Y == IF q \in S THEN Limit[q] ELSE 0
  <2>1. X \in Nat
    BY CountTerms, Zenon
  <2>2. Y \in Nat
    BY <1>2
  <2>3. Count(st, ch2, S, P) = X + A /\ Count(st, ch, S, P) = X + B
    BY Zenon DEF Count
  <2>4. A <= B + Y
    BY <1>7, Zenon
  <2> HIDE DEF A, B, X, Y
  <2>5. X + A <= (X + B) + Y
    BY <1>2, <2>1, <2>2, <2>4
  <2>6. QED
    BY <2>3, <2>5, Zenon DEF Y
<1>9. QED
  BY <1>8, Zenon DEF ch2

\* Periods without a charge count nothing.
LEMMA CountPeriods ==
  ASSUME NEW st \in StatusType, NEW ch \in ChargeType, NEW S \in SUBSET Requests, NEW P, NEW Q,
         \A q \in S : ch[q].period \in Q => ch[q].period \in P \/ ch[q].tokens = 0
  PROVE  Count(st, ch, S, Q) <= Count(st, ch, S, P)
<1>1. \A q \in Within(ch, S, Q) :
        Kept(ch)[q] = 0 \/ (q \in Within(ch, S, P) /\ Kept(ch)[q] <= Kept(ch)[q])
  BY KeptType DEF Within
<1>2. SumFunctionOnSet(Kept(ch), Within(ch, S, Q)) <= SumFunctionOnSet(Kept(ch), Within(ch, S, P))
  BY <1>1, CountTerms, Finite, KeptType, SumBound, Zenon
<1>3. QED
  BY <1>2, CountTerms DEF Count

\* What a charge counts is at most what was used.
LEMMA CountUsed ==
  ASSUME NEW ch \in ChargeType, NEW S \in SUBSET Requests, NEW P, NEW U \in SUBSET Requests,
         \A q \in S : ch[q].period \in P => q \in U \/ ch[q].tokens = 0
  PROVE  /\ SumFunctionOnSet([q \in Requests |-> ch[q].tokens], U) \in Nat
         /\ SumFunctionOnSet(Kept(ch), Within(ch, S, P))
              <= SumFunctionOnSet([q \in Requests |-> ch[q].tokens], U)
<1> DEFINE used == [q \in Requests |-> ch[q].tokens]
<1>1. \A q \in Requests : used[q] \in Nat /\ Kept(ch)[q] \in Nat /\ Kept(ch)[q] <= used[q]
  BY KeptType DEF ChargeType
<1>2. \A q \in Within(ch, S, P) : Kept(ch)[q] = 0 \/ (q \in U /\ Kept(ch)[q] <= used[q])
  BY <1>1, KeptType DEF Within
<1> HIDE DEF used
<1>3. Within(ch, S, P) \in SUBSET Requests /\ IsFiniteSet(U)
  BY Finite DEF Within
<1>4. SumFunctionOnSet(used, U) \in Nat
  BY <1>1, <1>3, SumType
<1>5. SumFunctionOnSet(Kept(ch), Within(ch, S, P)) <= SumFunctionOnSet(used, U)
  BY <1>1, <1>2, <1>3, Finite, SumBound
<1>6. QED
  BY <1>4, <1>5, Zenon DEF used

-----------------------------------------------------------------------------
(* The type invariant.                                                     *)

Transactions ==
  [req : Requests, gen : Generations, step : {"test", "tenant", "run", "admit"},
   tenant : Nat, run : Nat]

LEMMA TypeInit == Init => TypeOK
<1> SUFFICES ASSUME Init PROVE TypeOK
  OBVIOUS
<1>1. 0 \in 0..MaxGeneration /\ 0 \in 0..MaxActual /\ 0 \in 0..MaxPeriods /\ 0 \in 0..MaxRebuilds
  BY BudgetAssumption
<1>2. NoCharge \in [tokens : 0..MaxActual, period : 0..MaxPeriods]
  BY <1>1 DEF NoCharge
<1>3. QED
  BY <1>1, <1>2, Zenon DEF Init, TypeOK

LEMMA TypeFacts ==
  ASSUME TypeOK
  PROVE  /\ status \in StatusType /\ charge \in ChargeType /\ periods \in Nat
         /\ tx # None => tx \in Transactions
  BY BudgetAssumption DEF TypeOK, StatusType, Statuses, ChargeType, Transactions

\* The sums that reserve() reads are natural numbers.
LEMMA ReadTypes ==
  ASSUME TypeOK, NEW S \in SUBSET Requests
  PROVE  ActiveTokens(S) \in Nat /\ UsedThisPeriod(S) \in Nat /\ UsedEver(S) \in Nat
<1>1. charge \in ChargeType /\ status \in StatusType
  BY TypeFacts
<1>2. ActiveTokens(S) = SumFunctionOnSet(LimitOf, Active(status, S))
  BY Zenon DEF ActiveTokens, LimitOf, Active, Pairs
<1>3. ActiveTokens(S) \in Nat
  BY <1>1, <1>2, CountTerms
<1>4. ASSUME NEW U \in SUBSET Requests PROVE SumFunctionOnSet(Tokens, U) \in Nat
  <2>1. \A q \in U : Tokens[q] \in Nat
    BY <1>1 DEF Tokens, ChargeType
  <2>2. QED
    BY <2>1, Finite, SumType
<1>5. UsedThisPeriod(S) \in Nat
  <2>1. {q \in S \cap rows : charge[q].period = periods} \in SUBSET Requests
    OBVIOUS
  <2>2. QED
    BY <1>4, <2>1, Zenon DEF UsedThisPeriod
<1>6. UsedEver(S) \in Nat
  <2>1. S \cap rows \in SUBSET Requests
    OBVIOUS
  <2>2. QED
    BY <1>4, <2>1, Zenon DEF UsedEver
<1>7. QED
  BY <1>3, <1>5, <1>6

LEMMA ReservingType ==
  ASSUME NEW q \in Requests, NEW g \in Generations,
         NEW st \in {"test", "tenant", "run", "admit"}, NEW a \in Nat, NEW b \in Nat
  PROVE  Reserving(q, g, st, a, b) \in Transactions
  BY DEF Reserving, Transactions

\* A step of reserve() before its commit.
LEMMA TypeRead ==
  ASSUME TypeOK, tx' = None \/ tx' \in Transactions, blind' \in BOOLEAN,
         UNCHANGED <<lease, status, calling, charge, rows, rebuild, periods, rebuilds>>
  PROVE  TypeOK'
  BY Zenon DEF TypeOK, Transactions

LEMMA TypeReserve ==
  ASSUME TypeOK, ReserveTest \/ ReserveReadTenant \/ ReserveReadRun
  PROVE  TypeOK'
<1>1. tx # None /\ blind \in BOOLEAN
  BY DEF ReserveTest, ReserveReadTenant, ReserveReadRun, TypeOK
<1>2. tx.req \in Requests /\ tx.gen \in Generations /\ tx.tenant \in Nat
  BY <1>1, TypeFacts DEF Transactions
<1>3. CASE ReserveTest
  <2>1. tx' = None \/ tx' \in Transactions
    BY <1>2, <1>3, ReservingType DEF ReserveTest
  <2>2. QED
    BY <1>1, <1>3, <2>1, TypeRead DEF ReserveTest
<1>4. CASE ReserveReadTenant
  <2>1. ActiveTokens(Requests) + UsedThisPeriod(Requests) \in Nat
    BY ReadTypes
  <2>2. tx' \in Transactions
    BY <1>2, <1>4, <2>1, ReservingType DEF ReserveReadTenant
  <2>3. QED
    BY <1>1, <1>4, <2>2, TypeRead DEF ReserveReadTenant
<1>5. CASE ReserveReadRun
  <2>1. ActiveTokens(OfRun(tx.req)) + UsedEver(OfRun(tx.req)) \in Nat
    <3>1. OfRun(tx.req) \in SUBSET Requests
      BY DEF OfRun
    <3>2. QED
      BY <3>1, ReadTypes
  <2>2. tx' \in Transactions
    BY <1>2, <1>5, <2>1, ReservingType DEF ReserveReadRun
  <2>3. QED
    BY <1>1, <1>5, <2>2, TypeRead DEF ReserveReadRun
<1>6. QED
  BY <1>3, <1>4, <1>5

\* A reservation changes its state; nobody is at work on one that is settled.
LEMMA TypeSets ==
  ASSUME TypeOK, BudgetInv', NEW q \in Requests, NEW g \in Generations, NEW st \in Statuses,
         Sets(q, g, st), calling' \subseteq calling \cup {<<q, g>>},
         <<q, g>> \in calling' => st = "active",
         charge' \in [Requests -> [tokens : 0..MaxActual, period : 0..MaxPeriods]],
         tx' \in {None, tx}, UNCHANGED <<lease, rebuild, periods, rebuilds, blind>>
  PROVE  TypeOK'
<1>1. status' \in [Requests -> [Generations -> {"none", "active", "charged", "released"}]]
      /\ rows' \subseteq Requests
  BY DEF BudgetInv, Typed, Statuses
<1>2. /\ status'[q][g] = st
      /\ \A p \in Requests, h \in Generations : p # q \/ h # g => status'[p][h] = status[p][h]
  <2>1. Typed
    BY DEF TypeOK, Typed, Statuses
  <2>2. QED
    BY <2>1, SetsFields
<1>3. calling' \subseteq {x \in Requests \X Generations : status'[x[1]][x[2]] = "active"}
  <2> SUFFICES ASSUME NEW x \in calling'
               PROVE  x \in Requests \X Generations /\ status'[x[1]][x[2]] = "active"
    BY Zenon
  <2>1. CASE x = <<q, g>>
    BY <1>2, <2>1
  <2>2. CASE x # <<q, g>>
    <3>1. x \in Requests \X Generations /\ status[x[1]][x[2]] = "active"
      BY <2>2 DEF TypeOK
    <3>2. x[1] \in Requests /\ x[2] \in Generations /\ (x[1] # q \/ x[2] # g)
      BY <2>2, <3>1
    <3>3. QED
      BY <1>2, <3>1, <3>2
  <2>3. QED
    BY <2>1, <2>2
<1>4. QED
  BY <1>1, <1>3, Zenon DEF TypeOK, Generations

LEMMA TypeCharge ==
  ASSUME TypeOK, BudgetInv', NEW q \in Requests, NEW g \in Generations, NEW t \in 0..MaxActual,
         Charge(q, g, t)
  PROVE  TypeOK'
<1>1. Sets(q, g, "charged") /\ "charged" \in Statuses /\ calling' = calling \ {<<q, g>>}
  BY DEF Charge, Sets, Statuses
<1>2. charge' \in [Requests -> [tokens : 0..MaxActual, period : 0..MaxPeriods]]
  BY DEF Charge, TypeOK
<1>3. tx' = tx /\ UNCHANGED <<lease, rebuild, periods, rebuilds, blind>>
  BY DEF Charge
<1>4. QED
  BY <1>1, <1>2, <1>3, TypeSets, Zenon

LEMMA TypeStep == TypeOK /\ BudgetInv' /\ [Next]_vars => TypeOK'
<1> SUFFICES ASSUME TypeOK, BudgetInv', [Next]_vars PROVE TypeOK'
  OBVIOUS
<1>1. ASSUME NEW r \in Runs, Claim(r) \/ LeaseEnds(r)
      PROVE  TypeOK'
  <2>1. lease[r] \in [gen : 0..MaxGeneration, held : BOOLEAN]
    BY DEF TypeOK
  <2>2. lease' \in [Runs -> [gen : 0..MaxGeneration, held : BOOLEAN]]
    <3> DEFINE L == [gen : 0..MaxGeneration, held : BOOLEAN]
    <3>1. [gen |-> lease[r].gen + 1, held |-> TRUE] \in L \/ ~(lease[r].gen < MaxGeneration)
      BY <2>1, BudgetAssumption
    <3>2. [lease[r] EXCEPT !.held = FALSE] \in L
      BY <2>1, Zenon
    <3>3. \E new \in L : lease' = [lease EXCEPT ![r] = new]
      BY <1>1, <3>1, <3>2, Zenon DEF Claim, LeaseEnds
    <3>4. lease \in [Runs -> L]
      BY DEF TypeOK
    <3> HIDE DEF L
    <3>5. lease' \in [Runs -> L]
      BY <3>3, <3>4
    <3>6. QED
      BY <3>5, Zenon DEF L
  <2>3. UNCHANGED <<status, calling, charge, rows, tx, rebuild, periods, rebuilds, blind>>
    BY <1>1 DEF Claim, LeaseEnds
  <2>4. QED
    BY <2>2, <2>3 DEF TypeOK
<1>2. ASSUME NEW q \in Requests, NEW g \in Generations, ReserveBegin(q, g)
      PROVE  TypeOK'
  <2>1. tx' \in Transactions
    BY <1>2, ReservingType DEF ReserveBegin
  <2>2. QED
    BY <1>2, <2>1, TypeRead DEF ReserveBegin, TypeOK
<1>3. ASSUME NEW q \in Requests, NEW g \in Generations, Succeed(q, g) \/ RecordUsageFailure(q, g)
      PROVE  TypeOK'
  <2>1. PICK t \in 0..MaxActual : Charge(q, g, t)
    BY <1>3, BudgetAssumption DEF Succeed, RecordUsageFailure
  <2>2. QED
    BY <2>1, TypeCharge
<1>4. ASSUME NEW q \in Requests, NEW g \in Generations, Fail(q, g)
      PROVE  TypeOK'
  <2>1. Sets(q, g, "released") /\ "released" \in Statuses /\ calling' = calling \ {<<q, g>>}
    BY <1>4 DEF Fail, Sets, Statuses
  <2>2. charge' \in [Requests -> [tokens : 0..MaxActual, period : 0..MaxPeriods]]
    BY <1>4 DEF Fail, TypeOK
  <2>3. tx' = tx /\ UNCHANGED <<lease, rebuild, periods, rebuilds, blind>>
    BY <1>4 DEF Fail
  <2>4. QED
    BY <2>1, <2>2, <2>3, TypeSets, Zenon
<1>5. ASSUME NEW q \in Requests, NEW g \in Generations, GiveUp(q, g)
      PROVE  TypeOK'
  BY <1>5, Zenon DEF GiveUp, TypeOK
<1>6. CASE ReserveTest \/ ReserveReadTenant \/ ReserveReadRun
  BY <1>6, TypeReserve
<1>7. CASE ReserveCommit
  <2>1. tx' = None /\ UNCHANGED <<lease, charge, rows, rebuild, periods, rebuilds, blind>>
    BY <1>7 DEF ReserveCommit
  <2>2. CASE UNCHANGED <<status, calling>>
    BY <2>1, <2>2, TypeRead DEF TypeOK
  <2>3. CASE Sets(tx.req, tx.gen, "active") /\ calling' = calling \cup {<<tx.req, tx.gen>>}
    <3>1. tx.req \in Requests /\ tx.gen \in Generations /\ "active" \in Statuses
      BY <1>7, TypeFacts DEF ReserveCommit, Transactions, Statuses
    <3>2. charge' \in [Requests -> [tokens : 0..MaxActual, period : 0..MaxPeriods]]
      BY <2>1 DEF TypeOK
    <3>3. QED
      BY <2>1, <2>3, <3>1, <3>2, TypeSets, Zenon
  <2>4. QED
    BY <1>7, <2>2, <2>3, Zenon DEF ReserveCommit, Sets
<1>8. CASE NewPeriod
  BY <1>8, BudgetAssumption DEF NewPeriod, TypeOK
<1>9. CASE BeginRebuild \/ Reset \/ ReplayPage \/ EndRebuild \/ RebuildFails
  <2>1. UNCHANGED <<lease, status, calling, charge, tx, periods, blind>>
    BY <1>9 DEF BeginRebuild, Reset, ReplayPage, EndRebuild, RebuildFails
  <2>2. rebuild' \in {"none", "locked", "replaying", "partial"} /\ rebuilds' \in 0..MaxRebuilds
    BY <1>9, BudgetAssumption DEF BeginRebuild, Reset, ReplayPage, EndRebuild, RebuildFails, TypeOK
  <2>3. rows' \subseteq Requests
    BY DEF BudgetInv, Typed
  <2>4. QED
    BY <2>1, <2>2, <2>3 DEF TypeOK
<1>10. CASE UNCHANGED vars
  BY <1>10, Zenon DEF vars, TypeOK
<1>11. QED
  BY <1>1, <1>2, <1>3, <1>4, <1>5, <1>6, <1>7, <1>8, <1>9, <1>10, Zenon DEF Next

-----------------------------------------------------------------------------
(* The quotas.                                                             *)

\* A charge is of a period that has begun; a request without a charge has none.
Uncharged ==
  \A q \in Requests : charge[q].period <= periods /\ (q \notin Charged => charge[q].tokens = 0)

\* What an admission has read still bounds what is counted: until it commits no
\* other transaction of the tenant reserves or settles, and the month it compares
\* with is the one it began in.
Admitting ==
  tx # None /\ ~blind =>
    /\ tx.step \in {"run", "admit"} => Count(status, charge, Requests, {periods}) <= tx.tenant
    /\ tx.step = "admit" => Count(status, charge, OfRun(tx.req), 0..periods) <= tx.run

OfTheRun(r) == {q \in Requests : RunOf[q] = r}

Quota ==
  ~blind =>
    /\ Count(status, charge, Requests, {periods}) <= TenantQuota
    /\ \A r \in Runs : Count(status, charge, OfTheRun(r), 0..periods) <= RunQuota

QuotaInv == Uncharged /\ Admitting /\ Quota

LEMMA QuotaIsQuotaHolds == Quota <=> QuotaHolds
<1>1. \A S, P : Counted(S, P) = Count(status, charge, S, P)
  BY Zenon DEF Counted, Count, ActiveTokens, LimitOf, Active, Pairs, Kept, Within
<1>2. QED
  BY <1>1, Zenon DEF Quota, QuotaHolds, OfTheRun

LEMMA QuotaInit == Init => QuotaInv
<1> SUFFICES ASSUME Init PROVE QuotaInv
  OBVIOUS
<1>1. /\ status = [q \in Requests |-> [g \in Generations |-> "none"]]
      /\ charge = [q \in Requests |-> NoCharge] /\ tx = None /\ periods = 0
  BY DEF Init
<1>2. TypeOK
  BY TypeInit
<1>3. status \in StatusType /\ charge \in ChargeType
  BY <1>2, TypeFacts
<1>4. \A q \in Requests : charge[q].period = 0 /\ charge[q].tokens = 0
  BY <1>1 DEF NoCharge
<1>5. ASSUME NEW S \in SUBSET Requests, NEW P
      PROVE  Count(status, charge, S, P) = 0
  <2>1. Active(status, S) = {}
    BY <1>1 DEF Active
  <2>2. Count(status, charge, S, P) <= Count(status, charge, S, {})
    BY <1>3, <1>4, CountPeriods
  <2>3. Within(charge, S, {}) = {}
    BY DEF Within
  <2>4. Count(status, charge, S, {}) = 0
    BY <2>1, <2>3, SumEmpty DEF Count
  <2>5. QED
    BY <1>3, <2>2, <2>4, CountTerms
<1>6. Quota
  <2>1. \A r \in Runs : OfTheRun(r) \in SUBSET Requests
    BY DEF OfTheRun
  <2>2. QED
    BY <1>5, <2>1, BudgetAssumption DEF Quota
<1>7. Uncharged
  BY <1>1, <1>4 DEF Uncharged
<1>8. QED
  BY <1>1, <1>6, <1>7 DEF QuotaInv, Admitting

\* Steps that leave reservations, charges and the month alone, and read nothing.
LEMMA QuotaStays ==
  ASSUME QuotaInv, UNCHANGED <<status, charge, periods, blind>>,
         tx' = tx \/ tx' = None \/ tx'.step \in {"test", "tenant"}
  PROVE  QuotaInv'
<1>1. Charged' = Charged
  BY DEF Charged, Generations
<1>2. Uncharged'
  BY <1>1 DEF QuotaInv, Uncharged
<1>3. Quota'
  BY DEF QuotaInv, Quota, OfTheRun
<1>4. Admitting'
  <2>1. CASE tx' = tx
    BY <2>1 DEF QuotaInv, Admitting
  <2>2. CASE tx' = None \/ tx'.step \in {"test", "tenant"}
    BY <2>2 DEF Admitting
  <2>3. QED
    BY <2>1, <2>2
<1>5. QED
  BY <1>2, <1>3, <1>4 DEF QuotaInv

\* The sums read over a complete projection bound what is counted.
LEMMA ReadTenantBounds ==
  ASSUME TypeOK, Uncharged, rows = Charged
  PROVE  Count(status, charge, Requests, {periods}) <= ActiveTokens(Requests) + UsedThisPeriod(Requests)
<1> DEFINE U == {q \in Requests \cap rows : charge[q].period = periods}
<1>1. status \in StatusType /\ charge \in ChargeType
  BY TypeFacts
<1>2. \A q \in Requests : charge[q].period \in {periods} => q \in U \/ charge[q].tokens = 0
  BY DEF Uncharged
<1>3. U \in SUBSET Requests /\ Requests \in SUBSET Requests
  OBVIOUS
<1> HIDE DEF U
<1>4. /\ SumFunctionOnSet(Tokens, U) \in Nat
      /\ SumFunctionOnSet(Kept(charge), Within(charge, Requests, {periods}))
           <= SumFunctionOnSet(Tokens, U)
  BY <1>1, <1>2, <1>3, CountUsed, Zenon DEF Tokens
<1>5. UsedThisPeriod(Requests) = SumFunctionOnSet(Tokens, U)
  BY Zenon DEF UsedThisPeriod, U
<1>6. ActiveTokens(Requests) = SumFunctionOnSet(LimitOf, Active(status, Requests))
  BY Zenon DEF ActiveTokens, LimitOf, Active, Pairs
<1>7. QED
  BY <1>1, <1>3, <1>4, <1>5, <1>6, CountTerms DEF Count

LEMMA ReadRunBounds ==
  ASSUME TypeOK, Uncharged, rows = Charged, NEW S \in SUBSET Requests
  PROVE  Count(status, charge, S, 0..periods) <= ActiveTokens(S) + UsedEver(S)
<1> DEFINE U == S \cap rows
<1>1. status \in StatusType /\ charge \in ChargeType
  BY TypeFacts
<1>2. \A q \in S : charge[q].period \in 0..periods => q \in U \/ charge[q].tokens = 0
  BY DEF Uncharged
<1>3. U \in SUBSET Requests
  OBVIOUS
<1> HIDE DEF U
<1>4. /\ SumFunctionOnSet(Tokens, U) \in Nat
      /\ SumFunctionOnSet(Kept(charge), Within(charge, S, 0..periods)) <= SumFunctionOnSet(Tokens, U)
  BY <1>1, <1>2, <1>3, CountUsed, Zenon DEF Tokens
<1>5. UsedEver(S) = SumFunctionOnSet(Tokens, U)
  BY Zenon DEF UsedEver, U
<1>6. ActiveTokens(S) = SumFunctionOnSet(LimitOf, Active(status, S))
  BY Zenon DEF ActiveTokens, LimitOf, Active, Pairs
<1>7. QED
  BY <1>1, <1>4, <1>5, <1>6, CountTerms DEF Count

LEMMA QuotaRead ==
  ASSUME TypeOK, QuotaInv, ReserveReadTenant \/ ReserveReadRun
  PROVE  QuotaInv'
<1>1. /\ tx # None /\ UNCHANGED <<status, charge, periods>>
      /\ blind' = (blind \/ rows # Charged)
  BY DEF ReserveReadTenant, ReserveReadRun
<1>2. Charged' = Charged
  BY <1>1 DEF Charged, Generations
<1>3. Uncharged'
  BY <1>1, <1>2 DEF QuotaInv, Uncharged
<1>4. Quota'
  BY <1>1, Zenon DEF QuotaInv, Quota, OfTheRun
<1>5. CASE blind'
  BY <1>3, <1>4, <1>5 DEF QuotaInv, Admitting
<1>6. CASE ~blind'
  <2>1. ~blind /\ rows = Charged /\ Uncharged
    BY <1>1, <1>6, Zenon DEF QuotaInv
  <2>2. CASE ReserveReadTenant
    <3> DEFINE n == ActiveTokens(Requests) + UsedThisPeriod(Requests)
    <3>1. Count(status, charge, Requests, {periods}) <= n
      BY <2>1, ReadTenantBounds
    <3>2. tx' = Reserving(tx.req, tx.gen, "run", n, 0)
      BY <2>2 DEF ReserveReadTenant
    <3> HIDE DEF n
    <3>3. tx'.tenant = n /\ tx'.step = "run"
      BY <3>2 DEF Reserving
    <3>4. Admitting'
      BY <1>1, <3>1, <3>3 DEF Admitting
    <3>5. QED
      BY <1>3, <1>4, <3>4 DEF QuotaInv
  <2>3. CASE ReserveReadRun
    <3> DEFINE S == OfRun(tx.req)
               n == ActiveTokens(S) + UsedEver(S)
    <3>1. S \in SUBSET Requests
      BY DEF OfRun
    <3>2. Count(status, charge, S, 0..periods) <= n
      BY <2>1, <3>1, ReadRunBounds
    <3>3. tx' = Reserving(tx.req, tx.gen, "admit", tx.tenant, n) /\ tx.step = "run"
      BY <2>3 DEF ReserveReadRun
    <3> HIDE DEF n
    <3>4. tx'.tenant = tx.tenant /\ tx'.run = n /\ tx'.step = "admit" /\ tx'.req = tx.req
      BY <3>3 DEF Reserving
    <3>5. Count(status, charge, Requests, {periods}) <= tx.tenant
      BY <1>1, <2>1, <3>3 DEF QuotaInv, Admitting
    <3>6. Admitting'
      BY <1>1, <3>2, <3>4, <3>5 DEF Admitting, OfRun
    <3>7. QED
      BY <1>3, <1>4, <3>6 DEF QuotaInv
  <2>4. QED
    BY <2>2, <2>3
<1>7. QED
  BY <1>5, <1>6

\* An admission: what was read leaves room for the limit of the request.
LEMMA QuotaCommit ==
  ASSUME TypeOK, BudgetInv, QuotaInv, ReserveCommit
  PROVE  QuotaInv'
<1> DEFINE q == tx.req
           g == tx.gen
<1>0. /\ tx # None /\ tx.step = "admit" /\ tx' = None
      /\ UNCHANGED <<charge, periods, blind>>
  BY DEF ReserveCommit
<1>1. CASE UNCHANGED status
  BY <1>0, <1>1, QuotaStays
<1>2. CASE /\ Unreserved(q) /\ WithinBudget /\ Sets(q, g, "active")
  <2>1. /\ q \in Requests /\ g \in Generations /\ status \in StatusType /\ charge \in ChargeType
        /\ tx.tenant \in Nat /\ tx.run \in Nat /\ Limit[q] \in Nat /\ Typed
    BY <1>0, TypeFacts, BudgetAssumption DEF Transactions, BudgetInv
  <2>2. WithinBudget => tx.tenant + Limit[q] <= TenantQuota /\ tx.run + Limit[q] <= RunQuota
    BY DEF WithinBudget
  <2>3. tx.step = "admit" /\ ~blind =>
          /\ Count(status, charge, Requests, {periods}) <= tx.tenant
          /\ Count(status, charge, OfRun(q), 0..periods) <= tx.run
    BY <1>0 DEF QuotaInv, Admitting
  <2> HIDE DEF q, g
  <2>4. status[q][g] \notin {"active", "charged"}
    BY <1>2, <2>1 DEF Unreserved
  <2>5. Charged' = Charged
    BY <1>2, <2>1, <2>4, ChargedStays
  <2>6. Uncharged'
    BY <1>0, <2>5 DEF QuotaInv, Uncharged
  <2>7. ASSUME NEW S \in SUBSET Requests, NEW P
        PROVE  Count(status', charge, S, P)
                 = Count(status, charge, S, P) + IF q \in S THEN Limit[q] ELSE 0
    <3>1. status' \in StatusType /\ Reserves(status, status', q, g)
      BY <1>2, <2>1, <2>4, SetsFields DEF Reserves, StatusType, Statuses
    <3>2. QED
      BY <2>1, <3>1, CountReserve
  <2>8. Quota'
    <3> SUFFICES ASSUME ~blind
                 PROVE  /\ Count(status', charge, Requests, {periods}) <= TenantQuota
                        /\ \A r \in Runs : Count(status', charge, OfTheRun(r), 0..periods) <= RunQuota
      BY <1>0 DEF Quota, OfTheRun
    <3>1. Count(status', charge, Requests, {periods}) <= TenantQuota
      <4>1. Count(status', charge, Requests, {periods})
              = Count(status, charge, Requests, {periods}) + Limit[q]
        BY <2>1, <2>7
      <4>2. Count(status, charge, Requests, {periods}) \in Nat
        BY <2>1, CountTerms
      <4>3. QED
        BY <1>0, <1>2, <2>1, <2>2, <2>3, <4>1, <4>2, BudgetAssumption
    <3>2. ASSUME NEW r \in Runs
          PROVE  Count(status', charge, OfTheRun(r), 0..periods) <= RunQuota
      <4>1. OfTheRun(r) \in SUBSET Requests /\ (q \in OfTheRun(r) <=> RunOf[q] = r)
        BY <2>1 DEF OfTheRun
      <4>2. Count(status, charge, OfTheRun(r), 0..periods) \in Nat
        BY <2>1, <4>1, CountTerms, Zenon
      <4>3. CASE RunOf[q] = r
        <5>1. OfRun(q) = OfTheRun(r)
          BY <4>3 DEF OfRun, OfTheRun
        <5>2. Count(status', charge, OfTheRun(r), 0..periods)
                = Count(status, charge, OfTheRun(r), 0..periods) + Limit[q]
          BY <2>7, <4>1, <4>3
        <5>3. QED
          BY <1>0, <1>2, <2>1, <2>2, <2>3, <4>2, <5>1, <5>2, BudgetAssumption
      <4>4. CASE RunOf[q] # r
        <5>1. Count(status', charge, OfTheRun(r), 0..periods)
                = Count(status, charge, OfTheRun(r), 0..periods) + 0
          BY <2>7, <4>1, <4>4
        <5>2. Count(status, charge, OfTheRun(r), 0..periods) <= RunQuota
          BY DEF QuotaInv, Quota
        <5>3. QED
          BY <4>2, <5>1, <5>2
      <4>5. QED
        BY <4>3, <4>4
    <3>3. QED
      BY <3>1, <3>2
  <2>9. QED
    BY <1>0, <2>6, <2>8 DEF QuotaInv, Admitting
<1>3. QED
  BY <1>1, <1>2 DEF ReserveCommit, Sets

\* What is counted falls while no admission is in progress.
LEMMA QuotaFalls ==
  ASSUME QuotaInv, Uncharged', tx = None, tx' = tx, UNCHANGED blind,
         TypeOK, TypeOK',
         ASSUME NEW S \in SUBSET Requests
         PROVE  /\ Count(status', charge', S, {periods'}) <= Count(status, charge, S, {periods})
                /\ Count(status', charge', S, 0..periods') <= Count(status, charge, S, 0..periods)
  PROVE  QuotaInv'
<1>1. status \in StatusType /\ charge \in ChargeType
  BY TypeFacts
<1>2. status' \in StatusType /\ charge' \in ChargeType
  BY BudgetAssumption DEF TypeOK, StatusType, Statuses, ChargeType
<1>3. \A S \in SUBSET Requests : \A P :
        Count(status, charge, S, P) \in Nat /\ Count(status', charge', S, P) \in Nat
  BY <1>1, <1>2, CountTerms
<1>4. Quota'
  <2> SUFFICES ASSUME ~blind
               PROVE  /\ Count(status', charge', Requests, {periods'}) <= TenantQuota
                      /\ \A r \in Runs : Count(status', charge', OfTheRun(r), 0..periods') <= RunQuota
    BY DEF Quota, OfTheRun
  <2>1. /\ Count(status, charge, Requests, {periods}) <= TenantQuota
        /\ \A r \in Runs : Count(status, charge, OfTheRun(r), 0..periods) <= RunQuota
    BY DEF QuotaInv, Quota
  <2>2. Requests \in SUBSET Requests /\ \A r \in Runs : OfTheRun(r) \in SUBSET Requests
    BY DEF OfTheRun
  <2>3. Count(status', charge', Requests, {periods'}) <= TenantQuota
    BY <1>3, <2>1, <2>2, BudgetAssumption
  <2>4. ASSUME NEW r \in Runs
        PROVE  Count(status', charge', OfTheRun(r), 0..periods') <= RunQuota
    BY <1>3, <2>1, <2>2, BudgetAssumption
  <2>5. QED
    BY <2>3, <2>4
<1>5. QED
  BY <1>4 DEF QuotaInv, Admitting

LEMMA QuotaCharge ==
  ASSUME TypeOK, TypeOK', BudgetInv, QuotaInv, NEW q \in Requests, NEW g \in Generations,
         NEW t \in 0..MaxActual, Charge(q, g, t)
  PROVE  QuotaInv'
<1>1. /\ Sets(q, g, "charged") /\ status[q][g] = "active" /\ tx = None
      /\ charge' = [charge EXCEPT ![q] = [tokens |-> t, period |-> periods]]
      /\ UNCHANGED <<tx, periods, blind>>
  BY DEF Charge, Settles, Sets
<1>2. /\ status \in StatusType /\ charge \in ChargeType /\ periods \in Nat /\ t \in Nat
      /\ Typed /\ Exclusive /\ Uncharged /\ Limit[q] \in Nat
  BY TypeFacts, BudgetAssumption DEF BudgetInv, QuotaInv
<1>3. Engaged(q, g) /\ Charged' = Charged \cup {q}
  BY <1>1, <1>2, ChargedGrows DEF Engaged
<1>4. q \notin Charged
  BY <1>1, <1>2, <1>3 DEF Charged, Exclusive, Engaged
<1>5. charge[q].tokens = 0
  BY <1>2, <1>4 DEF Uncharged
<1>6. Uncharged'
  <2>1. /\ charge'[q].period = periods
        /\ \A p \in Requests : p # q => charge'[p] = charge[p]
    BY <1>1, <1>2, Zenon DEF ChargeType
  <2>2. periods <= periods /\ periods' = periods /\ q \in Charged' /\ Charged \subseteq Charged'
    <3>1. \A n \in Nat : n <= n
      OBVIOUS
    <3>2. periods <= periods
      BY <1>2, <3>1, Zenon
    <3>3. periods' = periods
      BY <1>1, Zenon
    <3>4. QED
      BY <1>3, <3>2, <3>3, Zenon
  <2>3. ASSUME NEW p \in Requests
        PROVE  charge'[p].period <= periods /\ (p \notin Charged' => charge'[p].tokens = 0)
    <3>1. CASE p = q
      BY <2>1, <2>2, <3>1, Zenon
    <3>2. CASE p # q
      BY <1>2, <2>1, <2>2, <3>2, Zenon DEF Uncharged
    <3>3. QED
      BY <3>1, <3>2, Zenon
  <2>4. QED
    BY <2>2, <2>3, Zenon DEF Uncharged
<1>7. ASSUME NEW S \in SUBSET Requests, NEW P
      PROVE  Count(status', charge', S, P) <= Count(status, charge, S, P)
  <2>1. /\ status \in StatusType /\ status' \in StatusType /\ charge \in ChargeType
        /\ Reserves(status', status, q, g)
    BY <1>1, <1>2, SetsFields DEF Reserves, StatusType, Statuses
  <2>2. Count(status, charge, S, P)
          = Count(status', charge, S, P) + IF q \in S THEN Limit[q] ELSE 0
    BY <2>1, CountReserve
  <2>3. Count(status', charge', S, P)
          <= Count(status', charge, S, P) + IF q \in S THEN Limit[q] ELSE 0
    BY <1>1, <1>2, <1>5, <2>1, CountCharge, Zenon
  <2>4. QED
    BY <2>2, <2>3, Zenon
<1>8. QED
  BY <1>1, <1>6, <1>7, QuotaFalls, Zenon

LEMMA QuotaFail ==
  ASSUME TypeOK, TypeOK', BudgetInv, QuotaInv, NEW q \in Requests, NEW g \in Generations,
         Fail(q, g)
  PROVE  QuotaInv'
<1>1. /\ Sets(q, g, "released") /\ status[q][g] = "active" /\ tx = None
      /\ UNCHANGED <<tx, charge, periods, blind>>
  BY DEF Fail, Settles, Sets
<1>2. /\ status \in StatusType /\ charge \in ChargeType /\ Typed /\ Uncharged /\ Limit[q] \in Nat
  BY TypeFacts, BudgetAssumption DEF BudgetInv, QuotaInv
<1>3. Charged' = Charged
  BY <1>1, <1>2, ChargedStays
<1>4. Uncharged'
  BY <1>1, <1>2, <1>3 DEF Uncharged
<1>5. ASSUME NEW S \in SUBSET Requests, NEW P
      PROVE  Count(status', charge', S, P) <= Count(status, charge, S, P)
  <2>1. /\ status \in StatusType /\ status' \in StatusType /\ charge \in ChargeType
        /\ Reserves(status', status, q, g)
    BY <1>1, <1>2, SetsFields DEF Reserves, StatusType, Statuses
  <2>2. Count(status, charge, S, P)
          = Count(status', charge, S, P) + IF q \in S THEN Limit[q] ELSE 0
    BY <2>1, CountReserve
  <2>3. Count(status', charge, S, P) \in Nat
    BY <1>2, <2>1, CountTerms, Zenon
  <2>4. Count(status', charge', S, P) = Count(status', charge, S, P)
    BY <1>1, Zenon
  <2>5. \A a \in Nat, b \in Nat : a <= a + b
    OBVIOUS
  <2>6. (IF q \in S THEN Limit[q] ELSE 0) \in Nat
    BY <1>2
  <2>7. QED
    BY <2>2, <2>3, <2>4, <2>5, <2>6, Zenon
<1>6. QED
  BY <1>1, <1>4, <1>5, QuotaFalls, Zenon

LEMMA QuotaPeriod ==
  ASSUME TypeOK, TypeOK', QuotaInv, NewPeriod
  PROVE  QuotaInv'
<1>1. /\ tx = None /\ periods' = periods + 1
      /\ UNCHANGED <<tx, status, charge, blind>>
  BY DEF NewPeriod
<1>2. status \in StatusType /\ charge \in ChargeType /\ periods \in Nat /\ Uncharged
  BY TypeFacts DEF QuotaInv
<1>3. Charged' = Charged
  BY <1>1 DEF Charged, Generations
<1>4. \A q \in Requests : charge[q].period \in Nat /\ charge[q].period <= periods
  BY <1>2 DEF Uncharged, ChargeType
<1>5. Uncharged'
  <2>1. \A q \in Requests : charge[q].period <= periods'
    <3>1. \A a \in Nat, b \in Nat : a <= b => a <= b + 1
      OBVIOUS
    <3>2. QED
      BY <1>1, <1>2, <1>4, <3>1, Zenon
  <2>2. QED
    BY <1>1, <1>2, <1>3, <2>1, Zenon DEF Uncharged
<1>6. ASSUME NEW S \in SUBSET Requests
      PROVE  /\ Count(status', charge', S, {periods'}) <= Count(status, charge, S, {periods})
             /\ Count(status', charge', S, 0..periods') <= Count(status, charge, S, 0..periods)
  <2>1. /\ \A q \in S : charge[q].period \in {periods'} => charge[q].period \in {periods}
        /\ \A q \in S : charge[q].period \in 0..periods' => charge[q].period \in 0..periods
    BY <1>1, <1>2, <1>4
  <2>2. Count(status, charge, S, {periods'}) <= Count(status, charge, S, {periods})
    BY <1>2, <2>1, CountPeriods
  <2>3. Count(status, charge, S, 0..periods') <= Count(status, charge, S, 0..periods)
    BY <1>2, <2>1, CountPeriods, Zenon
  <2>4. QED
    BY <1>1, <2>2, <2>3
<1>7. QED
  BY <1>1, <1>5, <1>6, QuotaFalls, Zenon

LEMMA QuotaStep == TypeOK /\ TypeOK' /\ BudgetInv /\ QuotaInv /\ [Next]_vars => QuotaInv'
<1> SUFFICES ASSUME TypeOK, TypeOK', BudgetInv, QuotaInv, [Next]_vars PROVE QuotaInv'
  OBVIOUS
<1>1. ASSUME NEW r \in Runs, Claim(r) \/ LeaseEnds(r)
      PROVE  QuotaInv'
  BY <1>1, QuotaStays DEF Claim, LeaseEnds
<1>2. ASSUME NEW q \in Requests, NEW g \in Generations, ReserveBegin(q, g) \/ GiveUp(q, g)
      PROVE  QuotaInv'
  <2>1. UNCHANGED <<status, charge, periods, blind>>
    BY <1>2 DEF ReserveBegin, GiveUp
  <2>2. tx' = tx \/ tx'.step = "test"
    BY <1>2 DEF ReserveBegin, Reserving, GiveUp
  <2>3. QED
    BY <2>1, <2>2, QuotaStays
<1>3. ASSUME NEW q \in Requests, NEW g \in Generations, Succeed(q, g) \/ RecordUsageFailure(q, g)
      PROVE  QuotaInv'
  <2>1. PICK t \in 0..MaxActual : Charge(q, g, t)
    BY <1>3, BudgetAssumption DEF Succeed, RecordUsageFailure
  <2>2. QED
    BY <2>1, QuotaCharge
<1>4. ASSUME NEW q \in Requests, NEW g \in Generations, Fail(q, g)
      PROVE  QuotaInv'
  BY <1>4, QuotaFail
<1>5. CASE ReserveTest
  <2>1. UNCHANGED <<status, charge, periods, blind>>
    BY <1>5 DEF ReserveTest
  <2>2. tx' = None \/ tx'.step = "tenant"
    BY <1>5 DEF ReserveTest, Reserving
  <2>3. QED
    BY <2>1, <2>2, QuotaStays
<1>6. CASE ReserveReadTenant \/ ReserveReadRun
  BY <1>6, QuotaRead
<1>7. CASE ReserveCommit
  BY <1>7, QuotaCommit
<1>8. CASE NewPeriod
  BY <1>8, QuotaPeriod
<1>9. CASE BeginRebuild \/ Reset \/ ReplayPage \/ EndRebuild \/ RebuildFails
  <2>1. UNCHANGED <<status, charge, tx, periods, blind>>
    BY <1>9 DEF BeginRebuild, Reset, ReplayPage, EndRebuild, RebuildFails
  <2>2. QED
    BY <2>1, QuotaStays
<1>10. CASE UNCHANGED vars
  BY <1>10, QuotaStays DEF vars
<1>11. QED
  BY <1>1, <1>2, <1>3, <1>4, <1>5, <1>6, <1>7, <1>8, <1>9, <1>10, Zenon DEF Next

-----------------------------------------------------------------------------
(* What the repository promises.                                           *)

\* The view of the abstract specification.
StateView == [q \in Requests |-> KeyState(q)]
WorkersAt(q) == {g \in Generations : <<q, g>> \in calling}
WorkersView == [q \in Requests |-> WorkersAt(q)]

\* A request with an active reservation is reserved, by whoever holds it, unless
\* that worker gave up.
LEMMA ActiveView ==
  ASSUME TypeOK, Exclusive, NEW q \in Requests, NEW g \in Generations, status[q][g] = "active"
  PROVE  KeyState(q) = "reserved" /\ WorkersAt(q) \subseteq {g}
<1>1. \A h \in Generations : status[q][h] # "charged"
  BY Zenon DEF Exclusive, Engaged
<1>2. \A h \in Generations : <<q, h>> \in calling => status[q][h] = "active"
  BY DEF TypeOK
<1>3. WorkersAt(q) \subseteq {g}
  BY <1>2, Zenon DEF WorkersAt, Exclusive, Engaged
<1>4. QED
  BY <1>1, <1>3, Zenon DEF KeyState

LEMMA UnreservedView ==
  ASSUME TypeOK, NEW q \in Requests, Unreserved(q)
  PROVE  KeyState(q) = "free" /\ WorkersAt(q) = {}
<1>1. \A h \in Generations : status[q][h] # "charged" /\ status[q][h] # "active"
  BY Zenon DEF Unreserved
<1>2. \A h \in Generations : <<q, h>> \in calling => status[q][h] = "active"
  BY DEF TypeOK
<1>3. QED
  BY <1>1, <1>2, Zenon DEF KeyState, WorkersAt

\* What a step does to request q alone is all the view sees of it.
LEMMA ViewMoves ==
  ASSUME NEW q \in Requests,
         \A p \in Requests \ {q} : KeyState(p)' = KeyState(p) /\ WorkersAt(p)' = WorkersAt(p)
  PROVE  /\ StateView' = [StateView EXCEPT ![q] = KeyState(q)']
         /\ WorkersView' = [WorkersView EXCEPT ![q] = WorkersAt(q)']
<1>1. StateView' = [StateView EXCEPT ![q] = KeyState(q)']
  BY Zenon DEF StateView
<1>2. WorkersView' = [WorkersView EXCEPT ![q] = WorkersAt(q)']
  BY Zenon DEF WorkersView
<1>3. QED
  BY <1>1, <1>2

\* The other requests, when the reservation of q under g changes.
LEMMA OthersView ==
  ASSUME Typed, NEW q \in Requests, NEW g \in Generations, NEW st \in Statuses, Sets(q, g, st),
         \A x \in Requests \X Generations : x # <<q, g>> => (x \in calling' <=> x \in calling)
  PROVE  \A p \in Requests \ {q} : KeyState(p)' = KeyState(p) /\ WorkersAt(p)' = WorkersAt(p)
<1> SUFFICES ASSUME NEW p \in Requests \ {q}
             PROVE  KeyState(p)' = KeyState(p) /\ WorkersAt(p)' = WorkersAt(p)
  OBVIOUS
<1>1. \A h \in Generations : status'[p][h] = status[p][h]
  BY SetsFields
<1>2. \A h \in Generations : <<p, h>> \in calling' <=> <<p, h>> \in calling
  OBVIOUS
<1>3. KeyState(p)' = KeyState(p)
  BY <1>1, Zenon DEF KeyState, Generations
<1>4. QED
  BY <1>2, <1>3, Zenon DEF WorkersAt, Generations

\* The commit of reserve() reserves the key for its worker alone, or changes nothing.
LEMMA CommitView ==
  ASSUME TypeOK, BudgetInv, ReserveCommit
  PROVE  \/ \E q \in Requests, g \in Generations : Repository!Reserve(q, g)
         \/ UNCHANGED <<StateView, WorkersView>>
<1>1. PICK q \in Requests, g \in Generations : q = tx.req /\ g = tx.gen
  BY DEF BudgetInv, Typed, ReserveCommit
<1>2. CASE UNCHANGED <<status, calling>>
  BY <1>2, Zenon DEF StateView, WorkersView, WorkersAt, KeyState, Generations
<1>3. CASE Unreserved(q) /\ Sets(q, g, "active") /\ calling' = calling \cup {<<q, g>>}
  <2>1. Typed /\ "active" \in Statuses
    BY DEF BudgetInv, Statuses
  <2>2. KeyState(q) = "free" /\ WorkersAt(q) = {}
    BY <1>1, <1>3, UnreservedView, Zenon
  <2>3. /\ status'[q][g] = "active"
        /\ \A h \in Generations : h # g => status'[q][h] = status[q][h]
    BY <1>1, <1>3, <2>1, SetsFields
  <2>4. \A h \in Generations : status'[q][h] # "charged"
    BY <1>1, <1>3, <2>3 DEF Unreserved
  <2>5. KeyState(q)' = "reserved"
    BY <1>1, <2>3, <2>4, Zenon DEF KeyState, Generations
  <2>6. WorkersAt(q)' = {g}
    BY <1>1, <1>3, <2>2 DEF WorkersAt, Generations
  <2>7. \A x \in Requests \X Generations : x # <<q, g>> => (x \in calling' <=> x \in calling)
    BY <1>3
  <2>8. /\ StateView' = [StateView EXCEPT ![q] = "reserved"]
        /\ WorkersView' = [WorkersView EXCEPT ![q] = {g}]
    BY <1>1, <1>3, <2>1, <2>5, <2>6, <2>7, OthersView, ViewMoves, Zenon
  <2>9. StateView[q] = "free"
    BY <1>1, <2>2, Zenon DEF StateView
  <2>10. Repository!Reserve(q, g)
    BY <2>8, <2>9, Zenon DEF Repository!Reserve, StateView, WorkersView, WorkersAt
  <2>11. QED
    BY <2>10, Zenon
<1>4. QED
  BY <1>1, <1>2, <1>3, Zenon DEF ReserveCommit, Sets

\* A worker that ends its call leaves a key without workers.
LEMMA EndsView ==
  ASSUME TypeOK, BudgetInv, NEW q \in Requests, NEW g \in Generations, <<q, g>> \in calling,
         NEW st \in {"active", "charged", "released"}, Sets(q, g, st),
         calling' = calling \ {<<q, g>>}
  PROVE  Repository!Ends(q, g, CASE st = "active" -> "reserved" [] st = "charged" -> "settled"
                                 [] st = "released" -> "free")
<1> DEFINE new == CASE st = "active" -> "reserved" [] st = "charged" -> "settled"
                    [] st = "released" -> "free"
<1>1. Typed /\ Exclusive /\ st \in Statuses
  BY DEF BudgetInv, Statuses
<1>2. status[q][g] = "active"
  BY DEF TypeOK
<1>3. KeyState(q) = "reserved" /\ WorkersAt(q) \subseteq {g}
  BY <1>1, <1>2, ActiveView, Zenon
<1>4. g \in WorkersAt(q)
  BY Zenon DEF WorkersAt
<1>5. /\ status'[q][g] = st
      /\ \A h \in Generations : h # g => status'[q][h] = status[q][h]
  BY <1>1, SetsFields
<1>6. \A h \in Generations : h # g => status'[q][h] # "active" /\ status'[q][h] # "charged"
  BY <1>1, <1>2, <1>5, Zenon DEF Exclusive, Engaged
<1>7. KeyState(q)' = new
  <2>1. CASE st = "active"
    BY <1>5, <1>6, <2>1 DEF KeyState, Generations
  <2>2. CASE st = "charged"
    BY <1>5, <1>6, <2>2 DEF KeyState, Generations
  <2>3. CASE st = "released"
    BY <1>5, <1>6, <2>3 DEF KeyState, Generations
  <2>4. QED
    BY <2>1, <2>2, <2>3
<1>8. WorkersAt(q)' = {}
  BY <1>3 DEF WorkersAt, Generations
<1>9. \A x \in Requests \X Generations : x # <<q, g>> => (x \in calling' <=> x \in calling)
  OBVIOUS
<1> HIDE DEF new
<1>10. /\ StateView' = [StateView EXCEPT ![q] = new]
       /\ WorkersView' = [WorkersView EXCEPT ![q] = {}]
  BY <1>1, <1>7, <1>8, <1>9, OthersView, ViewMoves, Zenon
<1>11. StateView[q] = "reserved" /\ g \in WorkersView[q]
  BY <1>3, <1>4, Zenon DEF StateView, WorkersView
<1>12. Repository!Ends(q, g, new)
  BY <1>10, <1>11, Zenon DEF Repository!Ends, StateView, WorkersView, WorkersAt
<1>13. QED
  BY <1>12 DEF new

\* Every step of the model is a step of the repository, or none.
LEMMA RepositoryStep ==
  ASSUME TypeOK, BudgetInv, [Next]_vars
  PROVE  [Repository!Next]_(Repository!vars)
<1>1. CASE UNCHANGED <<status, calling>>
  BY <1>1, Zenon DEF Repository!vars, KeyState, Generations
<1>2. CASE ReserveCommit
  <2>1. CASE \E q \in Requests, g \in Generations : Repository!Reserve(q, g)
    BY <2>1, Zenon DEF Repository!Next
  <2>2. CASE UNCHANGED <<StateView, WorkersView>>
    BY <2>2, Zenon DEF Repository!vars, StateView, WorkersView, WorkersAt
  <2>3. QED
    BY <1>2, <2>1, <2>2, CommitView, Zenon
<1>3. ASSUME NEW q \in Requests, NEW g \in Generations, NEW t, Charge(q, g, t)
      PROVE  Repository!Next
  <2>1. /\ <<q, g>> \in calling /\ calling' = calling \ {<<q, g>>} /\ Sets(q, g, "charged")
    BY <1>3, Zenon DEF Charge, Settles, Sets
  <2>2. Repository!Succeed(q, g)
    BY <2>1, EndsView DEF Repository!Succeed
  <2>3. g \in WorkersView[q]
    BY <2>1, Zenon DEF WorkersView, WorkersAt
  <2>4. QED
    BY <2>2, <2>3, Zenon DEF Repository!Next, WorkersView, WorkersAt
<1>4. ASSUME NEW q \in Requests, NEW g \in Generations, Fail(q, g)
      PROVE  Repository!Next
  <2>1. /\ <<q, g>> \in calling /\ calling' = calling \ {<<q, g>>} /\ Sets(q, g, "released")
    BY <1>4, Zenon DEF Fail, Settles, Sets
  <2>2. Repository!Fail(q, g)
    BY <2>1, EndsView DEF Repository!Fail
  <2>3. g \in WorkersView[q]
    BY <2>1, Zenon DEF WorkersView, WorkersAt
  <2>4. QED
    BY <2>2, <2>3, Zenon DEF Repository!Next, WorkersView, WorkersAt
<1>5. ASSUME NEW q \in Requests, NEW g \in Generations, GiveUp(q, g)
      PROVE  Repository!Next
  <2>1. <<q, g>> \in calling /\ calling' = calling \ {<<q, g>>} /\ status[q][g] = "active"
    BY <1>5 DEF GiveUp, TypeOK
  <2>2. Sets(q, g, "active")
    BY <1>5, <2>1 DEF GiveUp, Sets, TypeOK
  <2>3. Repository!GiveUp(q, g)
    BY <2>1, <2>2, EndsView DEF Repository!GiveUp
  <2>4. g \in WorkersView[q]
    BY <2>1, Zenon DEF WorkersView, WorkersAt
  <2>5. QED
    BY <2>3, <2>4, Zenon DEF Repository!Next, WorkersView, WorkersAt
<1>6. QED
  BY <1>1, <1>2, <1>3, <1>4, <1>5, Zenon
     DEF Next, vars, Claim, LeaseEnds, ReserveBegin, Succeed, RecordUsageFailure, ReserveTest,
         ReserveReadTenant, ReserveReadRun, NewPeriod, BeginRebuild, Reset, ReplayPage, EndRebuild,
         RebuildFails

-----------------------------------------------------------------------------
(* The theorems.                                                           *)

\* The invariant the theorems below rest on.
THEOREM BudgetInvariant == Spec => []BudgetInv
<1>1. QED
  BY BudgetInit, BudgetStep, PTL DEF Spec

\* Every variable keeps its type, the sums that reserve() reads included, and a
\* worker is only ever at work on a call whose reservation is active.
THEOREM BudgetIsTyped == Spec => []TypeOK
<1>1. QED
  BY TypeInit, TypeStep, BudgetInvariant, PTL DEF Spec

\* The tokens reserved and charged in a period never exceed the tenant's quota, and
\* those of a run never the run's, except by what a provider used beyond its
\* reservation, unless an admission read an incomplete projection.  It holds for
\* any number of workers, leases, months and rebuilds: the sums an admission has
\* read still bound what is counted when it commits (reserve(), _check_budget()).
THEOREM QuotasHold == Spec => []QuotaHolds
<1>1. Spec => []QuotaInv
  BY QuotaInit, QuotaStep, BudgetIsTyped, BudgetInvariant, PTL DEF Spec
<1>2. QuotaInv => QuotaHolds
  BY QuotaIsQuotaHolds DEF QuotaInv
<1>3. QED
  BY <1>1, <1>2, PTL

\* A request has one active or charged reservation at most, however often its run
\* is reclaimed (the unique indexes behind reserve()).
THEOREM RequestsHaveOneWorker == Spec => []OneWorkerPerRequest
<1>1. BudgetInv => OneWorkerPerRequest
  <2>1. SUFFICES ASSUME BudgetInv, NEW q \in Requests
                 PROVE  Cardinality({g \in Generations : Engaged(q, g)}) <= 1
    BY DEF OneWorkerPerRequest, Engaged
  <2> DEFINE G == {g \in Generations : Engaged(q, g)}
  <2>2. CASE G = {}
    BY <2>2, FS_EmptySet
  <2>3. CASE G # {}
    <3>1. PICK g \in Generations : Engaged(q, g)
      BY <2>3
    <3>2. G = {g}
      BY <2>1, <3>1 DEF BudgetInv, Exclusive
    <3>3. Cardinality({g}) = 1
      BY FS_Singleton
    <3>4. QED
      BY <3>2, <3>3
  <2>4. QED
    BY <2>2, <2>3
<1>2. QED
  BY <1>1, BudgetInvariant, PTL

\* A rebuild that ran to its end, alone or after others that failed, leaves the
\* projection with every charge of the ledger and nothing else.
THEOREM RebuildsRestore == Spec => []RebuildRestores
<1>1. BudgetInv => RebuildRestores
  BY DEF BudgetInv, Projected, RebuildRestores
<1>2. QED
  BY <1>1, BudgetInvariant, PTL

\* Before the first rebuild() starts, no admission reads a projection that lacks
\* charges, so the quotas hold without condition: a rebuild that comes between the
\* test of the maintenance lock and the sums is the only way to break them.
THEOREM AdmissionsSeeUsageUntilARebuild == Spec => [](rebuilds = 0 => AdmissionSeesUsage)
<1> DEFINE Quiet == rebuilds = 0 => rebuild = "none" /\ ~blind
<1>1. Init => Quiet
  BY DEF Init
<1>2. ASSUME TypeOK, BudgetInv, Quiet, [Next]_vars, rebuilds' = 0 PROVE rebuild' = "none" /\ ~blind'
  <2>1. ~BeginRebuild
    BY <1>2 DEF BeginRebuild, TypeOK
  <2>2. rebuilds = 0 /\ rebuild = "none" /\ ~blind
    <3>1. rebuilds' = rebuilds
      BY <1>2, <2>1, Zenon
         DEF Next, vars, Claim, LeaseEnds, ReserveBegin, Succeed, RecordUsageFailure, Charge, Fail,
             GiveUp, ReserveTest, ReserveReadTenant, ReserveReadRun, ReserveCommit, NewPeriod, Reset,
             ReplayPage, EndRebuild, RebuildFails
    <3>2. QED
      BY <1>2, <3>1, Zenon
  <2>3. rows = Charged
    BY <1>2, <2>2, Zenon DEF BudgetInv, Projected
  <2>4. MaintenanceFree /\ rebuild # "locked" /\ rebuild # "replaying"
    BY <2>2 DEF MaintenanceFree
  <2>5. CASE ReserveReadTenant \/ ReserveReadRun
    <3>1. blind' = (blind \/ rows # Charged) /\ rebuild' = rebuild
      BY <2>5, Zenon DEF ReserveReadTenant, ReserveReadRun
    <3>2. QED
      BY <2>2, <2>3, <3>1
  <2>6. CASE UNCHANGED <<rebuild, blind>>
    BY <2>2, <2>6, Zenon
  <2>7. QED
    BY <1>2, <2>1, <2>4, <2>5, <2>6, Zenon
       DEF Next, vars, Claim, LeaseEnds, ReserveBegin, Succeed, RecordUsageFailure, Charge, Fail,
           GiveUp, ReserveTest, ReserveCommit, NewPeriod, Reset, ReplayPage, EndRebuild, RebuildFails
<1>3. TypeOK /\ BudgetInv /\ Quiet /\ [Next]_vars => Quiet'
  BY <1>2, Zenon
<1>4. Quiet => (rebuilds = 0 => AdmissionSeesUsage)
  BY DEF AdmissionSeesUsage
<1>5. QED
  BY <1>1, <1>3, <1>4, BudgetIsTyped, BudgetInvariant, PTL DEF Spec

\* PostgresGatewayRepository keeps what GatewayRepository promises for any number of
\* workers, leases, months and rebuilds: every reserve() that commits finds its key
\* free, succeed(), record_usage_failure() and fail() end the call of the only worker
\* at work on it, and a worker that loses its lease leaves the key reserved.
THEOREM PostgresKeepsThePromise == Spec => ImplementsRepository
<1>1. Init => Repository!Init
  <2> SUFFICES ASSUME Init PROVE Repository!Init
    OBVIOUS
  <2>1. \A q \in Requests : KeyState(q) = "free"
    BY DEF Init, KeyState
  <2>2. calling = {}
    BY Zenon DEF Init
  <2>3. QED
    BY <2>1, <2>2, Zenon DEF Repository!Init
<1>2. TypeOK /\ BudgetInv /\ [Next]_vars => [Repository!Next]_(Repository!vars)
  BY RepositoryStep, Zenon
<1>3. QED
  BY <1>1, <1>2, BudgetIsTyped, BudgetInvariant, PTL DEF Spec, ImplementsRepository, Repository!Spec

GenerationView == [r \in Runs |-> lease[r].gen]
HeldView == [r \in Runs |-> lease[r].held]

\* The leases under which ModelBudget reserves and settles are fenced leases, so those
\* of WorkLedger (LedgerIssuesFencedLeases) are of their kind.
THEOREM BudgetUsesFencedLeases == Spec => ImplementsLease
<1>1. Init => Fencing!Init
  BY DEF Init, Fencing!Init
<1>2. TypeOK /\ [Next]_vars => [Fencing!Next]_(Fencing!vars)
  <2> SUFFICES ASSUME TypeOK, [Next]_vars PROVE [Fencing!Next]_(Fencing!vars)
    OBVIOUS
  <2>1. CASE lease' = lease
    BY <2>1, Zenon DEF Fencing!vars
  <2>2. ASSUME NEW r \in Runs, Claim(r) PROVE Fencing!Next
    <3>1. lease' = [lease EXCEPT ![r] = [gen |-> lease[r].gen + 1, held |-> TRUE]] /\ ~lease[r].held
      BY <2>2, Zenon DEF Claim
    <3>2. /\ lease'[r].gen = lease[r].gen + 1 /\ lease'[r].held = TRUE
          /\ \A s \in Runs \ {r} : lease'[s] = lease[s]
      BY <3>1 DEF TypeOK
    <3>3. GenerationView' = [GenerationView EXCEPT ![r] = lease[r].gen + 1]
      BY <3>2, Zenon DEF GenerationView
    <3>4. HeldView' = [HeldView EXCEPT ![r] = TRUE]
      BY <3>2, Zenon DEF HeldView
    <3>5. Fencing!Grant(r)
      BY <3>1, <3>3, <3>4, Zenon DEF Fencing!Grant, GenerationView, HeldView
    <3>6. QED
      BY <3>5, Zenon DEF Fencing!Next
  <2>3. ASSUME NEW r \in Runs, LeaseEnds(r) PROVE Fencing!Next
    <3>1. lease' = [lease EXCEPT ![r].held = FALSE] /\ lease[r].held
      BY <2>3, Zenon DEF LeaseEnds
    <3>2. /\ lease'[r].gen = lease[r].gen /\ lease'[r].held = FALSE
          /\ \A s \in Runs \ {r} : lease'[s] = lease[s]
      BY <3>1 DEF TypeOK
    <3>3. GenerationView' = GenerationView
      BY <3>2, Zenon DEF GenerationView
    <3>4. HeldView' = [HeldView EXCEPT ![r] = FALSE]
      BY <3>2, Zenon DEF HeldView
    <3>5. Fencing!End(r)
      BY <3>1, <3>3, <3>4, Zenon DEF Fencing!End, GenerationView, HeldView
    <3>6. QED
      BY <3>5, Zenon DEF Fencing!Next
  <2>4. QED
    BY <2>1, <2>2, <2>3, Zenon
       DEF Next, vars, ReserveBegin, Succeed, RecordUsageFailure, Charge, Fail, GiveUp, ReserveTest,
           ReserveReadTenant, ReserveReadRun, ReserveCommit, NewPeriod, BeginRebuild, Reset,
           ReplayPage, EndRebuild, RebuildFails
<1>3. QED
  BY <1>1, <1>2, BudgetIsTyped, PTL DEF Spec, ImplementsLease, Fencing!Spec
=============================================================================
