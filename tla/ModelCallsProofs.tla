-------------------------- MODULE ModelCallsProofs --------------------------
(***************************************************************************)
(* Proofs about ModelCalls for every catalog, policy, set of requests and   *)
(* calls, and every limit of the gateway, and about ModelRouting: the       *)
(* router has one answer.                                                  *)
(***************************************************************************)
EXTENDS ModelCalls, FiniteSetTheorems, TLAPS

-----------------------------------------------------------------------------
(* Prices.                                                                 *)

\* Of finitely many naturals one is the greatest, and Max is it.
LEMMA MaxOfValues ==
  ASSUME NEW S, IsFiniteSet(S), S # {}, NEW f \in [S -> Nat]
  PROVE  /\ Max({f[i] : i \in S}) \in Nat
         /\ \A i \in S : f[i] <= Max({f[j] : j \in S})
<1> DEFINE Above(i) == {j \in S : f[j] > f[i]}
<1> DEFINE T == {Above(i) : i \in S}
<1>1. IsWellFoundedOn(StrictSubsetOrdering(S), SUBSET S)
  BY FS_FiniteSubsetsOfFinite, FS_StrictSubsetOrderingWellFounded, Zenon
<1>2. T \subseteq SUBSET S /\ T # {}
  <2>1. \A i \in S : Above(i) \in SUBSET S
    OBVIOUS
  <2> HIDE DEF Above
  <2>2. QED
    BY <2>1, Zenon
<1>3. \E x \in T : \A y \in T : ~(<<y, x>> \in StrictSubsetOrdering(S))
  <2> HIDE DEF T
  <2> QED
    BY <1>1, <1>2, WFMin, Zenon
<1>4. PICK i \in S : \A j \in S : <<Above(j), Above(i)>> \notin StrictSubsetOrdering(S)
  BY <1>3, Zenon
<1>5. ASSUME NEW j \in S, f[j] > f[i]
      PROVE  FALSE
  <2>1. Above(j) \subseteq Above(i)
    BY <1>5
  <2>2. j \in Above(i) /\ j \notin Above(j)
    BY <1>5
  <2>3. <<Above(j), Above(i)>> \in StrictSubsetOrdering(S)
    <3>1. Above(j) \in SUBSET S /\ Above(i) \in SUBSET S /\ Above(j) # Above(i)
      BY <2>2, Zenon
    <3> HIDE DEF Above
    <3>2. QED
      BY <2>1, <3>1, Zenon DEF StrictSubsetOrdering
  <2>4. QED
    BY <2>3, <1>4, Zenon
<1>6. \A j \in S : f[i] >= f[j]
  BY <1>5
<1>7. \E x \in {f[j] : j \in S} : \A y \in {f[j] : j \in S} : x >= y
  BY <1>6, Zenon
<1>8. QED
  BY <1>7, Zenon DEF Max

\* No kind of token costs more than the highest rate.
LEMMA HighestRateBounds ==
  ASSUME NEW m \in Models
  PROVE  /\ HighestRate(m) \in Nat
         /\ \A k \in Kinds : Entry[m].price[k] <= HighestRate(m)
<1>1. Entry[m].price \in [Kinds -> Nat]
  BY RoutingAssumption, Zenon
<1>2. IsFiniteSet(Kinds) /\ Kinds # {}
  <2>1. IsFiniteSet({"input"})
    BY FS_Singleton, Zenon
  <2>2. IsFiniteSet({"input"} \cup {"output"})
    BY <2>1, FS_AddElement, Zenon
  <2>3. IsFiniteSet(({"input"} \cup {"output"}) \cup {"cache_read"})
    BY <2>2, FS_AddElement, Zenon
  <2>4. IsFiniteSet((({"input"} \cup {"output"}) \cup {"cache_read"}) \cup {"cache_write"})
    BY <2>3, FS_AddElement, Zenon
  <2>5. IsFiniteSet(((({"input"} \cup {"output"}) \cup {"cache_read"}) \cup {"cache_write"})
                      \cup {"reasoning"})
    BY <2>4, FS_AddElement, Zenon
  <2>6. Kinds = (((({"input"} \cup {"output"}) \cup {"cache_read"}) \cup {"cache_write"})
                   \cup {"reasoning"})
    BY Zenon DEF Kinds
  <2>7. QED
    BY <2>5, <2>6, Zenon DEF Kinds
<1>3. QED
  BY <1>1, <1>2, MaxOfValues, Zenon DEF HighestRate

\* The factor of a product may grow.
LEMMA ProductGrows ==
  ASSUME NEW a \in Nat, NEW r \in Nat, NEW h \in Nat, r <= h
  PROVE  a * r \in Nat /\ a * r <= a * h
<1>1. PICK d \in Nat : h = r + d
  <2>1. h - r \in Nat /\ h = r + (h - r)
    OBVIOUS
  <2>2. QED
    BY <2>1, Zenon
<1>2. a * (r + d) = a * r + a * d /\ a * d \in Nat /\ a * r \in Nat
  OBVIOUS
<1>3. QED
  BY <1>1, <1>2

\* PricingVersion.cost() never exceeds the highest rate for all billable tokens.
LEMMA CostBounded ==
  ASSUME NEW m \in Models, NEW u \in [Kinds -> Nat]
  PROVE  Cost(m, u) \in Nat /\ Cost(m, u) <= Billable(u) * HighestRate(m)
<1> DEFINE p == Entry[m].price
<1> DEFINE h == HighestRate(m)
<1>1. h \in Nat /\ p \in [Kinds -> Nat] /\ \A k \in Kinds : p[k] <= h
  BY HighestRateBounds, RoutingAssumption, Zenon
<1>2. \A k \in Kinds : u[k] * p[k] \in Nat /\ u[k] * p[k] <= u[k] * h
  <2> HIDE DEF p, h
  <2> QED
    BY <1>1, ProductGrows, Zenon
<1>3. \A k \in Kinds : u[k] * h \in Nat
  <2> HIDE DEF p, h
  <2> QED
    BY <1>1
<1>4. /\ Cost(m, u) \in Nat
      /\ Cost(m, u) <= u["input"] * h + u["output"] * h + u["cache_read"] * h
                        + u["cache_write"] * h + u["reasoning"] * h
  <2>1. Cost(m, u) = u["input"] * p["input"] + u["output"] * p["output"]
                      + u["cache_read"] * p["cache_read"]
                      + u["cache_write"] * p["cache_write"] + u["reasoning"] * p["reasoning"]
    BY Zenon DEF Cost
  <2>2. {"input", "output", "cache_read", "cache_write", "reasoning"} = Kinds
    BY Zenon DEF Kinds
  <2> HIDE DEF p, h
  <2>3. QED
    BY <1>2, <1>3, <2>1, <2>2
<1>5. Billable(u) * h = u["input"] * h + u["output"] * h + u["cache_read"] * h
                          + u["cache_write"] * h + u["reasoning"] * h
  <2>1. \A k \in Kinds : u[k] \in Nat
    OBVIOUS
  <2> HIDE DEF p, h
  <2>2. QED
    BY <1>1, <2>1 DEF Billable, Kinds
<1>6. QED
  BY <1>4, <1>5, Zenon

\* What complete() reserves covers, on each of its candidates, all usage within the
\* token limit.
LEMMA ReservationBounds ==
  ASSUME NEW q \in Requests, NEW s \in Seq(Models), s # <<>>
  PROVE  /\ ReservationCost(s, q) \in Nat
         /\ \A i \in 1..Len(s), u \in [Kinds -> Nat] :
              Billable(u) <= TokenLimit(q) => Cost(s[i], u) <= ReservationCost(s, q)
<1> DEFINE f == [i \in 1..Len(s) |-> EstimateCost(s[i], q)]
<1>1. TokenLimit(q) \in Nat
  BY RoutingAssumption DEF TokenLimit
<1>2. \A i \in 1..Len(s) : s[i] \in Models /\ EstimateCost(s[i], q) \in Nat
  BY <1>1, HighestRateBounds DEF EstimateCost
<1>3. IsFiniteSet(1..Len(s)) /\ 1..Len(s) # {}
  <2>1. Len(s) \in Nat /\ Len(s) # 0
    OBVIOUS
  <2>2. 1 \in 1..Len(s)
    BY <2>1
  <2>3. Len(s) \in Int /\ 1 \in Int
    BY <2>1
  <2>4. IsFiniteSet(1..Len(s))
    BY <2>3, FS_Interval, Zenon
  <2>5. QED
    BY <2>2, <2>4, Zenon
<1>4. f \in [1..Len(s) -> Nat]
  BY <1>2, Zenon
<1>5. {f[i] : i \in 1..Len(s)} = {EstimateCost(s[i], q) : i \in 1..Len(s)}
  OBVIOUS
<1>6. /\ ReservationCost(s, q) \in Nat
      /\ \A i \in 1..Len(s) : f[i] <= ReservationCost(s, q)
  <2> HIDE DEF f
  <2> QED
    BY <1>3, <1>4, <1>5, MaxOfValues, Zenon DEF ReservationCost
<1>7. ASSUME NEW i \in 1..Len(s), NEW u \in [Kinds -> Nat], Billable(u) <= TokenLimit(q)
      PROVE  Cost(s[i], u) <= ReservationCost(s, q)
  <2>1. Billable(u) \in Nat
    BY DEF Billable, Kinds
  <2>2. HighestRate(s[i]) \in Nat
    BY <1>2, HighestRateBounds, Zenon
  <2>3. Cost(s[i], u) <= Billable(u) * HighestRate(s[i])
    BY <1>2, CostBounded, Zenon
  <2>4. HighestRate(s[i]) * Billable(u) <= HighestRate(s[i]) * TokenLimit(q)
    BY <1>1, <1>7, <2>1, <2>2, ProductGrows, Zenon
  <2>5. Cost(s[i], u) \in Nat
    BY <1>2, CostBounded, Zenon
  <2>6. EstimateCost(s[i], q) <= ReservationCost(s, q)
    BY <1>6, Zenon
  <2>7. Cost(s[i], u) <= EstimateCost(s[i], q)
    <3>1. \A a \in Nat, b \in Nat : a * b \in Nat /\ a * b = b * a
      OBVIOUS
    <3>2. \A a \in Nat, b \in Nat, c \in Nat : a <= b /\ b <= c => a <= c
      OBVIOUS
    <3>3. /\ HighestRate(s[i]) * Billable(u) \in Nat /\ HighestRate(s[i]) * TokenLimit(q) \in Nat
          /\ Cost(s[i], u) <= HighestRate(s[i]) * Billable(u)
          /\ EstimateCost(s[i], q) = HighestRate(s[i]) * TokenLimit(q)
      BY <1>1, <2>1, <2>2, <2>3, <3>1, Zenon DEF EstimateCost
    <3>4. QED
      BY <2>4, <2>5, <3>2, <3>3, Zenon
  <2>8. QED
    BY <1>2, <1>6, <2>5, <2>6, <2>7
<1>8. QED
  BY <1>6, <1>7, Zenon

-----------------------------------------------------------------------------
(* The router.                                                             *)

\* The sort key orders the models: it is asymmetric, transitive and total.
LEMMA BeforeIsOrder ==
  ASSUME NEW q, NEW m \in Models, NEW n \in Models
  PROVE  /\ ~Before(q, m, m)
         /\ m # n => Before(q, m, n) \/ Before(q, n, m)
         /\ \A o \in Models : Before(q, m, n) /\ Before(q, n, o) => Before(q, m, o)
<1> DEFINE K(a, b, c, d, e, f) == a < d \/ (a = d /\ b < e) \/ (a = d /\ b = e /\ c < f)
<1>1. \A x \in Models : Entry[x].cost \in Nat /\ Entry[x].latency \in Nat /\ Entry[x].order \in Nat
  BY RoutingAssumption
<1>2. ASSUME NEW a \in Nat, NEW b \in Nat, NEW c \in Nat, NEW d \in Nat, NEW e \in Nat, NEW f \in Nat
      PROVE  K(a, b, c, d, e, f) <=>
             \E i \in 1..3 : /\ <<a, b, c>>[i] < <<d, e, f>>[i]
                             /\ \A j \in 1..(i - 1) : <<a, b, c>>[j] = <<d, e, f>>[j]
  <2>1. 1..3 = {1, 2, 3} /\ 1..(1 - 1) = {} /\ 1..(2 - 1) = {1} /\ 1..(3 - 1) = {1, 2}
    OBVIOUS
  <2>2. QED
    BY <2>1
<1>3. \A x, y \in Models :
        /\ Request[q].preference = "cost" =>
             (Before(q, x, y) <=> K(Entry[x].cost, Entry[x].latency, Entry[x].order,
                                    Entry[y].cost, Entry[y].latency, Entry[y].order))
        /\ Request[q].preference # "cost" =>
             (Before(q, x, y) <=> K(Entry[x].latency, Entry[x].cost, Entry[x].order,
                                    Entry[y].latency, Entry[y].cost, Entry[y].order))
  <2> TAKE x, y \in Models
  <2> HIDE DEF K
  <2>1. PICK a \in Nat, b \in Nat, c \in Nat : Entry[x].cost = a /\ Entry[x].latency = b /\ Entry[x].order = c
    BY <1>1
  <2>2. PICK d \in Nat, e \in Nat, f \in Nat : Entry[y].cost = d /\ Entry[y].latency = e /\ Entry[y].order = f
    BY <1>1
  <2>3. CASE Request[q].preference = "cost"
    <3>1. Before(q, x, y) <=>
            \E i \in 1..3 : /\ <<a, b, c>>[i] < <<d, e, f>>[i]
                            /\ \A j \in 1..(i - 1) : <<a, b, c>>[j] = <<d, e, f>>[j]
      BY <2>1, <2>2, <2>3, Zenon DEF Before
    <3>2. Before(q, x, y) <=> K(a, b, c, d, e, f)
      BY <1>2, <3>1
    <3>3. QED
      BY <2>1, <2>2, <2>3, <3>2, Zenon
  <2>4. CASE Request[q].preference # "cost"
    <3>1. Before(q, x, y) <=>
            \E i \in 1..3 : /\ <<b, a, c>>[i] < <<e, d, f>>[i]
                            /\ \A j \in 1..(i - 1) : <<b, a, c>>[j] = <<e, d, f>>[j]
      BY <2>1, <2>2, <2>4, Zenon DEF Before
    <3>2. Before(q, x, y) <=> K(b, a, c, e, d, f)
      BY <1>2, <3>1
    <3>3. QED
      BY <2>1, <2>2, <2>4, <3>2, Zenon
  <2>5. QED
    BY <2>3, <2>4
<1>4. QED
  <2>1. ~Before(q, m, m)
    BY <1>1, <1>3
  <2>2. m # n => Before(q, m, n) \/ Before(q, n, m)
    BY <1>1, <1>3, RoutingAssumption
  <2>3. ASSUME NEW o \in Models, Before(q, m, n), Before(q, n, o) PROVE Before(q, m, o)
    BY <1>1, <1>3, <2>3
  <2>4. QED
    BY <2>1, <2>2, <2>3

\* How many of S come before m.
Ahead(q, S, m) == {n \in S : Before(q, n, m)}
Rank(q, S) == [m \in S |-> Cardinality(Ahead(q, S, m)) + 1]

\* The position of a model among the eligible ones is one more than how many of them
\* come before it: a numbering without gaps in the order of the sort key.
LEMMA Ranks ==
  ASSUME NEW q, NEW S \in SUBSET Models
  PROVE  /\ IsFiniteSet(S) /\ Cardinality(S) \in Nat
         /\ Rank(q, S) \in Bijection(S, 1..Cardinality(S))
         /\ \A m, n \in S : Before(q, m, n) => Rank(q, S)[m] < Rank(q, S)[n]
<1>1. IsFiniteSet(S) /\ Cardinality(S) \in Nat
  BY RoutingAssumption, FS_Subset, FS_CardinalityType
<1>2. \A m \in S : /\ Ahead(q, S, m) \in SUBSET S /\ m \notin Ahead(q, S, m)
                   /\ IsFiniteSet(Ahead(q, S, m)) /\ Cardinality(Ahead(q, S, m)) \in Nat
                   /\ Cardinality(Ahead(q, S, m)) < Cardinality(S)
  <2> TAKE m \in S
  <2>1. Ahead(q, S, m) \in SUBSET S /\ m \notin Ahead(q, S, m)
    BY BeforeIsOrder DEF Ahead
  <2>2. /\ IsFiniteSet(Ahead(q, S, m)) /\ Cardinality(Ahead(q, S, m)) <= Cardinality(S)
        /\ Cardinality(S) # Cardinality(Ahead(q, S, m))
    BY <1>1, <2>1, FS_Subset
  <2>3. QED
    BY <1>1, <2>1, <2>2, FS_CardinalityType
<1>3. ASSUME NEW m \in S, NEW n \in S, Before(q, m, n)
      PROVE  Rank(q, S)[m] < Rank(q, S)[n]
  <2>1. Ahead(q, S, m) \in SUBSET Ahead(q, S, n)
    BY <1>3, BeforeIsOrder DEF Ahead
  <2>2. m \in Ahead(q, S, n) /\ m \notin Ahead(q, S, m)
    BY <1>2, <1>3, Zenon DEF Ahead
  <2>3. Cardinality(Ahead(q, S, m)) <= Cardinality(Ahead(q, S, n))
        /\ Cardinality(Ahead(q, S, n)) # Cardinality(Ahead(q, S, m))
    BY <1>2, <2>1, <2>2, FS_Subset
  <2>4. QED
    BY <1>2, <2>3 DEF Rank
<1>4. Rank(q, S) \in [S -> 1..Cardinality(S)]
  BY <1>1, <1>2 DEF Rank
<1>5. \A m, n \in S : Rank(q, S)[m] = Rank(q, S)[n] => m = n
  <2> SUFFICES ASSUME NEW m \in S, NEW n \in S, Rank(q, S)[m] = Rank(q, S)[n], m # n PROVE FALSE
    OBVIOUS
  <2>1. Before(q, m, n) \/ Before(q, n, m)
    BY BeforeIsOrder, Zenon
  <2>2. Rank(q, S)[m] \in Nat /\ Rank(q, S)[n] \in Nat
    BY <1>1, <1>4
  <2>3. QED
    BY <1>3, <2>1, <2>2
<1>6. Rank(q, S) \in Injection(S, 1..Cardinality(S))
  BY <1>4, <1>5 DEF Injection, IsInjective
<1>7. IsFiniteSet(1..Cardinality(S)) /\ Cardinality(1..Cardinality(S)) = Cardinality(S)
  BY <1>1, FS_Interval
<1>8. Rank(q, S) \in Surjection(S, 1..Cardinality(S))
  BY <1>6, <1>7, FS_Injection
<1>9. QED
  BY <1>1, <1>3, <1>6, <1>8 DEF Bijection

\* In a route every model has its rank as its position.
LEMMA RouteByRank ==
  ASSUME NEW q, NEW U, NEW s \in Routes(q, U), NEW i \in 1..Cardinality(Eligible(q, U))
  PROVE  s[i] \in Eligible(q, U) /\ Rank(q, Eligible(q, U))[s[i]] = i
<1> DEFINE S == Eligible(q, U)
<1> DEFINE N == Cardinality(S)
<1>1. S \in SUBSET Models /\ i \in 1..N
  BY DEF Eligible, Asked
<1>2. /\ s \in [1..N -> S] /\ \A k, j \in 1..N : k < j => Before(q, s[k], s[j])
  BY Zenon DEF Routes
<1> HIDE DEF S
<1>3. /\ N \in Nat /\ IsFiniteSet(S) /\ Rank(q, S) \in [S -> 1..N]
      /\ \A m, n \in S : Before(q, m, n) => Rank(q, S)[m] < Rank(q, S)[n]
  BY <1>1, Ranks DEF Bijection, Injection
<1>4. \A k \in 1..N : s[k] \in S /\ Rank(q, S)[s[k]] \in 1..N
  BY <1>2, <1>3, Zenon
<1>5. s \in Bijection(1..N, S)
  <2>1. s \in Injection(1..N, S)
    <3> SUFFICES ASSUME NEW a \in 1..N, NEW b \in 1..N, s[a] = s[b], a < b PROVE FALSE
      BY <1>2, <1>3 DEF Injection, IsInjective
    <3>1. Before(q, s[a], s[a])
      BY <1>2
    <3>2. QED
      BY <1>1, <1>4, <3>1, BeforeIsOrder
  <2>2. IsFiniteSet(1..N) /\ Cardinality(1..N) = N
    BY <1>3, FS_Interval
  <2>3. QED
    BY <1>3, <2>1, <2>2, FS_Injection DEF Bijection
<1>6. ASSUME NEW j \in 1..N, Before(q, s[j], s[i])
      PROVE  j < i
  <2>1. s[i] \in Models /\ s[j] \in Models
    BY <1>1, <1>4
  <2>2. i < j => Before(q, s[i], s[j])
    BY <1>1, <1>2
  <2>3. j # i /\ ~(i < j)
    BY <1>6, <2>1, <2>2, BeforeIsOrder, Zenon
  <2>4. QED
    BY <1>3, <2>3
<1>7. PICK g : g = [j \in 1..(i - 1) |-> s[j]]
  BY Zenon
<1>8. g \in Bijection(1..(i - 1), Ahead(q, S, s[i]))
  <2>1. 1..(i - 1) \subseteq 1..N /\ \A j \in 1..(i - 1) : j < i /\ g[j] = s[j]
    BY <1>1, <1>3, <1>7
  <2>2. g \in [1..(i - 1) -> Ahead(q, S, s[i])]
    BY <1>1, <1>2, <1>4, <1>7, <2>1 DEF Ahead
  <2>3. \A j, k \in 1..(i - 1) : g[j] = g[k] => j = k
    <3>1. \A j, k \in 1..N : s[j] = s[k] => j = k
      BY <1>5 DEF Bijection, Injection, IsInjective
    <3>2. QED
      BY <2>1, <3>1
  <2>4. \A m \in Ahead(q, S, s[i]) : \E j \in 1..(i - 1) : g[j] = m
    <3> TAKE m \in Ahead(q, S, s[i])
    <3>1. m \in S /\ Before(q, m, s[i])
      BY DEF Ahead
    <3>2. PICK j \in 1..N : s[j] = m
      BY <1>5, <3>1 DEF Bijection, Surjection
    <3>3. j \in 1..(i - 1)
      BY <1>3, <1>6, <3>1, <3>2
    <3>4. QED
      BY <2>1, <3>2, <3>3
  <2>5. QED
    BY <2>2, <2>3, <2>4 DEF Bijection, Injection, Surjection, IsInjective
<1>9. Cardinality(Ahead(q, S, s[i])) = i - 1
  <2>1. IsFiniteSet(1..(i - 1)) /\ Cardinality(1..(i - 1)) = i - 1
    <3>1. PICK k \in Nat : k = i - 1
      BY <1>1, <1>3
    <3>2. IsFiniteSet(1..k) /\ Cardinality(1..k) = k
      BY FS_Interval
    <3>3. QED
      BY <3>1, <3>2
  <2>2. ExistsBijection(1..(i - 1), Ahead(q, S, s[i]))
    BY <1>8 DEF ExistsBijection
  <2>3. QED
    BY <2>1, <2>2, FS_Bijection
<1>10. QED
  BY <1>3, <1>4, <1>9 DEF Rank, S

\* The router is deterministic for every catalog, policy and request, whichever models
\* are unavailable: if a model is eligible, there is exactly one order of candidates.
THEOREM RouterIsDeterministic ==
  ASSUME NEW q \in Requests, NEW U, Eligible(q, U) # {}
  PROVE  \E s : Routes(q, U) = {s}
<1> DEFINE S == Eligible(q, U)
<1> DEFINE N == Cardinality(S)
<1>1. S \in SUBSET Models
  BY DEF Eligible, Asked
<1>2. /\ N \in Nat /\ Rank(q, S) \in [S -> 1..N]
      /\ \A m, n \in S : Rank(q, S)[m] = Rank(q, S)[n] => m = n
      /\ \A i \in 1..N : \E m \in S : Rank(q, S)[m] = i
      /\ \A m, n \in S : Before(q, m, n) => Rank(q, S)[m] < Rank(q, S)[n]
  <2> HIDE DEF S
  <2> QED
    BY <1>1, Ranks DEF Bijection, Injection, Surjection, IsInjective
<1>3. PICK s : s = [i \in 1..N |-> CHOOSE m \in S : Rank(q, S)[m] = i]
  BY Zenon
<1>4. s \in [1..N -> S] /\ \A i \in 1..N : Rank(q, S)[s[i]] = i
  <2> HIDE DEF S
  <2>1. \A i \in 1..N : s[i] \in S /\ Rank(q, S)[s[i]] = i
    BY <1>2, <1>3, Zenon
  <2>2. QED
    BY <1>3, <2>1
<1>5. ASSUME NEW i \in 1..N, NEW j \in 1..N, i < j
      PROVE  Before(q, s[i], s[j])
  <2> HIDE DEF S
  <2>1. s[i] \in S /\ s[j] \in S /\ s[i] \in Models /\ s[j] \in Models /\ s[i] # s[j]
    BY <1>1, <1>4, <1>5
  <2>2. ~Before(q, s[j], s[i])
    BY <1>2, <1>4, <1>5, <2>1
  <2>3. QED
    BY <2>1, <2>2, BeforeIsOrder
<1>6. s \in Routes(q, U)
  BY <1>4, <1>5, Zenon DEF Routes
<1>7. ASSUME NEW r \in Routes(q, U)
      PROVE  r = s
  <2>1. r \in [1..N -> S]
    BY Zenon DEF Routes
  <2>2. ASSUME NEW i \in 1..N
        PROVE  r[i] \in S /\ Rank(q, S)[r[i]] = i
    BY RouteByRank
  <2> HIDE DEF S
  <2>3. \A i \in 1..N : r[i] = s[i]
    BY <1>2, <1>4, <2>2
  <2>4. QED
    <3>1. r = [i \in 1..N |-> r[i]] /\ s = [i \in 1..N |-> s[i]]
      BY <1>4, <2>1
    <3>2. QED
      BY <2>3, <3>1
<1>8. QED
  BY <1>6, <1>7, Zenon
-----------------------------------------------------------------------------
(* Typing.                                                                 *)

\* The type invariant without the bounds on permits, which need that permits are
\* conserved; a call sleeps only when it has an attempt left.
Typed ==
  /\ circuit \in [Models -> Breakers]
  /\ permits \in [Models -> Nat] /\ lost \in [Models -> Nat]
  /\ call \in [Calls -> Going \cup {Idle}]
  /\ reserved \in [Keys -> {Inflight(q) : q \in Requests} \cup {Answered(q) : q \in Requests}
                           \cup {Free}]
  /\ completes \in 0..MaxCompletes
  /\ \A c \in Calls : call[c].pc = "backoff" => call[c].attempt < MaxAttempts

\* A call that is not idle is at a model of the catalog.
LEMMA GoingCall ==
  ASSUME Typed, NEW c \in Calls, call[c].pc # "idle"
  PROVE  /\ call[c] \in Going /\ call[c] # Idle
         /\ Model(c) \in Models /\ KeyUsed(c) \in Keys
<1>1. call[c] \in Going /\ call[c] # Idle
  BY DEF Typed, Idle
<1>2. Model(c) \in Models
  BY <1>1 DEF Going, Model
<1>3. KeyUsed(c) \in Keys
  BY <1>1, Zenon DEF Going, KeyUsed, Keys
<1>4. QED
  BY <1>1, <1>2, <1>3, Zenon

\* The router yields candidates of the catalog, and at least one.
LEMMA RoutesTyped ==
  ASSUME NEW q \in Requests, NEW U, NEW s \in Routes(q, U)
  PROVE  s \in Seq(Models) /\ s # <<>>
<1> DEFINE S == Eligible(q, U)
<1>1. S \subseteq Models
  BY Zenon DEF Eligible, Asked
<1>2. IsFiniteSet(S) /\ Cardinality(S) \in Nat
  BY <1>1, RoutingAssumption, FS_Subset, FS_CardinalityType, Zenon
<1>3. s \in [1..Cardinality(S) -> S] /\ S # {}
  BY Zenon DEF Routes
<1>4. Cardinality(S) # 0
  BY <1>2, <1>3, FS_EmptySet, Zenon
<1> HIDE DEF S
<1>5. s \in Seq(Models) /\ Len(s) = Cardinality(S)
  BY <1>1, <1>2, <1>3
<1>6. QED
  BY <1>4, <1>5, Zenon

LEMMA PrefixTyped ==
  ASSUME NEW s \in Seq(Models), s # <<>>, NEW n \in Nat \ {0}
  PROVE  Prefix(s, n) \in Seq(Models) \ {<<>>}
<1> DEFINE n1 == IF Len(s) < n THEN Len(s) ELSE n
<1>1. n1 \in 1..Len(s)
  OBVIOUS
<1>2. Prefix(s, n) = SubSeq(s, 1, n1)
  BY Zenon DEF Prefix
<1> HIDE DEF n1
<1>3. SubSeq(s, 1, n1) \in Seq(Models) /\ Len(SubSeq(s, 1, n1)) = n1
  BY <1>1
<1>4. QED
  BY <1>1, <1>2, <1>3

\* What a step of complete() after the routing may make of a call: it is over, or it
\* goes on with the same request, at the same or the next candidate.
GoesOn(old, new) ==
  \/ new = Idle
  \/ /\ new \in Going
     /\ new.pc # "routed" /\ (new.pc = "backoff" => new.attempt < MaxAttempts)
     /\ new.request = old.request /\ new.cost = old.cost
     /\ new.route = old.route \/ (Len(old.route) > 1 /\ new.route = Tail(old.route))

LEMMA TailTyped ==
  ASSUME NEW s \in Seq(Models), Len(s) > 1
  PROVE  Tail(s) \in Seq(Models) \ {<<>>}
<1>1. Tail(s) \in Seq(Models) /\ Len(Tail(s)) = Len(s) - 1
  OBVIOUS
<1>2. Len(Tail(s)) # 0
  BY <1>1
<1>3. QED
  BY <1>1, <1>2

LEMMA AfterModelGoesOn ==
  ASSUME Typed, NEW c \in Calls, call[c].pc # "idle", NEW e
  PROVE  GoesOn(call[c], AfterModel(c, e))
<1>1. call[c] \in Going
  BY GoingCall, Zenon
<1>2. Local \in Errors /\ 0 \in 0..MaxAttempts
  BY CallsAssumption DEF Local, Errors
<1>3. CASE e.retryable /\ Len(call[c].route) > 1
  <2>1. AfterModel(c, e) = [call[c] EXCEPT !.pc = "reserved", !.route = Tail(@),
                                           !.attempt = 0, !.probe = FALSE, !.error = Local]
    BY <1>3, Zenon DEF AfterModel
  <2>2. Tail(call[c].route) \in Seq(Models) \ {<<>>}
    BY <1>1, <1>3, TailTyped, Zenon DEF Going
  <2>3. AfterModel(c, e) \in Going /\ AfterModel(c, e).pc = "reserved"
    BY <1>1, <1>2, <2>1, <2>2, Zenon DEF Going
  <2>4. /\ AfterModel(c, e).request = call[c].request /\ AfterModel(c, e).cost = call[c].cost
        /\ AfterModel(c, e).route = Tail(call[c].route)
    BY <1>1, <2>1, Zenon DEF Going
  <2>5. QED
    BY <1>3, <2>3, <2>4, Zenon DEF GoesOn
<1>4. CASE ~(e.retryable /\ Len(call[c].route) > 1)
  <2>1. AfterModel(c, e) = [call[c] EXCEPT !.pc = "release", !.attempt = 0, !.probe = FALSE,
                                           !.error = Local]
    BY <1>1, <1>4, Zenon DEF AfterModel, Going
  <2>2. QED
    BY <1>1, <1>2, <2>1, Zenon DEF Going, GoesOn
<1>5. QED
  BY <1>3, <1>4, Zenon

\* A call that has been routed moves by steps of its own only, and as GoesOn says.
LEMMA CallStep ==
  ASSUME Typed, NEW c \in Calls, Progress(c) \/ CancelledWaiting(c)
  PROVE  /\ call[c].pc # "idle"
         /\ \E new : GoesOn(call[c], new) /\ call' = [call EXCEPT ![c] = new]
<1> DEFINE old == call[c]
<1>1. /\ Local \in Errors /\ Unavailable \in Errors /\ Cancelled \in Errors
      /\ 0 \in 0..MaxAttempts /\ 1 \in 0..MaxAttempts
  BY CallsAssumption DEF Errors, Local, Unavailable, Cancelled
<1>2. ASSUME old.pc # "idle"
      PROVE  /\ old \in Going
             /\ old.pc = "backoff" => old.attempt + 1 \in 0..MaxAttempts
  <2>1. old \in Going
    BY <1>2, GoingCall, Zenon
  <2>2. old.attempt \in 0..MaxAttempts
    BY <2>1, Zenon DEF Going
  <2>3. QED
    BY <2>1, <2>2, CallsAssumption DEF Typed
<1>3. GoesOn(old, Idle)
  BY Zenon DEF GoesOn
<1>4. ASSUME NEW e, EndModel(c, e), old.pc # "idle"
      PROVE  \E new : GoesOn(old, new) /\ call' = [call EXCEPT ![c] = new]
  BY <1>4, AfterModelGoesOn, Zenon DEF EndModel, Move
<1>5. CASE Reserve(c)
  <2>1. old.pc # "idle"
    BY <1>5, Zenon DEF Reserve
  <2>2. GoesOn(old, [old EXCEPT !.pc = "reserved"])
    BY <1>1, <1>2, <2>1, Zenon DEF Going, GoesOn
  <2>3. QED
    BY <1>3, <1>5, <2>1, <2>2, Zenon DEF Reserve, Move
<1>6. CASE CircuitRefuses(c)
  BY <1>6, AfterModelGoesOn, Zenon DEF CircuitRefuses, Move
<1>7. CASE TryModel(c)
  <2>1. old.pc # "idle"
    BY <1>7, Zenon DEF TryModel
  <2>2. PICK p \in BOOLEAN : call' = [call EXCEPT ![c] =
                                       [old EXCEPT !.pc = "wait", !.attempt = 1, !.probe = p]]
    BY <1>7, Zenon DEF TryModel, Move
  <2>4. GoesOn(old, [old EXCEPT !.pc = "wait", !.attempt = 1, !.probe = p])
    BY <1>1, <1>2, <2>1, Zenon DEF Going, GoesOn
  <2>5. QED
    BY <2>1, <2>2, <2>4, Zenon
<1>8. CASE RateLimited(c)
  BY <1>4, <1>8, Zenon DEF RateLimited
<1>9. CASE GetPermit(c)
  <2>1. old.pc # "idle"
    BY <1>9, Zenon DEF GetPermit
  <2>2. GoesOn(old, [old EXCEPT !.pc = "record"])
    BY <1>1, <1>2, <2>1, Zenon DEF Going, GoesOn
  <2>3. QED
    BY <1>9, <2>1, <2>2, Zenon DEF GetPermit, Move
<1>10. CASE NoPermit(c)
  BY <1>4, <1>10, Zenon DEF NoPermit
<1>11. CASE RecordAttempt(c)
  <2>1. old.pc # "idle"
    BY <1>11, Zenon DEF RecordAttempt
  <2>2. GoesOn(old, [old EXCEPT !.pc = "invoke"])
    BY <1>1, <1>2, <2>1, Zenon DEF Going, GoesOn
  <2>4. GoesOn(old, [old EXCEPT !.pc = "failed", !.error = Unavailable])
    BY <1>1, <1>2, <2>1, Zenon DEF Going, GoesOn
  <2>5. QED
    BY <1>11, <2>1, <2>2, <2>4, Zenon DEF RecordAttempt, Move
<1>12. CASE ProviderAnswers(c)
  <2>1. old.pc # "idle"
    BY <1>12, Zenon DEF ProviderAnswers
  <2>3. GoesOn(old, [old EXCEPT !.pc = "answered", !.attempt = 0, !.probe = FALSE])
    BY <1>1, <1>2, <2>1, Zenon DEF Going, GoesOn
  <2>4. QED
    BY <1>12, <2>1, <2>3, Zenon DEF ProviderAnswers, Move
<1>13. CASE ProviderFails(c)
  <2>1. old.pc # "idle"
    BY <1>13, Zenon DEF ProviderFails
  <2>2. PICK e \in Errors : call' = [call EXCEPT ![c] = [old EXCEPT !.pc = "failed", !.error = e]]
    BY <1>13, Zenon DEF ProviderFails, Move
  <2>4. GoesOn(old, [old EXCEPT !.pc = "failed", !.error = e])
    BY <1>1, <1>2, <2>1, Zenon DEF Going, GoesOn
  <2>5. QED
    BY <2>1, <2>2, <2>4, Zenon
<1>14. CASE RecordFailure(c)
  <2>1. old.pc # "idle"
    BY <1>14, Zenon DEF RecordFailure
  <2>2. CASE EndModel(c, old.error)
    BY <1>4, <2>1, <2>2, Zenon
  <2>3. CASE MayRetry(c) /\ Move(c, [old EXCEPT !.pc = "backoff", !.error = Local])
    <3> DEFINE new == [old EXCEPT !.pc = "backoff", !.error = Local]
    <3>1. old \in Going /\ old.attempt < MaxAttempts
      BY <2>1, <2>3, GoingCall, Zenon DEF MayRetry
    <3>2. new \in Going /\ new.pc = "backoff" /\ new.attempt = old.attempt
      BY <1>1, <3>1, Zenon DEF Going
    <3>3. new.request = old.request /\ new.cost = old.cost /\ new.route = old.route
      BY <3>1, Zenon DEF Going
    <3> HIDE DEF new
    <3>4. GoesOn(old, new)
      BY <3>1, <3>2, <3>3, Zenon DEF GoesOn
    <3>5. call' = [call EXCEPT ![c] = new]
      BY <2>3, Zenon DEF Move, new
    <3>6. QED
      BY <2>1, <3>4, <3>5, Zenon
  <2>4. QED
    BY <1>14, <2>2, <2>3, Zenon DEF RecordFailure
<1>15. CASE Retry(c)
  <2>1. old.pc = "backoff" /\ old.pc # "idle"
    BY <1>15, Zenon DEF Retry
  <2>2. CASE \E e \in {Local, Cancelled} : EndModel(c, e)
    BY <1>4, <2>1, <2>2, Zenon
  <2>3. CASE Move(c, [old EXCEPT !.pc = "wait", !.attempt = @ + 1])
    <3>2. GoesOn(old, [old EXCEPT !.pc = "wait", !.attempt = old.attempt + 1])
      BY <1>1, <1>2, <2>1, Zenon DEF Going, GoesOn
    <3>3. [old EXCEPT !.pc = "wait", !.attempt = @ + 1] =
            [old EXCEPT !.pc = "wait", !.attempt = old.attempt + 1]
      BY <2>1, GoingCall, Zenon DEF Going
    <3>4. QED
      BY <2>1, <2>3, <3>2, <3>3, Zenon DEF Move
  <2>4. QED
    BY <1>15, <2>2, <2>3, Zenon DEF Retry
<1>16. CASE SettleAnswer(c) \/ Release(c) \/ Escape(c) \/ OrphanEnds(c)
  BY <1>3, <1>16, Zenon DEF SettleAnswer, Release, Escape, OrphanEnds, Move
<1>17. CASE CancelledWaiting(c)
  <2>1. old.pc # "idle"
    BY <1>17, Zenon DEF CancelledWaiting
  <2>2. GoesOn(old, [old EXCEPT !.pc = "orphan"])
    BY <1>1, <1>2, <2>1, Zenon DEF Going, GoesOn
  <2>3. QED
    BY <1>17, <2>1, <2>2, Zenon DEF CancelledWaiting, Move
<1>18. QED
  BY <1>5, <1>6, <1>7, <1>8, <1>9, <1>10, <1>11, <1>12, <1>13, <1>14, <1>15, <1>16, <1>17, Zenon
     DEF Progress

LEMMA BreakersTyped ==
  ASSUME NEW b \in Breakers
  PROVE  /\ Succeeded(b) \in Breakers /\ Failed(b) \in Breakers
         /\ Abandoned(b) \in Breakers /\ Probing(b) \in Breakers
<1>1. Succeeded(b) \in Breakers
  BY CallsAssumption DEF Succeeded, Breakers
<1>2. Failed(b) \in Breakers
  <2> DEFINE n == IF b.failures = FailureThreshold THEN b.failures ELSE b.failures + 1
  <2>1. n \in 0..FailureThreshold
    BY CallsAssumption DEF Breakers
  <2>2. Failed(b) = [failures |-> n, busy |-> FALSE,
                     opened |-> IF n = FailureThreshold THEN "open" ELSE b.opened]
    BY Zenon DEF Failed
  <2> HIDE DEF n
  <2>3. QED
    BY <2>1, <2>2 DEF Breakers
<1>3. Abandoned(b) \in Breakers
  BY Zenon DEF Abandoned, Breakers
<1>4. Probing(b) \in Breakers
  BY Zenon DEF Probing, Breakers
<1>5. QED
  BY <1>1, <1>2, <1>3, <1>4, Zenon

\* A step of a call leaves the circuits, the permits and the repository well typed.
LEMMA SharedTyped ==
  ASSUME Typed, NEW c \in Calls, Progress(c) \/ CancelledWaiting(c)
  PROVE  /\ circuit' \in [Models -> Breakers]
         /\ permits' \in [Models -> Nat] /\ lost' \in [Models -> Nat]
         /\ reserved' \in [Keys -> {Inflight(q) : q \in Requests}
                                     \cup {Answered(q) : q \in Requests} \cup {Free}]
         /\ completes' = completes
<1> DEFINE Rows == {Inflight(q) : q \in Requests} \cup {Answered(q) : q \in Requests} \cup {Free}
<1>1. /\ circuit \in [Models -> Breakers] /\ permits \in [Models -> Nat]
      /\ lost \in [Models -> Nat] /\ reserved \in [Keys -> Rows]
  BY Zenon DEF Typed
<1>2. call[c].pc # "idle"
  BY CallStep, Zenon
<1>3. /\ Model(c) \in Models /\ KeyUsed(c) \in Keys
      /\ Inflight(call[c].request) \in Rows /\ Answered(call[c].request) \in Rows /\ Free \in Rows
  BY <1>2, GoingCall, Zenon DEF Going
<1> HIDE DEF Rows
<1>4. ASSUME NEW b \in Breakers PROVE [circuit EXCEPT ![Model(c)] = b] \in [Models -> Breakers]
  BY <1>1, Zenon
<1>5. \A e : CircuitAfter(c, e) \in Breakers
  BY <1>1, <1>3, BreakersTyped, Zenon DEF CircuitAfter
<1>6. ProbeFreed(c) \in [Models -> Breakers]
  BY <1>1, <1>3, <1>4, BreakersTyped, Zenon DEF ProbeFreed
<1>7. ReleasePermit(c) => permits' \in [Models -> Nat]
  BY <1>1, <1>3 DEF ReleasePermit
<1>8. permits[Model(c)] > 0 => [permits EXCEPT ![Model(c)] = @ - 1] \in [Models -> Nat]
  BY <1>1, <1>3
<1>9. \A e : EndModel(c, e) => circuit' \in [Models -> Breakers]
  BY <1>4, <1>5, Zenon DEF EndModel
<1>10. CASE Reserve(c)
  BY <1>1, <1>3, <1>10, Zenon DEF Reserve, Rows
<1>11. CASE CircuitRefuses(c) \/ CancelledWaiting(c) \/ RecordAttempt(c) \/ ProviderFails(c)
  BY <1>1, <1>11, Zenon DEF CircuitRefuses, CancelledWaiting, RecordAttempt, ProviderFails, Rows
<1>12. CASE TryModel(c)
  <2>1. circuit' = [circuit EXCEPT ![Model(c)] = Probing(circuit[Model(c)])]
    BY <1>12, Zenon DEF TryModel
  <2>2. circuit' \in [Models -> Breakers]
    BY <1>1, <1>3, <1>4, <2>1, BreakersTyped, Zenon
  <2>3. QED
    BY <1>1, <1>12, <2>2, Zenon DEF TryModel, Rows
<1>13. CASE RateLimited(c) \/ NoPermit(c)
  BY <1>1, <1>9, <1>13, Zenon DEF RateLimited, NoPermit, Rows
<1>14. CASE GetPermit(c)
  BY <1>1, <1>8, <1>14, Zenon DEF GetPermit, Rows
<1>15. CASE ProviderAnswers(c)
  <2>1. circuit' = [circuit EXCEPT ![Model(c)] = Succeeded(circuit[Model(c)])]
    BY <1>15, Zenon DEF ProviderAnswers
  <2>2. circuit' \in [Models -> Breakers]
    BY <1>1, <1>3, <1>4, <2>1, BreakersTyped, Zenon
  <2>3. QED
    BY <1>1, <1>7, <1>15, <2>2, Zenon DEF ProviderAnswers, Rows
<1>16. CASE RecordFailure(c)
  BY <1>1, <1>7, <1>9, <1>16, Zenon DEF RecordFailure, Rows
<1>17. CASE Retry(c)
  BY <1>1, <1>7, <1>9, <1>17, Zenon DEF Retry, Rows
<1>18. CASE SettleAnswer(c)
  <2>1. PICK r \in Rows : reserved' = [reserved EXCEPT ![KeyUsed(c)] = r]
    BY <1>3, <1>18, Zenon DEF SettleAnswer
  <2>2. QED
    BY <1>1, <1>3, <1>18, <2>1, Zenon DEF SettleAnswer, Rows
<1>19. CASE Release(c)
  BY <1>1, <1>3, <1>19, Zenon DEF Release, Rows
<1>20. CASE Escape(c)
  BY <1>1, <1>6, <1>7, <1>20, Zenon DEF Escape, Rows
<1>21. CASE OrphanEnds(c)
  BY <1>1, <1>3, <1>6, <1>8, <1>21 DEF OrphanEnds, Rows
<1>22. QED
  BY <1>10, <1>11, <1>12, <1>13, <1>14, <1>15, <1>16, <1>17, <1>18, <1>19, <1>20, <1>21, Zenon
     DEF Progress

LEMMA RoutedTyped ==
  ASSUME NEW q \in Requests, NEW s \in Seq(Models) \ {<<>>}
  PROVE  /\ Routed(q, s) \in Going /\ Routed(q, s).pc = "routed"
         /\ Routed(q, s).route = s /\ Routed(q, s).request = q
         /\ Routed(q, s).cost = ReservationCost(s, q)
<1>1. ReservationCost(s, q) \in Nat
  BY ReservationBounds, Zenon
<1>2. QED
  BY <1>1, CallsAssumption DEF Routed, Going, Errors, Local

\* complete() starts a call at a candidate of the catalog.
LEMMA CompleteStarts ==
  ASSUME NEW c \in Calls, NEW q \in Requests, Complete(c, q)
  PROVE  \E s \in Seq(Models) \ {<<>>} : call' = [call EXCEPT ![c] = Routed(q, s)]
<1>1. PICK s \in Routes(q, OpenModels) : Move(c, Routed(q, Prefix(s, MaxFailovers + 1)))
  BY Zenon DEF Complete
<1>2. MaxFailovers + 1 \in Nat \ {0}
  BY CallsAssumption
<1>3. s \in Seq(Models) /\ s # <<>>
  BY RoutesTyped, Zenon
<1>4. Prefix(s, MaxFailovers + 1) \in Seq(Models) \ {<<>>}
  BY <1>2, <1>3, PrefixTyped, Zenon
<1>5. QED
  BY <1>1, <1>4, Zenon DEF Move

LEMMA TypedInit == Init => Typed
BY CallsAssumption DEF Init, Typed, Breakers, Idle

LEMMA TypedStep == Typed /\ [Next]_vars => Typed'
<1> SUFFICES ASSUME Typed, [Next]_vars PROVE Typed'
  OBVIOUS
<1>1. ASSUME NEW m \in Models, RecoveryTime(m) PROVE Typed'
  BY <1>1, Zenon DEF RecoveryTime, Typed, Breakers
<1>2. ASSUME NEW c \in Calls, NEW q \in Requests, Complete(c, q) PROVE Typed'
  <2>1. PICK s \in Seq(Models) \ {<<>>} : call' = [call EXCEPT ![c] = Routed(q, s)]
    BY <1>2, CompleteStarts, Zenon
  <2>3. Routed(q, s) \in Going /\ Routed(q, s).pc = "routed"
    BY RoutedTyped, Zenon
  <2>5. call' \in [Calls -> Going \cup {Idle}]
    BY <2>1, <2>3, Zenon DEF Typed
  <2>6. \A d \in Calls : call'[d].pc = "backoff" => call'[d].attempt < MaxAttempts
    BY <2>1, <2>3, Zenon DEF Typed
  <2>7. completes' \in 0..MaxCompletes
    BY <1>2, CallsAssumption DEF Complete, Typed
  <2>8. QED
    BY <1>2, <2>5, <2>6, <2>7, Zenon DEF Complete, Typed
<1>3. ASSUME NEW c \in Calls, Progress(c) \/ CancelledWaiting(c) PROVE Typed'
  <2>1. PICK new : GoesOn(call[c], new) /\ call' = [call EXCEPT ![c] = new]
    BY <1>3, CallStep, Zenon
  <2>2. call' \in [Calls -> Going \cup {Idle}]
    BY <2>1, Zenon DEF Typed, GoesOn
  <2>3. \A d \in Calls : call'[d].pc = "backoff" => call'[d].attempt < MaxAttempts
    BY <2>1 DEF Typed, GoesOn, Idle
  <2>4. QED
    BY <1>3, <2>2, <2>3, SharedTyped, Zenon DEF Typed
<1>4. CASE UNCHANGED vars
  BY <1>4, Zenon DEF vars, Typed
<1>5. QED
  BY <1>1, <1>2, <1>3, <1>4, Zenon DEF Next

-----------------------------------------------------------------------------
(* The repository: one call per key, and answers that stay.                 *)

LEMMA OneInFlightInit == Init => OneInFlight
BY DEF Init, OneInFlight, InFlight, Idle

\* A step that leaves the repository alone keeps every other call where it is.
LEMMA OneInFlightKept ==
  ASSUME Typed, OneInFlight, NEW c \in Calls, InFlight(c), reserved' = reserved,
         NEW new, GoesOn(call[c], new), call' = [call EXCEPT ![c] = new]
  PROVE  OneInFlight'
<1>1. ASSUME NEW d \in Calls, InFlight(d)'
      PROVE  InFlight(d) /\ KeyUsed(d)' = KeyUsed(d) /\ call'[d].request = call[d].request
  <2>1. CASE d = c
    <3>1. new # Idle /\ call'[d] = new
      BY <1>1, <2>1 DEF InFlight, Idle, Typed
    <3>2. QED
      BY <2>1, <3>1, Zenon DEF GoesOn, KeyUsed
  <2>2. CASE d # c
    BY <1>1, <2>2, Zenon DEF InFlight, KeyUsed, Typed
  <2>3. QED
    BY <2>1, <2>2, Zenon
<1>2. QED
  BY <1>1, Zenon DEF OneInFlight

\* A key that becomes free, or answered, is that of a call that is over.
LEMMA OneInFlightSettled ==
  ASSUME Typed, OneInFlight, NEW c \in Calls, InFlight(c), NEW r,
         reserved' = [reserved EXCEPT ![KeyUsed(c)] = r], call' = [call EXCEPT ![c] = Idle]
  PROVE  OneInFlight'
<1>1. ASSUME NEW d \in Calls, InFlight(d)'
      PROVE  d # c /\ InFlight(d) /\ call'[d] = call[d] /\ KeyUsed(d)' = KeyUsed(d)
  BY <1>1, Zenon DEF InFlight, KeyUsed, Idle, Typed
<1>2. ASSUME NEW d \in Calls, InFlight(d)'
      PROVE  reserved'[KeyUsed(d)] = reserved[KeyUsed(d)]
  <2>1. KeyUsed(d) # KeyUsed(c)
    BY <1>1, <1>2, Zenon DEF OneInFlight
  <2>2. KeyUsed(d) \in Keys
    BY <1>1, <1>2, GoingCall, Zenon DEF InFlight
  <2>3. QED
    BY <2>1, <2>2, Zenon DEF Typed
<1>3. QED
  BY <1>1, <1>2, Zenon DEF OneInFlight

LEMMA OneInFlightReserve ==
  ASSUME Typed, OneInFlight, NEW c \in Calls, Reserve(c)
  PROVE  OneInFlight'
<1>1. call[c].pc = "routed" /\ call[c] \in Going /\ KeyUsed(c) \in Keys
  BY GoingCall, Zenon DEF Reserve
<1>2. CASE reserved[KeyUsed(c)] # Free
  <2>1. call' = [call EXCEPT ![c] = Idle] /\ reserved' = reserved
    BY <1>2, Zenon DEF Reserve, Move
  <2>2. \A d \in Calls : InFlight(d)' => InFlight(d) /\ call'[d] = call[d] /\ KeyUsed(d)' = KeyUsed(d)
    BY <2>1, Zenon DEF InFlight, KeyUsed, Idle, Typed
  <2>3. QED
    BY <2>1, <2>2, Zenon DEF OneInFlight
<1>3. CASE reserved[KeyUsed(c)] = Free
  <2> DEFINE new == [call[c] EXCEPT !.pc = "reserved"]
  <2>1. /\ call' = [call EXCEPT ![c] = new]
        /\ reserved' = [reserved EXCEPT ![KeyUsed(c)] = Inflight(call[c].request)]
    BY <1>3, Zenon DEF Reserve, Move
  <2>2. new.request = call[c].request
    BY <1>1, Zenon DEF Going
  <2> HIDE DEF new
  <2>3. call'[c] = new /\ KeyUsed(c)' = KeyUsed(c)
    BY <2>1, <2>2, Zenon DEF KeyUsed, Typed
  <2>4. \A d \in Calls \ {c} : call'[d] = call[d] /\ KeyUsed(d)' = KeyUsed(d)
    BY <2>1, Zenon DEF KeyUsed, Typed
  <2>5. ASSUME NEW d \in Calls \ {c}, InFlight(d)'
        PROVE  /\ InFlight(d) /\ KeyUsed(d) # KeyUsed(c)
               /\ reserved'[KeyUsed(d)] = Inflight(call[d].request)
    <3>1. InFlight(d)
      BY <2>4, <2>5, Zenon DEF InFlight
    <3>2. reserved[KeyUsed(d)] = Inflight(call[d].request)
      BY <3>1, Zenon DEF OneInFlight
    <3>3. reserved[KeyUsed(d)] # Free
      BY <3>2 DEF Inflight, Free
    <3>4. KeyUsed(d) # KeyUsed(c) /\ KeyUsed(d) \in Keys
      BY <1>3, <3>1, <3>3, GoingCall, Zenon DEF InFlight
    <3>5. QED
      BY <2>1, <3>1, <3>2, <3>4, Zenon DEF Typed
  <2>6. reserved'[KeyUsed(c)] = Inflight(call[c].request)
    BY <1>1, <2>1, Zenon DEF Typed
  <2>7. QED
    BY <2>2, <2>3, <2>4, <2>5, <2>6, Zenon DEF OneInFlight
<1>4. QED
  BY <1>2, <1>3, Zenon

LEMMA OneInFlightStep == Typed /\ OneInFlight /\ [Next]_vars => OneInFlight'
<1> SUFFICES ASSUME Typed, OneInFlight, [Next]_vars PROVE OneInFlight'
  OBVIOUS
<1>1. CASE UNCHANGED vars \/ \E m \in Models : RecoveryTime(m)
  <2>1. call' = call /\ reserved' = reserved
    BY <1>1, Zenon DEF vars, RecoveryTime
  <2>2. QED
    BY <2>1, Zenon DEF OneInFlight, InFlight, KeyUsed
<1>2. ASSUME NEW c \in Calls, NEW q \in Requests, Complete(c, q) PROVE OneInFlight'
  <2>1. PICK s \in Seq(Models) \ {<<>>} : call' = [call EXCEPT ![c] = Routed(q, s)]
    BY <1>2, CompleteStarts, Zenon
  <2>2. reserved' = reserved /\ Routed(q, s).pc = "routed"
    BY <1>2, RoutedTyped DEF Complete
  <2>3. \A d \in Calls : InFlight(d)' => InFlight(d) /\ call'[d] = call[d] /\ KeyUsed(d)' = KeyUsed(d)
    BY <2>1, <2>2, Zenon DEF InFlight, KeyUsed, Typed
  <2>4. QED
    BY <2>2, <2>3, Zenon DEF OneInFlight
<1>3. ASSUME NEW c \in Calls, Reserve(c) PROVE OneInFlight'
  BY <1>3, OneInFlightReserve, Zenon
<1>4. ASSUME NEW c \in Calls, SettleAnswer(c) \/ Release(c) PROVE OneInFlight'
  <2>1. InFlight(c) /\ call' = [call EXCEPT ![c] = Idle]
    BY <1>4, Zenon DEF SettleAnswer, Release, InFlight, Move
  <2>2. \E r : reserved' = [reserved EXCEPT ![KeyUsed(c)] = r]
    BY <1>4, Zenon DEF SettleAnswer, Release
  <2>3. QED
    BY <2>1, <2>2, OneInFlightSettled, Zenon
<1>5. ASSUME NEW c \in Calls, Progress(c) \/ CancelledWaiting(c),
             ~(Reserve(c) \/ SettleAnswer(c) \/ Release(c))
      PROVE  OneInFlight'
  <2>1. InFlight(c) /\ reserved' = reserved
    BY <1>5, Zenon DEF Progress, CancelledWaiting, InFlight, CircuitRefuses, TryModel, RateLimited,
                GetPermit, NoPermit, RecordAttempt, ProviderAnswers, ProviderFails, RecordFailure,
                Retry, Escape, OrphanEnds
  <2>2. \E new : GoesOn(call[c], new) /\ call' = [call EXCEPT ![c] = new]
    BY <1>5, CallStep, Zenon
  <2>3. QED
    BY <2>1, <2>2, OneInFlightKept, Zenon
<1>6. QED
  BY <1>1, <1>2, <1>3, <1>4, <1>5, Zenon DEF Next, Progress

\* Every step leaves the answers that are stored.
LEMMA AnswersStayStep ==
  ASSUME Typed, OneInFlight, [Next]_vars, NEW k \in Keys, reserved[k].state = "completed"
  PROVE  reserved'[k] = reserved[k]
<1>1. ASSUME NEW c \in Calls, SettleAnswer(c) \/ Release(c) PROVE reserved'[k] = reserved[k]
  <2>1. InFlight(c) /\ KeyUsed(c) \in Keys
    BY <1>1, GoingCall, Zenon DEF SettleAnswer, Release, InFlight
  <2>2. reserved[KeyUsed(c)].state = "active"
    <3>1. reserved[KeyUsed(c)] = Inflight(call[c].request)
      BY <2>1, Zenon DEF OneInFlight
    <3>2. QED
      BY <3>1 DEF Inflight
  <2>3. \E r : reserved' = [reserved EXCEPT ![KeyUsed(c)] = r]
    BY <1>1, Zenon DEF SettleAnswer, Release
  <2>4. QED
    BY <2>1, <2>2, <2>3, Zenon DEF Typed
<1>2. ASSUME NEW c \in Calls, Reserve(c) PROVE reserved'[k] = reserved[k]
  <2>1. reserved[k] # Free
    BY DEF Free
  <2>2. QED
    BY <1>2, <2>1, Zenon DEF Reserve, Typed
<1>3. CASE reserved' = reserved
  BY <1>3, Zenon
<1>4. QED
  BY <1>1, <1>2, <1>3, Zenon
     DEF Next, Progress, vars, RecoveryTime, Complete, CancelledWaiting, CircuitRefuses, TryModel,
         RateLimited, GetPermit, NoPermit, RecordAttempt, ProviderAnswers, ProviderFails,
         RecordFailure, Retry, Escape, OrphanEnds

-----------------------------------------------------------------------------
(* What is reserved covers every candidate that is left.                    *)

Covers(r) ==
  \A u \in Usages : Billable(u) <= TokenLimit(r.request) =>
    \A i \in 1..Len(r.route) : Cost(r.route[i], u) <= r.cost

LEMMA CoversGoesOn ==
  ASSUME NEW old \in Going, Covers(old), NEW new \in Going, GoesOn(old, new)
  PROVE  Covers(new)
<1>1. new # Idle
  BY DEF Going, Idle
<1>2. new.request = old.request /\ new.cost = old.cost
  BY <1>1, Zenon DEF GoesOn
<1>3. CASE new.route = old.route
  BY <1>2, <1>3, Zenon DEF Covers
<1>4. CASE Len(old.route) > 1 /\ new.route = Tail(old.route)
  <2>1. old.route \in Seq(Models)
    BY Zenon DEF Going
  <2>2. /\ Len(new.route) = Len(old.route) - 1
        /\ \A i \in 1..Len(new.route) : i + 1 \in 1..Len(old.route)
                                         /\ new.route[i] = old.route[i + 1]
    BY <1>4, <2>1
  <2>3. QED
    BY <1>2, <2>2, Zenon DEF Covers
<1>5. QED
  BY <1>1, <1>3, <1>4, Zenon DEF GoesOn

LEMMA ReservationCoversStep ==
  Typed /\ ReservationCovers /\ [Next]_vars => ReservationCovers'
<1> SUFFICES ASSUME Typed, ReservationCovers, [Next]_vars PROVE ReservationCovers'
  OBVIOUS
<1>1. ReservationCovers <=> \A c \in Calls : call[c].pc # "idle" => Covers(call[c])
  BY Zenon DEF ReservationCovers, Covers
<1>2. ReservationCovers' <=> \A c \in Calls : call'[c].pc # "idle" => Covers(call'[c])
  BY Zenon DEF ReservationCovers, Covers
<1>3. CASE UNCHANGED vars \/ \E m \in Models : RecoveryTime(m)
  <2>1. call' = call
    BY <1>3, Zenon DEF vars, RecoveryTime
  <2>2. QED
    BY <1>1, <1>2, <2>1, Zenon
<1>4. ASSUME NEW c \in Calls, NEW q \in Requests, Complete(c, q) PROVE ReservationCovers'
  <2>1. PICK s \in Seq(Models) \ {<<>>} : call' = [call EXCEPT ![c] = Routed(q, s)]
    BY <1>4, CompleteStarts, Zenon
  <2>2. Covers(Routed(q, s))
    BY RoutedTyped, ReservationBounds, CallsAssumption DEF Covers
  <2>3. QED
    BY <1>1, <1>2, <2>1, <2>2, Zenon DEF Typed
<1>5. ASSUME NEW c \in Calls, Progress(c) \/ CancelledWaiting(c) PROVE ReservationCovers'
  <2>1. PICK new : GoesOn(call[c], new) /\ call' = [call EXCEPT ![c] = new]
    BY <1>5, CallStep, Zenon
  <2>2. call[c] \in Going /\ Covers(call[c])
    BY <1>1, <1>5, CallStep, GoingCall, Zenon
  <2>3. new.pc # "idle" => Covers(new)
    BY <2>1, <2>2, CoversGoesOn DEF GoesOn, Idle
  <2>4. QED
    BY <1>1, <1>2, <2>1, <2>3, Zenon DEF Typed
<1>6. QED
  BY <1>3, <1>4, <1>5, Zenon DEF Next

-----------------------------------------------------------------------------
(* The probe of a circuit that is half open.                                *)

ProbeOf(r, m) == r.pc \in InTryModel /\ r.probe /\ Head(r.route) = m

LEMMA BusyStep == Typed /\ BusyMeansProbing /\ [Next]_vars => BusyMeansProbing'
<1> SUFFICES ASSUME Typed, BusyMeansProbing, [Next]_vars PROVE BusyMeansProbing'
  OBVIOUS
<1>1. BusyMeansProbing <=> \A m \in Models : circuit[m].busy => \E d \in Calls : ProbeOf(call[d], m)
  BY Zenon DEF BusyMeansProbing, ProbesOf, ProbeOf, Model
<1>2. BusyMeansProbing' <=> \A m \in Models : circuit'[m].busy => \E d \in Calls : ProbeOf(call'[d], m)
  BY Zenon DEF BusyMeansProbing, ProbesOf, ProbeOf, Model
<1>3. circuit \in [Models -> Breakers] /\ call \in [Calls -> Going \cup {Idle}]
  BY Zenon DEF Typed
\* A step of a call keeps the property when the circuit it was the probe of is free
\* afterwards, or when it is still the probe.
<1>4. ASSUME NEW c \in Calls, NEW new, call' = [call EXCEPT ![c] = new],
             \A m \in Models : circuit'[m].busy =>
               \/ ProbeOf(new, m)
               \/ circuit[m].busy /\ ~ProbeOf(call[c], m)
      PROVE  BusyMeansProbing'
  <2>1. SUFFICES ASSUME NEW m \in Models, circuit'[m].busy
                 PROVE  \E d \in Calls : ProbeOf(call'[d], m)
    BY <1>2, Zenon
  <2>2. call'[c] = new /\ \A d \in Calls \ {c} : call'[d] = call[d]
    BY <1>3, <1>4, Zenon
  <2>3. CASE ProbeOf(new, m)
    BY <2>2, <2>3, Zenon
  <2>4. CASE circuit[m].busy /\ ~ProbeOf(call[c], m)
    <3>1. PICK d \in Calls : ProbeOf(call[d], m)
      BY <1>1, <2>4, Zenon
    <3>2. QED
      BY <2>2, <2>4, <3>1, Zenon
  <2>5. QED
    BY <1>4, <2>1, <2>3, <2>4, Zenon
<1>5. CASE UNCHANGED vars \/ \E m \in Models : RecoveryTime(m)
  <2>1. call' = call /\ \A m \in Models : circuit'[m].busy = circuit[m].busy
    BY <1>3, <1>5 DEF vars, RecoveryTime, Breakers
  <2>2. QED
    BY <1>1, <1>2, <2>1, Zenon
<1>6. ASSUME NEW c \in Calls, NEW q \in Requests, Complete(c, q) PROVE BusyMeansProbing'
  <2>1. PICK s \in Seq(Models) \ {<<>>} : call' = [call EXCEPT ![c] = Routed(q, s)]
    BY <1>6, CompleteStarts, Zenon
  <2>2. circuit' = circuit /\ call[c].pc = "idle"
    BY <1>6, Zenon DEF Complete
  <2>3. \A m \in Models : ~ProbeOf(call[c], m)
    BY <2>2, Zenon DEF ProbeOf, InTryModel, Holding
  <2>4. QED
    BY <1>4, <2>1, <2>2, <2>3, Zenon
<1>7. ASSUME NEW c \in Calls, Progress(c) \/ CancelledWaiting(c) PROVE BusyMeansProbing'
  <2> DEFINE old == call[c]
  <2>1. old \in Going /\ Model(c) \in Models /\ old.pc # "idle"
    BY <1>7, CallStep, GoingCall, Zenon
  <2>2. \A m \in Models \ {Model(c)} : ~ProbeOf(old, m)
    BY Zenon DEF ProbeOf, Model
  <2>3. ASSUME NEW new, call' = [call EXCEPT ![c] = new], NEW b,
               circuit' = [circuit EXCEPT ![Model(c)] = b], ~b.busy
        PROVE  BusyMeansProbing'
    BY <1>3, <1>4, <2>1, <2>2, <2>3, Zenon
  <2>4. ASSUME NEW e, EndModel(c, e) PROVE BusyMeansProbing'
    <3>1. ~CircuitAfter(c, e).busy
      BY <1>3, <2>1, Zenon DEF CircuitAfter, Failed, Abandoned, Breakers
    <3>2. QED
      BY <2>3, <2>4, <3>1, Zenon DEF EndModel, Move
  <2>5. ASSUME old.pc \notin InTryModel, circuit' = circuit, NEW new, Move(c, new)
        PROVE  BusyMeansProbing'
    BY <1>4, <2>5, Zenon DEF ProbeOf, Move
  <2>6. ASSUME old.pc \in InTryModel, circuit' = circuit, NEW pc \in InTryModel, NEW new \in Going,
               Move(c, new), new.pc = pc, new.probe = old.probe, new.route = old.route
        PROVE  BusyMeansProbing'
    BY <1>4, <2>6, Zenon DEF ProbeOf, Move
  <2>7. ASSUME circuit' = ProbeFreed(c), Move(c, Idle) PROVE BusyMeansProbing'
    <3>1. CASE old.probe
      <4>1. ~Abandoned(circuit[Model(c)]).busy
        BY <1>3, <2>1, Zenon DEF Abandoned, Breakers
      <4>2. QED
        BY <2>3, <2>7, <3>1, <4>1, Zenon DEF ProbeFreed, Move
    <3>2. CASE ~old.probe
      BY <1>4, <2>7, <3>2, Zenon DEF ProbeFreed, ProbeOf, Move
    <3>3. QED
      BY <3>1, <3>2, Zenon
  <2>8. CASE Reserve(c) \/ CircuitRefuses(c) \/ SettleAnswer(c) \/ Release(c)
    BY <2>5, <2>8, Zenon DEF Reserve, CircuitRefuses, SettleAnswer, Release, InTryModel, Holding
  <2>9. CASE RateLimited(c) \/ NoPermit(c)
    BY <2>4, <2>9, Zenon DEF RateLimited, NoPermit
  <2>10. CASE TryModel(c)
    <3> DEFINE new == [old EXCEPT !.pc = "wait", !.attempt = 1,
                                  !.probe = circuit[Model(c)].opened = "half_open"]
    <3>1. /\ call' = [call EXCEPT ![c] = new]
          /\ circuit' = [circuit EXCEPT ![Model(c)] = Probing(circuit[Model(c)])]
          /\ old.pc = "reserved" /\ ~Refused(Model(c))
      BY <2>10, Zenon DEF TryModel, Move
    <3>2. /\ new.pc = "wait" /\ new.route = old.route
          /\ new.probe = (circuit[Model(c)].opened = "half_open")
      BY <2>1, Zenon DEF Going
    <3> HIDE DEF new
    <3>3. \A m \in Models : ~ProbeOf(old, m)
      BY <3>1, Zenon DEF ProbeOf, InTryModel, Holding
    <3>4. CASE circuit[Model(c)].opened = "half_open"
      <4>1. ProbeOf(new, Model(c))
        BY <3>2, <3>4, Zenon DEF ProbeOf, InTryModel, Model
      <4>2. \A m \in Models \ {Model(c)} : circuit'[m] = circuit[m]
        BY <1>3, <3>1, Zenon
      <4>3. \A m \in Models : circuit'[m].busy =>
              ProbeOf(new, m) \/ (circuit[m].busy /\ ~ProbeOf(call[c], m))
        BY <3>3, <4>1, <4>2, Zenon
      <4>4. QED
        BY <1>4, <3>1, <4>3, Zenon
    <3>5. CASE circuit[Model(c)].opened # "half_open"
      <4>1. circuit' = circuit
        BY <1>3, <2>1, <3>1, <3>5, Zenon DEF Probing
      <4>2. QED
        BY <1>4, <3>1, <3>3, <4>1, Zenon
    <3>6. QED
      BY <3>4, <3>5, Zenon
  <2>11. CASE GetPermit(c) \/ CancelledWaiting(c)
    <3>1. PICK pc \in {"record", "orphan"} : Move(c, [old EXCEPT !.pc = pc])
      BY <2>11, Zenon DEF GetPermit, CancelledWaiting
    <3>2. /\ [old EXCEPT !.pc = pc] \in Going /\ [old EXCEPT !.pc = pc].pc = pc
          /\ [old EXCEPT !.pc = pc].probe = old.probe /\ [old EXCEPT !.pc = pc].route = old.route
      BY <2>1, Zenon DEF Going
    <3>3. QED
      BY <2>6, <2>11, <3>1, <3>2, Zenon DEF GetPermit, CancelledWaiting, InTryModel, Holding
  <2>12. CASE RecordAttempt(c) \/ ProviderFails(c)
    <3>1. PICK pc \in {"invoke", "failed"}, e \in Errors : Move(c, [old EXCEPT !.pc = pc, !.error = e])
      <4>1. [old EXCEPT !.pc = "invoke"] = [old EXCEPT !.pc = "invoke", !.error = old.error]
            /\ old.error \in Errors
        BY <2>1, Zenon DEF Going
      <4>2. Unavailable \in Errors
        BY Zenon DEF Unavailable, Errors
      <4>3. QED
        BY <2>12, <4>1, <4>2, Zenon DEF RecordAttempt, ProviderFails
    <3> DEFINE new == [old EXCEPT !.pc = pc, !.error = e]
    <3>2. new \in Going /\ new.pc = pc /\ new.probe = old.probe /\ new.route = old.route
      BY <2>1, Zenon DEF Going
    <3>3. QED
      BY <2>6, <2>12, <3>1, <3>2, Zenon DEF RecordAttempt, ProviderFails, InTryModel, Holding
  <2>13. CASE ProviderAnswers(c)
    <3>1. ~Succeeded(circuit[Model(c)]).busy
      BY Zenon DEF Succeeded
    <3>2. QED
      BY <2>3, <2>13, <3>1, Zenon DEF ProviderAnswers, Move
  <2>14. CASE RecordFailure(c)
    <3>1. CASE EndModel(c, old.error)
      BY <2>4, <3>1, Zenon
    <3>2. CASE Move(c, [old EXCEPT !.pc = "backoff", !.error = Local]) /\ UNCHANGED circuit
      <4> DEFINE new == [old EXCEPT !.pc = "backoff", !.error = Local]
      <4>1. new \in Going /\ new.pc = "backoff" /\ new.probe = old.probe /\ new.route = old.route
        BY <2>1, Zenon DEF Going, Local, Errors
      <4>2. QED
        BY <2>6, <2>14, <3>2, <4>1, Zenon DEF RecordFailure, InTryModel, Holding
    <3>3. QED
      BY <2>14, <3>1, <3>2, Zenon DEF RecordFailure
  <2>15. CASE Retry(c)
    <3>1. CASE \E e \in {Local, Cancelled} : EndModel(c, e)
      BY <2>4, <3>1, Zenon
    <3>2. CASE Move(c, [old EXCEPT !.pc = "wait", !.attempt = @ + 1]) /\ UNCHANGED circuit
      <4> DEFINE new == [old EXCEPT !.pc = "wait", !.attempt = @ + 1]
      <4>1. old.pc = "backoff" /\ old.attempt \in 0..MaxAttempts /\ old.attempt < MaxAttempts
        BY <2>1, <2>15, Zenon DEF Retry, Typed, Going
      <4>2. old.attempt + 1 \in 0..MaxAttempts
        BY <4>1, CallsAssumption
      <4>3. new = [old EXCEPT !.pc = "wait", !.attempt = old.attempt + 1]
        BY <2>1, Zenon DEF Going
      <4>4. new \in Going /\ new.pc = "wait" /\ new.probe = old.probe /\ new.route = old.route
        <5> HIDE DEF new
        <5> QED
          BY <2>1, <4>2, <4>3, Zenon DEF Going
      <4>5. QED
        BY <2>6, <3>2, <4>1, <4>4, Zenon DEF InTryModel, Holding
    <3>3. QED
      BY <2>15, <3>1, <3>2, Zenon DEF Retry
  <2>16. CASE Escape(c) \/ OrphanEnds(c)
    BY <2>7, <2>16, Zenon DEF Escape, OrphanEnds
  <2>17. QED
    BY <1>7, <2>8, <2>9, <2>10, <2>11, <2>12, <2>13, <2>14, <2>15, <2>16, Zenon DEF Progress
<1>8. QED
  BY <1>5, <1>6, <1>7, Zenon DEF Next

-----------------------------------------------------------------------------
(* Permits.                                                                *)

Holders(m) == {c \in Calls : call[c].pc \in Holding /\ Model(c) = m}

LEMMA HoldersFinite ==
  ASSUME NEW m
  PROVE  IsFiniteSet(Holders(m)) /\ Cardinality(Holders(m)) \in Nat
<1>1. Holders(m) \subseteq Calls
  BY Zenon DEF Holders
<1>2. QED
  BY <1>1, CallsAssumption, FS_Subset, FS_CardinalityType, Zenon

Balanced(m) == permits[m] + Cardinality(Holders(m)) + lost[m] = Concurrency

LEMMA ConservedIsBalanced == PermitsConserved <=> \A m \in Models : Balanced(m)
BY Zenon DEF PermitsConserved, Balanced, Holders

\* A step that neither takes nor gives back a permit.
LEMMA HoldersKept ==
  ASSUME Typed, PermitsConserved, NEW c \in Calls, NEW new, call' = [call EXCEPT ![c] = new],
         permits' = permits, lost' = lost,
         new.pc \in Holding <=> call[c].pc \in Holding,
         new.pc \in Holding => Head(new.route) = Model(c)
  PROVE  PermitsConserved'
<1>1. SUFFICES ASSUME NEW m \in Models PROVE Balanced(m)'
  BY ConservedIsBalanced, Zenon DEF PermitsConserved, Balanced, Holders
<1>2. Holders(m)' = Holders(m)
  BY Zenon DEF Holders, Model, Typed
<1>3. QED
  BY <1>2, ConservedIsBalanced, Zenon DEF Balanced

\* A step that gives its permit back.
LEMMA HolderLeaves ==
  ASSUME Typed, PermitsConserved, NEW c \in Calls, NEW new, call' = [call EXCEPT ![c] = new],
         call[c].pc \in Holding, new.pc \notin Holding, ReleasePermit(c), lost' = lost
  PROVE  PermitsConserved'
<1>1. SUFFICES ASSUME NEW m \in Models PROVE Balanced(m)'
  BY ConservedIsBalanced, Zenon DEF PermitsConserved, Balanced, Holders
<1>2. Balanced(m) /\ permits[m] \in Nat /\ lost[m] \in Nat /\ Concurrency \in Nat
  BY ConservedIsBalanced, CallsAssumption, Zenon DEF Typed
<1>3. CASE m = Model(c)
  <2>1. Holders(m)' = Holders(m) \ {c} /\ c \in Holders(m)
    BY <1>3, Zenon DEF Holders, Model, Typed
  <2>2. Cardinality(Holders(m)') = Cardinality(Holders(m)) - 1
    BY <2>1, HoldersFinite, FS_RemoveElement, Zenon
  <2>3. permits'[m] = permits[m] + 1
    BY <1>3, Zenon DEF ReleasePermit, Typed
  <2>4. QED
    BY <1>2, <2>2, <2>3, HoldersFinite DEF Balanced
<1>4. CASE m # Model(c)
  <2>1. Holders(m)' = Holders(m)
    BY <1>4, Zenon DEF Holders, Model, Typed
  <2>2. permits'[m] = permits[m]
    BY <1>4, Zenon DEF ReleasePermit, Typed
  <2>3. QED
    BY <1>2, <2>1, <2>2, Zenon DEF Balanced
<1>5. QED
  BY <1>3, <1>4, Zenon

LEMMA HolderComes ==
  ASSUME Typed, PermitsConserved, NEW c \in Calls, GetPermit(c)
  PROVE  PermitsConserved'
<1>1. SUFFICES ASSUME NEW m \in Models PROVE Balanced(m)'
  BY ConservedIsBalanced, Zenon DEF PermitsConserved, Balanced, Holders
<1> DEFINE new == [call[c] EXCEPT !.pc = "record"]
<1>2. /\ call' = [call EXCEPT ![c] = new] /\ lost' = lost /\ call[c].pc = "wait"
      /\ permits' = [permits EXCEPT ![Model(c)] = @ - 1]
  BY Zenon DEF GetPermit, Move
<1>3. new.pc = "record" /\ new.route = call[c].route
  BY <1>2, GoingCall, Zenon DEF Going
<1> HIDE DEF new
<1>4. Balanced(m) /\ permits[m] \in Nat /\ lost[m] \in Nat /\ Concurrency \in Nat
  BY ConservedIsBalanced, CallsAssumption, Zenon DEF Typed
<1>5. CASE m = Model(c)
  <2>1. Holders(m)' = Holders(m) \cup {c} /\ c \notin Holders(m)
    BY <1>2, <1>3, <1>5, Zenon DEF Holders, Holding, Model, Typed
  <2>2. Cardinality(Holders(m)') = Cardinality(Holders(m)) + 1
    BY <2>1, HoldersFinite, FS_AddElement, Zenon
  <2>3. permits'[m] = permits[m] - 1
    BY <1>2, <1>5, Zenon DEF Typed
  <2>4. QED
    BY <1>2, <1>4, <2>2, <2>3, HoldersFinite DEF Balanced
<1>6. CASE m # Model(c)
  <2>1. Holders(m)' = Holders(m)
    BY <1>2, <1>3, <1>6, Zenon DEF Holders, Holding, Model, Typed
  <2>2. permits'[m] = permits[m]
    BY <1>2, <1>6, Zenon DEF Typed
  <2>3. QED
    BY <1>2, <1>4, <2>1, <2>2, Zenon DEF Balanced
<1>7. QED
  BY <1>5, <1>6, Zenon

LEMMA OrphanConserves ==
  ASSUME Typed, PermitsConserved, NEW c \in Calls, OrphanEnds(c)
  PROVE  PermitsConserved'
<1>1. SUFFICES ASSUME NEW m \in Models PROVE Balanced(m)'
  BY ConservedIsBalanced, Zenon DEF PermitsConserved, Balanced, Holders
<1>2. call' = [call EXCEPT ![c] = Idle] /\ call[c].pc = "orphan"
  BY Zenon DEF OrphanEnds, Move
<1>3. Holders(m)' = Holders(m)
  BY <1>2, Zenon DEF Holders, Holding, Model, Typed, Idle
<1>4. Balanced(m) /\ permits[m] \in Nat /\ lost[m] \in Nat /\ Concurrency \in Nat
  BY ConservedIsBalanced, CallsAssumption, Zenon DEF Typed
<1>5. permits'[m] + lost'[m] = permits[m] + lost[m] /\ permits'[m] \in Int /\ lost'[m] \in Int
  BY <1>4 DEF OrphanEnds, Typed
<1>6. QED
  BY <1>3, <1>4, <1>5, HoldersFinite DEF Balanced

LEMMA ConservedStep == Typed /\ PermitsConserved /\ [Next]_vars => PermitsConserved'
<1> SUFFICES ASSUME Typed, PermitsConserved, [Next]_vars PROVE PermitsConserved'
  OBVIOUS
<1>1. CASE UNCHANGED vars \/ \E m \in Models : RecoveryTime(m)
  <2>1. call' = call /\ permits' = permits /\ lost' = lost
    BY <1>1, Zenon DEF vars, RecoveryTime
  <2>2. QED
    BY <2>1, Zenon DEF PermitsConserved, Model
<1>2. ASSUME NEW c \in Calls, NEW q \in Requests, Complete(c, q) PROVE PermitsConserved'
  <2>1. PICK s \in Seq(Models) \ {<<>>} : call' = [call EXCEPT ![c] = Routed(q, s)]
    BY <1>2, CompleteStarts, Zenon
  <2>2. call[c].pc = "idle" /\ Routed(q, s).pc = "routed" /\ permits' = permits /\ lost' = lost
    BY <1>2, RoutedTyped DEF Complete
  <2>3. QED
    BY <2>1, <2>2, HoldersKept, Zenon DEF Holding
<1>3. ASSUME NEW c \in Calls, Progress(c) \/ CancelledWaiting(c) PROVE PermitsConserved'
  <2> DEFINE old == call[c]
  <2>1. old \in Going /\ old.pc # "idle"
    BY <1>3, CallStep, GoingCall, Zenon
  <2>2. \A e : AfterModel(c, e).pc \notin Holding
    BY <2>1, Zenon DEF AfterModel, Going, Holding
  <2>3. ASSUME NEW new, Move(c, new), old.pc \notin Holding, new.pc \notin Holding,
               permits' = permits, lost' = lost
        PROVE  PermitsConserved'
    BY <2>3, HoldersKept, Zenon DEF Move
  <2>4. ASSUME NEW new, Move(c, new), old.pc \in Holding, new.pc \in Holding,
               new.route = old.route, permits' = permits, lost' = lost
        PROVE  PermitsConserved'
    BY <2>4, HoldersKept, Zenon DEF Move, Model
  <2>5. ASSUME NEW new, Move(c, new), old.pc \in Holding, new.pc \notin Holding,
               ReleasePermit(c), lost' = lost
        PROVE  PermitsConserved'
    BY <2>5, HolderLeaves, Zenon DEF Move
  <2>6. ASSUME NEW e, EndModel(c, e), lost' = lost,
               IF old.pc \in Holding THEN ReleasePermit(c) ELSE permits' = permits
        PROVE  PermitsConserved'
    BY <2>2, <2>3, <2>5, <2>6, Zenon DEF EndModel
  <2>7. /\ Idle.pc \notin Holding
        /\ \A pc : [old EXCEPT !.pc = pc].pc = pc /\ [old EXCEPT !.pc = pc].route = old.route
    BY <2>1, Zenon DEF Idle, Holding, Going
  <2>8. CASE Reserve(c) \/ SettleAnswer(c) \/ Release(c) \/ CancelledWaiting(c)
    BY <2>3, <2>7, <2>8, Zenon DEF Reserve, SettleAnswer, Release, CancelledWaiting, Holding
  <2>9. CASE CircuitRefuses(c)
    BY <2>2, <2>3, <2>9, Zenon DEF CircuitRefuses, Holding
  <2>10. CASE RateLimited(c) \/ NoPermit(c)
    BY <2>6, <2>10, Zenon DEF RateLimited, NoPermit, Holding
  <2>11. CASE TryModel(c)
    <3>1. PICK p : Move(c, [old EXCEPT !.pc = "wait", !.attempt = 1, !.probe = p])
      BY <2>11, Zenon DEF TryModel
    <3>2. [old EXCEPT !.pc = "wait", !.attempt = 1, !.probe = p].pc = "wait"
      BY <2>1, Zenon DEF Going
    <3>3. QED
      BY <2>3, <2>11, <3>1, <3>2, Zenon DEF TryModel, Holding
  <2>12. CASE GetPermit(c)
    BY <2>12, HolderComes, Zenon
  <2>13. CASE RecordAttempt(c) \/ ProviderFails(c)
    <3>1. \A pc, e : /\ [old EXCEPT !.pc = pc, !.error = e].pc = pc
                     /\ [old EXCEPT !.pc = pc, !.error = e].route = old.route
      BY <2>1, Zenon DEF Going
    <3>2. /\ old.pc \in Holding /\ permits' = permits /\ lost' = lost
          /\ \/ Move(c, [old EXCEPT !.pc = "invoke"])
             \/ \E e : Move(c, [old EXCEPT !.pc = "failed", !.error = e])
      BY <2>13, Zenon DEF RecordAttempt, ProviderFails, Holding
    <3>3. CASE Move(c, [old EXCEPT !.pc = "invoke"])
      BY <2>4, <2>7, <3>2, <3>3, Zenon DEF Holding
    <3>4. ASSUME NEW e, Move(c, [old EXCEPT !.pc = "failed", !.error = e]) PROVE PermitsConserved'
      BY <2>4, <3>1, <3>2, <3>4, Zenon DEF Holding
    <3>5. QED
      BY <3>2, <3>3, <3>4, Zenon
  <2>14. CASE ProviderAnswers(c)
    <3>1. [old EXCEPT !.pc = "answered", !.attempt = 0, !.probe = FALSE].pc = "answered"
      BY <2>1, Zenon DEF Going
    <3>2. QED
      BY <2>5, <2>14, <3>1, Zenon DEF ProviderAnswers, Holding
  <2>15. CASE RecordFailure(c)
    <3>1. /\ [old EXCEPT !.pc = "backoff", !.error = Local].pc = "backoff"
          /\ [old EXCEPT !.pc = "backoff", !.error = Local].route = old.route
      BY <2>1, Zenon DEF Going
    <3>2. QED
      BY <2>4, <2>6, <2>15, <3>1, Zenon DEF RecordFailure, Holding
  <2>16. CASE Retry(c)
    <3>1. [old EXCEPT !.pc = "wait", !.attempt = @ + 1].pc = "wait"
      BY <2>1, Zenon DEF Going
    <3>2. QED
      BY <2>5, <2>6, <2>16, <3>1, Zenon DEF Retry, Holding
  <2>17. CASE Escape(c)
    BY <2>3, <2>5, <2>7, <2>17, Zenon DEF Escape
  <2>18. CASE OrphanEnds(c)
    BY <2>18, OrphanConserves, Zenon
  <2>19. QED
    BY <1>3, <2>8, <2>9, <2>10, <2>11, <2>12, <2>13, <2>14, <2>15, <2>16, <2>17, <2>18, Zenon
       DEF Progress
<1>4. QED
  BY <1>1, <1>2, <1>3, Zenon DEF Next

-----------------------------------------------------------------------------
(* The candidates a call falls back to.                                     *)

AllowedRoute(q, s) ==
  /\ Len(s) <= MaxFailovers + 1
  /\ \A i \in 1..Len(s) :
       /\ s[i] \in Asked(q) /\ PolicyAllows(s[i]) /\ Capable(s[i], q)
       /\ \A j \in 1..(i - 1) : Before(q, s[j], s[i])

LEMMA RouteAllowed ==
  ASSUME NEW q \in Requests, NEW U, NEW s \in Routes(q, U)
  PROVE  AllowedRoute(q, Prefix(s, MaxFailovers + 1))
<1> DEFINE S == Eligible(q, U)
<1> DEFINE N == Cardinality(S)
<1> DEFINE M == MaxFailovers + 1
<1> DEFINE t == Prefix(s, M)
<1>1. N \in Nat /\ M \in Nat \ {0}
  <2>1. S \subseteq Models
    BY Zenon DEF Eligible, Asked
  <2>2. QED
    BY <2>1, RoutingAssumption, CallsAssumption, FS_Subset, FS_CardinalityType
<1>2. s \in Seq(Models) /\ s \in [1..N -> S] /\ \A i, j \in 1..N : i < j => Before(q, s[i], s[j])
  BY RoutesTyped, Zenon DEF Routes
<1>3. \A m \in S : m \in Asked(q) /\ PolicyAllows(m) /\ Capable(m, q)
  BY Zenon DEF Eligible
<1> HIDE DEF S, N, M
<1>4. Len(s) = N
  BY <1>1, <1>2
<1>5. Len(t) <= M /\ Len(t) \in 0..N /\ \A i \in 1..Len(t) : t[i] = s[i]
  BY <1>1, <1>2, <1>4 DEF Prefix
<1> HIDE DEF t
<1>6. ASSUME NEW i \in 1..Len(t)
      PROVE  /\ t[i] \in Asked(q) /\ PolicyAllows(t[i]) /\ Capable(t[i], q)
             /\ \A j \in 1..(i - 1) : Before(q, t[j], t[i])
  <2>1. i \in 1..N /\ t[i] = s[i] /\ s[i] \in S
    BY <1>1, <1>2, <1>5
  <2>2. ASSUME NEW j \in 1..(i - 1) PROVE Before(q, t[j], t[i])
    <3>1. j \in 1..N /\ j < i /\ t[j] = s[j]
      BY <1>1, <1>5, <2>1
    <3>2. QED
      BY <1>2, <2>1, <3>1, Zenon
  <2>3. QED
    BY <1>3, <2>1, <2>2, Zenon
<1>7. QED
  BY <1>5, <1>6, Zenon DEF AllowedRoute, t, M

LEMMA TailAllowed ==
  ASSUME NEW q, NEW s \in Seq(Models), Len(s) > 1, AllowedRoute(q, s)
  PROVE  AllowedRoute(q, Tail(s))
<1> DEFINE t == Tail(s)
<1>1. Len(t) = Len(s) - 1 /\ \A i \in 1..Len(t) : i + 1 \in 1..Len(s) /\ t[i] = s[i + 1]
  OBVIOUS
<1> HIDE DEF t
<1>2. Len(s) <= MaxFailovers + 1 /\ Len(s) \in Nat /\ MaxFailovers \in Nat
  BY CallsAssumption DEF AllowedRoute
<1>3. ASSUME NEW i \in 1..Len(t), NEW j \in 1..(i - 1) PROVE Before(q, t[j], t[i])
  <2>1. i + 1 \in 1..Len(s) /\ j + 1 \in 1..((i + 1) - 1) /\ t[i] = s[i + 1] /\ t[j] = s[j + 1]
    BY <1>1, <1>2
  <2>2. QED
    BY <2>1, Zenon DEF AllowedRoute
<1>4. ASSUME NEW i \in 1..Len(t)
      PROVE  t[i] \in Asked(q) /\ PolicyAllows(t[i]) /\ Capable(t[i], q)
  BY <1>1, Zenon DEF AllowedRoute
<1>5. Len(t) <= MaxFailovers + 1
  BY <1>1, <1>2
<1>6. QED
  BY <1>3, <1>4, <1>5, Zenon DEF AllowedRoute, t

LEMMA FallbacksAreAllowedRoutes ==
  FallbacksAllowed <=>
    \A c \in Calls : call[c].pc # "idle" => AllowedRoute(call[c].request, call[c].route)
BY Zenon DEF FallbacksAllowed, AllowedRoute

LEMMA FallbacksStep == Typed /\ FallbacksAllowed /\ [Next]_vars => FallbacksAllowed'
<1> SUFFICES ASSUME Typed, FallbacksAllowed, [Next]_vars,
                    NEW d \in Calls, call'[d].pc # "idle"
             PROVE  AllowedRoute(call'[d].request, call'[d].route)
  BY FallbacksAreAllowedRoutes, Zenon DEF FallbacksAllowed, AllowedRoute
<1>0. ASSUME call'[d] = call[d] PROVE AllowedRoute(call'[d].request, call'[d].route)
  BY <1>0, FallbacksAreAllowedRoutes, Zenon
<1>1. ASSUME NEW m \in Models, RecoveryTime(m) PROVE call'[d] = call[d]
  BY <1>1, Zenon DEF RecoveryTime
<1>2. ASSUME NEW c \in Calls, NEW q \in Requests, Complete(c, q), d = c
      PROVE  AllowedRoute(call'[d].request, call'[d].route)
  <2>1. PICK s \in Routes(q, OpenModels) : Move(c, Routed(q, Prefix(s, MaxFailovers + 1)))
    BY <1>2, Zenon DEF Complete
  <2>2. call'[d] = Routed(q, Prefix(s, MaxFailovers + 1))
    BY <1>2, <2>1, Zenon DEF Move, Typed
  <2>3. call'[d].request = q /\ call'[d].route = Prefix(s, MaxFailovers + 1)
    BY <2>2 DEF Routed
  <2>4. QED
    BY <2>3, RouteAllowed, Zenon
<1>3. ASSUME NEW c \in Calls, NEW q \in Requests, Complete(c, q), d # c PROVE call'[d] = call[d]
  BY <1>3, Zenon DEF Complete, Move, Typed
<1>4. ASSUME NEW c \in Calls, Progress(c) \/ CancelledWaiting(c)
      PROVE  AllowedRoute(call'[d].request, call'[d].route)
  <2>1. PICK new : GoesOn(call[c], new) /\ call' = [call EXCEPT ![c] = new]
    BY <1>4, CallStep, Zenon
  <2>2. CASE d # c
    BY <1>0, <2>1, <2>2, Zenon DEF Typed
  <2>3. CASE d = c
    <3>1. call'[d] = new /\ new # Idle
      BY <2>1, <2>3 DEF Typed, Idle
    <3>2. call[c].pc # "idle"
      BY <1>4, CallStep, Zenon
    <3>3. AllowedRoute(call[c].request, call[c].route) /\ call[c].route \in Seq(Models)
      BY <3>2, FallbacksAreAllowedRoutes, GoingCall, Zenon DEF Going
    <3>4. /\ new.request = call[c].request
          /\ new.route = call[c].route \/ (Len(call[c].route) > 1 /\ new.route = Tail(call[c].route))
      BY <2>1, <3>1, Zenon DEF GoesOn
    <3>5. QED
      BY <3>1, <3>3, <3>4, TailAllowed, Zenon
  <2>4. QED
    BY <2>2, <2>3, Zenon
<1>5. CASE UNCHANGED vars
  BY <1>0, <1>5, Zenon DEF vars
<1>6. QED
  BY <1>0, <1>1, <1>2, <1>3, <1>4, <1>5, Zenon DEF Next

-----------------------------------------------------------------------------
(* What the repository promises.                                           *)

\* The view of the abstract specification.
StateView == [k \in Keys |-> KeyState(k)]
WorkersOn(k) == {c \in Calls : InFlight(c) /\ KeyUsed(c) = k}
WorkersView == [k \in Keys |-> WorkersOn(k)]

LEMMA KeyStates ==
  ASSUME NEW k
  PROVE  /\ reserved[k] = Free => KeyState(k) = "free"
         /\ \A q : reserved[k] = Inflight(q) => KeyState(k) = "reserved"
         /\ \A q : reserved[k] = Answered(q) => KeyState(k) = "settled"
BY DEF KeyState, Free, Inflight, Answered

\* What a step does to key k alone is all the view sees of it.
LEMMA ViewMoves ==
  ASSUME NEW k \in Keys,
         \A p \in Keys \ {k} : KeyState(p)' = KeyState(p) /\ WorkersOn(p)' = WorkersOn(p)
  PROVE  /\ StateView' = [StateView EXCEPT ![k] = KeyState(k)']
         /\ WorkersView' = [WorkersView EXCEPT ![k] = WorkersOn(k)']
<1>1. StateView' = [StateView EXCEPT ![k] = KeyState(k)']
  BY Zenon DEF StateView
<1>2. WorkersView' = [WorkersView EXCEPT ![k] = WorkersOn(k)']
  BY Zenon DEF WorkersView
<1>3. QED
  BY <1>1, <1>2, Zenon

\* A step that no key sees.
LEMMA ViewStays ==
  ASSUME reserved' = reserved,
         \A d \in Calls : /\ InFlight(d)' <=> InFlight(d)
                          /\ InFlight(d) => KeyUsed(d)' = KeyUsed(d)
  PROVE  UNCHANGED Repository!vars
<1>1. \A k \in Keys : KeyState(k)' = KeyState(k)
  BY Zenon DEF KeyState
<1>2. \A k \in Keys : WorkersOn(k)' = WorkersOn(k)
  BY Zenon DEF WorkersOn
<1>3. QED
  BY <1>1, <1>2, Zenon DEF Repository!vars, WorkersOn

\* A call that ends leaves its key without workers.
LEMMA EndsView ==
  ASSUME Typed, OneInFlight, NEW c \in Calls, InFlight(c), NEW k \in Keys, k = KeyUsed(c),
         call' = [call EXCEPT ![c] = Idle], NEW r, reserved' = [reserved EXCEPT ![k] = r],
         NEW s, KeyState(k)' = s
  PROVE  Repository!Ends(k, c, s) /\ c \in WorkersView[k]
<1>1. KeyState(k) = "reserved"
  BY KeyStates, Zenon DEF OneInFlight
<1>2. ~InFlight(c)'
  BY DEF InFlight, Idle, Typed
<1>3. \A d \in Calls \ {c} : (InFlight(d)' <=> InFlight(d)) /\ KeyUsed(d)' = KeyUsed(d)
  BY Zenon DEF InFlight, KeyUsed, Typed
<1>4. WorkersOn(k)' = {}
  BY <1>2, <1>3, Zenon DEF WorkersOn, OneInFlight
<1>5. ASSUME NEW p \in Keys \ {k} PROVE KeyState(p)' = KeyState(p) /\ WorkersOn(p)' = WorkersOn(p)
  <2>1. reserved'[p] = reserved[p]
    BY Zenon DEF Typed
  <2>2. WorkersOn(p)' = WorkersOn(p)
    BY <1>2, <1>3, Zenon DEF WorkersOn
  <2>3. QED
    BY <2>1, <2>2, Zenon DEF KeyState
<1>6. /\ StateView' = [StateView EXCEPT ![k] = s]
      /\ WorkersView' = [WorkersView EXCEPT ![k] = {}]
  BY <1>4, <1>5, ViewMoves, Zenon
<1>7. StateView[k] = "reserved" /\ c \in WorkersView[k]
  BY <1>1, Zenon DEF StateView, WorkersView, WorkersOn
<1>8. QED
  BY <1>6, <1>7, Zenon DEF Repository!Ends, StateView, WorkersView, WorkersOn

\* A reservation that is granted makes the call the only worker of its key.
LEMMA ReserveView ==
  ASSUME Typed, OneInFlight, NEW c \in Calls, Reserve(c)
  PROVE  Repository!Next \/ UNCHANGED Repository!vars
<1>1. call[c].pc = "routed" /\ call[c] \in Going /\ KeyUsed(c) \in Keys
  BY GoingCall, Zenon DEF Reserve
<1>2. PICK k \in Keys : k = KeyUsed(c)
  BY <1>1
<1>3. \A new : call' = [call EXCEPT ![c] = new] =>
        /\ call'[c] = new
        /\ \A d \in Calls \ {c} : (InFlight(d)' <=> InFlight(d)) /\ KeyUsed(d)' = KeyUsed(d)
  BY Zenon DEF InFlight, KeyUsed, Typed
<1>4. ~InFlight(c)
  BY <1>1, Zenon DEF InFlight
<1>5. CASE reserved[k] # Free
  <2>1. call' = [call EXCEPT ![c] = Idle] /\ reserved' = reserved
    BY <1>2, <1>5, Zenon DEF Reserve, Move
  <2>2. ~InFlight(c)'
    <3>1. call'[c] = Idle
      BY <1>3, <2>1, Zenon
    <3>2. QED
      BY <3>1 DEF InFlight, Idle
  <2>3. QED
    BY <1>3, <1>4, <2>1, <2>2, ViewStays, Zenon
<1>6. CASE reserved[k] = Free
  <2>1. PICK new : new = [call[c] EXCEPT !.pc = "reserved"]
    OBVIOUS
  <2>2. /\ call' = [call EXCEPT ![c] = new]
        /\ reserved' = [reserved EXCEPT ![k] = Inflight(call[c].request)]
    BY <1>2, <1>6, <2>1, Zenon DEF Reserve, Move
  <2>3. new.request = call[c].request /\ new.pc = "reserved"
    BY <1>1, <2>1, Zenon DEF Going
  <2>4. InFlight(c)' /\ KeyUsed(c)' = k
    BY <1>2, <1>3, <2>2, <2>3 DEF InFlight, KeyUsed
  <2>5. KeyState(k) = "free" /\ KeyState(k)' = "reserved"
    <3>1. reserved'[k] = Inflight(call[c].request)
      BY <2>2, Zenon DEF Typed
    <3>2. KeyState(k) = "free"
      BY <1>6, KeyStates, Zenon
    <3>3. KeyState(k)' = "reserved"
      BY <3>1 DEF KeyState, Inflight
    <3>4. QED
      BY <3>2, <3>3
  <2>6. \A d \in Calls : InFlight(d) => KeyUsed(d) # k
    <3>1. \A q : Inflight(q) # Free
      BY DEF Inflight, Free
    <3>2. QED
      BY <1>6, <3>1, Zenon DEF OneInFlight
  <2>7. WorkersOn(k)' = {c}
    BY <1>3, <2>2, <2>4, <2>6, Zenon DEF WorkersOn
  <2>8. ASSUME NEW p \in Keys \ {k} PROVE KeyState(p)' = KeyState(p) /\ WorkersOn(p)' = WorkersOn(p)
    <3>1. reserved'[p] = reserved[p]
      BY <2>2, Zenon DEF Typed
    <3>2. WorkersOn(p)' = WorkersOn(p)
      BY <1>3, <1>4, <2>2, <2>4, Zenon DEF WorkersOn
    <3>3. QED
      BY <3>1, <3>2, Zenon DEF KeyState
  <2>9. /\ StateView' = [StateView EXCEPT ![k] = "reserved"]
        /\ WorkersView' = [WorkersView EXCEPT ![k] = {c}]
    BY <2>5, <2>7, <2>8, ViewMoves, Zenon
  <2>10. StateView[k] = "free"
    BY <2>5, Zenon DEF StateView
  <2>11. Repository!Reserve(k, c)
    BY <2>9, <2>10, Zenon DEF Repository!Reserve, StateView, WorkersView, WorkersOn
  <2>12. QED
    BY <2>11, Zenon DEF Repository!Next
<1>7. QED
  BY <1>5, <1>6, Zenon

\* Every step of the model is a step of the repository, or none.
LEMMA RepositoryStep ==
  ASSUME Typed, OneInFlight, [Next]_vars
  PROVE  [Repository!Next]_(Repository!vars)
<1>1. CASE UNCHANGED vars \/ \E m \in Models : RecoveryTime(m)
  <2>1. call' = call /\ reserved' = reserved
    BY <1>1, Zenon DEF vars, RecoveryTime
  <2>2. QED
    BY <2>1, ViewStays, Zenon DEF InFlight, KeyUsed
<1>2. ASSUME NEW c \in Calls, NEW q \in Requests, Complete(c, q) PROVE UNCHANGED Repository!vars
  <2>1. PICK s \in Seq(Models) \ {<<>>} : call' = [call EXCEPT ![c] = Routed(q, s)]
    BY <1>2, CompleteStarts, Zenon
  <2>2. reserved' = reserved /\ Routed(q, s).pc = "routed" /\ call[c].pc = "idle"
    BY <1>2, RoutedTyped DEF Complete
  <2>3. \A d \in Calls : (InFlight(d)' <=> InFlight(d)) /\ (InFlight(d) => KeyUsed(d)' = KeyUsed(d))
    BY <2>1, <2>2, Zenon DEF InFlight, KeyUsed, Typed
  <2>4. QED
    BY <2>2, <2>3, ViewStays, Zenon
<1>3. ASSUME NEW c \in Calls, Reserve(c) PROVE [Repository!Next]_(Repository!vars)
  BY <1>3, ReserveView, Zenon
<1>4. ASSUME NEW c \in Calls, SettleAnswer(c) \/ Release(c) PROVE Repository!Next
  <2>1. InFlight(c) /\ call' = [call EXCEPT ![c] = Idle] /\ KeyUsed(c) \in Keys
    BY <1>4, GoingCall, Zenon DEF SettleAnswer, Release, InFlight, Move
  <2>2. PICK k \in Keys : k = KeyUsed(c)
    BY <2>1
  <2>3. PICK r : /\ reserved' = [reserved EXCEPT ![k] = r]
                 /\ r = Answered(call[c].request) \/ r = Free
    BY <1>4, <2>2, Zenon DEF SettleAnswer, Release
  <2>4. KeyState(k)' = "settled" \/ KeyState(k)' = "free"
    <3>1. reserved'[k] = r
      BY <2>3, Zenon DEF Typed
    <3>2. QED
      BY <2>3, <3>1 DEF KeyState, Answered, Free
  <2>5. /\ Repository!Ends(k, c, "settled") \/ Repository!Ends(k, c, "free")
        /\ c \in WorkersView[k]
    BY <2>1, <2>2, <2>3, <2>4, EndsView, Zenon
  <2>6. Repository!Succeed(k, c) \/ Repository!Fail(k, c)
    BY <2>5, Zenon DEF Repository!Succeed, Repository!Fail
  <2>7. QED
    BY <2>5, <2>6, Zenon DEF Repository!Next, WorkersView, WorkersOn
<1>5. ASSUME NEW c \in Calls, Progress(c) \/ CancelledWaiting(c),
             ~(Reserve(c) \/ SettleAnswer(c) \/ Release(c))
      PROVE  [Repository!Next]_(Repository!vars)
  <2>1. InFlight(c) /\ reserved' = reserved
    BY <1>5, Zenon DEF Progress, CancelledWaiting, InFlight, CircuitRefuses, TryModel, RateLimited,
                GetPermit, NoPermit, RecordAttempt, ProviderAnswers, ProviderFails, RecordFailure,
                Retry, Escape, OrphanEnds
  <2>2. PICK new : GoesOn(call[c], new) /\ call' = [call EXCEPT ![c] = new]
    BY <1>5, CallStep, Zenon
  <2>3. CASE new = Idle
    <3>1. KeyUsed(c) \in Keys
      BY <2>1, GoingCall, Zenon DEF InFlight
    <3>2. PICK k \in Keys : k = KeyUsed(c)
      BY <3>1
    <3>3. reserved' = [reserved EXCEPT ![k] = reserved[k]]
      BY <2>1, Zenon DEF Typed
    <3>4. KeyState(k)' = "reserved"
      <4>1. KeyState(k) = "reserved"
        BY <2>1, <3>2, KeyStates, Zenon DEF OneInFlight
      <4>2. QED
        BY <2>1, <4>1, Zenon DEF KeyState
    <3>5. Repository!Ends(k, c, "reserved") /\ c \in WorkersView[k]
      BY <2>1, <2>2, <2>3, <3>2, <3>3, <3>4, EndsView, Zenon
    <3>6. Repository!GiveUp(k, c)
      BY <3>5, Zenon DEF Repository!GiveUp
    <3>7. QED
      BY <3>5, <3>6, Zenon DEF Repository!Next, WorkersView, WorkersOn
  <2>4. CASE new # Idle
    <3>1. /\ new \in Going /\ new.pc # "routed" /\ new.pc # "idle"
          /\ new.request = call[c].request
      BY <2>2, <2>4 DEF GoesOn, Going
    <3>2. \A d \in Calls : (InFlight(d)' <=> InFlight(d)) /\ KeyUsed(d)' = KeyUsed(d)
      BY <2>1, <2>2, <3>1, Zenon DEF InFlight, KeyUsed, Typed
    <3>3. QED
      BY <2>1, <3>2, ViewStays, Zenon
  <2>5. QED
    BY <2>3, <2>4, Zenon
<1>6. QED
  BY <1>1, <1>2, <1>3, <1>4, <1>5, Zenon DEF Next, Progress

-----------------------------------------------------------------------------
(* Only a cancellation leaves a task nobody waits for.                      *)

LEMMA NoOrphan ==
  ASSUME Typed, NEW c \in Calls, Progress(c), ~OrphanEnds(c)
  PROVE  call'[c].pc # "orphan"
<1>1. call[c] \in Going /\ call' \in [Calls -> Going \cup {Idle}]
  <2>1. [Next]_vars
    BY Zenon DEF Next
  <2>2. QED
    BY <2>1, TypedStep, CallStep, GoingCall, Zenon DEF Typed
<1>2. \A new : Move(c, new) => call'[c] = new
  BY Zenon DEF Move, Typed
<1>3. \A e : Move(c, AfterModel(c, e)) => call'[c].pc # "orphan"
  <2>1. \A e : AfterModel(c, e).pc # "orphan"
    BY <1>1, Zenon DEF AfterModel, Going
  <2>2. QED
    BY <1>2, <2>1, Zenon
<1>4. Move(c, Idle) => call'[c].pc = "idle"
  BY <1>2 DEF Idle
<1>5. CASE Reserve(c) \/ SettleAnswer(c) \/ Release(c) \/ Escape(c)
  BY <1>1, <1>2, <1>4, <1>5 DEF Reserve, SettleAnswer, Release, Escape, Going
<1>6. CASE CircuitRefuses(c) \/ RateLimited(c) \/ NoPermit(c)
  BY <1>3, <1>6 DEF CircuitRefuses, RateLimited, NoPermit, EndModel
<1>7. CASE TryModel(c) \/ GetPermit(c)
  BY <1>1, <1>2, <1>7 DEF TryModel, GetPermit, Going
<1>8. CASE RecordAttempt(c) \/ ProviderAnswers(c) \/ ProviderFails(c)
  BY <1>1, <1>2, <1>8 DEF RecordAttempt, ProviderAnswers, ProviderFails, Going
<1>9. CASE RecordFailure(c) \/ Retry(c)
  BY <1>1, <1>2, <1>3, <1>9 DEF RecordFailure, Retry, EndModel, Going
<1>10. QED
  BY <1>5, <1>6, <1>7, <1>8, <1>9, Zenon DEF Progress

-----------------------------------------------------------------------------
(* The theorems.                                                           *)

\* The inductive invariant.
CallsInv ==
  /\ Typed /\ PermitsConserved /\ BusyMeansProbing /\ OneInFlight /\ ReservationCovers
  /\ FallbacksAllowed

LEMMA CallsInit == Init => CallsInv
<1> SUFFICES ASSUME Init PROVE CallsInv
  OBVIOUS
<1>1. \A m \in Models : Holders(m) = {}
  BY Zenon DEF Init, Holders, Holding, Idle
<1>2. PermitsConserved
  <2>1. ASSUME NEW m \in Models PROVE Balanced(m)
    <3>1. Cardinality(Holders(m)) = 0
      BY <1>1, FS_EmptySet, Zenon
    <3>2. permits[m] = Concurrency /\ lost[m] = 0 /\ Concurrency \in Nat
      BY CallsAssumption, Zenon DEF Init
    <3>3. QED
      BY <3>1, <3>2 DEF Balanced
  <2>2. QED
    BY <2>1, ConservedIsBalanced, Zenon
<1>3. BusyMeansProbing
  BY Zenon DEF Init, BusyMeansProbing
<1>4. ReservationCovers
  BY Zenon DEF Init, ReservationCovers, Idle
<1>5. FallbacksAllowed
  BY Zenon DEF Init, FallbacksAllowed, Idle
<1>6. QED
  BY <1>2, <1>3, <1>4, <1>5, TypedInit, OneInFlightInit, Zenon DEF CallsInv

LEMMA CallsStep == CallsInv /\ [Next]_vars => CallsInv'
BY TypedStep, ConservedStep, BusyStep, OneInFlightStep, ReservationCoversStep, FallbacksStep, Zenon
   DEF CallsInv

\* The bounds on permits follow from their conservation.
LEMMA CallsTyped == CallsInv => TypeOK
<1> SUFFICES ASSUME CallsInv PROVE TypeOK
  OBVIOUS
<1>1. ASSUME NEW m \in Models PROVE permits[m] \in 0..Concurrency /\ lost[m] \in 0..Concurrency
  <2>1. Balanced(m) /\ permits[m] \in Nat /\ lost[m] \in Nat /\ Concurrency \in Nat
    BY ConservedIsBalanced, CallsAssumption, Zenon DEF CallsInv, Typed
  <2>2. QED
    BY <2>1, HoldersFinite DEF Balanced
<1>2. permits \in [Models -> 0..Concurrency] /\ lost \in [Models -> 0..Concurrency]
  BY <1>1, Zenon DEF CallsInv, Typed
<1>3. QED
  BY <1>2, Zenon DEF CallsInv, Typed, TypeOK

\* complete() and _try_model() keep the types of their state: no call makes more
\* than max_attempts attempts at a candidate, no semaphore exceeds its permits.
THEOREM CallsTypeCorrect == Spec => []TypeOK
<1>1. Init => CallsInv
  BY CallsInit, Zenon
<1>2. CallsInv /\ [Next]_vars => CallsInv'
  BY CallsStep, Zenon
<1>3. CallsInv => TypeOK
  BY CallsTyped, Zenon
<1>4. QED
  BY <1>1, <1>2, <1>3, PTL DEF Spec

\* Whatever number of calls retry, fail over or are cancelled, no path through
\* _try_model() loses a permit but the one CancelledWaiting names, and none
\* releases one twice.
THEOREM PermitsAreConserved == Spec => []PermitsConserved
<1>1. Init => CallsInv
  BY CallsInit, Zenon
<1>2. CallsInv /\ [Next]_vars => CallsInv'
  BY CallsStep, Zenon
<1>3. CallsInv => PermitsConserved
  BY Zenon DEF CallsInv
<1>4. QED
  BY <1>1, <1>2, <1>3, PTL DEF Spec

\* No circuit is left half open and busy without a probe (the finally clause of
\* _try_model(), CircuitBreaker.release_probe()).
THEOREM BusyCircuitsAreProbed == Spec => []BusyMeansProbing
<1>1. Init => CallsInv
  BY CallsInit, Zenon
<1>2. CallsInv /\ [Next]_vars => CallsInv'
  BY CallsStep, Zenon
<1>3. CallsInv => BusyMeansProbing
  BY Zenon DEF CallsInv
<1>4. QED
  BY <1>1, <1>2, <1>3, PTL DEF Spec

\* The repository lets one call per idempotency key reach the providers
\* (InMemoryGatewayRepository.reserve()).
THEOREM CallsExcludeEachOther == Spec => []OneInFlight
<1>1. Init => CallsInv
  BY CallsInit, Zenon
<1>2. CallsInv /\ [Next]_vars => CallsInv'
  BY CallsStep, Zenon
<1>3. CallsInv => OneInFlight
  BY Zenon DEF CallsInv
<1>4. QED
  BY <1>1, <1>2, <1>3, PTL DEF Spec

\* For all prices and usages: what complete() reserves covers usage within the
\* token limit on every candidate it may fall back to (estimate_cost(),
\* PricingVersion.cost()).
THEOREM ReservationsCover == Spec => []ReservationCovers
<1>1. Init => CallsInv
  BY CallsInit, Zenon
<1>2. CallsInv /\ [Next]_vars => CallsInv'
  BY CallsStep, Zenon
<1>3. CallsInv => ReservationCovers
  BY Zenon DEF CallsInv
<1>4. QED
  BY <1>1, <1>2, <1>3, PTL DEF Spec

\* A stored answer is never replaced (InMemoryGatewayRepository.reserve(),
\* succeed()).
THEOREM StoredAnswersStay == Spec => AnswersStay
<1>1. Init => CallsInv
  BY CallsInit, Zenon
<1>2. CallsInv /\ [Next]_vars => CallsInv'
  BY CallsStep, Zenon
<1>3. CallsInv /\ [Next]_vars =>
        [\A k \in Keys : reserved[k].state = "completed" => reserved'[k] = reserved[k]]_vars
  BY AnswersStayStep, Zenon DEF CallsInv
<1>4. QED
  BY <1>1, <1>2, <1>3, PTL DEF Spec, AnswersStay

\* However often a call falls back and whichever circuits are open, it only ever asks
\* models that its request asks for, the tenant's policy allows and that are capable
\* of it, in the router's order, none twice, and max_failovers further ones at most
\* (ModelRouter.route(), the loop of complete()).
THEOREM FallbacksAreAllowed == Spec => []FallbacksAllowed
<1>1. Init => CallsInv
  BY CallsInit, Zenon
<1>2. CallsInv /\ [Next]_vars => CallsInv'
  BY CallsStep, Zenon
<1>3. CallsInv => FallbacksAllowed
  BY Zenon DEF CallsInv
<1>4. QED
  BY <1>1, <1>2, <1>3, PTL DEF Spec

\* As long as no task is cancelled from outside, no permit is ever lost: the
\* semaphores of _try_model() always come back to their size, whatever the deadlines,
\* retries and errors do.
THEOREM NoPermitIsLost ==
  Spec => [](~TaskCancels =>
               \A m \in Models : permits[m] + Cardinality(Holders(m)) = Concurrency)
<1> DEFINE Sound == ~TaskCancels => /\ \A m \in Models : lost[m] = 0
                                    /\ \A c \in Calls : call[c].pc # "orphan"
<1>1. Init => CallsInv
  BY CallsInit, Zenon
<1>2. CallsInv /\ [Next]_vars => CallsInv'
  BY CallsStep, Zenon
<1>3. Init => Sound
  BY DEF Init, Idle
<1>4. ASSUME CallsInv, Sound, [Next]_vars, ~TaskCancels
      PROVE  (\A m \in Models : lost'[m] = 0) /\ (\A c \in Calls : call'[c].pc # "orphan")
  <2>1. \A c \in Calls : ~CancelledWaiting(c) /\ ~OrphanEnds(c)
    BY <1>4, Zenon DEF CancelledWaiting, OrphanEnds
  <2>2. lost' = lost
    BY <1>4, <2>1, Zenon
       DEF Next, Progress, vars, RecoveryTime, Complete, Reserve, CircuitRefuses, TryModel,
           RateLimited, GetPermit, NoPermit, RecordAttempt, ProviderAnswers, ProviderFails,
           RecordFailure, Retry, SettleAnswer, Release, Escape
  <2>3. ASSUME NEW d \in Calls PROVE call'[d].pc # "orphan"
    <3>1. ASSUME NEW c \in Calls, NEW q \in Requests, Complete(c, q) PROVE call'[d].pc # "orphan"
      <4>1. PICK s \in Seq(Models) \ {<<>>} : call' = [call EXCEPT ![c] = Routed(q, s)]
        BY <3>1, CompleteStarts, Zenon
      <4>2. Routed(q, s).pc # "orphan"
        BY RoutedTyped
      <4>3. QED
        BY <1>4, <4>1, <4>2, Zenon DEF CallsInv, Typed
    <3>2. ASSUME NEW c \in Calls, Progress(c) PROVE call'[d].pc # "orphan"
      <4>1. call'[c].pc # "orphan"
        BY <1>4, <2>1, <3>2, NoOrphan, Zenon DEF CallsInv
      <4>2. d # c => call'[d] = call[d]
        BY <1>4, <3>2, CallStep, Zenon DEF CallsInv, Typed
      <4>3. QED
        BY <1>4, <4>1, <4>2, Zenon
    <3>3. CASE call' = call
      BY <1>4, <3>3, Zenon
    <3>4. QED
      BY <1>4, <2>1, <3>1, <3>2, <3>3, Zenon DEF Next, vars, RecoveryTime
  <2>4. QED
    BY <1>4, <2>2, <2>3, Zenon
<1>5. CallsInv /\ Sound /\ [Next]_vars => Sound'
  BY <1>4, Zenon
<1>6. CallsInv /\ Sound =>
        (~TaskCancels => \A m \in Models : permits[m] + Cardinality(Holders(m)) = Concurrency)
  <2> SUFFICES ASSUME CallsInv, Sound, ~TaskCancels, NEW m \in Models
               PROVE  permits[m] + Cardinality(Holders(m)) = Concurrency
    OBVIOUS
  <2>1. Balanced(m) /\ permits[m] \in Nat /\ lost[m] = 0
    BY ConservedIsBalanced, Zenon DEF CallsInv, Typed
  <2>2. QED
    BY <2>1, HoldersFinite DEF Balanced
<1>7. QED
  BY <1>1, <1>2, <1>3, <1>5, <1>6, PTL DEF Spec

\* InMemoryGatewayRepository, as complete() drives it, keeps what GatewayRepository
\* promises on every path out of a call: an answer, a refusal, a failure, a lost
\* fence, a cancellation.
THEOREM InMemoryKeepsThePromise == Spec => ImplementsRepository
<1>1. Init => CallsInv
  BY CallsInit, Zenon
<1>2. CallsInv /\ [Next]_vars => CallsInv'
  BY CallsStep, Zenon
<1>3. Init => Repository!Init
  <2> SUFFICES ASSUME Init PROVE Repository!Init
    OBVIOUS
  <2>1. \A k \in Keys : KeyState(k) = "free"
    BY DEF Init, KeyState, Free
  <2>2. \A c \in Calls : ~InFlight(c)
    BY DEF Init, InFlight, Idle
  <2>3. QED
    BY <2>1, <2>2, Zenon DEF Repository!Init
<1>4. CallsInv /\ [Next]_vars => [Repository!Next]_(Repository!vars)
  BY RepositoryStep, Zenon DEF CallsInv
<1>5. QED
  BY <1>1, <1>2, <1>3, <1>4, PTL DEF Spec, ImplementsRepository, Repository!Spec
=============================================================================
