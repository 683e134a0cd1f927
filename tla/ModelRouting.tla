---------------------------- MODULE ModelRouting -----------------------------
(***************************************************************************)
(* ModelRouter.route() and the prices: which models of the catalog may      *)
(* serve a request, in which order, and what is reserved for it.            *)
(*                                                                         *)
(* Prices are amounts per token; the code's are exact decimals per million. *)
(***************************************************************************)
EXTENDS Naturals, FiniteSets, FiniteSetsExt, Sequences

CONSTANTS
  Models,       \* the identities in the catalog
  Entry,        \* the ModelCatalogEntry of each
  Requests,     \* the requests that are made
  Request,      \* the ModelRequest of each
  NoModel,      \* no model is requested
  Policy,       \* the TenantPolicy
  Environment   \* where the gateway runs

Kinds == {"input", "output", "cache_read", "cache_write", "reasoning"}

ASSUME RoutingAssumption ==
  /\ IsFiniteSet(Models) /\ NoModel \notin Models
  /\ \A m \in Models : Entry[m].price \in [Kinds -> Nat]
  /\ \A m \in Models : {Entry[m].cost, Entry[m].latency, Entry[m].order} \subseteq Nat
  /\ \A m, n \in Models : Entry[m].order = Entry[n].order => m = n
  /\ \A q \in Requests : Request[q].prompt \in Nat \ {0} /\ Request[q].output \in Nat \ {0}

-----------------------------------------------------------------------------
(* The router.                                                             *)

\* policy_failures() is empty.
PolicyAllows(m) ==
  /\ {Entry[m].catalogKey, Entry[m].name} \cap Policy.models # {}
  /\ Entry[m].provider \in Policy.providers
  /\ Environment \in Entry[m].environments \cap Policy.environments
  /\ Entry[m].residencies \cap Policy.residencies # {}
  /\ Entry[m].retains => Policy.retention

TokenLimit(q) == Request[q].prompt + Request[q].output

Capable(m, q) ==
  /\ TokenLimit(q) <= Entry[m].context /\ Request[q].output <= Entry[m].output
  /\ Request[q].needs \subseteq Entry[m].supports

\* An unknown model raises CatalogError.
Asked(q) ==
  IF Request[q].requested = NoModel THEN Models ELSE Models \cap {Request[q].requested}

\* Mutant of Eligible: the policy is not asked.
EligibleUnasked(q, unavailable) ==
  {m \in Asked(q) \ unavailable : Capable(m, q)}

Eligible(q, unavailable) ==
  {m \in Asked(q) \ unavailable : PolicyAllows(m) /\ Capable(m, q)}

\* The sort key: one rank, the other rank, the identity.
Before(q, m, n) ==
  LET Key(x) == IF Request[q].preference = "cost"
                THEN <<Entry[x].cost, Entry[x].latency, Entry[x].order>>
                ELSE <<Entry[x].latency, Entry[x].cost, Entry[x].order>>
      a == Key(m)
      b == Key(n)
  IN \E i \in 1..3 : a[i] < b[i] /\ \A j \in 1..(i - 1) : a[j] = b[j]

\* The candidates in their order; none when RouteDeniedError is raised.
Routes(q, unavailable) ==
  LET S == Eligible(q, unavailable) IN
  {s \in [1..Cardinality(S) -> S] :
     S # {} /\ \A i, j \in 1..Cardinality(S) : i < j => Before(q, s[i], s[j])}

-----------------------------------------------------------------------------
(* Prices.                                                                 *)

\* TokenUsage.billable_tokens.
Billable(u) == u["input"] + u["output"] + u["cache_read"] + u["cache_write"] + u["reasoning"]

\* PricingVersion.cost().
Cost(m, u) ==
  LET p == Entry[m].price IN
  u["input"] * p["input"] + u["output"] * p["output"] + u["cache_read"] * p["cache_read"]
    + u["cache_write"] * p["cache_write"] + u["reasoning"] * p["reasoning"]

HighestRate(m) == Max({Entry[m].price[k] : k \in Kinds})

\* estimate_cost().
EstimateCost(m, q) == TokenLimit(q) * HighestRate(m)

\* Mutant of ReservationCost: the estimate for the first candidate only.
SelectedCost(candidates, q) == EstimateCost(candidates[1], q)

\* reservation_cost of complete(): the dearest candidate.
ReservationCost(candidates, q) ==
  Max({EstimateCost(candidates[i], q) : i \in 1..Len(candidates)})

\* _actual_usage() raises nothing.
WithinReservation(m, u, tokens, cost) == Billable(u) <= tokens /\ Cost(m, u) <= cost
=============================================================================
