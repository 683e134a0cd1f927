----------------------------- MODULE ModelBudget -----------------------------
(***************************************************************************)
(* The model budget of one tenant: reservations made before a model is      *)
(* called, charged or released after it, under the lease of the work item   *)
(* (a run is a work item), while the usage projection may be rebuilt.       *)
(*                                                                         *)
(* Every reservation, charge and release is one append_fenced transaction   *)
(* and takes the commit lock of the tenant, so they exclude each other; the *)
(* projection is read statement by statement, because a rebuild takes other *)
(* locks.  Tokens stand for tokens and cost: the two are checked alike.     *)
(***************************************************************************)
EXTENDS Naturals, FiniteSets, FiniteSetsExt, Functions

CONSTANTS
  Runs,           \* the work items
  Requests,       \* the logical model requests
  RunOf,          \* the run of each request
  None,           \* no transaction
  Limit,          \* token_limit of the reservation of each request
  MaxActual,      \* the most tokens a provider may report
  TenantQuota,    \* max_tenant_tokens_per_period
  RunQuota,       \* max_run_tokens
  MaxGeneration,  \* bound: leases ever granted per run
  MaxLeases,      \* bound: leases ever granted
  MaxPeriods,     \* bound: month boundaries passed
  MaxRebuilds,    \* bound: rebuilds ever started
  RebuildMayFail  \* whether an engine may stop in the middle of a rebuild

ASSUME BudgetAssumption ==
  /\ IsFiniteSet(Runs) /\ IsFiniteSet(Requests)
  /\ RunOf \in [Requests -> Runs]
  /\ Limit \in [Requests -> Nat \ {0}] /\ MaxActual \in Nat
  /\ TenantQuota \in Nat /\ RunQuota \in Nat
  /\ MaxGeneration \in Nat /\ MaxLeases \in Nat
  /\ MaxPeriods \in Nat /\ MaxRebuilds \in Nat
  /\ RebuildMayFail \in BOOLEAN

Generations == 1..MaxGeneration

VARIABLES
  lease,          \* the generation of the lease of each run, and whether it is held
  status,         \* the reservation of each request under each generation
  calling,        \* the reservations whose worker is still at work on the call
  charge,         \* model.usage_recorded: tokens of each request, and the period
  rows,           \* the requests that have a row in model_usage_projection
  tx,             \* the reserve() transaction in progress
  rebuild,        \* where the rebuild of the projection is
  periods,        \* month boundaries passed
  rebuilds,       \* rebuilds started
  blind           \* whether a sum was ever taken over an incomplete projection

vars == <<lease, status, calling, charge, rows, tx, rebuild, periods, rebuilds, blind>>

NoCharge == [tokens |-> 0, period |-> 0]

\* Every variable keeps its type, and a worker is only ever at work on a call
\* whose reservation is active.
TypeOK ==
  /\ lease \in [Runs -> [gen : 0..MaxGeneration, held : BOOLEAN]]
  /\ status \in [Requests -> [Generations -> {"none", "active", "charged", "released"}]]
  /\ calling \subseteq {x \in Requests \X Generations : status[x[1]][x[2]] = "active"}
  /\ charge \in [Requests -> [tokens : 0..MaxActual, period : 0..MaxPeriods]]
  /\ rows \subseteq Requests
  /\ tx = None \/ tx \in [req : Requests, gen : Generations, step : {"test", "tenant", "run", "admit"},
                          tenant : Nat, run : Nat]
  /\ rebuild \in {"none", "locked", "replaying", "partial"}
  /\ periods \in 0..MaxPeriods /\ rebuilds \in 0..MaxRebuilds /\ blind \in BOOLEAN

Init ==
  /\ lease = [r \in Runs |-> [gen |-> 0, held |-> FALSE]]
  /\ status = [q \in Requests |-> [g \in Generations |-> "none"]]
  /\ calling = {}
  /\ charge = [q \in Requests |-> NoCharge]
  /\ rows = {}
  /\ tx = None
  /\ rebuild = "none"
  /\ periods = 0 /\ rebuilds = 0 /\ blind = FALSE

-----------------------------------------------------------------------------
(* The lease of the run, and the fence.                                    *)

Fence(q, g) == lease[RunOf[q]] = [gen |-> g, held |-> TRUE]

\* A worker claims the run; the generation grows.
Claim(r) ==
  /\ ~lease[r].held
  /\ lease[r].gen < MaxGeneration /\ SumFunction([s \in Runs |-> lease[s].gen]) < MaxLeases
  /\ lease' = [lease EXCEPT ![r] = [gen |-> @.gen + 1, held |-> TRUE]]
  /\ UNCHANGED <<status, calling, charge, rows, tx, rebuild, periods, rebuilds, blind>>

\* The lease ends: the work is done, failed, released or the lease expired.
\* A transaction holds the row of the lease until it commits.
LeaseEnds(r) ==
  /\ lease[r].held
  /\ tx # None => RunOf[tx.req] # r
  /\ lease' = [lease EXCEPT ![r].held = FALSE]
  /\ UNCHANGED <<status, calling, charge, rows, tx, rebuild, periods, rebuilds, blind>>

-----------------------------------------------------------------------------
(* reserve().                                                              *)

ActiveTokens(S) ==
  SumFunctionOnSet([x \in Requests \X Generations |-> Limit[x[1]]],
                   {x \in S \X Generations : status[x[1]][x[2]] = "active"})

\* The requests with a model.usage_recorded event in the ledger.
Charged == {q \in Requests : \E g \in Generations : status[q][g] = "charged"}

\* Sums over the usage projection: of this period, and of all time.
Tokens == [q \in Requests |-> charge[q].tokens]

UsedThisPeriod(S) ==
  SumFunctionOnSet(Tokens, {q \in S \cap rows : charge[q].period = periods})

UsedEver(S) == SumFunctionOnSet(Tokens, S \cap rows)

OfRun(q) == {p \in Requests : RunOf[p] = RunOf[q]}

\* The transaction of request q under generation g, with the sums it has read.
Reserving(q, g, step, tenant, run) ==
  [req |-> q, gen |-> g, step |-> step, tenant |-> tenant, run |-> run]

\* append_fenced() up to the mutation: fence, commit lock, budget lock.
ReserveBegin(q, g) ==
  /\ tx = None /\ <<q, g>> \notin calling
  /\ Fence(q, g)
  /\ tx' = Reserving(q, g, "test", 0, 0)
  /\ UNCHANGED <<lease, status, calling, charge, rows, rebuild, periods, rebuilds, blind>>

\* pg_try_advisory_lock succeeds; the lock is given back at once.
MaintenanceFree == rebuild \in {"none", "partial"}

\* No other session may be rebuilding; otherwise BudgetDeniedError.
ReserveTest ==
  /\ tx # None /\ tx.step = "test"
  /\ tx' = IF MaintenanceFree THEN Reserving(tx.req, tx.gen, "tenant", 0, 0) ELSE None
  /\ UNCHANGED <<lease, status, calling, charge, rows, rebuild, periods, rebuilds, blind>>

\* The sums of the tenant: active reservations, and usage of this period.
ReserveReadTenant ==
  /\ tx # None /\ tx.step = "tenant"
  /\ tx' = Reserving(tx.req, tx.gen, "run", ActiveTokens(Requests) + UsedThisPeriod(Requests), 0)
  /\ blind' = (blind \/ rows # Charged)
  /\ UNCHANGED <<lease, status, calling, charge, rows, rebuild, periods, rebuilds>>

\* The sums of the run: active reservations, and usage of all time.
ReserveReadRun ==
  LET S == OfRun(tx.req) IN
  /\ tx # None /\ tx.step = "run"
  /\ tx' = Reserving(tx.req, tx.gen, "admit", tx.tenant, ActiveTokens(S) + UsedEver(S))
  /\ blind' = (blind \/ rows # Charged)
  /\ UNCHANGED <<lease, status, calling, charge, rows, rebuild, periods, rebuilds>>

\* Mutant of WithinBudget: the run is not checked.
WithinTenantBudget == tx.tenant + Limit[tx.req] <= TenantQuota

\* _check_budget().
WithinBudget ==
  /\ tx.tenant + Limit[tx.req] <= TenantQuota
  /\ tx.run + Limit[tx.req] <= RunQuota

\* Mutant of Unreserved: the unique index covers charged reservations only.
UnreservedUnlessCharged(q) == \A g \in Generations : status[q][g] # "charged"

\* The partial unique indexes on request_id and on idempotency_key.
Unreserved(q) == \A g \in Generations : status[q][g] \notin {"active", "charged"}

\* _check_budget(), the INSERT and the commit; or denied, or a duplicate.
ReserveCommit ==
  /\ tx # None /\ tx.step = "admit"
  /\ IF WithinBudget /\ Unreserved(tx.req)
     THEN /\ status' = [status EXCEPT ![tx.req][tx.gen] = "active"]
          /\ calling' = calling \cup {<<tx.req, tx.gen>>}
     ELSE UNCHANGED <<status, calling>>
  /\ tx' = None
  /\ UNCHANGED <<lease, charge, rows, rebuild, periods, rebuilds, blind>>

-----------------------------------------------------------------------------
(* After the call: one fenced transaction settles the reservation.         *)

\* append_fenced() finds the lease, and the UPDATE finds the active row.
Settles(q, g) ==
  /\ tx = None /\ <<q, g>> \in calling
  /\ Fence(q, g)
  /\ status[q][g] = "active"

\* Events, reservation and usage row in one transaction.
Charge(q, g, t) ==
  /\ Settles(q, g)
  /\ status' = [status EXCEPT ![q][g] = "charged"]
  /\ calling' = calling \ {<<q, g>>}
  /\ charge' = [charge EXCEPT ![q] = [tokens |-> t, period |-> periods]]
  /\ rows' = rows \cup {q}
  /\ UNCHANGED <<lease, tx, rebuild, periods, rebuilds, blind>>

\* succeed(): what was used fits what was reserved.
Succeed(q, g) == \E t \in 0..Limit[q] : t <= MaxActual /\ Charge(q, g, t)

\* record_usage_failure(): the response was refused, or more than reserved.
RecordUsageFailure(q, g) == \E t \in 0..MaxActual : Charge(q, g, t)

\* fail(): no provider answered.
Fail(q, g) ==
  /\ Settles(q, g)
  /\ status' = [status EXCEPT ![q][g] = "released"]
  /\ calling' = calling \ {<<q, g>>}
  /\ UNCHANGED <<lease, charge, rows, tx, rebuild, periods, rebuilds, blind>>

\* The fence is lost, storage fails or the worker dies: nothing is settled.
GiveUp(q, g) ==
  /\ <<q, g>> \in calling
  /\ calling' = calling \ {<<q, g>>}
  /\ UNCHANGED <<lease, status, charge, rows, tx, rebuild, periods, rebuilds, blind>>

\* The next month begins.  A transaction keeps the month it started in.
NewPeriod ==
  /\ tx = None /\ periods < MaxPeriods
  /\ periods' = periods + 1
  /\ UNCHANGED <<lease, status, calling, charge, rows, tx, rebuild, rebuilds, blind>>

-----------------------------------------------------------------------------
(* rebuild() of model-usage.                                               *)

BeginRebuild ==
  /\ MaintenanceFree /\ rebuilds < MaxRebuilds
  /\ rebuild' = "locked"
  /\ rebuilds' = rebuilds + 1
  /\ UNCHANGED <<lease, status, calling, charge, rows, tx, periods, blind>>

Reset ==
  /\ rebuild = "locked"
  /\ rows' = {}
  /\ rebuild' = "replaying"
  /\ UNCHANGED <<lease, status, calling, charge, tx, periods, rebuilds, blind>>

\* catch_up(): one page, of one event, of those not replayed yet.
ReplayPage ==
  /\ rebuild = "replaying"
  /\ \E q \in Charged \ rows : rows' = rows \cup {q}
  /\ UNCHANGED <<lease, status, calling, charge, tx, rebuild, periods, rebuilds, blind>>

\* Mutant of EndRebuild: the lock is released before the replay is complete.
EndRebuildEarly ==
  /\ rebuild = "replaying"
  /\ rebuild' = "none"
  /\ UNCHANGED <<lease, status, calling, charge, rows, tx, periods, rebuilds, blind>>

EndRebuild ==
  /\ rebuild = "replaying"
  /\ Charged \subseteq rows
  /\ rebuild' = "none"
  /\ UNCHANGED <<lease, status, calling, charge, rows, tx, periods, rebuilds, blind>>

\* An exception in catch_up() runs end_rebuild(), the end of the session frees
\* the lock: either way the projection stays as it is.
RebuildFails ==
  /\ RebuildMayFail /\ ~MaintenanceFree
  /\ rebuild' = IF rows = Charged THEN "none" ELSE "partial"
  /\ UNCHANGED <<lease, status, calling, charge, rows, tx, periods, rebuilds, blind>>

-----------------------------------------------------------------------------
Next ==
  \/ \E r \in Runs : Claim(r) \/ LeaseEnds(r)
  \/ \E q \in Requests, g \in Generations :
        \/ ReserveBegin(q, g) \/ Succeed(q, g) \/ RecordUsageFailure(q, g)
        \/ Fail(q, g) \/ GiveUp(q, g)
  \/ ReserveTest \/ ReserveReadTenant \/ ReserveReadRun \/ ReserveCommit
  \/ NewPeriod
  \/ BeginRebuild \/ Reset \/ ReplayPage \/ EndRebuild \/ RebuildFails

Spec == Init /\ [][Next]_vars

-----------------------------------------------------------------------------
(* Properties.                                                             *)

\* What a request counts against a quota: all of an active reservation, and of
\* a charge as much as was reserved for it.
Counted(S, P) ==
  ActiveTokens(S) + SumFunctionOnSet([q \in Requests |-> Min({charge[q].tokens, Limit[q]})],
                                     {q \in S : charge[q].period \in P})

\* The tokens reserved and charged in a period never exceed the tenant's quota,
\* those of a run never the quota of a run, except by what a provider used
\* beyond its reservation, as long as no admission has read an incomplete
\* projection (reserve(), _check_budget()).
QuotaHolds ==
  ~blind =>
    /\ Counted(Requests, {periods}) <= TenantQuota
    /\ \A r \in Runs : Counted({q \in Requests : RunOf[q] = r}, 0..periods) <= RunQuota

\* Only one worker is ever at work on a request, however often the run is
\* reclaimed, and a request is charged once ("PostgreSQL reservation idempotency
\* prevents a second worker from starting the same logical request").
OneWorkerPerRequest ==
  \A q \in Requests :
    Cardinality({g \in Generations : status[q][g] \in {"active", "charged"}}) <= 1

\* A rebuild that ran to its end leaves the projection with every charge of the
\* ledger and nothing else, the charges made while it ran included.
RebuildRestores == rebuild = "none" => rows = Charged

\* No admission reads a projection that lacks charges of the ledger: "concurrent
\* admission queries fail closed instead of observing the empty view".
AdmissionSeesUsage == ~blind

Fencing == INSTANCE FencedLease WITH
  Items <- Runs,
  generation <- [r \in Runs |-> lease[r].gen],
  inForce <- [r \in Runs |-> lease[r].held]

\* The leases of this model are those that WorkLedger issues.
ImplementsLease == Fencing!Spec

\* What has become of request q, whatever the generation it was reserved under.
KeyState(q) ==
  LET Some(s) == \E g \in Generations : status[q][g] = s IN
  IF Some("charged") THEN "settled" ELSE IF Some("active") THEN "reserved" ELSE "free"

Repository == INSTANCE GatewayRepository WITH
  Keys <- Requests, Workers <- Generations,
  state <- [q \in Requests |-> KeyState(q)],
  workers <- [q \in Requests |-> {g \in Generations : <<q, g>> \in calling}]

\* PostgresGatewayRepository keeps the promise of GatewayRepository, though a
\* reservation takes several statements, leases are lost and a rebuild comes between.
ImplementsRepository == Repository!Spec
=============================================================================
