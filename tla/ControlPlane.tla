---------------------------- MODULE ControlPlane -----------------------------
(***************************************************************************)
(* ControlPlaneApp over PostgreSQL: requests of /v1/ that share one event    *)
(* loop, the key cache of the verifier, one synchronous connection         *)
(* (identities, tenants, policies, audit) and one asynchronous connection   *)
(* (ledger, projections, usage).                                           *)
(*                                                                         *)
(* A request is handled by a thread of KeyCache, which is the executor's    *)
(* while it authenticates.  What a request holds (its subject, its route,  *)
(* the tenant of its path) is chosen when the code first looks at it.       *)
(***************************************************************************)
EXTENDS KeyCache

CONSTANTS
  Tenants,          \* tenants; one identity of each is registered
  Platform,         \* PLATFORM_TENANT_ID
  Provisioned,      \* tenants that have a tenant, a policy and a quota row
  RoleOf,           \* the role bound to the identity of each tenant
  Expires,          \* expires_at of every binding
  MaxChanges        \* bound: keys rotated, bindings revoked, identities disabled

Roles == {"viewer", "investigator", "approver", "operator", "tenant_admin", "platform_admin"}

ASSUME ControlPlaneAssumption ==
  /\ Platform \in Tenants /\ None \notin Tenants
  /\ Provisioned \subseteq Tenants
  /\ RoleOf \in [Tenants -> Roles]
  /\ \A u \in Tenants : RoleOf[u] = "platform_admin" => u = Platform
  /\ Expires \in Nat /\ MaxChanges \in Nat

Never == MaxTime + 1                  \* revoked_at is NULL
Moments == Times \cup {Never}

\* The tenant routes that differ in what they do: "ledger" stands for the ledger,
\* the timeline and the run status, "models" for models and provider-health.
Views == {"tenant", "policy", "models", "usage", "ledger"}

Connections == {"sync", "async"}

VARIABLES
  loop,             \* the request whose handler runs on the event loop
  connection,       \* per connection: who is in its lock, and aegis.tenant_id
  revoked,          \* revoked_at of the binding of each identity
  disabled,         \* identities that are disabled
  changes,          \* changes made so far
  request           \* where each request is

planeVars == <<loop, connection, revoked, disabled, changes, request>>
allVars == <<vars, planeVars>>

Free == [owner |-> None, tenant |-> None]

\* who and bindings are the Principal, trail the audit events the request has
\* committed, barred (history) the identities that were revoked or disabled when
\* it arrived.
NoRequest ==
  [step |-> "idle", stage |-> "verify", barred |-> {}, who |-> None, bindings |-> {},
   route |-> "none", tenant |-> None, decision |-> "none", trail |-> {}, status |-> "none"]

Steps == {"idle", "verify", "wait", "execute", "resume", "respond"}
Stages == {"verify", "resolve", "reject", "authn", "authz", "view", "summary"}

Requests ==
  [step : Steps, stage : Stages, barred : SUBSET Tenants, who : Tenants \cup {None},
   bindings : SUBSET Moments, route : Views \cup {"none"}, tenant : Tenants \cup {None},
   decision : {"none", "granted", "denied"},
   trail : SUBSET {"failure", "success", "granted", "denied"},
   status : {"none", "200", "401", "403", "404", "503", "error"}]

\* Every variable of the key cache and of the control plane keeps its type.
PlaneTypeOK ==
  /\ TypeOK
  /\ loop \in Threads \cup {None}
  /\ connection \in [Connections -> [owner : Threads \cup {None}, tenant : Tenants \cup {None}]]
  /\ revoked \in [Tenants -> Moments]
  /\ disabled \subseteq Tenants
  /\ changes \in 0..MaxChanges
  /\ request \in [Threads -> Requests]

PlaneInit ==
  /\ Init
  /\ loop = None
  /\ connection = [c \in Connections |-> Free]
  /\ revoked = [u \in Tenants |-> Never]
  /\ disabled = {}
  /\ changes = 0
  /\ request = [t \in Threads |-> NoRequest]

-----------------------------------------------------------------------------
(* What changes around the control plane: the key endpoint rotates a key,   *)
(* an administrator revokes a binding or disables an identity.             *)

RotateKey(k) ==
  /\ changes < MaxChanges /\ Rotate(k)
  /\ changes' = changes + 1
  /\ UNCHANGED <<loop, connection, revoked, disabled, request>>

Revoke(u) ==
  /\ changes < MaxChanges /\ revoked[u] = Never
  /\ revoked' = [revoked EXCEPT ![u] = now]
  /\ changes' = changes + 1
  /\ UNCHANGED <<vars, loop, connection, disabled, request>>

Disable(u) ==
  /\ changes < MaxChanges /\ u \notin disabled
  /\ disabled' = disabled \cup {u}
  /\ changes' = changes + 1
  /\ UNCHANGED <<vars, loop, connection, revoked, request>>

-----------------------------------------------------------------------------
(* AuthorizationService.                                                   *)

\* ROLE_PERMISSIONS, as far as the routes ask for them.
RolePermissions(role) ==
  IF role = "platform_admin" THEN {"tenant:read"}
  ELSE {"tenant:read", "resource:read", "policy:read", "model:read"}

Permission(route) ==
  CASE route = "tenant" -> "tenant:read"
    [] route = "policy" -> "policy:read"
    [] route \in {"models", "usage"} -> "model:read"
    [] OTHER -> "resource:read"

\* RoleBinding.is_active(); every binding was assigned in the past.
IsActive(revokedAt, at) == at < Expires /\ at < revokedAt

\* decide(): a principal with its bindings, on a route of a tenant, at a time.
Decide(who, bindings, route, tenant, at) ==
  /\ who = tenant
  /\ \E b \in bindings : IsActive(b, at)
  /\ Permission(route) \in RolePermissions(RoleOf[who])

-----------------------------------------------------------------------------
(* Transactions on a shared connection.                                    *)

Become(t, new) ==
  /\ request' = [request EXCEPT ![t] = new]
  /\ UNCHANGED <<revoked, disabled, changes>>

\* The connection of the adapter that request t is in.
On(t) ==
  IF request[t].stage = "summary" \/ (request[t].stage = "view" /\ request[t].route = "ledger")
  THEN "async" ELSE "sync"

\* The tenant context the transaction of request t is for.
Context(t) ==
  CASE request[t].stage = "reject" -> Platform
    [] request[t].stage \in {"resolve", "authn", "authz"} -> request[t].who
    [] request[t].stage \in {"view", "summary"} -> request[t].tenant
    [] OTHER -> None

\* Mutant of LockFree: every adapter has a lock of its own.
LockPerAdapter(t) ==
  \A u \in Threads : connection[On(t)].owner = u => request[u].stage # request[t].stage

\* _connection_lock(): one lock for all adapters of a connection.
LockFree(t) == connection[On(t)].owner = None

\* with lock, connection.transaction(): set_config('aegis.tenant_id', ..., true).
Enter(t, tenant) ==
  /\ LockFree(t)
  /\ connection' = [connection EXCEPT ![On(t)] = [owner |-> t, tenant |-> tenant]]

\* The end of the transaction and of the with statement: the setting was local.
Leave(t) == connection' = [connection EXCEPT ![On(t)] = Free]

\* The row level security policies: the rows of tenant u are those of the setting.
Visible(t, u) == connection[On(t)].tenant = u

\* _tenant_transaction() of either kind of connection.
Begin(t) ==
  /\ request[t].step = "wait" /\ request[t].stage # "resolve"
  /\ Enter(t, Context(t))
  /\ Become(t, [request[t] EXCEPT !.step = "execute"])
  /\ UNCHANGED <<vars, loop>>

\* The handler has its answer; it is sent when the loop gets to it.
Answer(r, status) == [r EXCEPT !.step = "respond", !.status = status, !.bindings = {}]

-----------------------------------------------------------------------------
(* authenticate(), in an executor.                                         *)

Arrival == [NoRequest EXCEPT !.barred = disabled \cup {u \in Tenants : revoked[u] # Never}]

\* An AuthenticationError is on its way to the handler.
Unauthenticated(t) ==
  Become(t, [NoRequest EXCEPT !.stage = "reject", !.step = "resume"])

\* The header holds no bearer token, or one that names no key of an allowed
\* algorithm.
RefuseToken(t) ==
  /\ request[t].step = "idle" /\ loop = None
  /\ Unauthenticated(t)
  /\ UNCHANGED <<vars, loop, connection>>

\* A request of /v1/ with a token: its key is looked up.  (Health, readiness, an
\* unknown path and other methods are answered without any of this.)
PresentToken(t) ==
  /\ request[t].step = "idle" /\ loop = None
  /\ \E k \in Keys : GetKey(t, k)
  /\ Become(t, [Arrival EXCEPT !.step = "verify"])
  /\ UNCHANGED <<loop, connection>>

\* get_key() raises: the refresh failed, or the key is unknown.
KeyUnavailable(t) ==
  /\ RefreshFails(t) \/ (thread[t].pc = "missed" /\ Return(t))
  /\ Unauthenticated(t)
  /\ UNCHANGED <<loop, connection>>

\* jwt.decode() accepts the token, or not.
Verify(t) ==
  /\ thread[t].pc = "found" /\ Return(t)
  /\ \/ Become(t, [request[t] EXCEPT !.stage = "resolve", !.step = "wait"])
     \/ Unauthenticated(t)
  /\ UNCHANGED <<loop, connection>>

\* VerifiedClaims: a subject, registered or not, and perhaps a tenant.
Claims == [subject : Tenants \cup {None}, tenant : Tenants \cup {None}]

\* Mutant of Recognised: the identity is not asked whether it is enabled.
RecognisedDisabled(c) == c.subject \in Tenants /\ c.tenant \in {None, c.subject}

\* A registered, enabled identity of the tenant that the token asserts, if any.
Recognised(c) ==
  c.subject \in Tenants /\ c.subject \notin disabled /\ c.tenant \in {None, c.subject}

\* resolve(): lookup_identity_by_subject(), then the setting of the tenant found;
\* an AuthenticationError leaves the transaction again.
Lookup(t) ==
  /\ request[t].step = "wait" /\ request[t].stage = "resolve"
  /\ \E c \in Claims :
       \/ /\ Recognised(c) /\ Enter(t, c.subject)
          /\ Become(t, [request[t] EXCEPT !.step = "execute", !.who = c.subject])
       \/ /\ ~Recognised(c) /\ LockFree(t)
          /\ Unauthenticated(t)
          /\ UNCHANGED connection
  /\ UNCHANGED <<vars, loop>>

\* resolve(): the bindings of the identity as they are now.
ReadBindings(t) ==
  LET r == request[t] IN
  /\ r.step = "execute" /\ r.stage = "resolve"
  /\ Become(t, [r EXCEPT !.stage = "authn", !.step = "resume",
                         !.bindings = IF Visible(t, r.who) THEN {revoked[r.who]} ELSE {}])
  /\ Leave(t)
  /\ UNCHANGED <<vars, loop>>

-----------------------------------------------------------------------------
(* The handler on the event loop.  Audit events are appended by a blocking   *)
(* call, so the loop waits for the connection with it.                     *)

Resume(t) ==
  /\ request[t].step = "resume" /\ loop = None
  /\ loop' = t
  /\ Become(t, [request[t] EXCEPT !.step = "wait"])
  /\ UNCHANGED <<vars, connection>>

\* PostgresAuditStore.append(): the INSERT passes the policy of its tenant.
AppendAudit(t) ==
  /\ request[t].step = "execute" /\ Visible(t, Context(t))
  /\ Leave(t)
  /\ UNCHANGED vars

With(r, outcome) == [r EXCEPT !.trail = @ \cup {outcome}]

\* The failed attempt is on record, under the platform tenant: 401.
Rejected(t) ==
  /\ request[t].stage = "reject" /\ AppendAudit(t)
  /\ Become(t, Answer(With(request[t], "failure"), "401"))
  /\ UNCHANGED loop

\* Mutant of Decided: a denial is answered before it is on record.
DecidedSilently(r, allowed) ==
  IF allowed THEN [r EXCEPT !.stage = "authz", !.step = "wait", !.decision = "granted"]
  ELSE Answer(r, "403")

\* _authorize() has decided and goes on to append the decision.
Decided(r, allowed) ==
  [r EXCEPT !.stage = "authz", !.step = "wait",
            !.decision = IF allowed THEN "granted" ELSE "denied"]

\* __call__() after _authenticate(): /v1/me and a path that is no route are
\* answered, on a tenant route the handler asks for its permission.
Dispatch(t, r) ==
  \/ Become(t, Answer(r, "200"))
  \/ Become(t, Answer(r, "404"))
  \/ \E route \in Views, tenant \in Tenants :
       Become(t, Decided([r EXCEPT !.route = route, !.tenant = tenant],
                         Decide(r.who, r.bindings, route, tenant, now)))

\* The authentication is on record.
Authenticated(t) ==
  /\ request[t].stage = "authn" /\ AppendAudit(t)
  /\ Dispatch(t, With(request[t], "success"))
  /\ UNCHANGED loop

\* The model views read the policy on the loop, the others hand over to an
\* executor or await the other connection.
OnLoop(route) == route \in {"models", "usage"}

\* The decision is on record: 403, or the view is read.
Authorized(t) ==
  LET r == With(request[t], request[t].decision) IN
  /\ r.stage = "authz" /\ AppendAudit(t)
  /\ \/ /\ r.decision = "denied"
        /\ Become(t, Answer(r, "403"))
        /\ UNCHANGED loop
     \/ /\ r.decision = "granted"
        /\ Become(t, [r EXCEPT !.stage = "view", !.step = "wait"])
        /\ loop' = IF OnLoop(r.route) THEN t ELSE None

-----------------------------------------------------------------------------
(* The views.                                                              *)

\* The row of the tenant, or of its policy joined with its quotas.
Row(t) == Visible(t, request[t].tenant) /\ request[t].tenant \in Provisioned

\* _get_tenant(), _get_policy().
GetRecord(t) ==
  /\ request[t].step = "execute" /\ request[t].stage = "view"
  /\ request[t].route \in {"tenant", "policy"}
  /\ Become(t, Answer(request[t], IF Row(t) THEN "200" ELSE "404"))
  /\ Leave(t)
  /\ UNCHANGED <<vars, loop>>

\* GatewayOperations decides again, at the time of the view.
StillAllowed(r) == Decide(r.who, r.bindings, r.route, r.tenant, now)

\* _get_model_view(): the policy is read on the loop; the usage is awaited.
GetModelView(t) ==
  LET r == request[t] IN
  /\ r.step = "execute" /\ r.stage = "view" /\ OnLoop(r.route)
  /\ Leave(t)
  /\ \/ /\ ~Row(t)
        /\ Become(t, Answer(r, "404")) /\ UNCHANGED loop
     \/ /\ Row(t) /\ ~StillAllowed(r)
        /\ Become(t, Answer(r, "403")) /\ UNCHANGED loop
     \/ /\ Row(t) /\ StillAllowed(r) /\ r.route = "models"
        /\ Become(t, Answer(r, "200")) /\ UNCHANGED loop
     \/ /\ Row(t) /\ StillAllowed(r) /\ r.route = "usage"
        /\ Become(t, [r EXCEPT !.stage = "summary", !.step = "wait"]) /\ loop' = None
  /\ UNCHANGED vars

\* _get_ledger(), _get_timeline(), _get_run_status(), and usage_summary().
GetEvents(t) ==
  /\ request[t].step = "execute"
  /\ request[t].stage = "summary" \/ (request[t].stage = "view" /\ request[t].route = "ledger")
  /\ Become(t, Answer(request[t], "200"))
  /\ Leave(t)
  /\ UNCHANGED <<vars, loop>>

\* The stages that turn a TransientStorageError into an answer.
Handled(r) == r.stage = "resolve" \/ (r.stage = "view" /\ ~OnLoop(r.route))

\* Mutant of Fail: the lock is not released when a statement fails.
FailHolding(t) ==
  /\ request[t].step = "execute"
  /\ Become(t, Answer(request[t], "error"))
  /\ UNCHANGED <<vars, loop, connection>>

\* A transient or permanent psycopg.Error, or a row that cannot be read: the
\* transaction is over, and the exception is answered or leaves the handler.
Fail(t) ==
  /\ request[t].step = "execute"
  /\ Leave(t)
  /\ \/ Handled(request[t]) /\ Become(t, Answer(request[t], "503"))
     \/ Become(t, Answer(request[t], "error"))
  /\ UNCHANGED <<vars, loop>>

\* _respond(), or the exception leaves __call__().
Respond(t) ==
  /\ request[t].step = "respond" /\ loop \in {None, t}
  /\ loop' = None
  /\ Become(t, NoRequest)
  /\ UNCHANGED <<vars, connection>>

-----------------------------------------------------------------------------
LookForKey(t) ==
  /\ Acquire(t) \/ Fetch(t) \/ Store(t) \/ Look(t)
  /\ UNCHANGED planeVars

Handle(t) ==
  \/ LookForKey(t) \/ KeyUnavailable(t) \/ Verify(t)
  \/ Begin(t) \/ Lookup(t) \/ ReadBindings(t) \/ Resume(t)
  \/ Rejected(t) \/ Authenticated(t) \/ Authorized(t)
  \/ GetRecord(t) \/ GetModelView(t) \/ GetEvents(t) \/ Fail(t) \/ Respond(t)

Around ==
  \/ Tick /\ UNCHANGED planeVars
  \/ \E k \in Keys : RotateKey(k)
  \/ \E u \in Tenants : Revoke(u) \/ Disable(u)

PlaneNext ==
  \/ Around
  \/ \E t \in Threads : RefuseToken(t) \/ PresentToken(t) \/ Handle(t)

PlaneSpec == PlaneInit /\ [][PlaneNext]_allVars

-----------------------------------------------------------------------------
(* Properties.                                                             *)

Answered(t, status) == request[t].step = "respond" /\ request[t].status = status

\* Every answer is preceded by the audit events it owes: 401 by the failed attempt,
\* 403 by the denial, the answer of a view by the authentication and the grant.  Two
\* answers owe less: storage that fails during authentication is answered 503 with
\* nothing on record, and a model view that is denied by its second decision has
\* the first one, the grant, on record.
AuditedBeforeAnswer ==
  \A t \in Threads :
    LET r == request[t] IN
    /\ Answered(t, "401") => r.trail = {"failure"}
    /\ Answered(t, "403") =>
         \/ r.trail = {"success", "denied"}
         \/ OnLoop(r.route) /\ r.trail = {"success", "granted"}
    /\ r.step = "respond" /\ r.stage \in {"view", "summary"} => r.trail = {"success", "granted"}
    /\ Answered(t, "200") => "success" \in r.trail

\* What a request is told of its tenant is true, whatever other requests do on the
\* connection meanwhile: 404 only if the row does not exist, 200 only if it does,
\* and 403 only if the principal is of another tenant, its role does not grant the
\* permission, or its binding has expired or was revoked.
AnswersTrue ==
  \A t \in Threads :
    LET r == request[t] IN
    /\ Answered(t, "404") /\ r.stage = "view" => r.tenant \notin Provisioned
    /\ Answered(t, "200") /\ r.stage \in {"view", "summary"} /\ r.route # "ledger"
         => r.tenant \in Provisioned
    /\ Answered(t, "403") => ~Decide(r.who, {revoked[r.who]}, r.route, r.tenant, now)

\* A request that arrives after a binding was revoked, or its identity disabled, is
\* granted nothing: what resolve() read is stale only within one request.
RevocationHolds ==
  \A t \in Threads : request[t].decision = "granted" => request[t].who \notin request[t].barred

\* The handler of request t waits for the lock of the key cache, for that of its
\* connection, or for the event loop.
Blocked(t) ==
  \/ thread[t].pc = "wait" /\ lock # None
  \/ request[t].step = "wait" /\ ~LockFree(t)
  \/ request[t].step = "resume" /\ loop # None
  \/ request[t].step = "respond" /\ loop \notin {None, t}

InProgress == {t \in Threads : request[t].step # "idle"}

\* The requests in progress never all wait for what others hold, although a handler
\* keeps the event loop while it waits for the connection.
NoCircularWait == InProgress # {} => \E t \in InProgress : ~Blocked(t)

\* The handlers never all wait for one another, and one that waits for nobody can
\* take its next step; a request has finitely many.
NeverStuck == NoCircularWait /\ \A t \in InProgress : ~Blocked(t) => ENABLED Handle(t)
=============================================================================
