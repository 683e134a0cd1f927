------------------------- MODULE ControlPlaneProofs --------------------------
(***************************************************************************)
(* Proofs about KeyCache and ControlPlane for every set of requests, keys   *)
(* and tenants, every assignment of roles and every bound: the keys the     *)
(* cache answers with are fresh, the control plane uses the cache as        *)
(* KeyCache specifies it, its answers are true, on record and follow        *)
(* revocations, and its requests never wait in a circle.                   *)
(***************************************************************************)
EXTENDS ControlPlane, TLAPS

Places == [pc : {"idle", "wait", "fetch", "store", "look", "found", "missed"},
           key : Keys, at : Times, document : SUBSET Keys]

-----------------------------------------------------------------------------
(* The key cache: the inductive invariant.                                 *)

\* The types, the lock, and readings of the clock that are not in the future.
Base ==
  /\ now \in Times
  /\ published \subseteq Keys /\ cached \subseteq Keys
  /\ changed \in [Keys -> Times]
  /\ expires \in 0..(MaxTime + TTL)
  /\ thread \in [Threads -> Places]
  /\ lock = None \/ (lock \in Threads /\ thread[lock].pc \in {"fetch", "store", "look"})
  /\ \A t \in Threads : thread[t].pc \in {"fetch", "store", "look"} => lock = t
  /\ \A t \in Threads : thread[t].at <= now
  /\ \A k \in Keys : changed[k] <= now
  /\ expires <= now + TTL

\* k is in the document D and not published, or the other way round.
Differs(k, D) == (k \in D /\ k \notin published) \/ (k \notin D /\ k \in published)

\* What a document says wrong of a key has changed since the document was asked for.
DocumentsFresh ==
  /\ \A k \in Keys : Differs(k, cached) => expires <= changed[k] + TTL
  /\ \A t \in Threads : thread[t].pc = "store" =>
       \A k \in Keys : Differs(k, thread[t].document) => thread[t].at <= changed[k]
  /\ \A t \in Threads : thread[t].pc = "look" => thread[t].at < expires

CacheInv == Base /\ DocumentsFresh /\ AnswersFresh

-----------------------------------------------------------------------------
LEMMA IdleTyped ==
  /\ IdleThread \in Places /\ IdleThread.pc = "idle" /\ IdleThread.at = 0
  /\ \A k \in Keys, n \in Times :
       /\ [IdleThread EXCEPT !.pc = "wait", !.key = k, !.at = n] \in Places
       /\ [IdleThread EXCEPT !.pc = "wait", !.key = k, !.at = n].pc = "wait"
       /\ [IdleThread EXCEPT !.pc = "wait", !.key = k, !.at = n].at = n
<1>1. (CHOOSE k \in Keys : TRUE) \in Keys
  BY KeyCacheAssumption, Zenon
<1>2. 0 \in Times
  BY KeyCacheAssumption DEF Times
<1>3. IdleThread \in Places /\ IdleThread.pc = "idle" /\ IdleThread.at = 0
  BY <1>1, <1>2, Zenon DEF IdleThread, Places
<1>4. QED
  BY <1>3, Zenon DEF Places

LEMMA CacheInit == Init => CacheInv
<1> SUFFICES ASSUME Init PROVE CacheInv
  OBVIOUS
<1>1. 0 \in Times /\ 0 \in 0..(MaxTime + TTL) /\ 0 <= 0 + TTL
  BY KeyCacheAssumption DEF Times
<1>2. thread = [t \in Threads |-> IdleThread]
  BY Zenon DEF Init
<1>3. Base
  <2>1. thread \in [Threads -> Places] /\ \A t \in Threads : thread[t] = IdleThread
    BY <1>2, IdleTyped, Zenon
  <2>2. changed \in [Keys -> Times] /\ \A k \in Keys : changed[k] = 0
    BY <1>1, Zenon DEF Init
  <2>3. /\ now = 0 /\ expires = 0 /\ lock = None /\ published \subseteq Keys /\ cached \subseteq Keys
    BY Zenon DEF Init
  <2>4. \A t \in Threads : thread[t].pc = "idle" /\ thread[t].at = 0
    BY <2>1, IdleTyped, Zenon
  <2>5. QED
    BY <1>1, <2>1, <2>2, <2>3, <2>4 DEF Base
<1>4. DocumentsFresh
  <2>1. \A k \in Keys : expires <= changed[k] + TTL
    BY <1>1, Zenon DEF Init
  <2>2. QED
    BY <1>2, <2>1, IdleTyped, Zenon DEF DocumentsFresh
<1>5. AnswersFresh
  BY <1>2, IdleTyped, Zenon DEF AnswersFresh
<1>6. QED
  BY <1>3, <1>4, <1>5, Zenon DEF CacheInv

\* A thread takes its place and nothing of the endpoint or the clock changes.
LEMMA GotoBase ==
  ASSUME Base, NEW t \in Threads, NEW new \in Places, Goto(t, new), new.at <= now,
         cached' \subseteq Keys, expires' \in 0..(MaxTime + TTL), expires' <= now + TTL,
         \/ lock' = t /\ new.pc \in {"fetch", "store", "look"} /\ lock \in {None, t}
         \/ lock' = None /\ new.pc \notin {"fetch", "store", "look"} /\ lock = t
         \/ lock' = lock /\ lock # t /\ new.pc \notin {"fetch", "store", "look"}
  PROVE  Base'
<1>1. /\ thread' = [thread EXCEPT ![t] = new] /\ now' = now /\ published' = published
      /\ changed' = changed
  BY Zenon DEF Goto
<1>2. thread'[t] = new /\ \A u \in Threads \ {t} : thread'[u] = thread[u]
  BY <1>1, Zenon DEF Base
<1>3. thread' \in [Threads -> Places]
  BY <1>1, Zenon DEF Base
<1>4. \A u \in Threads : thread'[u].at <= now
  BY <1>2, Zenon DEF Base
<1>5. \A u \in Threads : thread'[u].pc \in {"fetch", "store", "look"} => lock' = u
  BY <1>2, KeyCacheAssumption DEF Base
<1>6. lock' = None \/ (lock' \in Threads /\ thread'[lock'].pc \in {"fetch", "store", "look"})
  BY <1>2, Zenon DEF Base
<1>7. QED
  BY <1>1, <1>3, <1>4, <1>5, <1>6, Zenon DEF Base

LEMMA GotoFresh ==
  ASSUME CacheInv, NEW t \in Threads, NEW new \in Places, Goto(t, new),
         cached' = cached, expires' = expires,
         new.pc = "store" => \A k \in Keys : Differs(k, new.document) => new.at <= changed[k],
         new.pc = "look" => new.at < expires,
         new.pc = "found" /\ new.key \notin published => new.at < changed[new.key] + TTL,
         new.pc = "missed" /\ new.key \in published => new.at < changed[new.key] + TTL
  PROVE  DocumentsFresh' /\ AnswersFresh'
<1>1. /\ thread' = [thread EXCEPT ![t] = new] /\ published' = published /\ changed' = changed
  BY Zenon DEF Goto
<1>2. thread'[t] = new /\ \A u \in Threads \ {t} : thread'[u] = thread[u]
  BY <1>1, Zenon DEF CacheInv, Base
<1>3. DocumentsFresh'
  BY <1>1, <1>2, Zenon DEF CacheInv, DocumentsFresh, Differs
<1>4. AnswersFresh'
  BY <1>1, <1>2 DEF CacheInv, AnswersFresh
<1>5. QED
  BY <1>3, <1>4, Zenon

LEMMA CacheStep ==
  ASSUME CacheInv, NEW t \in Threads, Step(t)
  PROVE  CacheInv'
<1> USE KeyCacheAssumption
<1>0. /\ Base /\ DocumentsFresh /\ AnswersFresh /\ thread[t] \in Places
      /\ thread[t].at <= now /\ now \in Nat /\ thread[t].at \in Nat
  BY DEF CacheInv, Base, Times, Places
<1>1. CASE Acquire(t)
  <2> DEFINE new == [thread[t] EXCEPT !.pc = IF RefreshDue(t) THEN "fetch" ELSE "look"]
  <2>1. /\ new \in Places /\ new.at = thread[t].at
        /\ new.pc = "fetch" \/ (new.pc = "look" /\ new.at < expires)
    BY <1>0 DEF Places, RefreshDue, Base
  <2>2. Goto(t, new) /\ lock = None /\ lock' = t /\ UNCHANGED <<cached, expires>>
    BY <1>1, Zenon DEF Acquire
  <2> HIDE DEF new
  <2>3. Base'
    BY <1>0, <2>1, <2>2, GotoBase, Zenon DEF Base
  <2>4. DocumentsFresh' /\ AnswersFresh'
    BY <2>1, <2>2, GotoFresh, Zenon
  <2>5. QED
    BY <2>3, <2>4, Zenon DEF CacheInv
<1>2. CASE Fetch(t)
  <2> DEFINE new == [thread[t] EXCEPT !.pc = "store", !.document = published]
  <2>1. new \in Places /\ new.at = thread[t].at /\ new.pc = "store" /\ new.document = published
    BY <1>0, Zenon DEF Places, Base
  <2>2. Goto(t, new) /\ lock = t /\ lock' = t /\ UNCHANGED <<cached, expires>>
    BY <1>0, <1>2, Zenon DEF Fetch, Base
  <2> HIDE DEF new
  <2>3. Base'
    BY <1>0, <2>1, <2>2, GotoBase, Zenon DEF Base
  <2>4. \A k \in Keys : ~Differs(k, new.document)
    BY <2>1, Zenon DEF Differs
  <2>5. DocumentsFresh' /\ AnswersFresh'
    BY <2>1, <2>2, <2>4, GotoFresh, Zenon
  <2>6. QED
    BY <2>3, <2>5, Zenon DEF CacheInv
<1>3. CASE Store(t)
  <2> DEFINE new == [thread[t] EXCEPT !.pc = "look", !.document = {}]
  <2>1. new \in Places /\ new.at = thread[t].at /\ new.pc = "look"
    BY <1>0, Zenon DEF Places
  <2>2. /\ Goto(t, new) /\ lock = t /\ lock' = t /\ thread[t].pc = "store"
        /\ cached' = thread[t].document /\ expires' = thread[t].at + TTL
    BY <1>0, <1>3, Zenon DEF Store, NewExpiry, Base
  <2>3. /\ cached' \subseteq Keys /\ expires' \in 0..(MaxTime + TTL) /\ expires' <= now + TTL
        /\ new.at < expires'
    BY <1>0, <2>1, <2>2 DEF Places, Times
  <2> HIDE DEF new
  <2>4. Base'
    BY <1>0, <2>1, <2>2, <2>3, GotoBase, Zenon DEF Base
  <2>5. /\ thread' = [thread EXCEPT ![t] = new] /\ published' = published /\ changed' = changed
    BY <2>2, Zenon DEF Goto
  <2>6. thread'[t] = new /\ \A u \in Threads \ {t} : thread'[u] = thread[u]
    BY <1>0, <2>5, Zenon DEF Base
  <2>7. \A u \in Threads \ {t} : thread[u].pc \notin {"fetch", "store", "look"}
    BY <1>0, <2>2, Zenon DEF Base
  <2>8. \A k \in Keys : Differs(k, cached)' => expires' <= changed'[k] + TTL
    <3> TAKE k \in Keys
    <3>1. Differs(k, cached)' => thread[t].at <= changed[k]
      BY <1>0, <2>2, <2>5, Zenon DEF DocumentsFresh, Differs
    <3>2. changed[k] \in Nat
      BY <1>0 DEF Base, Times
    <3>3. QED
      BY <1>0, <2>2, <2>5, <3>1, <3>2
  <2>9. DocumentsFresh'
    BY <2>1, <2>3, <2>6, <2>7, <2>8, Zenon DEF DocumentsFresh
  <2>10. AnswersFresh'
    BY <1>0, <2>1, <2>5, <2>6 DEF AnswersFresh
  <2>11. QED
    BY <2>4, <2>9, <2>10, Zenon DEF CacheInv
<1>4. CASE RefreshFails(t)
  <2>1. /\ Goto(t, IdleThread) /\ lock = t /\ lock' = None /\ UNCHANGED <<cached, expires>>
    BY <1>0, <1>4, Zenon DEF RefreshFails, Base
  <2>2. Base'
    <3>1. IdleThread \in Places /\ IdleThread.pc = "idle" /\ IdleThread.at <= now
      <4>1. IdleThread \in Places /\ IdleThread.pc = "idle" /\ IdleThread.at = 0
        BY IdleTyped, Zenon
      <4>2. QED
        BY <1>0, <4>1
    <3>2. cached' \subseteq Keys /\ expires' \in 0..(MaxTime + TTL) /\ expires' <= now + TTL
      BY <1>0, <2>1, Zenon DEF Base
    <3>3. QED
      BY <1>0, <2>1, <3>1, <3>2, GotoBase, Zenon
  <2>3. DocumentsFresh' /\ AnswersFresh'
    BY <2>1, IdleTyped, GotoFresh, Zenon
  <2>4. QED
    BY <2>2, <2>3, Zenon DEF CacheInv
<1>5. CASE Look(t)
  <2> DEFINE new == [thread[t] EXCEPT !.pc = IF thread[t].key \in cached THEN "found" ELSE "missed"]
  <2>1. /\ new \in Places /\ new.at = thread[t].at /\ new.key = thread[t].key
        /\ \/ new.pc = "found" /\ new.key \in cached
           \/ new.pc = "missed" /\ new.key \notin cached
    BY <1>0, Zenon DEF Places
  <2>2. /\ Goto(t, new) /\ lock = t /\ lock' = None /\ UNCHANGED <<cached, expires>>
        /\ thread[t].at < expires
    BY <1>0, <1>5, Zenon DEF Look, Base, DocumentsFresh
  <2> HIDE DEF new
  <2>3. Base'
    BY <1>0, <2>1, <2>2, GotoBase, Zenon DEF Base
  <2>4. Differs(new.key, cached) => new.at < changed[new.key] + TTL
    <3>1. new.key \in Keys /\ changed[new.key] \in Nat /\ expires \in Nat
      BY <1>0, <2>1 DEF Base, Places, Times
    <3>2. Differs(new.key, cached) => expires <= changed[new.key] + TTL
      BY <1>0, <3>1, Zenon DEF DocumentsFresh
    <3>3. QED
      BY <1>0, <2>1, <2>2, <3>1, <3>2
  <2>5. /\ new.pc = "found" /\ new.key \notin published => new.at < changed[new.key] + TTL
        /\ new.pc = "missed" /\ new.key \in published => new.at < changed[new.key] + TTL
    BY <2>1, <2>4, Zenon DEF Differs
  <2>6. DocumentsFresh' /\ AnswersFresh'
    BY <2>1, <2>2, <2>5, GotoFresh, Zenon
  <2>7. QED
    BY <2>3, <2>6, Zenon DEF CacheInv
<1>6. CASE Return(t)
  <2>1. /\ Goto(t, IdleThread) /\ lock # t /\ lock' = lock /\ UNCHANGED <<cached, expires>>
    BY <1>0, <1>6, Zenon DEF Return, Base
  <2>2. Base'
    <3>1. IdleThread \in Places /\ IdleThread.pc = "idle" /\ IdleThread.at <= now
      <4>1. IdleThread \in Places /\ IdleThread.pc = "idle" /\ IdleThread.at = 0
        BY IdleTyped, Zenon
      <4>2. QED
        BY <1>0, <4>1
    <3>2. cached' \subseteq Keys /\ expires' \in 0..(MaxTime + TTL) /\ expires' <= now + TTL
      BY <1>0, <2>1, Zenon DEF Base
    <3>3. QED
      BY <1>0, <2>1, <3>1, <3>2, GotoBase, Zenon
  <2>3. DocumentsFresh' /\ AnswersFresh'
    BY <2>1, IdleTyped, GotoFresh, Zenon
  <2>4. QED
    BY <2>2, <2>3, Zenon DEF CacheInv
<1>7. QED
  BY <1>1, <1>2, <1>3, <1>4, <1>5, <1>6, Zenon DEF Step

LEMMA CacheNext == CacheInv /\ [Next]_vars => CacheInv'
<1> SUFFICES ASSUME CacheInv, [Next]_vars PROVE CacheInv'
  OBVIOUS
<1> USE KeyCacheAssumption
<1>0. Base /\ DocumentsFresh /\ AnswersFresh
  BY Zenon DEF CacheInv
<1>1. CASE Tick
  <2>1. now \in Nat /\ now' = now + 1 /\ now' \in Times
    BY <1>0, <1>1 DEF Tick, Base, Times
  <2>2. /\ \A t \in Threads : thread[t].at \in Nat
        /\ \A k \in Keys : changed[k] \in Nat
        /\ expires \in Nat
    BY <1>0 DEF Base, Places, Times
  <2>3. Base'
    BY <1>0, <1>1, <2>1, <2>2 DEF Tick, Base
  <2>4. DocumentsFresh' /\ AnswersFresh'
    BY <1>0, <1>1, Zenon DEF Tick, DocumentsFresh, AnswersFresh, Differs
  <2>5. QED
    BY <2>3, <2>4, Zenon DEF CacheInv
<1>2. ASSUME NEW k \in Keys, Rotate(k) PROVE CacheInv'
  <2>1. /\ UNCHANGED <<now, cached, expires, lock, thread>> /\ published' \subseteq Keys
        /\ changed' \in [Keys -> Times] /\ changed'[k] = now
        /\ \A j \in Keys \ {k} : changed'[j] = changed[j] /\ (j \in published' <=> j \in published)
    BY <1>0, <1>2, Zenon DEF Rotate, Base
  <2>2. now \in Nat /\ expires \in Nat /\ \A t \in Threads : thread[t].at \in Nat
    BY <1>0 DEF Base, Places, Times
  <2>3. Base'
    BY <1>0, <2>1, <2>2 DEF Base
  <2>4. DocumentsFresh'
    BY <1>0, <2>1, <2>2, Zenon DEF Base, DocumentsFresh, Differs
  <2>5. AnswersFresh'
    <3> SUFFICES ASSUME NEW t \in Threads,
                        \/ thread'[t].pc = "found" /\ thread'[t].key \notin published'
                        \/ thread'[t].pc = "missed" /\ thread'[t].key \in published'
                 PROVE  thread'[t].at < changed'[thread'[t].key] + TTL
      BY Zenon DEF AnswersFresh
    <3>1. thread[t].key \in Keys /\ thread[t].at <= now
      BY <1>0, Zenon DEF Base, Places
    <3>2. CASE thread[t].key = k
      <4>1. changed'[thread'[t].key] = now /\ thread'[t].at = thread[t].at
        BY <2>1, <3>2, Zenon
      <4>2. thread[t].at < now + TTL
        BY <2>2, <3>1
      <4>3. QED
        BY <4>1, <4>2, Zenon
    <3>3. CASE thread[t].key # k
      <4>1. /\ thread'[t] = thread[t] /\ changed'[thread[t].key] = changed[thread[t].key]
            /\ thread[t].key \in published' <=> thread[t].key \in published
        BY <2>1, <3>1, <3>3, Zenon
      <4>2. QED
        BY <1>0, <4>1, Zenon DEF AnswersFresh
    <3>4. QED
      BY <3>2, <3>3, Zenon
  <2>6. QED
    BY <2>3, <2>4, <2>5, Zenon DEF CacheInv
<1>3. ASSUME NEW t \in Threads, NEW k \in Keys, GetKey(t, k) PROVE CacheInv'
  <2> DEFINE new == [IdleThread EXCEPT !.pc = "wait", !.key = k, !.at = now]
  <2>1. new \in Places /\ new.pc = "wait" /\ new.at = now
    <3>1. now \in Times
      BY <1>0, Zenon DEF Base
    <3>2. QED
      BY <3>1, IdleTyped, Zenon
  <2>2. Goto(t, new) /\ lock # t /\ lock' = lock /\ UNCHANGED <<cached, expires>>
    BY <1>0, <1>3, Zenon DEF GetKey, Base
  <2> HIDE DEF new
  <2>3. Base'
    BY <1>0, <2>1, <2>2, GotoBase DEF Base, Times
  <2>4. DocumentsFresh' /\ AnswersFresh'
    BY <2>1, <2>2, GotoFresh, Zenon
  <2>5. QED
    BY <2>3, <2>4, Zenon DEF CacheInv
<1>4. CASE UNCHANGED vars
  BY <1>0, <1>4, Zenon DEF vars, CacheInv, Base, DocumentsFresh, AnswersFresh, Differs
<1>5. QED
  BY <1>1, <1>2, <1>3, <1>4, CacheStep, Zenon DEF Next

-----------------------------------------------------------------------------
(* The theorems.                                                           *)

\* The invariant the theorems rest on holds of every behaviour of get_key().
THEOREM CacheInvariant == Spec => []CacheInv
  BY CacheInit, CacheNext, PTL DEF Spec

\* The cache keeps its types, and its lock is held only by a thread inside get_key().
THEOREM CacheTypeCorrect == Spec => []TypeOK
<1>1. CacheInv => TypeOK
  BY Zenon DEF CacheInv, Base, TypeOK, Places
<1>2. QED
  BY <1>1, CacheInvariant, PTL

\* get_key() is wrong about a key only for calls that began within the TTL of the
\* change, for any number of threads and keys and any TTL.
THEOREM KeysAreFresh == Spec => []AnswersFresh
<1>1. CacheInv => AnswersFresh
  BY Zenon DEF CacheInv
<1>2. QED
  BY <1>1, CacheInvariant, PTL

-----------------------------------------------------------------------------
(* The control plane implements the key cache.                             *)

LEMMA PlaneStepIsCacheStep == [PlaneNext]_allVars => [Next]_vars
<1> SUFFICES ASSUME [PlaneNext]_allVars PROVE [Next]_vars
  OBVIOUS
<1>1. CASE UNCHANGED allVars
  BY <1>1, Zenon DEF allVars
<1>2. CASE Around
  BY <1>2, Zenon DEF Around, RotateKey, Revoke, Disable, Next
<1>3. ASSUME NEW t \in Threads, RefuseToken(t) \/ PresentToken(t) PROVE [Next]_vars
  BY <1>3, Zenon DEF RefuseToken, PresentToken, Next
<1>4. ASSUME NEW t \in Threads, Handle(t) PROVE [Next]_vars
  <2>1. CASE LookForKey(t) \/ KeyUnavailable(t) \/ Verify(t)
    BY <2>1, Zenon DEF LookForKey, KeyUnavailable, Verify, Next, Step
  <2>2. CASE Begin(t) \/ Lookup(t) \/ ReadBindings(t) \/ Resume(t)
    BY <2>2, Zenon DEF Begin, Lookup, ReadBindings, Resume
  <2>3. CASE Rejected(t) \/ Authenticated(t) \/ Authorized(t)
    BY <2>3, Zenon DEF Rejected, Authenticated, Authorized, AppendAudit
  <2>4. CASE GetRecord(t) \/ GetModelView(t) \/ GetEvents(t) \/ Fail(t) \/ Respond(t)
    BY <2>4, Zenon DEF GetRecord, GetModelView, GetEvents, Fail, Respond
  <2>5. QED
    BY <1>4, <2>1, <2>2, <2>3, <2>4, Zenon DEF Handle
<1>5. QED
  BY <1>1, <1>2, <1>3, <1>4, Zenon DEF PlaneNext

\* Whatever the requests do, the key cache behaves as KeyCache says.
THEOREM PlaneImplementsKeyCache == PlaneSpec => Spec
<1>1. PlaneInit => Init
  BY Zenon DEF PlaneInit
<1>2. QED
  BY <1>1, PlaneStepIsCacheStep, PTL DEF PlaneSpec, Spec

\* The keys that requests are verified with are fresh.
THEOREM PlaneKeysAreFresh == PlaneSpec => []AnswersFresh
  BY PlaneImplementsKeyCache, KeysAreFresh, PTL

-----------------------------------------------------------------------------
(* The inductive invariant.                                                *)

PlaneTyped ==
  /\ now \in Times
  /\ loop \in Threads \cup {None}
  /\ connection \in [Connections -> [owner : Threads \cup {None}, tenant : Tenants \cup {None}]]
  /\ revoked \in [Tenants -> Moments]
  /\ disabled \subseteq Tenants
  /\ changes \in 0..MaxChanges
  /\ request \in [Threads -> Requests]

\* No binding was revoked in the future.
RevokedPast == \A u \in Tenants : revoked[u] # Never => revoked[u] <= now

\* A request in a transaction has the connection, with its tenant's setting.
Tenancy ==
  \A t \in Threads :
    request[t].step = "execute" =>
      connection[On(t)].owner = t /\ connection[On(t)].tenant = Context(t)

\* Decide() denies the principal of request r with its binding as it is now.
Denied(r) == ~Decide(r.who, {revoked[r.who]}, r.route, r.tenant, now)

\* The principal of a request has the binding of its identity as it is, or as it
\* was before it was revoked.
Principal(r) ==
  /\ r.stage \in {"verify", "resolve"} => r.bindings = {}
  /\ r.stage = "verify" => r.who = None
  /\ r.stage = "resolve" /\ r.step = "execute" => r.who \in Tenants
  /\ r.stage \in {"authn", "authz", "view", "summary"} => r.who \in Tenants
  /\ r.stage \in {"authn", "authz", "view", "summary"} /\ r.step # "respond" =>
       r.bindings = {revoked[r.who]} \/ r.bindings = {Never}

\* An identity that was barred before the request and was recognised nevertheless
\* has a revoked binding, and the request knows it.
Barring(r) ==
  /\ \A u \in r.barred : u \in disabled \/ revoked[u] # Never
  /\ r.who \in r.barred => revoked[r.who] # Never /\ r.bindings \subseteq {revoked[r.who]}

\* What a request was decided and has on record, by its stage.
Recorded(r) ==
  /\ r.decision = "granted" => r.who \notin r.barred
  /\ r.decision = "denied" => Denied(r)
  /\ r.stage \in {"verify", "resolve", "reject", "authn"} => r.decision = "none"
  /\ r.stage \in {"verify", "resolve", "reject", "authn"} /\ r.step # "respond" => r.trail = {}
  /\ r.stage = "authz" => r.decision # "none"
  /\ r.stage = "authz" /\ r.step # "respond" => r.trail = {"success"}
  /\ r.stage \in {"view", "summary"} => r.trail = {"success", "granted"}
  /\ r.stage = "summary" => r.tenant \in Provisioned

\* What an answer says is true and on record.
Truthful(r) ==
  /\ r.status = "401" => r.trail = {"failure"}
  /\ r.status = "403" =>
       /\ Denied(r) /\ r.who \in Tenants
       /\ r.trail = {"success", "denied"} \/ (OnLoop(r.route) /\ r.trail = {"success", "granted"})
  /\ r.status = "200" => "success" \in r.trail
  /\ r.status = "404" /\ r.stage = "view" => r.tenant \notin Provisioned
  /\ r.status = "200" /\ r.stage \in {"view", "summary"} /\ r.route # "ledger"
       => r.tenant \in Provisioned

Good(r) ==
  Principal(r) /\ Barring(r) /\ Recorded(r) /\ (r.step = "respond" => Truthful(r))

\* A thread that looks up a key does so for a request that is being verified.
Verifying ==
  \A t \in Threads :
    thread[t].pc # "idle" => request[t].step = "verify" /\ request[t].stage = "verify"

PlaneInv == PlaneTyped /\ RevokedPast /\ Tenancy /\ \A t \in Threads : Good(request[t])

-----------------------------------------------------------------------------
(* Time passes, bindings are revoked and identities disabled.              *)

LEMMA DeniedStays ==
  ASSUME NEW r \in Requests, r.who \in Tenants, now \in Times, now' \in Times, now <= now',
         revoked \in [Tenants -> Moments], revoked' \in [Tenants -> Moments],
         \A u \in Tenants : revoked'[u] = revoked[u] \/ (revoked[u] = Never /\ revoked'[u] = now'),
         Denied(r)
  PROVE  Denied(r)'
<1> DEFINE b == revoked[r.who]
<1> DEFINE c == revoked'[r.who]
<1>1. b \in Nat /\ c \in Nat /\ now \in Nat /\ now' \in Nat /\ Expires \in Nat
  BY KeyCacheAssumption, ControlPlaneAssumption DEF Moments, Times, Never
<1>2. now' < c => now < b
  BY <1>1, KeyCacheAssumption DEF Never, Times
<1>3. IsActive(c, now') => IsActive(b, now)
  BY <1>1, <1>2 DEF IsActive
<1>4. QED
  BY <1>3, Zenon DEF Denied, Decide

LEMMA GoodLater ==
  ASSUME NEW r \in Requests, now \in Times, now' \in Times, now <= now',
         revoked \in [Tenants -> Moments], revoked' \in [Tenants -> Moments],
         disabled \subseteq disabled',
         \A u \in Tenants : revoked'[u] = revoked[u] \/ (revoked[u] = Never /\ revoked'[u] = now'),
         Good(r)
  PROVE  Good(r)'
<1>0. now' # Never
  BY KeyCacheAssumption DEF Times, Never
<1>1. r.barred \subseteq Tenants /\ r.decision \in {"none", "granted", "denied"}
  BY Zenon DEF Requests
<1>2. Principal(r)'
  BY Zenon DEF Good, Principal
<1>3. Barring(r)'
  BY <1>0, <1>1, Zenon DEF Good, Barring
<1>4. r.decision # "none" => r.who \in Tenants
  BY Zenon DEF Good, Principal, Recorded, Requests, Stages
<1>5. r.who \in Tenants /\ Denied(r) => Denied(r)'
  BY DeniedStays, Zenon
<1>6. Recorded(r)'
  BY <1>4, <1>5, Zenon DEF Good, Recorded
<1>7. Truthful(r) => Truthful(r)'
  BY <1>5, Zenon DEF Truthful
<1>8. QED
  BY <1>2, <1>3, <1>6, <1>7, Zenon DEF Good

LEMMA AroundInv ==
  ASSUME PlaneInv, Around
  PROVE  PlaneInv'
<1> USE KeyCacheAssumption, ControlPlaneAssumption
<1>0. PlaneTyped /\ RevokedPast /\ Tenancy
  BY Zenon DEF PlaneInv
<1>1. /\ now' \in Times /\ now <= now' /\ changes' \in 0..MaxChanges
      /\ revoked' \in [Tenants -> Moments] /\ disabled' \subseteq Tenants
      /\ disabled \subseteq disabled'
      /\ \A u \in Tenants : revoked'[u] = revoked[u] \/ (revoked[u] = Never /\ revoked'[u] = now')
      /\ UNCHANGED <<loop, connection, request>>
  <2>1. CASE Tick /\ UNCHANGED planeVars
    BY <1>0, <2>1 DEF PlaneTyped, Tick, planeVars, Times
  <2>2. CASE \E k \in Keys : RotateKey(k)
    BY <1>0, <2>2 DEF PlaneTyped, RotateKey, Rotate, Times
  <2>3. ASSUME NEW u \in Tenants, Revoke(u)
        PROVE /\ revoked' \in [Tenants -> Moments] /\ revoked'[u] = now /\ revoked[u] = Never
              /\ \A v \in Tenants \ {u} : revoked'[v] = revoked[v]
              /\ UNCHANGED <<now, loop, connection, disabled, request>>
              /\ changes' \in 0..MaxChanges
    BY <1>0, <2>3 DEF PlaneTyped, Revoke, vars, Moments
  <2>4. CASE \E u \in Tenants : Revoke(u)
    BY <1>0, <2>3, <2>4 DEF PlaneTyped, Times
  <2>5. CASE \E u \in Tenants : Disable(u)
    BY <1>0, <2>5 DEF PlaneTyped, Disable, vars, Times
  <2>6. QED
    BY <2>1, <2>2, <2>4, <2>5, Zenon DEF Around
<1>2. PlaneTyped'
  BY <1>0, <1>1, Zenon DEF PlaneTyped
<1>3. RevokedPast'
  BY <1>0, <1>1 DEF RevokedPast, PlaneTyped, Moments, Times
<1>4. Tenancy'
  BY <1>0, <1>1, Zenon DEF Tenancy, On, Context
<1>5. \A t \in Threads : Good(request[t])'
  <2> TAKE t \in Threads
  <2> DEFINE r == request[t]
  <2>1. r \in Requests /\ Good(r) /\ request'[t] = r
    BY <1>0, <1>1, Zenon DEF PlaneInv, PlaneTyped
  <2> HIDE DEF r
  <2>2. Good(request'[t])
    BY <2>1, Zenon
  <2>3. QED
    BY <1>0, <1>1, <2>1, GoodLater, Zenon DEF PlaneTyped
<1>6. QED
  BY <1>2, <1>3, <1>4, <1>5, Zenon DEF PlaneInv

-----------------------------------------------------------------------------
(* A request takes a step.                                                 *)

\* Nothing but the loop, the connections and the request of t changes.
LEMMA BecomeInv ==
  ASSUME PlaneInv, NEW t \in Threads, NEW new \in Requests, Become(t, new), Good(new),
         now' = now, loop' \in Threads \cup {None},
         connection' \in [Connections -> [owner : Threads \cup {None}, tenant : Tenants \cup {None}]],
         Tenancy'
  PROVE  PlaneInv'
<1>1. /\ request' = [request EXCEPT ![t] = new] /\ UNCHANGED <<revoked, disabled, changes, now>>
      /\ PlaneTyped /\ RevokedPast
  BY Zenon DEF Become, PlaneInv
<1>2. PlaneTyped' /\ RevokedPast'
  BY <1>1, Zenon DEF PlaneTyped, RevokedPast
<1>3. \A r : Good(r) => Good(r)'
  BY <1>1 DEF Good, Principal, Barring, Recorded, Truthful, Denied
<1>4. \A u \in Threads : Good(request[u])'
  <2> TAKE u \in Threads
  <2>1. PICK r : r = request'[u]
    OBVIOUS
  <2>2. Good(r)
    BY <1>1, <2>1, Zenon DEF PlaneInv, PlaneTyped
  <2>3. QED
    BY <1>3, <2>1, <2>2, Zenon
<1>5. QED
  BY <1>2, <1>4, Zenon DEF PlaneInv

LEMMA OnIsConnection == \A t \in Threads : On(t) \in Connections
  BY Zenon DEF On, Connections

\* The others keep their connections.
LEMMA OthersTenancy ==
  ASSUME PlaneInv, NEW t \in Threads, NEW new, Become(t, new)
  PROVE  /\ request'[t] = new
         /\ \A u \in Threads \ {t} : request'[u] = request[u] /\ On(u)' = On(u) /\ Context(u)' = Context(u)
  BY Zenon DEF PlaneInv, PlaneTyped, Become, On, Context

LEMMA LeaveTenancy ==
  ASSUME PlaneInv, NEW t \in Threads, request[t].step = "execute",
         NEW new, Become(t, new), new.step # "execute", Leave(t)
  PROVE  /\ connection' \in [Connections -> [owner : Threads \cup {None}, tenant : Tenants \cup {None}]]
         /\ Tenancy'
<1>1. connection[On(t)].owner = t /\ connection' = [connection EXCEPT ![On(t)] = Free]
  BY Zenon DEF PlaneInv, Tenancy, Leave
<1>2. \A u \in Threads \ {t} : request[u].step = "execute" => On(u) # On(t)
  BY <1>1, Zenon DEF PlaneInv, Tenancy
<1>3. /\ connection' \in [Connections -> [owner : Threads \cup {None}, tenant : Tenants \cup {None}]]
      /\ \A c \in Connections : c # On(t) => connection'[c] = connection[c]
  BY <1>1, OnIsConnection, Zenon DEF PlaneInv, PlaneTyped, Free
<1>4. QED
  BY <1>2, <1>3, OthersTenancy, OnIsConnection DEF PlaneInv, Tenancy

LEMMA EnterTenancy ==
  ASSUME PlaneInv, NEW t \in Threads, NEW new, Become(t, new), NEW u \in Tenants \cup {None},
         Enter(t, u), On(t)' = On(t), Context(t)' = u
  PROVE  /\ connection' \in [Connections -> [owner : Threads \cup {None}, tenant : Tenants \cup {None}]]
         /\ Tenancy'
<1>1. /\ connection[On(t)].owner = None
      /\ connection' = [connection EXCEPT ![On(t)] = [owner |-> t, tenant |-> u]]
  BY Zenon DEF Enter, LockFree
<1>2. \A v \in Threads \ {t} : request[v].step = "execute" => On(v) # On(t)
  BY <1>1, KeyCacheAssumption, Zenon DEF PlaneInv, Tenancy
<1>3. /\ connection' \in [Connections -> [owner : Threads \cup {None}, tenant : Tenants \cup {None}]]
      /\ connection'[On(t)] = [owner |-> t, tenant |-> u]
      /\ \A c \in Connections : c # On(t) => connection'[c] = connection[c]
  BY <1>1, OnIsConnection, Zenon DEF PlaneInv, PlaneTyped
<1>4. QED
  BY <1>2, <1>3, OthersTenancy, OnIsConnection DEF PlaneInv, Tenancy

LEMMA StayTenancy ==
  ASSUME PlaneInv, NEW t \in Threads, NEW new, Become(t, new), new.step # "execute",
         connection' = connection
  PROVE  /\ connection' \in [Connections -> [owner : Threads \cup {None}, tenant : Tenants \cup {None}]]
         /\ Tenancy'
  BY OthersTenancy DEF PlaneInv, PlaneTyped, Tenancy

-----------------------------------------------------------------------------
(* The requests the handlers make.                                         *)

Statuses == {"none", "200", "401", "403", "404", "503", "error"}

\* r and s differ at most in where they are, what they know and what is on record.
Alike(r, s) ==
  s.barred = r.barred /\ s.who = r.who /\ s.route = r.route /\ s.tenant = r.tenant

LEMMA AnswerFields ==
  ASSUME NEW r \in Requests, NEW status \in Statuses
  PROVE  LET a == Answer(r, status) IN
         /\ a \in Requests /\ Alike(r, a) /\ a.step = "respond" /\ a.status = status
         /\ a.stage = r.stage /\ a.bindings = {} /\ a.decision = r.decision /\ a.trail = r.trail
<1>1. /\ "respond" \in Steps /\ {} \in SUBSET Moments
      /\ status \in {"none", "200", "401", "403", "404", "503", "error"}
  BY Zenon DEF Steps, Statuses
<1>2. Answer(r, status) \in Requests
  BY <1>1, Zenon DEF Answer, Requests
<1>3. /\ Answer(r, status).step = "respond" /\ Answer(r, status).status = status
      /\ Answer(r, status).bindings = {}
  BY DEF Answer, Requests
<1>4. /\ Answer(r, status).stage = r.stage /\ Answer(r, status).decision = r.decision
      /\ Answer(r, status).trail = r.trail /\ Alike(r, Answer(r, status))
  BY DEF Answer, Requests, Alike
<1>5. QED
  BY <1>2, <1>3, <1>4, Zenon

\* s knows and has on record what r has.
SameRecord(r, s) ==
  s.bindings = r.bindings /\ s.decision = r.decision /\ s.trail = r.trail /\ s.status = r.status

\* The request is now at a step of a stage.
At(r, stage, step) == [r EXCEPT !.stage = stage, !.step = step]

LEMMA AtFields ==
  ASSUME NEW r \in Requests, NEW stage \in Stages, NEW step \in Steps
  PROVE  /\ At(r, stage, step) \in Requests
         /\ Alike(r, At(r, stage, step)) /\ SameRecord(r, At(r, stage, step))
         /\ At(r, stage, step).stage = stage /\ At(r, stage, step).step = step
  BY Zenon DEF At, Requests, Alike, SameRecord

LEMMA AtSameStage ==
  ASSUME NEW r \in Requests, NEW step \in Steps
  PROVE  [r EXCEPT !.step = step] = At(r, r.stage, step)
  BY Zenon DEF At, Requests

LEMMA WithFields ==
  ASSUME NEW r \in Requests, NEW outcome \in {"failure", "success", "granted", "denied"}
  PROVE  LET w == With(r, outcome) IN
         /\ w \in Requests /\ Alike(r, w) /\ w.step = r.step /\ w.status = r.status
         /\ w.stage = r.stage /\ w.bindings = r.bindings /\ w.decision = r.decision
         /\ w.trail = r.trail \cup {outcome}
  BY Zenon DEF With, Requests, Alike

\* An answer is good if it is true and on record, and the request has no stage that
\* owes more.
LEMMA AnswerGood ==
  ASSUME NEW r \in Requests, NEW status \in Statuses, Principal(r), Barring(r),
         r.decision = "granted" => r.who \notin r.barred,
         r.decision = "denied" => Denied(r),
         r.stage \in {"verify", "resolve", "reject", "authn"} => r.decision = "none",
         r.stage = "authz" => r.decision # "none",
         r.stage \in {"view", "summary"} => r.trail = {"success", "granted"},
         r.stage = "summary" => r.tenant \in Provisioned,
         status = "401" => r.trail = {"failure"},
         status = "403" =>
           /\ Denied(r) /\ r.who \in Tenants
           /\ r.trail = {"success", "denied"} \/ (OnLoop(r.route) /\ r.trail = {"success", "granted"}),
         status = "200" => "success" \in r.trail,
         status = "404" /\ r.stage = "view" => r.tenant \notin Provisioned,
         status = "200" /\ r.stage \in {"view", "summary"} /\ r.route # "ledger"
           => r.tenant \in Provisioned
  PROVE  Answer(r, status) \in Requests /\ Answer(r, status).step = "respond" /\ Good(Answer(r, status))
<1> DEFINE a == Answer(r, status)
<1>1. /\ a \in Requests /\ Alike(r, a) /\ a.step = "respond" /\ a.status = status
      /\ a.stage = r.stage /\ a.bindings = {} /\ a.decision = r.decision /\ a.trail = r.trail
  BY AnswerFields, Zenon
<1> HIDE DEF a
<1>2. Denied(a) <=> Denied(r)
  BY <1>1, Zenon DEF Denied, Alike
<1>3. Principal(a) /\ Barring(a)
  BY <1>1, Zenon DEF Principal, Barring, Alike
<1>4. Recorded(a)
  BY <1>1, <1>2, Zenon DEF Recorded, Alike
<1>5. Truthful(a)
  BY <1>1, <1>2, Zenon DEF Truthful, Alike
<1>6. Good(a)
  BY <1>3, <1>4, <1>5, Zenon DEF Good
<1>7. QED
  BY <1>1, <1>6, Zenon DEF a

\* A request that was good may be answered: the facts of its own stage hold already.
LEMMA GoodAnswer ==
  ASSUME NEW r \in Requests, NEW status \in Statuses, Good(r), status # "401",
         status = "403" =>
           /\ Denied(r) /\ r.who \in Tenants
           /\ r.trail = {"success", "denied"} \/ (OnLoop(r.route) /\ r.trail = {"success", "granted"}),
         status = "200" => "success" \in r.trail,
         status = "404" /\ r.stage = "view" => r.tenant \notin Provisioned,
         status = "200" /\ r.stage \in {"view", "summary"} /\ r.route # "ledger"
           => r.tenant \in Provisioned
  PROVE  Answer(r, status) \in Requests /\ Answer(r, status).step = "respond" /\ Good(Answer(r, status))
  BY AnswerGood, Zenon DEF Good, Recorded

LEMMA NoRequestGood ==
  /\ NoRequest \in Requests /\ NoRequest.step = "idle" /\ Good(NoRequest)
  /\ LET r == [NoRequest EXCEPT !.stage = "reject", !.step = "resume"] IN
     r \in Requests /\ r.step = "resume" /\ Good(r)
<1>1. NoRequest \in Requests /\ NoRequest.step = "idle" /\ Good(NoRequest)
  BY Zenon DEF NoRequest, Requests, Steps, Stages, Good, Principal, Barring, Recorded
<1>2. LET r == [NoRequest EXCEPT !.stage = "reject", !.step = "resume"] IN
      r \in Requests /\ r.step = "resume" /\ Good(r)
  BY Zenon DEF NoRequest, Requests, Steps, Stages, Good, Principal, Barring, Recorded
<1>3. QED
  BY <1>1, <1>2, Zenon

LEMMA UnauthenticatedInv ==
  ASSUME PlaneInv, NEW t \in Threads, Unauthenticated(t), now' = now, UNCHANGED <<loop, connection>>
  PROVE  PlaneInv'
<1> DEFINE new == [NoRequest EXCEPT !.stage = "reject", !.step = "resume"]
<1>1. new \in Requests /\ new.step = "resume" /\ Good(new) /\ Become(t, new)
  BY NoRequestGood, Zenon DEF Unauthenticated
<1> HIDE DEF new
<1>2. Tenancy' /\ connection' \in [Connections -> [owner : Threads \cup {None}, tenant : Tenants \cup {None}]]
  BY <1>1, StayTenancy, Zenon
<1>3. QED
  BY <1>1, <1>2, BecomeInv, Zenon DEF PlaneInv, PlaneTyped

\* An answer at the end of a transaction.
LEMMA AnsweredInv ==
  ASSUME PlaneInv, NEW t \in Threads, request[t].step = "execute", NEW new \in Requests,
         Become(t, new), new.step # "execute", Good(new), Leave(t), UNCHANGED vars,
         loop' \in Threads \cup {None}
  PROVE  PlaneInv'
<1>1. Tenancy' /\ connection' \in [Connections -> [owner : Threads \cup {None}, tenant : Tenants \cup {None}]]
  BY LeaveTenancy, Zenon
<1>2. QED
  BY <1>1, BecomeInv, Zenon DEF vars

-----------------------------------------------------------------------------
(* Authentication.                                                         *)

LEMMA TokenInv ==
  ASSUME PlaneInv, Verifying, NEW t \in Threads,
         RefuseToken(t) \/ PresentToken(t) \/ LookForKey(t) \/ KeyUnavailable(t) \/ Verify(t)
  PROVE  PlaneInv'
<1> USE ControlPlaneAssumption, KeyCacheAssumption
<1>0. request[t] \in Requests /\ Good(request[t]) /\ PlaneTyped
  BY Zenon DEF PlaneInv, PlaneTyped
<1>1. CASE RefuseToken(t)
  BY <1>1, UnauthenticatedInv, Zenon DEF RefuseToken, vars
<1>2. CASE PresentToken(t)
  <2> DEFINE new == [Arrival EXCEPT !.step = "verify"]
  <2>1. /\ new \in Requests /\ new.step = "verify" /\ new.stage = "verify" /\ new.who = None
        /\ new.barred = disabled \cup {u \in Tenants : revoked[u] # Never} /\ new.bindings = {}
        /\ new.decision = "none" /\ new.trail = {}
    BY <1>0, Zenon DEF Arrival, NoRequest, Requests, PlaneTyped, Steps, Stages
  <2>2. Become(t, new) /\ UNCHANGED <<now, loop, connection>>
    BY <1>2, Zenon DEF PresentToken, GetKey, Goto
  <2> HIDE DEF new
  <2>3. None \notin new.barred
    BY <1>0, <2>1, Zenon DEF PlaneTyped
  <2>4. Good(new)
    BY <2>1, <2>3, Zenon DEF Good, Principal, Barring, Recorded
  <2>5. Tenancy' /\ connection' \in [Connections -> [owner : Threads \cup {None}, tenant : Tenants \cup {None}]]
    BY <2>1, <2>2, StayTenancy, Zenon
  <2>6. QED
    BY <1>0, <2>1, <2>2, <2>4, <2>5, BecomeInv, Zenon DEF PlaneTyped
<1>3. CASE LookForKey(t)
  <2>1. now' = now /\ UNCHANGED <<loop, connection, revoked, disabled, changes, request>>
    BY <1>3, Zenon DEF LookForKey, Acquire, Fetch, Store, Look, Goto, planeVars
  <2>2. PlaneTyped' /\ RevokedPast' /\ Tenancy'
    BY <2>1, Zenon DEF PlaneInv, PlaneTyped, RevokedPast, Tenancy, On, Context
  <2>3. \A r : Good(r) => Good(r)'
    BY <2>1 DEF Good, Principal, Barring, Recorded, Truthful, Denied
  <2>4. \A u \in Threads : Good(request[u])'
    <3> TAKE u \in Threads
    <3>1. PICK r : r = request'[u]
      OBVIOUS
    <3>2. QED
      BY <2>1, <2>3, <3>1, Zenon DEF PlaneInv
  <2>5. QED
    BY <2>2, <2>4, Zenon DEF PlaneInv
<1>4. CASE KeyUnavailable(t)
  BY <1>4, UnauthenticatedInv, Zenon DEF KeyUnavailable, RefreshFails, Return, Goto
<1>5. CASE Verify(t)
  <2>1. UNCHANGED <<now, loop, connection>>
    BY <1>5, Zenon DEF Verify, Return, Goto
  <2>2. CASE Unauthenticated(t)
    BY <2>1, <2>2, UnauthenticatedInv, Zenon
  <2>3. CASE Become(t, [request[t] EXCEPT !.stage = "resolve", !.step = "wait"])
    <3> DEFINE new == At(request[t], "resolve", "wait")
    <3>1. request[t].step = "verify" /\ request[t].stage = "verify"
      BY <1>5, Zenon DEF Verify, Verifying
    <3>2. /\ new \in Requests /\ Alike(request[t], new) /\ SameRecord(request[t], new)
          /\ new.step = "wait" /\ new.stage = "resolve"
      BY <1>0, AtFields DEF Steps, Stages
    <3> HIDE DEF new
    <3>3. Good(new)
      BY <1>0, <3>1, <3>2, Zenon DEF Good, Principal, Barring, Recorded, Alike, SameRecord
    <3>4. Become(t, new)
      BY <2>3, Zenon DEF new, At
    <3>5. Tenancy' /\ connection' \in [Connections -> [owner : Threads \cup {None}, tenant : Tenants \cup {None}]]
      BY <2>1, <3>2, <3>4, StayTenancy, Zenon
    <3>6. QED
      BY <1>0, <2>1, <3>2, <3>3, <3>4, <3>5, BecomeInv, Zenon DEF PlaneTyped
  <2>4. QED
    BY <1>5, <2>2, <2>3, Zenon DEF Verify
<1>6. QED
  BY <1>1, <1>2, <1>3, <1>4, <1>5, Zenon

-----------------------------------------------------------------------------
(* Which requests look up keys.                                            *)

\* A request that is not being verified takes a step: its thread is idle.
LEMMA ElsewhereVerifying ==
  ASSUME PlaneTyped, Verifying, NEW t \in Threads, NEW new, Become(t, new), thread' = thread,
         request[t].step # "verify"
  PROVE  Verifying'
<1>1. thread[t].pc = "idle"
  BY Zenon DEF Verifying
<1>2. \A u \in Threads \ {t} : request'[u] = request[u]
  BY Zenon DEF Become, PlaneTyped
<1>3. QED
  BY <1>1, <1>2, Zenon DEF Verifying

LEMMA VerifyingNext ==
  ASSUME CacheInv, PlaneTyped, Verifying, [PlaneNext]_allVars
  PROVE  Verifying'
<1>0. thread \in [Threads -> Places] /\ request \in [Threads -> Requests]
  BY Zenon DEF CacheInv, Base, PlaneTyped
<1>1. CASE UNCHANGED allVars \/ Around
  BY <1>1, Zenon DEF allVars, vars, planeVars, Around, Tick, RotateKey, Rotate, Revoke, Disable, Verifying
<1>2. ASSUME NEW t \in Threads, RefuseToken(t) PROVE Verifying'
  BY <1>2, ElsewhereVerifying, Zenon DEF RefuseToken, Unauthenticated, vars
<1>3. ASSUME NEW t \in Threads, PresentToken(t) PROVE Verifying'
  <2>1. request' = [request EXCEPT ![t] = [Arrival EXCEPT !.step = "verify"]]
    BY <1>3, Zenon DEF PresentToken, Become
  <2>2. \A u \in Threads \ {t} : request'[u] = request[u] /\ thread'[u] = thread[u]
    BY <1>0, <1>3, <2>1, Zenon DEF PresentToken, GetKey, Goto
  <2>3. request'[t].step = "verify" /\ request'[t].stage = "verify"
    BY <1>0, <2>1, Zenon DEF Arrival, NoRequest
  <2>4. QED
    BY <2>2, <2>3, Zenon DEF Verifying
<1>4. ASSUME NEW t \in Threads, LookForKey(t) PROVE Verifying'
  <2>1. thread[t].pc # "idle" /\ request' = request
    BY <1>4, Zenon DEF LookForKey, planeVars, Acquire, Fetch, Store, Look
  <2>2. \A u \in Threads \ {t} : thread'[u] = thread[u]
    BY <1>0, <1>4, Zenon DEF LookForKey, Acquire, Fetch, Store, Look, Goto
  <2>3. QED
    BY <2>1, <2>2, Zenon DEF Verifying
<1>5. ASSUME NEW t \in Threads, KeyUnavailable(t) \/ Verify(t) PROVE Verifying'
  <2>1. thread' = [thread EXCEPT ![t] = IdleThread]
    BY <1>5, Zenon DEF KeyUnavailable, Verify, RefreshFails, Return, Goto
  <2>2. thread'[t].pc = "idle" /\ \A u \in Threads \ {t} : thread'[u] = thread[u]
    BY <1>0, <2>1, Zenon DEF IdleThread
  <2>3. \A u \in Threads \ {t} : request'[u] = request[u]
    BY <1>0, <1>5, Zenon DEF KeyUnavailable, Verify, Unauthenticated, Become
  <2>4. QED
    BY <2>2, <2>3, Zenon DEF Verifying
<1>6. ASSUME NEW t \in Threads, Begin(t) \/ Lookup(t) \/ ReadBindings(t) \/ Resume(t) PROVE Verifying'
  <2>1. thread' = thread /\ request[t].step # "verify" /\ \E new : Become(t, new)
    BY <1>6, Zenon DEF Begin, Lookup, ReadBindings, Resume, Unauthenticated, vars
  <2>2. QED
    BY <2>1, ElsewhereVerifying, Zenon
<1>7. ASSUME NEW t \in Threads, Rejected(t) \/ Authenticated(t) \/ Authorized(t) PROVE Verifying'
  <2>1. thread' = thread /\ request[t].step # "verify" /\ \E new : Become(t, new)
    BY <1>7, Zenon DEF Rejected, Authenticated, Authorized, Dispatch, AppendAudit, vars
  <2>2. QED
    BY <2>1, ElsewhereVerifying, Zenon
<1>8. ASSUME NEW t \in Threads, GetRecord(t) \/ GetModelView(t) \/ GetEvents(t) \/ Fail(t) \/ Respond(t)
      PROVE  Verifying'
  <2>1. thread' = thread /\ request[t].step # "verify" /\ \E new : Become(t, new)
    BY <1>8, Zenon DEF GetRecord, GetModelView, GetEvents, Fail, Respond, vars
  <2>2. QED
    BY <2>1, ElsewhereVerifying, Zenon
<1>9. QED
  BY <1>1, <1>2, <1>3, <1>4, <1>5, <1>6, <1>7, <1>8, Zenon DEF PlaneNext, Handle

-----------------------------------------------------------------------------
(* Transactions and the event loop.                                        *)

LEMMA GoodAt ==
  ASSUME NEW r \in Requests, Good(r), NEW step \in {"wait", "execute", "resume"},
         r.step \notin {"respond", "idle"},
         r.stage # "resolve" \/ step # "execute"
  PROVE  /\ At(r, r.stage, step) \in Requests /\ Alike(r, At(r, r.stage, step))
         /\ At(r, r.stage, step).stage = r.stage /\ At(r, r.stage, step).step = step
         /\ Good(At(r, r.stage, step))
<1> DEFINE a == At(r, r.stage, step)
<1>1. r.stage \in Stages /\ step \in Steps
  BY Zenon DEF Requests, Steps
<1>2. a \in Requests /\ Alike(r, a) /\ SameRecord(r, a) /\ a.stage = r.stage /\ a.step = step
  BY <1>1, AtFields
<1> HIDE DEF a
<1>3. Denied(a) <=> Denied(r)
  BY <1>2, Zenon DEF Denied, Alike
<1>4. Principal(a) /\ Barring(a) /\ Recorded(a)
  BY <1>2, <1>3, Zenon DEF Good, Principal, Barring, Recorded, Alike, SameRecord
<1>5. Good(a)
  BY <1>2, <1>4, Zenon DEF Good
<1>6. QED
  BY <1>2, <1>5, Zenon DEF a

LEMMA BeginInv ==
  ASSUME PlaneInv, NEW t \in Threads, Begin(t)
  PROVE  PlaneInv'
<1> DEFINE r == request[t]
<1> DEFINE new == At(r, r.stage, "execute")
<1>1. r \in Requests /\ Good(r) /\ r.step = "wait" /\ r.stage # "resolve" /\ r.stage \in Stages
  BY Zenon DEF PlaneInv, PlaneTyped, Begin, Requests
<1>2. /\ new \in Requests /\ Alike(r, new) /\ new.stage = r.stage /\ new.step = "execute" /\ Good(new)
  BY <1>1, GoodAt, Zenon
<1>3. Become(t, new) /\ Enter(t, Context(t)) /\ UNCHANGED <<vars, loop>>
  BY <1>1, AtSameStage, Zenon DEF Begin, Steps
<1> HIDE DEF new
<1>4. request'[t] = new
  BY <1>3, OthersTenancy, Zenon
<1>5. On(t)' = On(t) /\ Context(t)' = Context(t)
  BY <1>2, <1>4, Zenon DEF On, Context, Alike
<1>6. Context(t) \in Tenants \cup {None}
  BY <1>1, ControlPlaneAssumption, Zenon DEF Context, Requests
<1>7. Tenancy' /\ connection' \in [Connections -> [owner : Threads \cup {None}, tenant : Tenants \cup {None}]]
  BY <1>3, <1>5, <1>6, EnterTenancy, Zenon
<1>8. QED
  BY <1>2, <1>3, <1>7, BecomeInv, Zenon DEF PlaneInv, PlaneTyped, vars

LEMMA LookupInv ==
  ASSUME PlaneInv, NEW t \in Threads, Lookup(t)
  PROVE  PlaneInv'
<1> USE ControlPlaneAssumption
<1> DEFINE r == request[t]
<1>1. /\ r \in Requests /\ Good(r) /\ r.step = "wait" /\ r.stage = "resolve"
      /\ UNCHANGED <<vars, loop>> /\ r.barred \subseteq Tenants
  BY Zenon DEF PlaneInv, PlaneTyped, Lookup, Requests
<1>2. CASE Unauthenticated(t) /\ UNCHANGED connection
  BY <1>1, <1>2, UnauthenticatedInv, Zenon DEF vars
<1>3. ASSUME NEW c \in Claims, Recognised(c), Enter(t, c.subject),
             Become(t, [r EXCEPT !.step = "execute", !.who = c.subject])
      PROVE  PlaneInv'
  <2> DEFINE new == [r EXCEPT !.step = "execute", !.who = c.subject]
  <2>1. c.subject \in Tenants /\ c.subject \notin disabled
    BY <1>3, Zenon DEF Recognised
  <2>2. /\ new \in Requests /\ new.step = "execute" /\ new.stage = "resolve" /\ new.who = c.subject
        /\ new.barred = r.barred /\ new.bindings = r.bindings /\ new.decision = r.decision
        /\ new.trail = r.trail
    BY <1>1, <2>1, Zenon DEF Requests, Steps
  <2> HIDE DEF new
  <2>3. Good(new)
    BY <1>1, <2>1, <2>2, Zenon DEF Good, Principal, Barring, Recorded
  <2>4. Become(t, new) /\ request'[t] = new
    BY <1>3, OthersTenancy, Zenon DEF new
  <2>5. On(t)' = On(t) /\ Context(t)' = c.subject
    BY <1>1, <2>2, <2>4, Zenon DEF On, Context
  <2>6. Tenancy' /\ connection' \in [Connections -> [owner : Threads \cup {None}, tenant : Tenants \cup {None}]]
    BY <1>3, <2>1, <2>4, <2>5, EnterTenancy, Zenon
  <2>7. QED
    BY <1>1, <2>2, <2>3, <2>4, <2>6, BecomeInv, Zenon DEF PlaneInv, PlaneTyped, vars
<1>4. QED
  BY <1>2, <1>3, Zenon DEF Lookup

\* In its transaction a request sees the rows of its tenant.
LEMMA TenantVisible ==
  ASSUME PlaneInv, NEW t \in Threads, request[t].step = "execute"
  PROVE  Visible(t, Context(t))
  BY Zenon DEF PlaneInv, Tenancy, Visible

LEMMA ReadBindingsInv ==
  ASSUME PlaneInv, NEW t \in Threads, ReadBindings(t)
  PROVE  PlaneInv'
<1> DEFINE r == request[t]
<1> DEFINE new == [r EXCEPT !.stage = "authn", !.step = "resume", !.bindings = {revoked[r.who]}]
<1>1. /\ r \in Requests /\ Good(r) /\ r.step = "execute" /\ r.stage = "resolve"
      /\ UNCHANGED <<vars, loop>> /\ Leave(t)
  BY Zenon DEF PlaneInv, PlaneTyped, ReadBindings
<1>2. Visible(t, r.who)
  BY <1>1, TenantVisible, Zenon DEF Context
<1>3. Become(t, new)
  BY <1>2, Zenon DEF ReadBindings
<1>4. r.who \in Tenants /\ revoked[r.who] \in Moments
  BY <1>1, Zenon DEF Good, Principal, PlaneInv, PlaneTyped
<1>5. /\ new \in Requests /\ new.stage = "authn" /\ new.step = "resume" /\ Alike(r, new)
      /\ new.bindings = {revoked[r.who]} /\ new.decision = r.decision /\ new.trail = r.trail
  BY <1>1, <1>4, Zenon DEF Requests, Steps, Stages, Alike
<1> HIDE DEF new
<1>6. Good(new)
  BY <1>1, <1>4, <1>5, Zenon DEF Good, Principal, Barring, Recorded, Alike
<1>7. QED
  BY <1>1, <1>3, <1>5, <1>6, AnsweredInv, Zenon DEF PlaneInv, PlaneTyped

LEMMA LoopInv ==
  ASSUME PlaneInv, NEW t \in Threads, Resume(t) \/ Respond(t)
  PROVE  PlaneInv'
<1> DEFINE r == request[t]
<1>0. r \in Requests /\ Good(r) /\ r.stage \in Stages
  BY Zenon DEF PlaneInv, PlaneTyped, Requests
<1>1. CASE Resume(t)
  <2> DEFINE new == At(r, r.stage, "wait")
  <2>1. new \in Requests /\ new.step = "wait" /\ Good(new)
    BY <1>0, <1>1, GoodAt, Zenon DEF Resume
  <2>2. Become(t, new) /\ loop' = t /\ UNCHANGED <<vars, connection>>
    BY <1>0, <1>1, AtSameStage, Zenon DEF Resume, Steps
  <2> HIDE DEF new
  <2>3. Tenancy' /\ connection' \in [Connections -> [owner : Threads \cup {None}, tenant : Tenants \cup {None}]]
    BY <2>1, <2>2, StayTenancy, Zenon
  <2>4. QED
    BY <2>1, <2>2, <2>3, BecomeInv, Zenon DEF vars
<1>2. CASE Respond(t)
  <2>1. Become(t, NoRequest) /\ loop' = None /\ UNCHANGED <<vars, connection>>
    BY <1>2, Zenon DEF Respond
  <2>2. NoRequest \in Requests /\ NoRequest.step = "idle" /\ Good(NoRequest)
    BY NoRequestGood, Zenon
  <2>3. Tenancy' /\ connection' \in [Connections -> [owner : Threads \cup {None}, tenant : Tenants \cup {None}]]
    BY <2>1, <2>2, StayTenancy, Zenon
  <2>4. QED
    BY <2>1, <2>2, <2>3, BecomeInv, Zenon DEF vars
<1>3. QED
  BY <1>1, <1>2, Zenon

-----------------------------------------------------------------------------
(* Decisions and their records.                                            *)

\* A denial with the bindings a request has read is one with the binding as it is.
LEMMA StaleDenies ==
  ASSUME PlaneInv, NEW r \in Requests, r.who \in Tenants,
         r.bindings = {revoked[r.who]} \/ r.bindings = {Never},
         ~Decide(r.who, r.bindings, r.route, r.tenant, now)
  PROVE  Denied(r)
<1>1. now \in Nat /\ now < Never /\ Expires \in Nat
  BY KeyCacheAssumption, ControlPlaneAssumption DEF PlaneInv, PlaneTyped, Times, Never
<1>2. IsActive(revoked[r.who], now) => IsActive(Never, now)
  BY <1>1, Zenon DEF IsActive
<1>3. QED
  BY <1>2, Zenon DEF Denied, Decide

\* An identity that was barred when the request arrived is granted nothing.
LEMMA BarredDenies ==
  ASSUME PlaneInv, NEW r \in Requests, Barring(r), r.who \in r.barred, NEW route, NEW tenant
  PROVE  ~Decide(r.who, r.bindings, route, tenant, now)
<1>1. r.who \in Tenants /\ revoked[r.who] # Never /\ r.bindings \subseteq {revoked[r.who]}
  BY Zenon DEF Requests, Barring
<1>2. revoked[r.who] \in Nat /\ revoked[r.who] <= now /\ now \in Nat
  BY <1>1, KeyCacheAssumption DEF PlaneInv, PlaneTyped, RevokedPast, Moments, Times, Never
<1>3. ~IsActive(revoked[r.who], now)
  BY <1>2 DEF IsActive
<1>4. QED
  BY <1>1, <1>3, Zenon DEF Decide

\* The request asks for a route of a tenant.
Asks(r, route, tenant) == [r EXCEPT !.route = route, !.tenant = tenant]

LEMMA DecidedFields ==
  ASSUME NEW r \in Requests, NEW route \in Views, NEW tenant \in Tenants, NEW allowed \in BOOLEAN
  PROVE  LET d == Decided(Asks(r, route, tenant), allowed) IN
         /\ d \in Requests /\ d.stage = "authz" /\ d.step = "wait"
         /\ d.barred = r.barred /\ d.who = r.who /\ d.bindings = r.bindings /\ d.trail = r.trail
         /\ d.route = route /\ d.tenant = tenant
         /\ d.decision = IF allowed THEN "granted" ELSE "denied"
<1> DEFINE a == Asks(r, route, tenant)
<1>1. /\ a \in Requests /\ a.barred = r.barred /\ a.who = r.who /\ a.bindings = r.bindings
      /\ a.trail = r.trail /\ a.route = route /\ a.tenant = tenant
  BY Zenon DEF Asks, Requests
<1> HIDE DEF a
<1>2. LET d == Decided(a, allowed) IN
      /\ d \in Requests /\ d.stage = "authz" /\ d.step = "wait"
      /\ d.barred = a.barred /\ d.who = a.who /\ d.bindings = a.bindings /\ d.trail = a.trail
      /\ d.route = a.route /\ d.tenant = a.tenant
      /\ d.decision = IF allowed THEN "granted" ELSE "denied"
  <2> DEFINE outcome == IF allowed THEN "granted" ELSE "denied"
  <2> DEFINE x == At(a, "authz", "wait")
  <2>1. outcome \in {"none", "granted", "denied"}
    OBVIOUS
  <2> HIDE DEF outcome
  <2>2. Decided(a, allowed) = [x EXCEPT !.decision = outcome]
    BY Zenon DEF Decided, At, outcome
  <2>3. x \in Requests /\ Alike(a, x) /\ SameRecord(a, x) /\ x.stage = "authz" /\ x.step = "wait"
    BY <1>1, AtFields DEF Stages, Steps
  <2> HIDE DEF x
  <2>4. LET d == [x EXCEPT !.decision = outcome] IN
        /\ d \in Requests /\ d.stage = x.stage /\ d.step = x.step
        /\ Alike(x, d) /\ d.bindings = x.bindings /\ d.trail = x.trail
        /\ d.decision = outcome
    BY <2>1, <2>3 DEF Requests, Alike
  <2>5. LET d == Decided(a, allowed) IN
        /\ d \in Requests /\ d.stage = "authz" /\ d.step = "wait"
        /\ d.barred = a.barred /\ d.who = a.who /\ d.bindings = a.bindings /\ d.trail = a.trail
        /\ d.route = a.route /\ d.tenant = a.tenant
        /\ d.decision = outcome
    BY <2>2, <2>3, <2>4, Zenon DEF Alike, SameRecord
  <2>6. QED
    BY <2>5, Zenon DEF outcome
<1>3. QED
  BY <1>1, <1>2, Zenon DEF a

LEMMA DecidedGood ==
  ASSUME PlaneInv, NEW w \in Requests, Barring(w), w.who \in Tenants, w.trail = {"success"},
         w.bindings = {revoked[w.who]} \/ w.bindings = {Never},
         NEW route \in Views, NEW tenant \in Tenants
  PROVE  LET d == Decided(Asks(w, route, tenant), Decide(w.who, w.bindings, route, tenant, now)) IN
         d \in Requests /\ d.step = "wait" /\ Good(d)
<1> DEFINE allowed == Decide(w.who, w.bindings, route, tenant, now)
<1> DEFINE d == Decided(Asks(w, route, tenant), allowed)
<1>1. allowed \in BOOLEAN
  BY Zenon DEF Decide
<1> HIDE DEF allowed
<1>2. /\ d \in Requests /\ d.stage = "authz" /\ d.step = "wait"
      /\ d.barred = w.barred /\ d.who = w.who /\ d.bindings = w.bindings /\ d.trail = w.trail
      /\ d.route = route /\ d.tenant = tenant
      /\ d.decision = IF allowed THEN "granted" ELSE "denied"
  BY <1>1, DecidedFields
<1> HIDE DEF d
<1>3. d.decision = "granted" => d.who \notin d.barred
  BY <1>2, BarredDenies, Zenon DEF allowed
<1>4. d.decision = "denied" => Denied(d)
  BY <1>2, StaleDenies, Zenon DEF allowed
<1>5. Principal(d) /\ Barring(d)
  BY <1>2, Zenon DEF Principal, Barring
<1>6. d.decision # "none"
  BY <1>2, Zenon
<1>7. Good(d)
  BY <1>2, <1>3, <1>4, <1>5, <1>6, Zenon DEF Good, Recorded
<1>8. QED
  BY <1>2, <1>7, Zenon DEF d, allowed

LEMMA RejectedInv ==
  ASSUME PlaneInv, NEW t \in Threads, Rejected(t)
  PROVE  PlaneInv'
<1> DEFINE r == request[t]
<1> DEFINE w == With(r, "failure")
<1>1. /\ r \in Requests /\ Good(r) /\ r.step = "execute" /\ r.stage = "reject"
      /\ Become(t, Answer(w, "401")) /\ Leave(t) /\ UNCHANGED <<vars, loop>>
  BY Zenon DEF PlaneInv, PlaneTyped, Rejected, AppendAudit
<1>2. /\ w \in Requests /\ Alike(r, w) /\ w.stage = "reject" /\ w.step = "execute"
      /\ w.bindings = r.bindings /\ w.decision = r.decision /\ w.trail = {"failure"}
  BY <1>1, WithFields, Zenon DEF Good, Recorded
<1> HIDE DEF w
<1>3. Principal(w) /\ Barring(w) /\ w.decision = "none"
  BY <1>1, <1>2, Zenon DEF Good, Principal, Barring, Recorded, Alike
<1>4. Answer(w, "401") \in Requests /\ Answer(w, "401").step = "respond" /\ Good(Answer(w, "401"))
  BY <1>2, <1>3, AnswerGood, Zenon DEF Statuses
<1>5. QED
  BY <1>1, <1>4, AnsweredInv, Zenon DEF PlaneInv, PlaneTyped

LEMMA AuthenticatedInv ==
  ASSUME PlaneInv, NEW t \in Threads, Authenticated(t)
  PROVE  PlaneInv'
<1> DEFINE r == request[t]
<1> DEFINE w == With(r, "success")
<1>1. /\ r \in Requests /\ Good(r) /\ r.step = "execute" /\ r.stage = "authn"
      /\ Dispatch(t, w) /\ Leave(t) /\ UNCHANGED <<vars, loop>>
  BY Zenon DEF PlaneInv, PlaneTyped, Authenticated, AppendAudit
<1>2. /\ w \in Requests /\ Alike(r, w) /\ w.stage = "authn" /\ w.step = "execute"
      /\ w.bindings = r.bindings /\ w.decision = r.decision /\ w.trail = {"success"}
  BY <1>1, WithFields, Zenon DEF Good, Recorded
<1> HIDE DEF w
<1>3. /\ Principal(w) /\ Barring(w) /\ w.decision = "none" /\ w.who \in Tenants
      /\ w.bindings = {revoked[w.who]} \/ w.bindings = {Never}
  BY <1>1, <1>2, Zenon DEF Good, Principal, Barring, Recorded, Alike
<1>4. ASSUME NEW status \in {"200", "404"}, Become(t, Answer(w, status)) PROVE PlaneInv'
  <2>1. /\ Answer(w, status) \in Requests /\ Answer(w, status).step = "respond"
        /\ Good(Answer(w, status))
    BY <1>2, <1>3, AnswerGood DEF Statuses
  <2>2. QED
    BY <1>1, <1>4, <2>1, AnsweredInv, Zenon DEF PlaneInv, PlaneTyped
<1>5. ASSUME NEW route \in Views, NEW tenant \in Tenants,
             Become(t, Decided([w EXCEPT !.route = route, !.tenant = tenant],
                               Decide(w.who, w.bindings, route, tenant, now)))
      PROVE  PlaneInv'
  <2> DEFINE d == Decided(Asks(w, route, tenant), Decide(w.who, w.bindings, route, tenant, now))
  <2>1. d \in Requests /\ d.step = "wait" /\ Good(d)
    BY <1>2, <1>3, DecidedGood, Zenon
  <2>2. Become(t, d)
    BY <1>5, Zenon DEF Asks
  <2> HIDE DEF d
  <2>3. QED
    BY <1>1, <2>1, <2>2, AnsweredInv, Zenon DEF PlaneInv, PlaneTyped
<1>6. QED
  BY <1>1, <1>4, <1>5, Zenon DEF Dispatch

LEMMA AuthorizedInv ==
  ASSUME PlaneInv, NEW t \in Threads, Authorized(t)
  PROVE  PlaneInv'
<1> DEFINE r == request[t]
<1> DEFINE w == With(r, r.decision)
<1>1. /\ r \in Requests /\ Good(r) /\ r.step = "execute" /\ Leave(t) /\ UNCHANGED vars
  BY Zenon DEF PlaneInv, PlaneTyped, Authorized, AppendAudit
<1>2. w.stage = "authz" /\ w.decision \in {"granted", "denied"}
  BY Zenon DEF Authorized
<1>3. r.stage = "authz" /\ r.decision \in {"granted", "denied"}
  BY <1>1, <1>2, Zenon DEF With, Requests
<1>4. /\ w \in Requests /\ Alike(r, w) /\ w.stage = "authz" /\ w.step = "execute"
      /\ w.bindings = r.bindings /\ w.decision = r.decision
      /\ w.trail = r.trail \cup {r.decision}
  BY <1>1, <1>3, WithFields
<1>5. w.trail = {"success", w.decision}
  BY <1>1, <1>3, <1>4, Zenon DEF Good, Recorded
<1>6. /\ w.decision = "denied" => Become(t, Answer(w, "403")) /\ UNCHANGED loop
      /\ w.decision = "granted" =>
           Become(t, At(w, "view", "wait")) /\ loop' \in Threads \cup {None}
  BY Zenon DEF Authorized, At
<1> HIDE DEF w
<1>7. /\ Principal(w) /\ Barring(w) /\ w.who \in Tenants
      /\ w.bindings = {revoked[w.who]} \/ w.bindings = {Never}
      /\ w.decision = "granted" => w.who \notin w.barred
      /\ w.decision = "denied" => Denied(w)
  BY <1>1, <1>3, <1>4, Zenon DEF Good, Principal, Barring, Recorded, Alike, Denied
<1>8. CASE w.decision = "denied"
  <2>1. Answer(w, "403") \in Requests /\ Answer(w, "403").step = "respond" /\ Good(Answer(w, "403"))
    BY <1>4, <1>5, <1>7, <1>8, AnswerGood, Zenon DEF Statuses
  <2>2. QED
    BY <1>1, <1>6, <1>8, <2>1, AnsweredInv, Zenon DEF PlaneInv, PlaneTyped
<1>9. CASE w.decision = "granted"
  <2> DEFINE a == At(w, "view", "wait")
  <2>1. a \in Requests /\ Alike(w, a) /\ SameRecord(w, a) /\ a.stage = "view" /\ a.step = "wait"
    BY <1>4, AtFields DEF Stages, Steps
  <2>2. Become(t, a) /\ loop' \in Threads \cup {None}
    BY <1>6, <1>9, Zenon
  <2> HIDE DEF a
  <2>3. Good(a)
    BY <1>5, <1>7, <1>9, <2>1, Zenon DEF Good, Principal, Barring, Recorded, Alike, SameRecord
  <2>4. QED
    BY <1>1, <2>1, <2>2, <2>3, AnsweredInv, Zenon
<1>10. QED
  BY <1>2, <1>8, <1>9, Zenon DEF w

-----------------------------------------------------------------------------
(* The views.                                                              *)

LEMMA ViewsInv ==
  ASSUME PlaneInv, NEW t \in Threads, GetRecord(t) \/ GetModelView(t) \/ GetEvents(t) \/ Fail(t)
  PROVE  PlaneInv'
<1> DEFINE r == request[t]
<1>1. r \in Requests /\ Good(r) /\ PlaneTyped
  BY Zenon DEF PlaneInv, PlaneTyped
<1>2. /\ r.step = "execute" /\ Leave(t) /\ UNCHANGED vars
  BY Zenon DEF GetRecord, GetModelView, GetEvents, Fail
<1>3. r.stage = "view" => (Row(t) <=> r.tenant \in Provisioned)
  BY <1>2, TenantVisible, Zenon DEF Row, Context
<1>4. ASSUME NEW status \in Statuses, Become(t, Answer(r, status)), UNCHANGED loop, status # "401",
             status = "403" =>
               /\ Denied(r) /\ r.who \in Tenants
               /\ OnLoop(r.route) /\ r.trail = {"success", "granted"},
             status = "200" => "success" \in r.trail,
             status = "404" /\ r.stage = "view" => r.tenant \notin Provisioned,
             status = "200" /\ r.stage \in {"view", "summary"} /\ r.route # "ledger"
               => r.tenant \in Provisioned
      PROVE  PlaneInv'
  <2>1. Answer(r, status) \in Requests /\ Answer(r, status).step = "respond" /\ Good(Answer(r, status))
    BY <1>1, <1>4, GoodAnswer, Zenon
  <2>2. QED
    BY <1>1, <1>2, <1>4, <2>1, AnsweredInv, Zenon DEF PlaneTyped
<1>5. r.stage \in {"view", "summary"} => r.trail = {"success", "granted"}
  BY <1>1, Zenon DEF Good, Recorded
<1>6. CASE GetRecord(t)
  <2>1. r.stage = "view" /\ UNCHANGED loop
    BY <1>6, Zenon DEF GetRecord
  <2>2. CASE Row(t)
    <3>1. Become(t, Answer(r, "200")) /\ r.tenant \in Provisioned
      BY <1>3, <1>6, <2>1, <2>2, Zenon DEF GetRecord
    <3>2. QED
      BY <1>4, <1>5, <2>1, <3>1, Zenon DEF Statuses
  <2>3. CASE ~Row(t)
    <3>1. Become(t, Answer(r, "404")) /\ r.tenant \notin Provisioned
      BY <1>3, <1>6, <2>1, <2>3, Zenon DEF GetRecord
    <3>2. QED
      BY <1>4, <2>1, <3>1, Zenon DEF Statuses
  <2>4. QED
    BY <2>2, <2>3, Zenon
<1>7. CASE GetModelView(t)
  <2>1. r.stage = "view" /\ OnLoop(r.route)
    BY <1>7, Zenon DEF GetModelView
  <2>2. r.who \in Tenants /\ (r.bindings = {revoked[r.who]} \/ r.bindings = {Never})
    BY <1>1, <1>2, <2>1, Zenon DEF Good, Principal
  <2>3. CASE ~Row(t) /\ Become(t, Answer(r, "404")) /\ UNCHANGED loop
    BY <1>3, <1>4, <2>1, <2>3, Zenon DEF Statuses
  <2>4. CASE ~StillAllowed(r) /\ Become(t, Answer(r, "403")) /\ UNCHANGED loop
    <3>1. Denied(r)
      BY <1>1, <2>2, <2>4, StaleDenies, Zenon DEF StillAllowed
    <3>2. QED
      BY <1>4, <1>5, <2>1, <2>2, <2>4, <3>1, Zenon DEF Statuses
  <2>5. CASE Row(t) /\ Become(t, Answer(r, "200")) /\ UNCHANGED loop
    BY <1>3, <1>4, <1>5, <2>1, <2>5, Zenon DEF Statuses
  <2>6. CASE Row(t) /\ Become(t, At(r, "summary", "wait")) /\ loop' = None
    <3> DEFINE a == At(r, "summary", "wait")
    <3>1. a \in Requests /\ Alike(r, a) /\ SameRecord(r, a) /\ a.stage = "summary" /\ a.step = "wait"
      BY <1>1, AtFields DEF Stages, Steps
    <3>2. Become(t, a)
      BY <2>6, Zenon
    <3> HIDE DEF a
    <3>3. Denied(a) <=> Denied(r)
      BY <3>1, Zenon DEF Denied, Alike
    <3>4. Good(a)
      BY <1>1, <1>2, <1>3, <2>1, <2>6, <3>1, <3>3, Zenon
         DEF Good, Principal, Barring, Recorded, Alike, SameRecord
    <3>5. QED
      BY <1>2, <2>6, <3>1, <3>2, <3>4, AnsweredInv, Zenon
  <2>7. QED
    BY <1>7, <2>3, <2>4, <2>5, <2>6, Zenon DEF GetModelView, At
<1>8. CASE GetEvents(t)
  <2>1. /\ r.stage = "summary" \/ (r.stage = "view" /\ r.route = "ledger")
        /\ Become(t, Answer(r, "200")) /\ UNCHANGED loop
    BY <1>8, Zenon DEF GetEvents
  <2>2. r.stage = "summary" => r.tenant \in Provisioned
    BY <1>1, Zenon DEF Good, Recorded
  <2>3. QED
    BY <1>4, <1>5, <2>1, <2>2, Zenon DEF Statuses
<1>9. CASE Fail(t)
  BY <1>4, <1>9, Zenon DEF Fail, Statuses
<1>10. QED
  BY <1>6, <1>7, <1>8, <1>9, Zenon

-----------------------------------------------------------------------------
(* The theorems.                                                           *)

WholeInv == CacheInv /\ Verifying /\ PlaneInv

LEMMA WholeInit == PlaneInit => WholeInv
<1> SUFFICES ASSUME PlaneInit PROVE WholeInv
  OBVIOUS
<1> USE KeyCacheAssumption, ControlPlaneAssumption
<1>1. /\ CacheInv /\ thread = [t \in Threads |-> IdleThread] /\ now = 0
      /\ request = [t \in Threads |-> NoRequest] /\ loop = None
      /\ connection = [c \in Connections |-> Free] /\ revoked = [u \in Tenants |-> Never]
      /\ disabled = {} /\ changes = 0
  BY CacheInit, Zenon DEF PlaneInit, Init
<1>2. \A t \in Threads : thread[t].pc = "idle"
  BY <1>1, Zenon DEF IdleThread
<1>3. NoRequest \in Requests /\ NoRequest.step = "idle" /\ Good(NoRequest)
  BY NoRequestGood, Zenon
<1>4. PlaneTyped
  BY <1>1, <1>3 DEF PlaneTyped, Free, Moments, Times
<1>5. \A t \in Threads : request[t] = NoRequest
  BY <1>1, Zenon
<1>6. RevokedPast /\ Tenancy /\ \A t \in Threads : Good(request[t])
  BY <1>1, <1>3, <1>5, Zenon DEF RevokedPast, Tenancy
<1>7. QED
  BY <1>1, <1>2, <1>4, <1>6, Zenon DEF WholeInv, Verifying, PlaneInv

LEMMA WholeNext == WholeInv /\ [PlaneNext]_allVars => WholeInv'
<1> SUFFICES ASSUME WholeInv, [PlaneNext]_allVars PROVE WholeInv'
  OBVIOUS
<1>1. CacheInv /\ Verifying /\ PlaneInv /\ PlaneTyped
  BY Zenon DEF WholeInv, PlaneInv
<1>2. CacheInv'
  BY <1>1, PlaneStepIsCacheStep, CacheNext, Zenon
<1>3. Verifying'
  BY <1>1, VerifyingNext, Zenon
<1>4. PlaneInv'
  <2>1. CASE UNCHANGED allVars
    <3>1. \A r : Good(r) => Good(r)'
      BY <2>1 DEF allVars, vars, planeVars, Good, Principal, Barring, Recorded, Truthful, Denied
    <3>2. PlaneTyped' /\ RevokedPast' /\ Tenancy' /\ request' = request
      BY <1>1, <2>1, Zenon DEF allVars, vars, planeVars, PlaneInv, PlaneTyped, RevokedPast, Tenancy, On, Context
    <3>3. \A u \in Threads : Good(request[u])'
      <4> TAKE u \in Threads
      <4>1. PICK r : r = request'[u]
        OBVIOUS
      <4>2. QED
        BY <1>1, <3>1, <3>2, <4>1, Zenon DEF PlaneInv
    <3>4. QED
      BY <3>2, <3>3, Zenon DEF PlaneInv
  <2>2. CASE Around
    BY <1>1, <2>2, AroundInv, Zenon
  <2>3. ASSUME NEW t \in Threads, RefuseToken(t) \/ PresentToken(t) \/ Handle(t) PROVE PlaneInv'
    BY <1>1, <2>3, TokenInv, BeginInv, LookupInv, ReadBindingsInv, LoopInv, RejectedInv, Zenon,
       AuthenticatedInv, AuthorizedInv, ViewsInv DEF Handle
  <2>4. QED
    BY <2>1, <2>2, <2>3, Zenon DEF PlaneNext
<1>5. QED
  BY <1>2, <1>3, <1>4, Zenon DEF WholeInv

\* The invariant the theorems rest on holds of every behaviour of the control plane.
THEOREM PlaneInvariant == PlaneSpec => []WholeInv
  BY WholeInit, WholeNext, PTL DEF PlaneSpec

\* The state of the requests, the connections and the identities keeps its types.
THEOREM PlaneTypeCorrect == PlaneSpec => []PlaneTypeOK
<1>1. WholeInv => PlaneTypeOK
  <2> SUFFICES ASSUME WholeInv PROVE PlaneTypeOK
    OBVIOUS
  <2>1. TypeOK
    BY Zenon DEF WholeInv, CacheInv, Base, TypeOK, Places
  <2>2. QED
    BY <2>1, Zenon DEF WholeInv, PlaneInv, PlaneTyped, PlaneTypeOK
<1>2. QED
  BY <1>1, PlaneInvariant, PTL

\* No answer is sent before the audit events it owes are committed, however the
\* requests interleave and whatever statement fails.
THEOREM AnswersAreAudited == PlaneSpec => []AuditedBeforeAnswer
<1>1. WholeInv => AuditedBeforeAnswer
  <2> SUFFICES ASSUME WholeInv, NEW t \in Threads
               PROVE  LET r == request[t] IN
                      /\ Answered(t, "401") => r.trail = {"failure"}
                      /\ Answered(t, "403") =>
                           \/ r.trail = {"success", "denied"}
                           \/ OnLoop(r.route) /\ r.trail = {"success", "granted"}
                      /\ r.step = "respond" /\ r.stage \in {"view", "summary"}
                           => r.trail = {"success", "granted"}
                      /\ Answered(t, "200") => "success" \in r.trail
    BY Zenon DEF AuditedBeforeAnswer
  <2>1. Good(request[t])
    BY Zenon DEF WholeInv, PlaneInv
  <2>2. QED
    BY <2>1, Zenon DEF Good, Recorded, Truthful, Answered
<1>2. QED
  BY <1>1, PlaneInvariant, PTL

\* What a request is told of its tenant is true, for any number of requests that share
\* the connections.
THEOREM AnswersAreTrue == PlaneSpec => []AnswersTrue
<1>1. WholeInv => AnswersTrue
  <2> SUFFICES ASSUME WholeInv, NEW t \in Threads
               PROVE  LET r == request[t] IN
                      /\ Answered(t, "404") /\ r.stage = "view" => r.tenant \notin Provisioned
                      /\ Answered(t, "200") /\ r.stage \in {"view", "summary"} /\ r.route # "ledger"
                           => r.tenant \in Provisioned
                      /\ Answered(t, "403") => Denied(r)
    BY Zenon DEF AnswersTrue, Denied
  <2>1. Good(request[t])
    BY Zenon DEF WholeInv, PlaneInv
  <2>2. QED
    BY <2>1, Zenon DEF Good, Truthful, Answered
<1>2. QED
  BY <1>1, PlaneInvariant, PTL

\* A request that arrives after a revocation, or after its identity was disabled, is
\* granted nothing.
THEOREM RevocationsHold == PlaneSpec => []RevocationHolds
<1>1. WholeInv => RevocationHolds
  BY Zenon DEF WholeInv, PlaneInv, Good, Recorded, RevocationHolds
<1>2. QED
  BY <1>1, PlaneInvariant, PTL

-----------------------------------------------------------------------------
(* Who waits for whom.                                                     *)

\* The lock of a connection is held by a request in its transaction.
Owned ==
  \A c \in Connections :
    connection[c].owner # None =>
      request[connection[c].owner].step = "execute" /\ On(connection[c].owner) = c

\* A request that has the event loop waits for a connection, uses it or answers, and
\* is past resolve(), which runs in an executor.
Looping ==
  /\ \A t \in Threads : request[t].step = "resume" => request[t].stage # "resolve"
  /\ loop # None =>
       request[loop].step \in {"wait", "execute", "respond"} /\ request[loop].stage # "resolve"

Holding == Owned /\ Looping

\* Request t is authenticated, or its token refused.
Arrives(t) ==
  /\ request[t].step \in {"idle", "verify"} /\ request'[t].step \in {"verify", "resume", "wait"}
  /\ request'[t].step = "resume" => request'[t].stage # "resolve"
  /\ UNCHANGED <<loop, connection>>

\* Request t is not recognised, and leaves the executor.
GoesBack(t) ==
  /\ request[t].step = "wait" /\ request[t].stage = "resolve"
  /\ request'[t].step = "resume" /\ request'[t].stage # "resolve"
  /\ UNCHANGED <<loop, connection>>

\* Request t takes the lock of its connection.
Takes(t) ==
  /\ request[t].step = "wait" /\ request'[t].step = "execute"
  /\ request'[t].stage = request[t].stage /\ On(t)' = On(t)
  /\ \E u \in Tenants \cup {None} : Enter(t, u)
  /\ UNCHANGED loop

\* Request t gives it back, and may give back the event loop.
GivesBack(t) ==
  /\ request[t].step = "execute" /\ request'[t].step \in {"wait", "resume", "respond"}
  /\ request'[t].step = "resume" => request'[t].stage # "resolve"
  /\ request[t].stage # "resolve" =>
       request'[t].stage # "resolve" /\ request'[t].step \in {"wait", "respond"}
  /\ Leave(t)
  /\ loop' \in {loop, None} \/ (loop' = t /\ request[t].stage # "resolve")

\* Request t gets the event loop.
Resumes(t) ==
  /\ request[t].step = "resume" /\ request'[t].step = "wait"
  /\ request'[t].stage = request[t].stage
  /\ loop' = t /\ UNCHANGED connection

\* Request t is answered.
Ends(t) ==
  /\ request[t].step = "respond" /\ request'[t].step = "idle"
  /\ loop' = None /\ UNCHANGED connection

LEMMA ArrivesMoves ==
  ASSUME PlaneInv, Verifying, NEW t \in Threads,
         RefuseToken(t) \/ PresentToken(t) \/ KeyUnavailable(t) \/ Verify(t)
  PROVE  (\E new : Become(t, new)) /\ Arrives(t)
<1>1. request[t] \in Requests
  BY Zenon DEF PlaneInv, PlaneTyped
<1>2. CASE RefuseToken(t) \/ KeyUnavailable(t) \/ (Verify(t) /\ Unauthenticated(t))
  <2>1. Unauthenticated(t) /\ UNCHANGED <<loop, connection>>
    BY <1>2, Zenon DEF RefuseToken, KeyUnavailable, Verify
  <2>2. request[t].step \in {"idle", "verify"}
    BY <1>2, Zenon DEF RefuseToken, KeyUnavailable, Verify, RefreshFails, Verifying
  <2>3. request'[t] = [NoRequest EXCEPT !.stage = "reject", !.step = "resume"]
    BY <2>1, OthersTenancy, Zenon DEF Unauthenticated
  <2>4. request'[t].step = "resume" /\ request'[t].stage = "reject"
    BY <2>3 DEF NoRequest
  <2>5. QED
    BY <2>1, <2>2, <2>4 DEF Unauthenticated, Arrives
<1>3. CASE PresentToken(t)
  <2>1. request'[t] = [Arrival EXCEPT !.step = "verify"] /\ UNCHANGED <<loop, connection>>
    BY <1>3, OthersTenancy, Zenon DEF PresentToken
  <2>2. request'[t].step = "verify"
    BY <2>1 DEF Arrival, NoRequest
  <2>3. QED
    BY <1>3, <2>1, <2>2 DEF PresentToken, Arrives
<1>4. CASE Verify(t) /\ Become(t, At(request[t], "resolve", "wait"))
  <2>1. request'[t].step = "wait"
    BY <1>1, <1>4, OthersTenancy, AtFields DEF Stages, Steps
  <2>2. request[t].step = "verify" /\ UNCHANGED <<loop, connection>>
    BY <1>4, Zenon DEF Verify, Verifying
  <2>3. QED
    BY <1>4, <2>1, <2>2 DEF Arrives
<1>5. QED
  BY <1>2, <1>3, <1>4, Zenon DEF Verify, At

LEMMA ConnectionMoves ==
  ASSUME PlaneInv, NEW t \in Threads, Begin(t) \/ Lookup(t)
  PROVE  (\E new : Become(t, new)) /\ (Takes(t) \/ GoesBack(t))
<1>1. /\ request[t] \in Requests /\ request[t].stage \in Stages /\ request[t].step = "wait"
      /\ UNCHANGED loop
  BY Zenon DEF PlaneInv, PlaneTyped, Requests, Begin, Lookup
<1>2. CASE Begin(t)
  <2>1. Become(t, At(request[t], request[t].stage, "execute")) /\ Enter(t, Context(t))
    BY <1>1, <1>2, AtSameStage, Zenon DEF Begin, Steps
  <2>2. /\ request'[t].step = "execute" /\ request'[t].stage = request[t].stage
        /\ request'[t].route = request[t].route
    <3>1. request'[t] = At(request[t], request[t].stage, "execute")
      BY <2>1, OthersTenancy, Zenon
    <3>2. QED
      BY <1>1, <3>1 DEF At, Requests
  <2>3. On(t)' = On(t)
    BY <2>2, Zenon DEF On
  <2>4. Context(t) \in Tenants \cup {None}
    BY <1>1, ControlPlaneAssumption, Zenon DEF Context, Requests
  <2>5. QED
    BY <1>1, <2>1, <2>2, <2>3, <2>4, Zenon DEF Takes
<1>3. ASSUME Lookup(t), NEW c \in Claims, Recognised(c), Enter(t, c.subject),
             Become(t, [request[t] EXCEPT !.step = "execute", !.who = c.subject])
      PROVE  (\E new : Become(t, new)) /\ Takes(t)
  <2>1. request'[t] = [request[t] EXCEPT !.step = "execute", !.who = c.subject]
    BY <1>3, OthersTenancy, Zenon
  <2>2. /\ request'[t].step = "execute" /\ request'[t].stage = request[t].stage
        /\ request'[t].route = request[t].route
    BY <1>1, <2>1 DEF Requests
  <2>3. On(t)' = On(t)
    BY <2>2, Zenon DEF On
  <2>4. c.subject \in Tenants \cup {None}
    BY Zenon DEF Claims
  <2>5. QED
    BY <1>1, <1>3, <2>2, <2>3, <2>4, Zenon DEF Takes
<1>4. CASE Lookup(t) /\ Unauthenticated(t) /\ UNCHANGED connection
  <2>1. request'[t] = [NoRequest EXCEPT !.stage = "reject", !.step = "resume"]
    BY <1>4, OthersTenancy, Zenon DEF Unauthenticated
  <2>2. request'[t].step = "resume" /\ request'[t].stage = "reject"
    BY <2>1 DEF NoRequest
  <2>3. request[t].stage = "resolve"
    BY <1>4, Zenon DEF Lookup
  <2>4. QED
    BY <1>1, <1>4, <2>2, <2>3 DEF GoesBack, Unauthenticated
<1>5. QED
  BY <1>2, <1>3, <1>4, Zenon DEF Lookup

LEMMA AnswerMoves ==
  ASSUME PlaneInv, NEW t \in Threads, NEW r \in Requests, NEW status \in Statuses,
         r.stage = request[t].stage, request[t].step = "execute",
         Become(t, Answer(r, status)), Leave(t), UNCHANGED loop
  PROVE  (\E new : Become(t, new)) /\ GivesBack(t)
<1>1. request'[t].step = "respond" /\ request'[t].stage = request[t].stage
  BY OthersTenancy, AnswerFields
<1>2. QED
  BY <1>1 DEF GivesBack

LEMMA LoopMoves ==
  ASSUME PlaneInv, NEW t \in Threads, ReadBindings(t) \/ Rejected(t) \/ Authenticated(t) \/ Authorized(t)
  PROVE  (\E new : Become(t, new)) /\ GivesBack(t)
<1>1. request[t] \in Requests /\ Good(request[t])
  BY Zenon DEF PlaneInv, PlaneTyped
<1>2. request[t].step = "execute" /\ Leave(t)
  BY Zenon DEF ReadBindings, Rejected, Authenticated, Authorized, AppendAudit
<1>3. CASE ReadBindings(t)
  <2>1. /\ \E b : Become(t, [request[t] EXCEPT !.stage = "authn", !.step = "resume", !.bindings = b])
        /\ request[t].stage = "resolve" /\ UNCHANGED loop
    BY <1>3, Zenon DEF ReadBindings
  <2>2. PICK b : request'[t] = [request[t] EXCEPT !.stage = "authn", !.step = "resume", !.bindings = b]
    BY <2>1, OthersTenancy, Zenon
  <2>3. request'[t].step = "resume" /\ request'[t].stage = "authn"
    BY <1>1, <2>2 DEF Requests
  <2>4. QED
    BY <1>2, <2>1, <2>3 DEF GivesBack
<1>4. CASE Rejected(t)
  <2>1. /\ Become(t, Answer(With(request[t], "failure"), "401")) /\ UNCHANGED loop
        /\ With(request[t], "failure") \in Requests
        /\ With(request[t], "failure").stage = request[t].stage
    BY <1>1, <1>4, WithFields, Zenon DEF Rejected
  <2>2. QED
    BY <1>2, <2>1, AnswerMoves DEF Statuses
<1>5. CASE Authenticated(t)
  <2>1. PICK w \in Requests : w = With(request[t], "success")
    BY <1>1, WithFields, Zenon
  <2>2. w.stage = request[t].stage
    BY <1>1, <2>1, WithFields
  <2>3. Dispatch(t, w) /\ UNCHANGED loop /\ request[t].stage = "authn"
    BY <1>5, <2>1, Zenon DEF Authenticated
  <2>4. ASSUME NEW status \in {"200", "404"}, Become(t, Answer(w, status))
        PROVE  (\E new : Become(t, new)) /\ GivesBack(t)
    BY <1>2, <2>2, <2>3, <2>4, AnswerMoves DEF Statuses
  <2>5. ASSUME NEW route \in Views, NEW tenant \in Tenants,
               Become(t, Decided([w EXCEPT !.route = route, !.tenant = tenant],
                                 Decide(w.who, w.bindings, route, tenant, now)))
        PROVE  (\E new : Become(t, new)) /\ GivesBack(t)
    <3>1. request'[t] = Decided([w EXCEPT !.route = route, !.tenant = tenant],
                                Decide(w.who, w.bindings, route, tenant, now))
      BY <2>5, OthersTenancy, Zenon
    <3>2. request'[t].stage = "authz" /\ request'[t].step = "wait"
      BY <3>1, Zenon DEF Decided, Requests
    <3>3. QED
      BY <1>2, <2>3, <2>5, <3>2 DEF GivesBack
  <2>6. QED
    BY <2>3, <2>4, <2>5, Zenon DEF Dispatch
<1>6. CASE Authorized(t)
  <2>1. PICK w : w = With(request[t], request[t].decision)
    OBVIOUS
  <2>2. /\ w.stage = "authz" /\ w.decision \in {"granted", "denied"}
        /\ \/ Become(t, Answer(w, "403")) /\ UNCHANGED loop
           \/ Become(t, At(w, "view", "wait")) /\ loop' \in {t, None}
    BY <1>6, <2>1, Zenon DEF Authorized, At
  <2>3. request[t].decision \in {"granted", "denied"}
    BY <1>1, <2>1, <2>2 DEF With, Requests
  <2>4. w \in Requests /\ w.stage = request[t].stage
    BY <1>1, <2>1, <2>3, WithFields
  <2>5. CASE Become(t, Answer(w, "403")) /\ UNCHANGED loop
    BY <1>2, <2>4, <2>5, AnswerMoves DEF Statuses
  <2>6. CASE Become(t, At(w, "view", "wait")) /\ loop' \in {t, None}
    <3>1. request'[t] = At(w, "view", "wait")
      BY <2>6, OthersTenancy, Zenon
    <3>2. request'[t].stage = "view" /\ request'[t].step = "wait"
      BY <2>4, <3>1, AtFields DEF Stages, Steps
    <3>3. QED
      BY <1>2, <2>2, <2>4, <2>6, <3>2 DEF GivesBack
  <2>7. QED
    BY <2>2, <2>5, <2>6
<1>7. QED
  BY <1>3, <1>4, <1>5, <1>6

LEMMA ViewMoves ==
  ASSUME PlaneInv, NEW t \in Threads, GetRecord(t) \/ GetModelView(t) \/ GetEvents(t) \/ Fail(t)
  PROVE  (\E new : Become(t, new)) /\ GivesBack(t)
<1>1. request[t] \in Requests /\ request[t].step = "execute" /\ Leave(t)
  BY Zenon DEF PlaneInv, PlaneTyped, GetRecord, GetModelView, GetEvents, Fail
<1>2. ASSUME NEW status \in Statuses, Become(t, Answer(request[t], status)), UNCHANGED loop
      PROVE  (\E new : Become(t, new)) /\ GivesBack(t)
  BY <1>1, <1>2, AnswerMoves, Zenon
<1>3. CASE Become(t, At(request[t], "summary", "wait")) /\ loop' = None
  <2>1. request'[t] = At(request[t], "summary", "wait")
    BY <1>3, OthersTenancy, Zenon
  <2>2. request'[t].stage = "summary" /\ request'[t].step = "wait"
    BY <1>1, <2>1, AtFields DEF Stages, Steps
  <2>3. QED
    BY <1>1, <1>3, <2>2 DEF GivesBack
<1>4. \/ (\E status \in Statuses : Become(t, Answer(request[t], status))) /\ UNCHANGED loop
      \/ Become(t, At(request[t], "summary", "wait")) /\ loop' = None
  <2>1. CASE GetRecord(t)
    BY <2>1, Zenon DEF GetRecord, Statuses
  <2>2. CASE GetModelView(t)
    BY <2>2, Zenon DEF GetModelView, Statuses, At
  <2>3. CASE GetEvents(t)
    BY <2>3, Zenon DEF GetEvents, Statuses
  <2>4. CASE Fail(t)
    BY <2>4, Zenon DEF Fail, Statuses
  <2>5. QED
    BY <2>1, <2>2, <2>3, <2>4
<1>5. QED
  BY <1>2, <1>3, <1>4, Zenon

LEMMA TurnMoves ==
  ASSUME PlaneInv, NEW t \in Threads, Resume(t) \/ Respond(t)
  PROVE  (\E new : Become(t, new)) /\ (Resumes(t) \/ Ends(t))
<1>1. request[t] \in Requests /\ request[t].stage \in Stages
  BY Zenon DEF PlaneInv, PlaneTyped, Requests
<1>2. CASE Resume(t)
  <2>1. Become(t, [request[t] EXCEPT !.step = "wait"])
    BY <1>2, Zenon DEF Resume
  <2>2. request'[t] = [request[t] EXCEPT !.step = "wait"]
    BY <2>1, OthersTenancy, Zenon
  <2>3. request'[t].step = "wait" /\ request'[t].stage = request[t].stage
    BY <1>1, <2>2 DEF Requests
  <2>4. QED
    BY <1>2, <2>1, <2>3, Zenon DEF Resume, Resumes
<1>3. CASE Respond(t)
  <2>1. Become(t, NoRequest)
    BY <1>3, Zenon DEF Respond
  <2>2. request'[t].step = "idle"
    BY <2>1, OthersTenancy, NoRequestGood, Zenon
  <2>3. QED
    BY <1>3, <2>1, <2>2, Zenon DEF Respond, Ends
<1>4. QED
  BY <1>2, <1>3

\* Request t takes a step of one of these kinds.
LEMMA MoveHolds ==
  ASSUME PlaneInv, Holding, NEW t \in Threads, \E new : Become(t, new),
         Arrives(t) \/ GoesBack(t) \/ Takes(t) \/ GivesBack(t) \/ Resumes(t) \/ Ends(t)
  PROVE  Holding'
<1>1. \A u \in Threads \ {t} : request'[u] = request[u] /\ On(u)' = On(u)
  BY OthersTenancy, Zenon
<1>2. /\ connection \in [Connections -> [owner : Threads \cup {None}, tenant : Tenants \cup {None}]]
      /\ loop \in Threads \cup {None} /\ On(t) \in Connections /\ None \notin Threads
  BY OnIsConnection, KeyCacheAssumption, Zenon DEF PlaneInv, PlaneTyped
<1>3. Owned'
  <2>1. CASE UNCHANGED connection /\ request[t].step # "execute"
    <3>1. \A c \in Connections : connection[c].owner # None => connection[c].owner \in Threads \ {t}
      BY <1>2, <2>1 DEF Holding, Owned
    <3>2. QED
      BY <1>1, <2>1, <3>1 DEF Holding, Owned
  <2>2. CASE Takes(t)
    <3>1. /\ \A c \in Connections \ {On(t)} : connection'[c] = connection[c]
          /\ connection'[On(t)].owner = t
      BY <1>2, <2>2 DEF Takes, Enter
    <3>2. \A c \in Connections : connection[c].owner # None => connection[c].owner \in Threads \ {t}
      BY <1>2, <2>2 DEF Holding, Owned, Takes
    <3>3. \A c \in Connections \ {On(t)} : connection'[c].owner # None =>
            request'[connection'[c].owner].step = "execute" /\ On(connection[c].owner)' = c
      BY <1>1, <3>1, <3>2 DEF Holding, Owned
    <3>4. request'[t].step = "execute" /\ On(t)' = On(t)
      BY <2>2, Zenon DEF Takes
    <3>5. QED
      BY <3>1, <3>3, <3>4 DEF Owned
  <2>3. CASE GivesBack(t)
    <3>1. /\ \A c \in Connections \ {On(t)} : connection'[c] = connection[c]
          /\ connection'[On(t)].owner = None
      BY <1>2, <2>3 DEF GivesBack, Leave, Free
    <3>2. \A c \in Connections \ {On(t)} : connection[c].owner # None => connection[c].owner \in Threads \ {t}
      BY <1>2 DEF Holding, Owned
    <3>3. \A c \in Connections \ {On(t)} : connection'[c].owner # None =>
            request'[connection'[c].owner].step = "execute" /\ On(connection[c].owner)' = c
      BY <1>1, <3>1, <3>2 DEF Holding, Owned
    <3>4. QED
      BY <3>1, <3>3 DEF Owned
  <2>4. QED
    BY <2>1, <2>2, <2>3 DEF Arrives, GoesBack, Resumes, Ends
<1>4. Looping'
  <2>1. \A u \in Threads : request'[u].step = "resume" => request'[u].stage # "resolve"
    <3>1. request'[t].step = "resume" => request'[t].stage # "resolve"
      BY DEF Arrives, GoesBack, Takes, GivesBack, Resumes, Ends
    <3>2. QED
      BY <1>1, <3>1 DEF Holding, Looping
  <2>2. ASSUME loop' # None
        PROVE  request'[loop'].step \in {"wait", "execute", "respond"} /\ request'[loop'].stage # "resolve"
    <3>1. CASE loop' = t
      <4>1. loop = t => request[t].step \in {"wait", "execute", "respond"} /\ request[t].stage # "resolve"
        BY <1>2 DEF Holding, Looping
      <4>2. request[t].step = "resume" => request[t].stage # "resolve"
        BY DEF Holding, Looping
      <4>3. QED
        BY <1>2, <3>1, <4>1, <4>2 DEF Arrives, GoesBack, Takes, GivesBack, Resumes, Ends
    <3>2. CASE loop' # t
      <4>1. loop' = loop
        BY <2>2, <3>2 DEF Arrives, GoesBack, Takes, GivesBack, Resumes, Ends
      <4>2. QED
        BY <1>1, <1>2, <2>2, <3>2, <4>1 DEF Holding, Looping
    <3>3. QED
      BY <3>1, <3>2
  <2>3. QED
    BY <2>1, <2>2 DEF Looping
<1>5. QED
  BY <1>3, <1>4 DEF Holding

LEMMA HoldingNext == WholeInv /\ Holding /\ [PlaneNext]_allVars => Holding'
<1> SUFFICES ASSUME WholeInv, Holding, [PlaneNext]_allVars PROVE Holding'
  OBVIOUS
<1>1. PlaneInv /\ Verifying
  BY Zenon DEF WholeInv
<1>2. ASSUME UNCHANGED <<loop, connection, request>> PROVE Holding'
  <2>1. \A u : On(u)' = On(u)
    BY <1>2, Zenon DEF On
  <2>2. Looping'
    BY <1>2, Zenon DEF Holding, Looping
  <2>3. Owned'
    BY <1>2, <2>1 DEF Holding, Owned
  <2>4. QED
    BY <2>2, <2>3 DEF Holding
<1>3. CASE UNCHANGED allVars \/ Around
  BY <1>2, <1>3, Zenon DEF allVars, planeVars, Around, RotateKey, Revoke, Disable
<1>4. ASSUME NEW t \in Threads, LookForKey(t) PROVE Holding'
  BY <1>2, <1>4, Zenon DEF LookForKey, planeVars
<1>5. ASSUME NEW t \in Threads, RefuseToken(t) \/ PresentToken(t) \/ (Handle(t) /\ ~LookForKey(t))
      PROVE  Holding'
  <2>1. CASE RefuseToken(t) \/ PresentToken(t) \/ KeyUnavailable(t) \/ Verify(t)
    BY <1>1, <2>1, ArrivesMoves, MoveHolds, Zenon
  <2>2. CASE Begin(t) \/ Lookup(t)
    BY <1>1, <2>2, ConnectionMoves, MoveHolds, Zenon
  <2>3. CASE ReadBindings(t) \/ Rejected(t) \/ Authenticated(t) \/ Authorized(t)
    BY <1>1, <2>3, LoopMoves, MoveHolds, Zenon
  <2>4. CASE GetRecord(t) \/ GetModelView(t) \/ GetEvents(t) \/ Fail(t)
    BY <1>1, <2>4, ViewMoves, MoveHolds, Zenon
  <2>5. CASE Resume(t) \/ Respond(t)
    BY <1>1, <2>5, TurnMoves, MoveHolds, Zenon
  <2>6. QED
    BY <1>5, <2>1, <2>2, <2>3, <2>4, <2>5, Zenon DEF Handle
<1>6. QED
  BY <1>3, <1>4, <1>5, Zenon DEF PlaneNext, Handle

LEMMA HoldingInit == PlaneInit => Holding
<1> SUFFICES ASSUME PlaneInit PROVE Holding
  OBVIOUS
<1>1. /\ \A t \in Threads : request[t] = NoRequest /\ request[t].step = "idle"
      /\ loop = None /\ \A c \in Connections : connection[c] = Free
  BY NoRequestGood, Zenon DEF PlaneInit
<1>2. QED
  BY <1>1 DEF Holding, Owned, Looping, Free

LEMMA SomeoneGoesOn == WholeInv /\ Holding => NoCircularWait
<1> SUFFICES ASSUME WholeInv, Holding, NEW t \in InProgress
             PROVE  \E u \in InProgress : ~Blocked(u)
  BY Zenon DEF NoCircularWait
<1>1. /\ t \in Threads
      /\ lock = None \/ (lock \in Threads /\ thread[lock].pc \in {"fetch", "store", "look"})
      /\ loop \in Threads \cup {None}
      /\ connection \in [Connections -> [owner : Threads \cup {None}, tenant : Tenants \cup {None}]]
      /\ \A u \in Threads : thread[u].pc # "idle" => request[u].step = "verify"
  BY Zenon DEF WholeInv, CacheInv, Base, Verifying, PlaneInv, PlaneTyped, InProgress
<1>2. ASSUME NEW u \in Threads, request[u].step = "execute" PROVE u \in InProgress /\ ~Blocked(u)
  BY <1>1, <1>2 DEF InProgress, Blocked
<1>3. ASSUME NEW u \in Threads, request[u].step = "wait" PROVE \E v \in InProgress : ~Blocked(v)
  <2>1. CASE LockFree(u)
    BY <1>1, <1>3, <2>1 DEF InProgress, Blocked
  <2>2. CASE ~LockFree(u)
    <3>1. On(u) \in Connections /\ connection[On(u)].owner \in Threads \ {None}
      BY <1>1, <2>2, OnIsConnection DEF LockFree
    <3>2. request[connection[On(u)].owner].step = "execute"
      BY <3>1 DEF Holding, Owned
    <3>3. QED
      BY <1>2, <3>1, <3>2
  <2>3. QED
    BY <2>1, <2>2
<1>4. CASE thread[t].pc = "wait" /\ lock # None
  <2>1. lock \in Threads /\ thread[lock].pc \in {"fetch", "store", "look"} /\ request[lock].step = "verify"
    BY <1>1, <1>4
  <2>2. QED
    BY <2>1 DEF InProgress, Blocked
<1>5. CASE loop # None
  <2>1. loop \in Threads /\ request[loop].step \in {"wait", "execute", "respond"}
    BY <1>1, <1>5 DEF Holding, Looping
  <2>2. CASE request[loop].step = "respond"
    BY <1>1, <2>1, <2>2 DEF InProgress, Blocked
  <2>3. QED
    BY <1>2, <1>3, <2>1, <2>2
<1>6. CASE ~(thread[t].pc = "wait" /\ lock # None) /\ loop = None /\ request[t].step # "wait"
  BY <1>1, <1>6 DEF Blocked
<1>7. QED
  BY <1>1, <1>3, <1>4, <1>5, <1>6

\* The requests in progress never all wait for what others hold, for any number of
\* them: who has the event loop waits at most for a connection, who has a connection
\* or the lock of the key cache waits for nothing.
THEOREM NobodyWaitsInACircle == PlaneSpec => []NoCircularWait
  BY PlaneInvariant, HoldingInit, HoldingNext, SomeoneGoesOn, PTL DEF PlaneSpec
=============================================================================
