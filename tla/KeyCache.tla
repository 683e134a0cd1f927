------------------------------ MODULE KeyCache -------------------------------
(***************************************************************************)
(* RemoteJwksProvider: threads that look up signing keys in one cached       *)
(* document of a key endpoint that rotates its keys and may fail.  A thread *)
(* reads the clock before it takes the lock, so what it compares with the   *)
(* expiry of the document may be old by the time it does.                  *)
(***************************************************************************)
EXTENDS Naturals, FiniteSets

CONSTANTS
  Threads,        \* the threads that call get_key()
  Keys,           \* key identifiers
  None,           \* no thread
  TTL,            \* cache_ttl_seconds
  MaxTime         \* bound: the last reading of the clock

ASSUME KeyCacheAssumption ==
  /\ None \notin Threads /\ Keys # {}
  /\ TTL \in Nat \ {0} /\ MaxTime \in Nat

Times == 0..MaxTime

VARIABLES
  now,            \* the monotonic clock
  published,      \* the keys the endpoint serves
  changed,        \* when each key was last published or withdrawn
  cached,         \* self._cached_keys
  expires,        \* self._document_expires_at
  lock,           \* the owner of self._lock
  thread          \* where each thread is

vars == <<now, published, changed, cached, expires, lock, thread>>

IdleThread == [pc |-> "idle", key |-> CHOOSE k \in Keys : TRUE, at |-> 0, document |-> {}]

\* Every variable keeps its type, and a locked lock has an owner at work in it.
TypeOK ==
  /\ now \in Times
  /\ published \subseteq Keys /\ cached \subseteq Keys
  /\ changed \in [Keys -> Times]
  /\ expires \in 0..(MaxTime + TTL)
  /\ thread \in [Threads -> [pc : {"idle", "wait", "fetch", "store", "look", "found", "missed"},
                             key : Keys, at : Times, document : SUBSET Keys]]
  /\ lock = None \/ (lock \in Threads /\ thread[lock].pc \in {"fetch", "store", "look"})

Init ==
  /\ now = 0
  /\ published \in SUBSET Keys
  /\ changed = [k \in Keys |-> 0]
  /\ cached = {} /\ expires = 0
  /\ lock = None
  /\ thread = [t \in Threads |-> IdleThread]

-----------------------------------------------------------------------------
(* The clock and the endpoint.                                             *)

Tick ==
  /\ now < MaxTime
  /\ now' = now + 1
  /\ UNCHANGED <<published, changed, cached, expires, lock, thread>>

\* The endpoint publishes a new key or withdraws one.
Rotate(k) ==
  /\ published' = IF k \in published THEN published \ {k} ELSE published \cup {k}
  /\ changed' = [changed EXCEPT ![k] = now]
  /\ UNCHANGED <<now, cached, expires, lock, thread>>

-----------------------------------------------------------------------------
(* get_key().                                                              *)

Goto(t, new) ==
  /\ thread' = [thread EXCEPT ![t] = new]
  /\ UNCHANGED <<now, published, changed>>

\* The clock is read, then the lock is awaited.
GetKey(t, k) ==
  /\ thread[t].pc = "idle"
  /\ Goto(t, [IdleThread EXCEPT !.pc = "wait", !.key = k, !.at = now])
  /\ UNCHANGED <<cached, expires, lock>>

RefreshDue(t) == thread[t].at >= expires

Acquire(t) ==
  /\ thread[t].pc = "wait" /\ lock = None
  /\ lock' = t
  /\ Goto(t, [thread[t] EXCEPT !.pc = IF RefreshDue(t) THEN "fetch" ELSE "look"])
  /\ UNCHANGED <<cached, expires>>

\* _refresh(): the response is read.
Fetch(t) ==
  /\ thread[t].pc = "fetch"
  /\ Goto(t, [thread[t] EXCEPT !.pc = "store", !.document = published])
  /\ UNCHANGED <<cached, expires, lock>>

\* Mutant of NewExpiry: the document lives from the moment it is stored.
ExpiryFromNow(t) == now + TTL

\* now + cache_ttl_seconds, with the now of the call.
NewExpiry(t) == thread[t].at + TTL

\* _refresh(): the document is parsed and replaces the cache.
Store(t) ==
  /\ thread[t].pc = "store"
  /\ cached' = thread[t].document
  /\ expires' = NewExpiry(t)
  /\ Goto(t, [thread[t] EXCEPT !.pc = "look", !.document = {}])
  /\ UNCHANGED lock

\* _refresh() raises: no answer, or no valid document.  The cache is kept, and
\* stays expired.
RefreshFails(t) ==
  /\ thread[t].pc \in {"fetch", "store"}
  /\ lock' = None
  /\ Goto(t, IdleThread)
  /\ UNCHANGED <<cached, expires>>

\* The lookup, and the end of the with block.
Look(t) ==
  /\ thread[t].pc = "look"
  /\ lock' = None
  /\ Goto(t, [thread[t] EXCEPT !.pc = IF thread[t].key \in cached THEN "found" ELSE "missed"])
  /\ UNCHANGED <<cached, expires>>

\* The caller has the key, or "signing key was not found".
Return(t) ==
  /\ thread[t].pc \in {"found", "missed"}
  /\ Goto(t, IdleThread)
  /\ UNCHANGED <<cached, expires, lock>>

Step(t) ==
  Acquire(t) \/ Fetch(t) \/ Store(t) \/ RefreshFails(t) \/ Look(t) \/ Return(t)

Next ==
  \/ Tick
  \/ \E k \in Keys : Rotate(k)
  \/ \E t \in Threads : Step(t) \/ \E k \in Keys : GetKey(t, k)

Spec == Init /\ [][Next]_vars

-----------------------------------------------------------------------------
(* Properties.                                                             *)

\* What a call says of a key differs from what the endpoint publishes only if the
\* call began within the TTL of the change: a withdrawn key is forgotten and a new
\* one found, however long threads wait for the lock or the endpoint.
AnswersFresh ==
  \A t \in Threads :
    LET k == thread[t].key IN
    /\ thread[t].pc = "found" /\ k \notin published => thread[t].at < changed[k] + TTL
    /\ thread[t].pc = "missed" /\ k \in published => thread[t].at < changed[k] + TTL
=============================================================================
