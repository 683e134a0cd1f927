---------------------------- MODULE MCModelCalls -----------------------------
(***************************************************************************)
(* An instance of ModelCalls for TLC.  The cheap model is slow and has no   *)
(* tools; the other one is dearer, for cached tokens above all; the third   *)
(* one is in a region the policy does not allow.  Two requests share a key, *)
(* one prefers cost and one latency; the third names the model with tools.  *)
(***************************************************************************)
EXTENDS ModelCalls

CONSTANTS cheap, dear, far, plain, other, tools, k1, k2, none

Model3 == {cheap, dear, far}

ByKind(in, out, write) ==
  [k \in Kinds |-> IF k = "input" THEN in ELSE IF k = "output" THEN out
                   ELSE IF k = "cache_write" THEN write ELSE 0]

Catalog == [m \in Model3 |->
  [catalogKey |-> m, name |-> m, provider |-> "fake", environments |-> {"test"},
   residencies |-> IF m = far THEN {"us"} ELSE {"eu", "us"}, retains |-> FALSE,
   context |-> 4, output |-> 2, supports |-> IF m = cheap THEN {} ELSE {"tools"},
   cost |-> IF m = cheap THEN 1 ELSE 2, latency |-> IF m = cheap THEN 2 ELSE 1,
   order |-> CASE m = cheap -> 1 [] m = dear -> 2 [] m = far -> 3,
   price |-> IF m = cheap THEN ByKind(1, 2, 0) ELSE ByKind(2, 3, 4)]]

Asks == [q \in {plain, other, tools} |->
  [prompt |-> 1, output |-> IF q = other THEN 2 ELSE 1,
   needs |-> IF q = tools THEN {"tools"} ELSE {},
   requested |-> IF q = tools THEN dear ELSE none,
   preference |-> IF q = other THEN "latency" ELSE "cost"]]

EuropeOnly ==
  [models |-> Model3, providers |-> {"fake"}, environments |-> {"test"},
   residencies |-> {"eu"}, retention |-> FALSE]

KeyOfRequest == [q \in {plain, other, tools} |-> IF q = tools THEN k2 ELSE k1]

\* Usage of up to three tokens: read afresh, or written to the cache.
Reports == {ByKind(n, 0, w) : <<n, w>> \in {<<1, 0>>, <<1, 1>>, <<0, 2>>, <<1, 2>>}}

\* The router is deterministic: whatever is unavailable, the order is unique.
ASSUME RouteIsUnique ==
  \A q \in Requests, U \in SUBSET Models : Eligible(q, U) # {} => Cardinality(Routes(q, U)) = 1
=============================================================================
