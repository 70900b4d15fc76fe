----------------------------- MODULE RedisCache -----------------------------
(***************************************************************************)
(* RedisCacheService (apps/api/src/infra/redis-cache.service.ts): JSON     *)
(* values under keys, stored with a time to live, deleted by name or by    *)
(* prefix.  A prefix is deleted in two calls: a SCAN loop collects the     *)
(* names, then one DEL removes them.  Other callers write in between.      *)
(* The requests using the cache are numbered in their order of arrival;    *)
(* scanned[r] is what request r has collected.                             *)
(***************************************************************************)
EXTENDS Naturals, FiniteSets

CONSTANTS
  Key,         \* names of cached values
  MaxRequests, \* bound on the requests of a behaviour
  TtlSec,      \* the configured time to live; 0 stores without expiry
  MISS         \* what getJson returns for a key that is not there

ASSUME CacheAssumption == MaxRequests \in Nat /\ TtlSec \in Nat

VARIABLES
  cached,   \* the value of each key, MISS, or [json, expires]
  scanned   \* the names a request's SCAN loop has returned

cacheVars == <<cached, scanned>>

Request == 1..MaxRequests
Present == {k \in Key : cached[k] # MISS}

CacheInit ==
  /\ cached = [k \in Key |-> MISS]
  /\ scanned = [r \in Request |-> {}]

\* getJson of a stored value.
GetJson(k) == IF cached[k] = MISS THEN MISS ELSE cached[k].json

\* Mutated form of SetJson: the value is stored without EX.
SetForever(k, json) ==
  /\ cached' = [cached EXCEPT ![k] = [json |-> json, expires |-> FALSE]]
  /\ UNCHANGED scanned

SetJson(k, json) ==
  /\ cached' = [cached EXCEPT ![k] = [json |-> json, expires |-> TtlSec > 0]]
  /\ UNCHANGED scanned

\* UNLINK of names.
DelKeys(keys) ==
  /\ cached' = [k \in Key |-> IF k \in keys THEN MISS ELSE cached[k]]
  /\ UNCHANGED scanned

\* The SCAN loop of delByPrefix: it returns every matching name that is
\* there when it starts, and may return one stored later (see Del).
Scan(r, matching) ==
  /\ scanned' = [scanned EXCEPT ![r] = Present \cap matching]
  /\ UNCHANGED cached

\* The DEL of what the loop returned: the names there when it started, even
\* one that expired and was stored again, and any of the later ones.
Del(r, matching) ==
  /\ \E later \in SUBSET (Present \cap matching) :
       cached' = [k \in Key |-> IF k \in scanned[r] \cup later
                                THEN MISS ELSE cached[k]]
  /\ scanned' = [scanned EXCEPT ![r] = {}]

\* Redis drops a value whose time to live is over.
Expire(k) ==
  /\ cached[k] # MISS
  /\ cached[k].expires
  /\ cached' = [cached EXCEPT ![k] = MISS]
  /\ UNCHANGED scanned

=============================================================================
