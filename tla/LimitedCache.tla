---------------------------- MODULE LimitedCache ----------------------------
(***************************************************************************)
(* The in-memory cache of packages/session: an instance of the npm package *)
(* limited-cache, which is not in the repository.  A cache is a function   *)
(* from keys to entries, absent where there is none; an entry records the  *)
(* value and the time it was set.  Modelled from its use in                *)
(* packages/session/src/index.ts: get, set, remove and reset.              *)
(***************************************************************************)
EXTENDS Integers, FiniteSets

\* The entry that set stores under a key.
Entry(value, now) == [val |-> value, at |-> now]

\* Mutant: the cache was built without maxCacheTime.
CacheHitForever(cache, key, absent, now, ttl) == cache[key] # absent

\* get answers with the value of an entry that is at most ttl old.
CacheHit(cache, key, absent, now, ttl) ==
    /\ cache[key] # absent
    /\ now - cache[key].at =< ttl

\* The caches that set(key, value) may leave.  A full cache makes room by
\* dropping another entry; which one is the package's business.
CacheSet(cache, key, value, absent, now, size) ==
    LET filled == [cache EXCEPT ![key] = Entry(value, now)]
        others == {k \in DOMAIN cache \ {key} : cache[k] # absent}
    IN  IF Cardinality(others) < size
        THEN {filled}
        ELSE {[filled EXCEPT ![victim] = absent] : victim \in others}

CacheRemove(cache, key, absent) == [cache EXCEPT ![key] = absent]

CacheReset(cache, absent) == [key \in DOMAIN cache |-> absent]
=============================================================================
