----------------------------- MODULE PromptCache -----------------------------
(***************************************************************************)
(* The prompt cache (gateway/policy/cache.py) and the requests that read   *)
(* and fill it (chat_completions, gateway/main.py).                        *)
(*                                                                         *)
(* get and set hold the cache's lock from end to end, and run on the event *)
(* loop's thread.  Between a request's get and its set stands the call of  *)
(* a backend, so several requests for one key may miss together.  Times    *)
(* are kept as ages, up to the first that is past the TTL.                 *)
(***************************************************************************)
EXTENDS Integers, SequencesExt

NotAsking == "none"

CONSTANTS
    Asking,      \* requests that may be under way at once
    CacheKeys,   \* values of _generate_key
    TTL,         \* ttl_seconds
    MaxEntries,  \* max_entries
    NoKey        \* a request that does not use the cache

ASSUME CacheAssumption ==
    /\ TTL \in Nat
    /\ MaxEntries \in Nat \ {0}
    /\ NoKey \notin CacheKeys
    /\ NotAsking \notin CacheKeys

VARIABLES
    entries,  \* the keys of the OrderedDict, the next to be evicted first
    age,      \* time since a key's last set; for a key in entries, its timestamp's
    calling,  \* the key each request missed, while its backend is called
    used      \* history: the other keys used since a key was

cacheVars == <<entries, age, calling, used>>

Expired == TTL + 1

CacheInit ==
    /\ entries = <<>>
    /\ age = [k \in CacheKeys |-> Expired]
    /\ calling = [r \in Asking |-> NotAsking]
    /\ used = [k \in CacheKeys |-> {}]

Cached(k) == k \in ToSet(entries)

\* OrderedDict.move_to_end, which also appends a key that is new
MoveToEnd(k) == Append(RemoveFirst(entries, k), k)

Use(k) == used' = [x \in CacheKeys |-> IF x = k THEN {} ELSE used[x] \cup {k}]

-----------------------------------------------------------------------------

\* Mutant: a hit does not count as a use.
OrderAsSet(k) == entries

OrderAfterHit(k) == MoveToEnd(k)

\* The request is answered from the cache.
Hit(r, k) ==
    /\ calling[r] = NotAsking
    /\ Cached(k) /\ age[k] <= TTL
    /\ entries' = OrderAfterHit(k)
    /\ Use(k)
    /\ UNCHANGED <<age, calling>>

\* Nothing is found, or what is found is too old and deleted.
Miss(r, k) ==
    /\ calling[r] = NotAsking
    /\ ~Cached(k) \/ age[k] > TTL
    /\ entries' = RemoveFirst(entries, k)
    /\ calling' = [calling EXCEPT ![r] = k]
    /\ UNCHANGED <<age, used>>

\* no_cache, or a temperature above max_cacheable_temperature
Bypass(r) ==
    /\ calling[r] = NotAsking
    /\ calling' = [calling EXCEPT ![r] = NoKey]
    /\ UNCHANGED <<entries, age, used>>

\* Mutant: popitem takes the newest.
EvictedLast(order) == IF Len(order) > MaxEntries THEN SubSeq(order, 1, MaxEntries) ELSE order

Evicted(order) ==
    IF Len(order) > MaxEntries
    THEN SubSeq(order, Len(order) - MaxEntries + 1, Len(order))
    ELSE order

\* Mutant: an answer stored again keeps its place.
SetInPlace(k) == IF Cached(k) THEN entries ELSE Append(entries, k)

OrderAfterSet(k) == MoveToEnd(k)

\* The answer is stored, over one that another request stored meanwhile.
Store(r) ==
    LET k == calling[r] IN
    /\ k \in CacheKeys
    /\ entries' = Evicted(OrderAfterSet(k))
    /\ age' = [age EXCEPT ![k] = 0]
    /\ calling' = [calling EXCEPT ![r] = NotAsking]
    /\ Use(k)

\* The call fails, its answer is flagged, or its client leaves; set refuses what
\* get did.
EndUnstored(r) ==
    /\ calling[r] # NotAsking
    /\ calling' = [calling EXCEPT ![r] = NotAsking]
    /\ UNCHANGED <<entries, age, used>>

Age ==
    /\ age' = [k \in CacheKeys |-> IF age[k] < Expired THEN age[k] + 1 ELSE age[k]]
    /\ age' # age
    /\ UNCHANGED <<entries, calling, used>>

\* clear, which only the tests call
Clear ==
    /\ entries # <<>>
    /\ entries' = <<>>
    /\ age' = [k \in CacheKeys |-> Expired]
    /\ UNCHANGED <<calling, used>>

CacheNext ==
    \/ \E r \in Asking : \/ \E k \in CacheKeys : Hit(r, k) \/ Miss(r, k)
                         \/ Bypass(r) \/ Store(r) \/ EndUnstored(r)
    \/ Age
    \/ Clear

CacheSpec == CacheInit /\ [][CacheNext]_cacheVars

-----------------------------------------------------------------------------
(* The inductive invariant: why nothing leaves the cache before its turn *)

CacheTypeOK ==
    /\ entries \in Seq(CacheKeys)
    /\ age \in [CacheKeys -> 0..Expired]
    /\ calling \in [Asking -> CacheKeys \cup {NoKey, NotAsking}]
    /\ used \in [CacheKeys -> SUBSET CacheKeys]

\* Each key was last used before those behind it, and so is there once.
OrderedByUse ==
    /\ \A i, j \in 1..Len(entries) : i < j => entries[j] \in used[entries[i]]
    /\ \A k \in CacheKeys : IsFiniteSet(used[k]) /\ k \notin used[k]

\* A key leaves the cache when its answer is too old, or when the cache is full
\* of keys that were used since.
GoneForAReason ==
    \A k \in CacheKeys :
        Cached(k) \/ age[k] > TTL \/ Cardinality(used[k]) >= MaxEntries

CacheInv ==
    /\ CacheTypeOK
    /\ Len(entries) <= MaxEntries
    /\ OrderedByUse
    /\ GoneForAReason

-----------------------------------------------------------------------------
(* Correctness *)

\* The cache is bounded, holds a key once, and keeps its keys in the order they
\* were last used, however lookups, late answers and expiry alternate (get, set).
LeastRecentFirst ==
    /\ entries \in Seq(CacheKeys)
    /\ Len(entries) <= MaxEntries
    /\ \A i, j \in 1..Len(entries) : i < j => entries[j] \in used[entries[i]]

\* A paid answer is not forgotten early: a request for a key misses only if its
\* answer is older than the TTL, or as many other keys as the cache holds were
\* used since (get, set).
NoEarlyMiss ==
    [][\A r \in Asking, k \in CacheKeys :
         calling[r] = NotAsking /\ calling'[r] = k =>
            age[k] > TTL \/ Cardinality(used[k]) >= MaxEntries]_cacheVars
=============================================================================
