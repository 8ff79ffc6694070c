------------------------- MODULE MCEdgeStructures -------------------------
(***************************************************************************)
(* The data structures of an edge that share nothing: the negative cache,  *)
(* its expiry heap and the adaptive cuckoo filter.  A behaviour works on   *)
(* one of them, chosen at the start, so one run explores them all.         *)
(***************************************************************************)
EXTENDS NegativeCache, ExpiryHeap, AdaptiveCuckooFilter

CONSTANTS s1, s2, s3, east, west

VARIABLE subject
structureVars == <<subject, cacheVars, heapVars, filterVars>>

\* Three scopes of two accounts: s2 and s3 are two versions of one account.
MCAccountOf == [s \in Scopes |-> IF s = s1 THEN 1 ELSE 2]

\* Key 1 moves between regions, key 4 collides with another scope.
Offer(k, s, r) == [key |-> k, scope |-> s, region |-> r]
MCOffers == {Offer(1, s1, east), Offer(2, s1, west), Offer(3, s2, east),
             Offer(4, s2, west), Offer(1, s1, west), Offer(4, s3, west)}

\* Each policy, with quotas below, at and above the capacity.
Setting(policy, account, region, ttl) ==
    [policy |-> policy, max_ttl |-> ttl,
     quota |-> [d \in Dimensions |-> IF d = "account" THEN account ELSE region]]
MCSettings == {Setting("lru", 2, 2, 2), Setting("lru", 3, 1, 2), Setting("lru", 4, 3, 1),
               Setting("tinylfu", 1, 1, 1), Setting("tinylfu", 1, 2, 1), Setting("lfu", 4, 2, 1)}

\* Tokens 5 and 6 live in other buckets than the rest; two classes of tokens
\* collide on fingerprints, differently at the two offsets.
MCBucketOf == [p \in Tokens \X Tables |->
    CASE p[1] = 5 -> p[2] [] p[1] = 6 -> 1 - p[2] [] OTHER -> 0]
MCFingerprintOf == [p \in Tokens \X Offsets |->
    IF p[1] \in {1, 6} THEN 1 + p[2] ELSE IF p[1] \in {2, 5} THEN 2 - p[2] ELSE 1]

StructuresInit ==
    /\ subject \in {"cache", "heap", "filter"}
    /\ CacheInit /\ HeapInit /\ FilterInit
    /\ subject # "cache" => config = Setting("lru", 2, 2, 2)

StructuresNext ==
    \/ subject = "cache" /\ CacheNext /\ UNCHANGED <<subject, heapVars, filterVars>>
    \/ subject = "heap" /\ HeapNext /\ UNCHANGED <<subject, cacheVars, filterVars>>
    \/ subject = "filter" /\ FilterNext /\ UNCHANGED <<subject, cacheVars, heapVars>>

StructuresSpec == StructuresInit /\ [][StructuresNext]_structureVars
=============================================================================
