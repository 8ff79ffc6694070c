--------------------------- MODULE NegativeCache ---------------------------
(***************************************************************************)
(* dataplane/negative_cache.py: the bounded cache of refused credentials,  *)
(* with its time to live, its account and region quotas and its eviction   *)
(* policies (the exact LFU is in reference/adaptive/cache_policies.py).    *)
(* Every call runs under the cache's lock and is one step.  The caller     *)
(* reads the clock before it takes the lock, so the time a call works with *)
(* may lag behind that of calls that ran before it.                        *)
(*                                                                         *)
(* The key is a full HMAC of the scope and the credential, but the cache   *)
(* is handed key and view separately and guards against a mismatch: the    *)
(* calls considered are the members of Offers.  Metrics are left out.      *)
(***************************************************************************)
EXTENDS Naturals, FiniteSets

CONSTANTS
    Keys,          \* negative keys
    Scopes,        \* directory scopes that can be screened
    AccountOf,     \* scope -> account
    Regions,       \* router regions
    Offers,        \* the [key, scope, region] a caller may look up or insert
    Ttls,          \* times to live callers ask for
    Capacity,      \* capacity
    Settings,      \* constructor arguments [policy, quota, max_ttl]; a quota
                   \* above Capacity stands for None
    ResetAfter,    \* TinyLfuPolicy.reset_after
    MaxFrequency,  \* where TinyLfuPolicy stops counting (255)
    MaxUses,       \* bound: uses an exact LFU counts, which has no limit
    ReadLag,       \* bound: how far a call's time lags behind the clock
    Lifetimes      \* bound: the instants explored, in maximal times to live

Dimensions == {"account", "region"}
Accounts == {AccountOf[s] : s \in Scopes}
Groups == [d \in Dimensions |-> IF d = "account" THEN Accounts ELSE Regions]

ASSUME CacheConstants ==
    /\ IsFiniteSet(Keys)
    /\ Capacity \in Nat \ {0} /\ ResetAfter \in Nat \ {0}
    /\ MaxFrequency \in Nat /\ MaxUses \in Nat
    /\ ReadLag \in Nat /\ Lifetimes \in Nat
    /\ Ttls \subseteq Nat \ {0}
    /\ Offers \subseteq [key : Keys, scope : Scopes, region : Regions]
    /\ Settings \subseteq [policy : {"lru", "tinylfu", "lfu"},
                           quota : [Dimensions -> Nat \ {0}], max_ttl : Nat \ {0}]

Entries == [scope : Scopes, region : Regions, inserted_at : Nat, expires_at : Nat]

VARIABLES
    config,        \* the constructor's arguments
    cache,         \* the cache's own state
    clock,         \* time.monotonic()
    hit            \* the lookup that last hit, if the last call was one

cacheVars == <<config, cache, clock, hit>>

-----------------------------------------------------------------------------
(* An OrderedDict is the order of its keys, a reflexive relation: k is in  *)
(* the dictionary when <<k, k>> is in the order, and <<j, k>> when j comes *)
(* before k.                                                               *)
KeysIn(order) == {p[1] : p \in order}
Without(order, K) == {p \in order : p[1] \notin K /\ p[2] \notin K}
AtEnd(order, k) ==
    Without(order, {k}) \cup {<<j, k>> : j \in KeysIn(order) \cup {k}}
First(order, excluded) ==
    {k \in KeysIn(order) \ excluded :
        \A j \in KeysIn(order) \ excluded : <<k, j>> \in order}

-----------------------------------------------------------------------------
Residents(c) == DOMAIN c.entries
Group(d, e) == IF d = "account" THEN AccountOf[e.scope] ELSE e.region
Members(c, d, g) == {k \in Residents(c) : Group(d, c.entries[k]) = g}

\* A quota below the capacity keeps a key index, one equal to it a count.
Indexed(d) == config.quota[d] < Capacity
Counted(d) == config.quota[d] = Capacity
ExactLru == config.policy = "lru"

EmptyCache ==
    [entries   |-> [k \in {} |-> {}],                       \* _entries
     recency   |-> {},                                      \* the policy's order
     frequency |-> [k \in Keys |-> 0],                      \* the policy's counts
     samples   |-> 0,                                       \* TinyLfu _samples
     index     |-> [d \in Dimensions |-> [g \in Groups[d] |-> {}]],  \* _*_keys
     count     |-> [d \in Dimensions |-> [g \in Groups[d] |-> 0]]]   \* _*_counts

\* _remove of every key of K, with its index entries and its policy state.
RemoveAll(c, K) ==
    [c EXCEPT
        !.entries = [k \in Residents(c) \ K |-> c.entries[k]],
        !.recency = Without(@, K),
        !.frequency = IF config.policy = "lfu"
                      THEN [k \in Keys |-> IF k \in K THEN 0 ELSE @[k]] ELSE @,
        !.index = [d \in Dimensions |-> [g \in Groups[d] |-> Without(@[d][g], K)]],
        !.count = [d \in Dimensions |-> [g \in Groups[d] |->
                     IF Counted(d) THEN @[d][g] - Cardinality(Members(c, d, g) \cap K)
                     ELSE @[d][g]]]]

\* _purge_expired: pop the expiry heap while its head is due.
Purge(c, now) ==
    RemoveAll(c, {k \in Residents(c) : c.entries[k].expires_at <= now})

-----------------------------------------------------------------------------
(* Policy callbacks.                                                       *)

Capped(n) == IF n < MaxFrequency THEN n ELSE MaxFrequency

\* observe: TinyLFU counts every key and halves its history periodically,
\* the exact LFU counts residents only, LRU ignores it.
Observe(c, k) ==
    CASE config.policy = "lru" -> c
      [] config.policy = "lfu" ->
           IF k \in KeysIn(c.recency) THEN [c EXCEPT !.frequency[k] = @ + 1] ELSE c
      [] config.policy = "tinylfu" ->
           LET counted == [c.frequency EXCEPT ![k] = Capped(@ + 1)] IN
           IF c.samples + 1 >= ResetAfter
           THEN [c EXCEPT !.frequency = [j \in Keys |-> counted[j] \div 2], !.samples = 0]
           ELSE [c EXCEPT !.frequency = counted, !.samples = @ + 1]

OnHit(c, k) ==
    IF k \in KeysIn(c.recency) THEN [c EXCEPT !.recency = AtEnd(@, k)] ELSE c

OnInsert(c, k) ==
    [c EXCEPT !.recency = AtEnd(@, k),
              !.frequency[k] = IF config.policy = "lfu" THEN 1 ELSE @]

\* The resident of S the frequency policies would give up first.
Coldest(c, S) ==
    {v \in S : \A j \in S : \/ c.frequency[v] < c.frequency[j]
                            \/ c.frequency[v] = c.frequency[j] /\ <<v, j>> \in c.recency}

\* choose_victim over the pool; empty when admission is refused.
ChooseVictim(c, candidate, pool) ==
    CASE config.policy = "lru"     -> First(c.recency, Keys \ pool)
      [] config.policy = "lfu"     -> Coldest(c, pool)
      [] config.policy = "tinylfu" ->
           {v \in Coldest(c, pool) : c.frequency[candidate] > c.frequency[v]}

-----------------------------------------------------------------------------
(* The index kept beside the entries.                                      *)

\* _index_insert.
IndexInsert(c, k, e) ==
    [c EXCEPT
        !.index = [d \in Dimensions |-> [g \in Groups[d] |->
                     IF Indexed(d) /\ g = Group(d, e) THEN AtEnd(@[d][g], k) ELSE @[d][g]]],
        !.count = [d \in Dimensions |-> [g \in Groups[d] |->
                     IF Counted(d) /\ g = Group(d, e) THEN @[d][g] + 1 ELSE @[d][g]]]]

\* Mutant: a hit moves the key in the account's order only.
IndexTouchAccount(c, k) ==
    IF ~ExactLru THEN c ELSE
    [c EXCEPT !.index["account"] = [g \in Accounts |->
        IF Indexed("account") /\ g = Group("account", c.entries[k])
        THEN AtEnd(@[g], k) ELSE @[g]]]

\* _index_touch: only the exact LRU keeps its group orders current.
IndexTouch(c, k) ==
    IF ~ExactLru THEN c ELSE
    [c EXCEPT !.index = [d \in Dimensions |-> [g \in Groups[d] |->
        IF Indexed(d) /\ g = Group(d, c.entries[k]) THEN AtEnd(@[d][g], k) ELSE @[d][g]]]]

\* Mutant: the key stays in the group of its old region.
IndexUpdateKeepingOld(c, k, existing, candidate) ==
    [c EXCEPT !.index = [d \in Dimensions |-> [g \in Groups[d] |->
        IF Indexed(d) /\ g = Group(d, candidate) THEN AtEnd(@[d][g], k) ELSE @[d][g]]]]

\* _index_update: a changed region moves the key to the end of its new group.
IndexUpdate(c, k, existing, candidate) ==
    [c EXCEPT
        !.index = [d \in Dimensions |-> [g \in Groups[d] |->
            LET old == Group(d, existing)
                new == Group(d, candidate)
            IN CASE ~Indexed(d)                      -> @[d][g]
                 [] Indexed(d) /\ old # new /\ g = old -> Without(@[d][g], {k})
                 [] Indexed(d) /\ g = new /\ (old # new \/ ExactLru) -> AtEnd(@[d][g], k)
                 [] OTHER                            -> @[d][g]]],
        !.count = [d \in Dimensions |-> [g \in Groups[d] |->
            LET old == Group(d, existing)
                new == Group(d, candidate)
            IN CASE Counted(d) /\ old # new /\ g = old -> @[d][g] - 1
                 [] Counted(d) /\ old # new /\ g = new -> @[d][g] + 1
                 [] OTHER                            -> @[d][g]]]]

-----------------------------------------------------------------------------
(* Admission.  A plan is the set of victims of one insertion; it is made   *)
(* in full before any victim is removed, so a refusal removes nothing.     *)

\* _account_victim_pool and _region_victim_pool: the group is at its quota.
Pressed(c, d, g) ==
    \/ Indexed(d) /\ Cardinality(KeysIn(c.index[d][g])) >= config.quota[d]
    \/ Counted(d) /\ c.count[d][g] >= config.quota[d]

\* _select_victim for the pressure of a quota, over the pool of its group.
QuotaVictims(c, k, d, g, excluded) ==
    LET pool == IF Indexed(d) THEN KeysIn(c.index[d][g]) ELSE Residents(c)
        chosen == IF ExactLru /\ Indexed(d) THEN First(c.index[d][g], excluded)
                  ELSE ChooseVictim(c, k, pool \ excluded)
    IN chosen \cap Members(c, d, g)

\* _select_victim for the pressure of the capacity.
CapacityVictims(c, k, excluded) ==
    ChooseVictim(c, k, Residents(c) \ excluded) \cap Residents(c)

AccountPlans(c, k, e) ==
    IF Pressed(c, "account", Group("account", e))
    THEN {{v} : v \in QuotaVictims(c, k, "account", Group("account", e), {})}
    ELSE {{}}

\* Mutant: any planned victim is taken to relieve the region as well.
NeedsRegionVictimAnywhere(c, e, plan) ==
    /\ Pressed(c, "region", e.region)
    /\ plan = {}

\* A victim of the account's quota in the same region serves both.
NeedsRegionVictim(c, e, plan) ==
    /\ Pressed(c, "region", e.region)
    /\ \A v \in plan : c.entries[v].region # e.region

RegionPlans(c, k, e) == UNION {
    IF NeedsRegionVictim(c, e, plan)
    THEN {plan \cup {v} : v \in QuotaVictims(c, k, "region", e.region, plan)}
    ELSE {plan} : plan \in AccountPlans(c, k, e)}

\* Empty when some victim cannot be chosen: the insertion is refused.
Plans(c, k, e) == UNION {
    IF Cardinality(Residents(c)) - Cardinality(plan) >= Capacity
    THEN {plan \cup {v} : v \in CapacityVictims(c, k, plan)}
    ELSE {plan} : plan \in RegionPlans(c, k, e)}

\* The victims of an update that moves a resident to another region.
MovePlans(c, k, e) ==
    IF c.entries[k].region # e.region /\ Pressed(c, "region", e.region)
    THEN {{v} : v \in QuotaVictims(c, k, "region", e.region, {})}
    ELSE {{}}

-----------------------------------------------------------------------------
CacheInit ==
    /\ config \in Settings
    /\ cache = EmptyCache
    /\ clock = 0
    /\ hit = {}

\* The times a call may have read before it took the lock.
CallTimes == {t \in 0 .. clock : clock - t <= ReadLag}

CanObserve(k) == config.policy = "lfu" => cache.frequency[k] < MaxUses

\* lookup of a key that is not resident.
LookupMiss(k) ==
    /\ CanObserve(k)
    /\ k \notin Residents(cache)
    /\ cache' = Observe(cache, k)
    /\ hit' = {}
    /\ UNCHANGED <<config, clock>>

\* lookup of an expired resident removes it.
LookupExpired(k, now) ==
    /\ CanObserve(k)
    /\ k \in Residents(cache)
    /\ cache.entries[k].expires_at <= now
    /\ cache' = RemoveAll(Observe(cache, k), {k})
    /\ hit' = {}
    /\ UNCHANGED <<config, clock>>

\* lookup under another scope fails open and touches nothing.
LookupMismatch(k, scope, now) ==
    /\ CanObserve(k)
    /\ k \in Residents(cache)
    /\ cache.entries[k].expires_at > now
    /\ cache.entries[k].scope # scope
    /\ cache' = Observe(cache, k)
    /\ hit' = {}
    /\ UNCHANGED <<config, clock>>

LookupHit(k, scope, now) ==
    /\ CanObserve(k)
    /\ k \in Residents(cache)
    /\ cache.entries[k].expires_at > now
    /\ cache.entries[k].scope = scope
    /\ cache' = IndexTouch(OnHit(Observe(cache, k), k), k)
    /\ hit' = {[key |-> k, scope |-> scope, at |-> now]}
    /\ UNCHANGED <<config, clock>>

\* Mutant: the time to live is what the caller asks for.
CandidateUnclamped(scope, region, ttl, now) ==
    [scope |-> scope, region |-> region, inserted_at |-> now, expires_at |-> now + ttl]

\* The entry of an insertion; the time to live is clamped.
Candidate(scope, region, ttl, now) ==
    [scope |-> scope, region |-> region, inserted_at |-> now,
     expires_at |-> now + (IF ttl < config.max_ttl THEN ttl ELSE config.max_ttl)]

\* insert of a resident key under another scope: a full-key collision.
InsertCollision(k, scope, now) ==
    LET purged == Purge(cache, now) IN
    /\ k \in Residents(purged)
    /\ purged.entries[k].scope # scope
    /\ cache' = purged
    /\ hit' = {}
    /\ UNCHANGED <<config, clock>>

\* insert of a resident key of the same scope replaces its entry.
InsertUpdate(k, e, now) ==
    LET purged == Purge(cache, now) IN
    /\ k \in Residents(purged)
    /\ purged.entries[k].scope = e.scope
    /\ \E victims \in MovePlans(purged, k, e) :
          LET evicted == RemoveAll(purged, victims)
              replaced == [evicted EXCEPT !.entries[k] = e]
          IN cache' = IndexUpdate(OnHit(replaced, k), k, purged.entries[k], e)
    /\ hit' = {}
    /\ UNCHANGED <<config, clock>>

\* insert of a new key.
InsertNew(k, e, now) ==
    LET purged == Purge(cache, now) IN
    /\ k \notin Residents(purged)
    /\ \E victims \in Plans(purged, k, e) :
          LET evicted == RemoveAll(purged, victims)
              stored == [evicted EXCEPT
                           !.entries = [j \in DOMAIN @ \cup {k} |-> IF j = k THEN e ELSE @[j]]]
          IN cache' = OnInsert(IndexInsert(stored, k, e), k)
    /\ hit' = {}
    /\ UNCHANGED <<config, clock>>

\* Mutant: the account's victim is removed before the region's is chosen.
InsertRefusedEvicting(k, e, now) ==
    LET purged == Purge(cache, now) IN
    /\ k \notin Residents(purged) /\ Plans(purged, k, e) = {}
    /\ \E victims \in AccountPlans(purged, k, e) : cache' = RemoveAll(purged, victims)
    /\ hit' = {}
    /\ UNCHANGED <<config, clock>>

\* An insertion or a move for which no victim is found; expired entries go.
InsertRefused(k, e, now) ==
    LET purged == Purge(cache, now) IN
    /\ \/ k \notin Residents(purged) /\ Plans(purged, k, e) = {}
       \/ /\ k \in Residents(purged)
          /\ purged.entries[k].scope = e.scope
          /\ MovePlans(purged, k, e) = {}
    /\ cache' = purged
    /\ hit' = {}
    /\ UNCHANGED <<config, clock>>

Tick ==
    /\ clock < Lifetimes * config.max_ttl
    /\ clock' = clock + 1
    /\ UNCHANGED <<config, cache, hit>>

Lookup(k, scope) ==
    \/ LookupMiss(k)
    \/ \E now \in CallTimes :
          LookupExpired(k, now) \/ LookupMismatch(k, scope, now) \/ LookupHit(k, scope, now)

Insert(k, scope, region) ==
    \E now \in CallTimes, ttl \in Ttls :
        LET e == Candidate(scope, region, ttl, now) IN
        \/ InsertCollision(k, scope, now)
        \/ InsertUpdate(k, e, now)
        \/ InsertNew(k, e, now)
        \/ InsertRefused(k, e, now)

CacheNext ==
    \/ \E o \in Offers : Lookup(o.key, o.scope) \/ Insert(o.key, o.scope, o.region)
    \/ Tick

CacheSpec == CacheInit /\ [][CacheNext]_cacheVars

-----------------------------------------------------------------------------
(* Properties.                                                             *)

\* The capacity and both quotas hold after every call, whatever sequence of
\* insertions, moves between regions, expiries and evictions led there.
BoundsHold ==
    /\ Cardinality(Residents(cache)) <= Capacity
    /\ \A d \in Dimensions : \A g \in Groups[d] :
          config.quota[d] <= Capacity =>
              Cardinality(Members(cache, d, g)) <= config.quota[d]

\* The redundant structures describe the entries: the policy orders the
\* residents and no others, each key index holds its group, each count its size.
IndexesAgree ==
    /\ KeysIn(cache.recency) = Residents(cache)
    /\ \A d \in Dimensions : \A g \in Groups[d] :
          /\ Indexed(d) => KeysIn(cache.index[d][g]) = Members(cache, d, g)
          /\ Counted(d) => cache.count[d][g] = Cardinality(Members(cache, d, g))

\* Under the exact LRU the order of every group is the part of the global
\* order that falls in the group, so a quota evicts what was least recently
\* used of its group although hits and moves maintain three orders apart.
GroupOrdersAgree ==
    ExactLru => \A d \in Dimensions : \A g \in Groups[d] :
        Indexed(d) => cache.index[d][g] =
            {p \in cache.recency : {p[1], p[2]} \subseteq Members(cache, d, g)}

\* The observations that the counts f stand for, one pair for each.
Remembered(f) == {p \in Keys \X (1 .. MaxFrequency) : p[2] <= f[p[1]]}

\* Halving bounds the history: at any instant TinyLFU remembers no more than
\* one period's observations beyond those of the current period.
HistoryBounded ==
    config.policy = "tinylfu" =>
        /\ \A k \in Keys : cache.frequency[k] <= MaxFrequency
        /\ Cardinality(Remembered(cache.frequency)) <= ResetAfter + cache.samples

\* A lookup that hits answers for the scope the entry was inserted for, and
\* only within the clamped lifetime of that insertion.
HitIsCurrent ==
    \A h \in hit :
        /\ h.key \in Residents(cache)
        /\ cache.entries[h.key].scope = h.scope
        /\ h.at < cache.entries[h.key].inserted_at + config.max_ttl

\* An entry that is still alive leaves only in favour of another: when one is
\* evicted, some key is inserted or moved in the same call, at most two are
\* given up for it, and each shares a group with it or the cache was full.
EvictionServesAdmission ==
    [][LET given == {k \in Residents(cache) \ Residents(cache') :
                        cache.entries[k].expires_at > clock}
           got == {k \in Residents(cache') : k \notin Residents(cache)
                        \/ cache'.entries[k] # cache.entries[k]}
       IN given # {} =>
            /\ Cardinality(given) <= 2
            /\ \E k \in got : \A v \in given :
                 \/ \E d \in Dimensions :
                       Group(d, cache.entries[v]) = Group(d, cache'.entries[k])
                 \/ Cardinality(Residents(cache)) = Capacity]_cacheVars
=============================================================================
