------------------------- MODULE NegativeCache_proofs -------------------------
(***************************************************************************)
(* Proofs about the negative cache for every capacity, quota, policy, time *)
(* to live and set of offers: its parts agree, its bounds hold, a hit is   *)
(* current, an eviction serves an admission and the history of TinyLFU is  *)
(* bounded.                                                                *)
(***************************************************************************)
EXTENDS NegativeCache, FiniteSetTheorems, FunctionTheorems, TLAPS

-----------------------------------------------------------------------------
(* Orders.                                                                 *)

\* A reflexive relation on the keys in it.
Ordered(o) ==
    /\ o \subseteq Keys \X Keys
    /\ \A p \in o : <<p[1], p[1]>> \in o /\ <<p[2], p[2]>> \in o

LEMMA EmptyOrder == Ordered({}) /\ KeysIn({}) = {}
BY DEF Ordered, KeysIn

LEMMA KeysOfOrder ==
    ASSUME NEW o, Ordered(o)
    PROVE  /\ KeysIn(o) \subseteq Keys
           /\ \A k : k \in KeysIn(o) <=> <<k, k>> \in o
           /\ \A p \in o : p = <<p[1], p[2]>> /\ p[1] \in KeysIn(o) /\ p[2] \in KeysIn(o)
<1>1. \A p \in o : p = <<p[1], p[2]>> /\ p[1] \in Keys
    BY DEF Ordered
<1>2. \A k : <<k, k>> \in o => k \in KeysIn(o)
    <2> SUFFICES ASSUME NEW k, <<k, k>> \in o PROVE k \in KeysIn(o)
        OBVIOUS
    <2>1. \E p \in o : p[1] = k
        BY <<k, k>>[1] = k
    <2> QED
        BY <2>1 DEF KeysIn
<1>3. \A k : k \in KeysIn(o) => <<k, k>> \in o
    BY DEF Ordered, KeysIn
<1>4. \A p \in o : p[2] \in KeysIn(o)
    BY <1>2 DEF Ordered
<1> QED
    BY <1>1, <1>2, <1>3, <1>4 DEF KeysIn

LEMMA WithoutOrder ==
    ASSUME NEW o, Ordered(o), NEW K
    PROVE  Ordered(Without(o, K)) /\ KeysIn(Without(o, K)) = KeysIn(o) \ K
<1>1. Ordered(Without(o, K))
    BY DEF Ordered, Without
<1>2. KeysIn(Without(o, K)) \subseteq KeysIn(o) \ K
    BY DEF KeysIn, Without
<1>3. ASSUME NEW k \in KeysIn(o) \ K PROVE k \in KeysIn(Without(o, K))
    <2>1. <<k, k>> \in Without(o, K)
        BY <1>3, KeysOfOrder DEF Without
    <2> QED
        BY <2>1 DEF KeysIn
<1> QED
    BY <1>1, <1>2, <1>3

LEMMA AtEndOrder ==
    ASSUME NEW o, Ordered(o), NEW k \in Keys
    PROVE  Ordered(AtEnd(o, k)) /\ KeysIn(AtEnd(o, k)) = KeysIn(o) \cup {k}
<1> DEFINE K == KeysIn(o) \cup {k}
<1>1. \A p : p \in AtEnd(o, k) <=> \/ p \in o /\ p[1] # k /\ p[2] # k
                                   \/ \E j \in K : p = <<j, k>>
    BY DEF AtEnd, Without
<1>2. K \subseteq Keys
    BY KeysOfOrder
<1>3. <<k, k>> \in AtEnd(o, k)
    BY <1>1
<1>4. \A j \in KeysIn(o) : <<j, j>> \in AtEnd(o, k)
    <2> TAKE j \in KeysIn(o)
    <2>1. <<j, j>> \in o
        BY KeysOfOrder
    <2> QED
        BY <1>1, <1>3, <2>1
<1>5. ASSUME NEW p \in AtEnd(o, k)
      PROVE  p \in Keys \X Keys /\ p[1] \in K /\ p[2] \in K
    <2>1. CASE p \in o
        BY <2>1, KeysOfOrder DEF Ordered
    <2>2. CASE \E j \in K : p = <<j, k>>
        BY <1>2, <2>2
    <2> QED
        BY <1>1, <2>1, <2>2
<1> HIDE DEF K
<1>6. \A j \in K : <<j, j>> \in AtEnd(o, k)
    BY <1>3, <1>4 DEF K
<1>7. Ordered(AtEnd(o, k))
    BY <1>5, <1>6 DEF Ordered
<1>8. KeysIn(AtEnd(o, k)) = K
    <2>1. \A j : j \in KeysIn(AtEnd(o, k)) <=> <<j, j>> \in AtEnd(o, k)
        BY <1>7, KeysOfOrder
    <2>2. \A j : <<j, j>> \in AtEnd(o, k) => j \in K
        BY <1>5
    <2> QED
        BY <1>6, <2>1, <2>2
<1> QED
    BY <1>7, <1>8 DEF K

\* The part of an order that falls in a set.
Within(o, M) == {p \in o : {p[1], p[2]} \subseteq M}

LEMMA WithoutWithin ==
    ASSUME NEW o, NEW K, NEW M
    PROVE  Without(Within(o, M), K) = Within(Without(o, K), M \ K)
BY DEF Within, Without

LEMMA AtEndWithin ==
    ASSUME NEW o, Ordered(o), NEW M, M \subseteq KeysIn(o), NEW k \in Keys
    PROVE  /\ k \notin M => Within(AtEnd(o, k), M) = Within(o, M)
           /\ AtEnd(Within(o, M), k) = Within(AtEnd(o, k), M \cup {k})
<1>1. \A p : p \in AtEnd(o, k) <=> \/ p \in o /\ p[1] # k /\ p[2] # k
                                   \/ \E j \in KeysIn(o) \cup {k} : p = <<j, k>>
    BY DEF AtEnd, Without
<1>2. k \notin M => Within(AtEnd(o, k), M) = Within(o, M)
    BY <1>1 DEF Within
<1>3. KeysIn(Within(o, M)) = M
    <2>1. \A j \in M : <<j, j>> \in Within(o, M)
        BY KeysOfOrder DEF Within
    <2> QED
        BY <2>1 DEF KeysIn, Within
<1>4. \A p : p \in AtEnd(Within(o, M), k)
              <=> \/ p \in Within(o, M) /\ p[1] # k /\ p[2] # k
                  \/ \E j \in M \cup {k} : p = <<j, k>>
    BY <1>3 DEF AtEnd, Without
<1>5. \A p : p \in Within(AtEnd(o, k), M \cup {k})
              <=> \/ p \in Within(o, M) /\ p[1] # k /\ p[2] # k
                  \/ \E j \in M \cup {k} : p = <<j, k>>
    BY <1>1 DEF Within
<1> QED
    BY <1>2, <1>4, <1>5

-----------------------------------------------------------------------------
(* A cache whose parts agree.                                              *)

Fields == {"entries", "recency", "frequency", "samples", "index", "count"}

Formed(c) ==
    /\ DOMAIN c = Fields
    /\ Residents(c) \subseteq Keys
    /\ c.entries = [k \in Residents(c) |-> c.entries[k]]
    /\ \A k \in Residents(c) : c.entries[k] \in Entries
    /\ c.frequency \in [Keys -> Nat]
    /\ c.samples \in Nat

\* Every entry lives for at most the longest time to live.
Lifetime(c) ==
    \A k \in Residents(c) : c.entries[k].expires_at <= c.entries[k].inserted_at + config.max_ttl

RecencyAgrees(c) == Ordered(c.recency) /\ KeysIn(c.recency) = Residents(c)

\* The index of group g of dimension d.
GroupAgrees(c, d, g) ==
    /\ Ordered(c.index[d][g])
    /\ Indexed(d) => KeysIn(c.index[d][g]) = Members(c, d, g)
    /\ Counted(d) => c.count[d][g] = Cardinality(Members(c, d, g))
    /\ ExactLru /\ Indexed(d) => c.index[d][g] = Within(c.recency, Members(c, d, g))

Consistent(c) ==
    /\ Formed(c) /\ Lifetime(c) /\ RecencyAgrees(c)
    /\ \A d \in Dimensions : \A g \in Groups[d] : GroupAgrees(c, d, g)

LEMMA GroupType ==
    ASSUME NEW d \in Dimensions, NEW e \in Entries
    PROVE  Group(d, e) \in Groups[d]
BY DEF Dimensions, Entries, Group, Groups, Accounts

LEMMA MembersFinite ==
    ASSUME NEW c, Residents(c) \subseteq Keys
    PROVE  /\ IsFiniteSet(Residents(c)) /\ Cardinality(Residents(c)) \in Nat
           /\ \A d, g : /\ IsFiniteSet(Members(c, d, g))
                        /\ Cardinality(Members(c, d, g)) \in Nat
                        /\ Members(c, d, g) \subseteq Residents(c)
<1>1. IsFiniteSet(Residents(c)) /\ Cardinality(Residents(c)) \in Nat
    BY CacheConstants, FS_Subset, FS_CardinalityType
<1>2. \A d, g : Members(c, d, g) \subseteq Residents(c)
    BY DEF Members
<1> QED
    BY <1>1, <1>2, FS_Subset, FS_CardinalityType

LEMMA EmptyConsistent == Consistent(EmptyCache)
<1> DEFINE c == EmptyCache
<1>1. /\ DOMAIN c = Fields /\ c.entries = [k \in {} |-> {}] /\ c.recency = {}
      /\ c.frequency = [k \in Keys |-> 0] /\ c.samples = 0
      /\ c.index = [d \in Dimensions |-> [g \in Groups[d] |-> {}]]
      /\ c.count = [d \in Dimensions |-> [g \in Groups[d] |-> 0]]
    BY DEF EmptyCache, Fields
<1> HIDE DEF c
<1>2. Residents(c) = {}
    BY <1>1 DEF Residents
<1>3. \A d, g : Members(c, d, g) = {}
    BY <1>2 DEF Members
<1>4. \A d \in Dimensions : \A g \in Groups[d] : c.index[d][g] = {} /\ c.count[d][g] = 0
    BY <1>1
<1>5. Formed(c) /\ Lifetime(c) /\ RecencyAgrees(c)
    BY <1>1, <1>2, EmptyOrder DEF Formed, Lifetime, RecencyAgrees
<1>6. ASSUME NEW d \in Dimensions, NEW g \in Groups[d] PROVE GroupAgrees(c, d, g)
    <2>1. c.index[d][g] = {} /\ c.count[d][g] = 0 /\ Members(c, d, g) = {} /\ c.recency = {}
        BY <1>1, <1>3, <1>4
    <2>2. Within({}, {}) = {} /\ Cardinality({}) = 0
        BY FS_EmptySet DEF Within
    <2> QED
        BY <2>1, <2>2, EmptyOrder DEF GroupAgrees
<1> QED
    BY <1>5, <1>6 DEF Consistent, c

\* Removal.
LEMMA RemoveAllKeeps ==
    ASSUME NEW c, Consistent(c), NEW K
    PROVE  LET r == RemoveAll(c, K)
           IN  /\ Consistent(r)
               /\ Residents(r) = Residents(c) \ K
               /\ \A k \in Residents(r) : r.entries[k] = c.entries[k]
               /\ \A d, g : Members(r, d, g) = Members(c, d, g) \ K
               /\ config.policy # "lfu" => r.frequency = c.frequency
               /\ r.samples = c.samples
<1> DEFINE r == RemoveAll(c, K)
<1>1. /\ DOMAIN r = Fields
      /\ r.entries = [k \in Residents(c) \ K |-> c.entries[k]]
      /\ r.recency = Without(c.recency, K)
      /\ r.frequency = IF config.policy = "lfu"
                       THEN [k \in Keys |-> IF k \in K THEN 0 ELSE c.frequency[k]]
                       ELSE c.frequency
      /\ r.index = [d \in Dimensions |-> [g \in Groups[d] |-> Without(c.index[d][g], K)]]
      /\ r.count = [d \in Dimensions |-> [g \in Groups[d] |->
                      IF Counted(d)
                      THEN c.count[d][g] - Cardinality(Members(c, d, g) \cap K)
                      ELSE c.count[d][g]]]
      /\ r.samples = c.samples
    BY DEF RemoveAll, Consistent, Formed, Fields
<1> HIDE DEF r
<1>2. Residents(r) = Residents(c) \ K /\ \A k \in Residents(r) : r.entries[k] = c.entries[k]
    BY <1>1 DEF Residents
<1>3. \A d, g : Members(r, d, g) = Members(c, d, g) \ K
    BY <1>2 DEF Members
<1>4. Formed(r)
    BY <1>1, <1>2 DEF Consistent, Formed
<1>5. Lifetime(r)
    BY <1>2 DEF Consistent, Lifetime
<1>6. RecencyAgrees(r)
    BY <1>1, <1>2, WithoutOrder DEF Consistent, RecencyAgrees
<1>7. ASSUME NEW d \in Dimensions, NEW g \in Groups[d] PROVE GroupAgrees(r, d, g)
    <2> DEFINE M == Members(c, d, g)
    <2>1. GroupAgrees(c, d, g) /\ IsFiniteSet(M)
        BY MembersFinite DEF Consistent, Formed
    <2>2. /\ r.index[d][g] = Without(c.index[d][g], K)
          /\ Counted(d) => r.count[d][g] = c.count[d][g] - Cardinality(M \cap K)
        BY <1>1
    <2>3. Members(r, d, g) = M \ K
        BY <1>3
    <2> HIDE DEF M
    <2>4. Cardinality(M \ K) = Cardinality(M) - Cardinality(M \cap K)
        BY <2>1, FS_Difference
    <2>5. Ordered(r.index[d][g]) /\ KeysIn(r.index[d][g]) = KeysIn(c.index[d][g]) \ K
        BY <2>1, <2>2, WithoutOrder DEF GroupAgrees
    <2>6. ExactLru /\ Indexed(d) => r.index[d][g] = Within(r.recency, M \ K)
        BY <1>1, <2>1, <2>2, WithoutWithin DEF GroupAgrees, M
    <2> QED
        BY <2>1, <2>2, <2>3, <2>4, <2>5, <2>6 DEF GroupAgrees, M
<1> QED
    BY <1>1, <1>2, <1>3, <1>4, <1>5, <1>6, <1>7 DEF Consistent, r

-----------------------------------------------------------------------------
(* Observations and moves to the end.                                      *)

\* Two caches that differ in the policy's counts only.
SameEntries(c, r) ==
    /\ Formed(r)
    /\ r.entries = c.entries /\ r.recency = c.recency /\ r.index = c.index /\ r.count = c.count

LEMMA SameEntriesKeep ==
    ASSUME NEW c, NEW r, Consistent(c), SameEntries(c, r)
    PROVE  Consistent(r)
<1>1. Residents(r) = Residents(c)
    BY DEF Residents, SameEntries
<1>2. \A d, g : Members(r, d, g) = Members(c, d, g)
    BY <1>1 DEF Members, SameEntries
<1>3. Lifetime(r) /\ RecencyAgrees(r)
    BY <1>1 DEF Consistent, Lifetime, RecencyAgrees, SameEntries
<1>4. \A d \in Dimensions : \A g \in Groups[d] : GroupAgrees(r, d, g)
    BY <1>2 DEF Consistent, GroupAgrees, SameEntries
<1> QED
    BY <1>3, <1>4 DEF Consistent, SameEntries

LEMMA ObserveKeeps ==
    ASSUME NEW c, Consistent(c), NEW k \in Keys, config \in Settings
    PROVE  SameEntries(c, Observe(c, k)) /\ Consistent(Observe(c, k))
<1> DEFINE r == Observe(c, k)
<1>1. /\ DOMAIN c = Fields /\ c.frequency \in [Keys -> Nat] /\ c.samples \in Nat
      /\ config.policy \in {"lru", "tinylfu", "lfu"}
    BY CacheConstants DEF Consistent, Formed
<1>2. SameEntries(c, r)
    <2>1. CASE config.policy = "lru"
        BY <2>1 DEF Observe, SameEntries, Consistent
    <2>2. CASE config.policy = "lfu"
        <3>1. r = c \/ r = [c EXCEPT !.frequency[k] = c.frequency[k] + 1]
            BY <2>2 DEF Observe
        <3>2. [c.frequency EXCEPT ![k] = c.frequency[k] + 1] \in [Keys -> Nat]
            BY <1>1
        <3> HIDE DEF r
        <3> QED
            BY <1>1, <3>1, <3>2 DEF SameEntries, Consistent, Formed, Fields, Residents
    <2>3. CASE config.policy = "tinylfu"
        <3> DEFINE counted == [c.frequency EXCEPT ![k] = Capped(c.frequency[k] + 1)]
        <3>1. counted \in [Keys -> Nat]
            BY <1>1, CacheConstants DEF Capped
        <3> HIDE DEF counted
        <3>2. [j \in Keys |-> counted[j] \div 2] \in [Keys -> Nat]
            BY <3>1
        <3>3. \/ r = [c EXCEPT !.frequency = [j \in Keys |-> counted[j] \div 2], !.samples = 0]
              \/ r = [c EXCEPT !.frequency = counted, !.samples = c.samples + 1]
            BY <2>3 DEF Observe, counted
        <3>4. \E f \in [Keys -> Nat], n \in Nat : r = [c EXCEPT !.frequency = f, !.samples = n]
            <4> HIDE DEF r
            <4>1. 0 \in Nat /\ c.samples + 1 \in Nat
                BY <1>1
            <4> QED
                BY <3>1, <3>2, <3>3, <4>1
        <3> HIDE DEF r
        <3>5. PICK f \in [Keys -> Nat], n \in Nat : r = [c EXCEPT !.frequency = f, !.samples = n]
            BY <3>4
        <3> QED
            BY <1>1, <3>5 DEF SameEntries, Consistent, Formed, Fields, Residents
    <2> QED
        BY <1>1, <2>1, <2>2, <2>3
<1> QED
    BY <1>2, SameEntriesKeep

\* A resident moves to the end of the recency order and, under the exact LRU, to that
\* of its groups.
LEMMA TouchKeeps ==
    ASSUME NEW c, Consistent(c), NEW k \in Residents(c)
    PROVE  LET r == IndexTouch(OnHit(c, k), k)
           IN  Consistent(r) /\ r.entries = c.entries /\ r.frequency = c.frequency
               /\ r.samples = c.samples
<1> DEFINE h == OnHit(c, k)
           r == IndexTouch(h, k)
<1>1. /\ DOMAIN c = Fields /\ k \in Keys /\ k \in KeysIn(c.recency)
      /\ c.entries[k] \in Entries
    BY DEF Consistent, Formed, RecencyAgrees
<1>2. h = [c EXCEPT !.recency = AtEnd(c.recency, k)]
    BY <1>1 DEF OnHit
<1>3. DOMAIN h = Fields /\ h.recency = AtEnd(c.recency, k) /\ h.entries = c.entries
      /\ h.index = c.index /\ h.count = c.count /\ h.frequency = c.frequency
      /\ h.samples = c.samples
    BY <1>1, <1>2 DEF Fields
<1> HIDE DEF h
<1>4. /\ DOMAIN r = Fields /\ r.recency = AtEnd(c.recency, k) /\ r.entries = c.entries
      /\ r.count = c.count /\ r.frequency = c.frequency /\ r.samples = c.samples
      /\ \A d \in Dimensions : \A g \in Groups[d] :
            r.index[d][g] = IF ExactLru /\ Indexed(d) /\ g = Group(d, c.entries[k])
                            THEN AtEnd(c.index[d][g], k) ELSE c.index[d][g]
    <2>1. CASE ExactLru
        <3>1. r = [h EXCEPT !.index = [d \in Dimensions |-> [g \in Groups[d] |->
                    IF Indexed(d) /\ g = Group(d, c.entries[k])
                    THEN AtEnd(c.index[d][g], k) ELSE c.index[d][g]]]]
            BY <1>3, <2>1 DEF IndexTouch
        <3> HIDE DEF r
        <3>2. r.index = [d \in Dimensions |-> [g \in Groups[d] |->
                    IF Indexed(d) /\ g = Group(d, c.entries[k])
                    THEN AtEnd(c.index[d][g], k) ELSE c.index[d][g]]]
            BY <1>3, <3>1 DEF Fields
        <3>3. DOMAIN r = Fields /\ r.recency = AtEnd(c.recency, k) /\ r.entries = c.entries
              /\ r.count = c.count /\ r.frequency = c.frequency /\ r.samples = c.samples
            BY <1>3, <3>1 DEF Fields
        <3> QED
            BY <2>1, <3>2, <3>3
    <2>2. CASE ~ExactLru
        BY <1>3, <2>2 DEF IndexTouch
    <2> QED
        BY <2>1, <2>2
<1> HIDE DEF r
<1>5. Residents(r) = Residents(c) /\ \A d, g : Members(r, d, g) = Members(c, d, g)
    BY <1>4 DEF Residents, Members
<1>6. Formed(r) /\ Lifetime(r)
    BY <1>4, <1>5 DEF Consistent, Formed, Lifetime
<1>7. RecencyAgrees(r)
    <2>1. Ordered(AtEnd(c.recency, k)) /\ KeysIn(AtEnd(c.recency, k)) = KeysIn(c.recency) \cup {k}
        BY <1>1, AtEndOrder DEF Consistent, RecencyAgrees
    <2>2. KeysIn(c.recency) \cup {k} = Residents(c)
        BY <1>1 DEF Consistent, RecencyAgrees
    <2> QED
        BY <1>4, <1>5, <2>1, <2>2 DEF RecencyAgrees
<1>8. ASSUME NEW d \in Dimensions, NEW g \in Groups[d] PROVE GroupAgrees(r, d, g)
    <2> DEFINE M == Members(c, d, g)
    <2>1. GroupAgrees(c, d, g) /\ Members(r, d, g) = M /\ M \subseteq KeysIn(c.recency)
          /\ Ordered(c.recency) /\ (k \in M <=> g = Group(d, c.entries[k]))
        BY <1>5 DEF Consistent, RecencyAgrees, Members
    <2> HIDE DEF M
    <2>2. CASE ExactLru /\ Indexed(d) /\ k \in M
        <3>1. r.index[d][g] = AtEnd(c.index[d][g], k) /\ M \cup {k} = M
            BY <1>4, <2>1, <2>2
        <3>2. Ordered(r.index[d][g]) /\ KeysIn(r.index[d][g]) = M
            <4>1. Ordered(c.index[d][g]) /\ KeysIn(c.index[d][g]) = M
                BY <2>1, <2>2 DEF GroupAgrees, M
            <4>2. Ordered(AtEnd(c.index[d][g], k))
                  /\ KeysIn(AtEnd(c.index[d][g], k)) = M \cup {k}
                BY <1>1, <4>1, AtEndOrder
            <4> QED
                BY <3>1, <4>2
        <3>3. r.index[d][g] = Within(r.recency, M)
            BY <1>1, <1>4, <2>1, <2>2, <3>1, AtEndWithin DEF GroupAgrees, M
        <3> QED
            BY <1>4, <2>1, <3>2, <3>3 DEF GroupAgrees, M
    <2>3. CASE ~(ExactLru /\ Indexed(d) /\ k \in M)
        <3>1. r.index[d][g] = c.index[d][g]
            BY <1>4, <2>1, <2>3
        <3>2. k \notin M => Within(r.recency, M) = Within(c.recency, M)
            <4>1. k \notin M => Within(AtEnd(c.recency, k), M) = Within(c.recency, M)
                BY <1>1, <2>1, AtEndWithin
            <4> QED
                BY <1>4, <4>1
        <3> QED
            BY <1>4, <2>1, <2>3, <3>1, <3>2 DEF GroupAgrees, M
    <2> QED
        BY <2>2, <2>3
<1> QED
    BY <1>4, <1>6, <1>7, <1>8 DEF Consistent, r, h

\* A new entry, indexed.
Stored(c, k, e) ==
    LET stored == [c EXCEPT !.entries =
                     [j \in DOMAIN @ \cup {k} |-> IF j = k THEN e ELSE @[j]]]
    IN  OnInsert(IndexInsert(stored, k, e), k)

LEMMA InsertKeeps ==
    ASSUME NEW c, Consistent(c), NEW k \in Keys \ Residents(c), NEW e \in Entries,
           e.expires_at <= e.inserted_at + config.max_ttl
    PROVE  LET r == Stored(c, k, e)
           IN  /\ Consistent(r)
               /\ Residents(r) = Residents(c) \cup {k}
               /\ r.entries[k] = e /\ \A j \in Residents(c) : r.entries[j] = c.entries[j]
               /\ \A d, g : Members(r, d, g) = Members(c, d, g) \cup (IF g = Group(d, e) THEN {k} ELSE {})
               /\ config.policy # "lfu" => r.frequency = c.frequency
               /\ r.samples = c.samples
<1> DEFINE stored == [c EXCEPT !.entries =
                        [j \in DOMAIN @ \cup {k} |-> IF j = k THEN e ELSE @[j]]]
           i == IndexInsert(stored, k, e)
           r == OnInsert(i, k)
<1>1. /\ DOMAIN c = Fields /\ DOMAIN c.entries = Residents(c) /\ c.frequency \in [Keys -> Nat]
    BY DEF Consistent, Formed, Residents
<1>2. /\ DOMAIN stored = Fields
      /\ stored.entries = [j \in Residents(c) \cup {k} |-> IF j = k THEN e ELSE c.entries[j]]
      /\ stored.recency = c.recency /\ stored.frequency = c.frequency
      /\ stored.samples = c.samples /\ stored.index = c.index /\ stored.count = c.count
    BY <1>1 DEF Fields
<1> HIDE DEF stored
<1>3. /\ DOMAIN i = Fields /\ i.entries = stored.entries /\ i.recency = c.recency
      /\ i.frequency = c.frequency /\ i.samples = c.samples
      /\ i.index = [d \in Dimensions |-> [g \in Groups[d] |->
                     IF Indexed(d) /\ g = Group(d, e) THEN AtEnd(c.index[d][g], k)
                     ELSE c.index[d][g]]]
      /\ i.count = [d \in Dimensions |-> [g \in Groups[d] |->
                     IF Counted(d) /\ g = Group(d, e) THEN c.count[d][g] + 1 ELSE c.count[d][g]]]
    BY <1>2 DEF IndexInsert, Fields
<1> HIDE DEF i
<1>4. /\ DOMAIN r = Fields /\ r.entries = stored.entries
      /\ r.recency = AtEnd(c.recency, k) /\ r.samples = c.samples
      /\ r.index = i.index /\ r.count = i.count
      /\ r.frequency = [c.frequency EXCEPT ![k] = IF config.policy = "lfu" THEN 1 ELSE @]
    BY <1>3 DEF OnInsert, Fields
<1> HIDE DEF r
<1>5. /\ Residents(r) = Residents(c) \cup {k} /\ r.entries[k] = e
      /\ \A j \in Residents(c) : r.entries[j] = c.entries[j]
      /\ r.entries = [j \in Residents(r) |-> r.entries[j]]
    BY <1>2, <1>4 DEF Residents
<1>6. \A d, g : Members(r, d, g) = Members(c, d, g) \cup (IF g = Group(d, e) THEN {k} ELSE {})
    <2> TAKE d, g
    <2>1. \A j \in Residents(c) : j # k /\ Group(d, r.entries[j]) = Group(d, c.entries[j])
        BY <1>5
    <2>2. Group(d, r.entries[k]) = Group(d, e)
        BY <1>5
    <2> QED
        BY <1>5, <2>1, <2>2 DEF Members
<1>7. r.frequency \in [Keys -> Nat] /\ (config.policy # "lfu" => r.frequency = c.frequency)
    BY <1>1, <1>4
<1>8. Formed(r) /\ Lifetime(r)
    BY <1>4, <1>5, <1>7 DEF Consistent, Formed, Lifetime
<1>9. RecencyAgrees(r)
    BY <1>4, <1>5, AtEndOrder DEF Consistent, RecencyAgrees
<1>10. ASSUME NEW d \in Dimensions, NEW g \in Groups[d] PROVE GroupAgrees(r, d, g)
    <2> DEFINE M == Members(c, d, g)
    <2>1. /\ GroupAgrees(c, d, g) /\ IsFiniteSet(M) /\ M \subseteq Residents(c)
          /\ KeysIn(c.recency) = Residents(c) /\ Ordered(c.recency)
        BY MembersFinite DEF Consistent, Formed, RecencyAgrees
    <2>2. Members(r, d, g) = M \cup (IF g = Group(d, e) THEN {k} ELSE {})
        BY <1>6
    <2>3. /\ r.index[d][g] = (IF Indexed(d) /\ g = Group(d, e) THEN AtEnd(c.index[d][g], k)
                              ELSE c.index[d][g])
          /\ r.count[d][g] = (IF Counted(d) /\ g = Group(d, e) THEN c.count[d][g] + 1
                              ELSE c.count[d][g])
        BY <1>3, <1>4
    <2>4. Indexed(d) => ~Counted(d)
        BY CacheConstants DEF Indexed, Counted
    <2>5. k \notin M
        BY <2>1
    <2> HIDE DEF M
    <2>6. CASE g = Group(d, e)
        <3>1. Cardinality(M \cup {k}) = Cardinality(M) + 1
            BY <2>1, <2>5, FS_AddElement
        <3>2. Ordered(AtEnd(c.index[d][g], k))
              /\ KeysIn(AtEnd(c.index[d][g], k)) = KeysIn(c.index[d][g]) \cup {k}
            BY <2>1, AtEndOrder DEF GroupAgrees
        <3>3. AtEnd(Within(c.recency, M), k) = Within(r.recency, M \cup {k})
            BY <1>4, <2>1, AtEndWithin
        <3>4. Members(r, d, g) = M \cup {k}
            BY <2>2, <2>6
        <3> QED
            BY <2>1, <2>3, <2>6, <3>1, <3>2, <3>3, <3>4 DEF GroupAgrees, M
    <2>7. CASE g # Group(d, e)
        <3>1. Within(r.recency, M) = Within(c.recency, M)
            <4>1. Within(AtEnd(c.recency, k), M) = Within(c.recency, M)
                <5>1. M \subseteq KeysIn(c.recency) /\ k \in Keys /\ Ordered(c.recency)
                    BY <2>1
                <5> QED
                    BY <2>5, <5>1, AtEndWithin
            <4> QED
                BY <1>4, <4>1
        <3>2. Members(r, d, g) = M
            BY <2>2, <2>7
        <3> QED
            BY <2>1, <2>3, <2>7, <3>1, <3>2 DEF GroupAgrees, M
    <2> QED
        BY <2>6, <2>7
<1> QED
    BY <1>4, <1>5, <1>6, <1>7, <1>8, <1>9, <1>10 DEF Consistent, r, i, stored, Stored

\* A resident's entry is replaced: it goes to the end of the
\* recency order and into the group of its new region.
Replaced(c, k, e) ==
    LET replaced == [c EXCEPT !.entries[k] = e]
    IN  IndexUpdate(OnHit(replaced, k), k, c.entries[k], e)

LEMMA ReplaceKeeps ==
    ASSUME NEW c, Consistent(c), NEW k \in Residents(c), NEW e \in Entries,
           e.expires_at <= e.inserted_at + config.max_ttl
    PROVE  LET r == Replaced(c, k, e)
           IN  /\ Consistent(r)
               /\ Residents(r) = Residents(c)
               /\ r.entries[k] = e
               /\ \A j \in Residents(c) \ {k} : r.entries[j] = c.entries[j]
               /\ \A d \in Dimensions : \A g :
                     Members(r, d, g) = IF g = Group(d, e) THEN Members(c, d, g) \cup {k}
                                        ELSE Members(c, d, g) \ {k}
               /\ r.frequency = c.frequency /\ r.samples = c.samples
<1> DEFINE s == [c EXCEPT !.entries[k] = e]
           h == OnHit(s, k)
           x == c.entries[k]
           r == IndexUpdate(h, k, x, e)
<1>1. /\ DOMAIN c = Fields /\ k \in Keys /\ k \in KeysIn(c.recency)
      /\ x \in Entries /\ DOMAIN c.entries = Residents(c) /\ c.frequency \in [Keys -> Nat]
    BY DEF Consistent, Formed, RecencyAgrees, Residents
<1>2. /\ DOMAIN s = Fields /\ s.entries = [c.entries EXCEPT ![k] = e]
      /\ s.recency = c.recency /\ s.frequency = c.frequency
      /\ s.samples = c.samples /\ s.index = c.index /\ s.count = c.count
    BY <1>1 DEF Fields
<1> HIDE DEF s
<1>3. /\ DOMAIN h = Fields /\ h.entries = s.entries /\ h.recency = AtEnd(c.recency, k)
      /\ h.frequency = c.frequency /\ h.samples = c.samples
      /\ h.index = c.index /\ h.count = c.count
    BY <1>1, <1>2 DEF OnHit, Fields
<1> HIDE DEF h, x
<1>4. /\ DOMAIN r = Fields /\ r.entries = s.entries /\ r.recency = AtEnd(c.recency, k)
      /\ r.frequency = c.frequency /\ r.samples = c.samples
      /\ r.index = [d \in Dimensions |-> [g \in Groups[d] |->
            CASE ~Indexed(d)                      -> c.index[d][g]
              [] Indexed(d) /\ Group(d, x) # Group(d, e) /\ g = Group(d, x)
                   -> Without(c.index[d][g], {k})
              [] Indexed(d) /\ g = Group(d, e) /\ (Group(d, x) # Group(d, e) \/ ExactLru)
                   -> AtEnd(c.index[d][g], k)
              [] OTHER                            -> c.index[d][g]]]
      /\ r.count = [d \in Dimensions |-> [g \in Groups[d] |->
            CASE Counted(d) /\ Group(d, x) # Group(d, e) /\ g = Group(d, x) -> c.count[d][g] - 1
              [] Counted(d) /\ Group(d, x) # Group(d, e) /\ g = Group(d, e) -> c.count[d][g] + 1
              [] OTHER                            -> c.count[d][g]]]
    BY <1>3 DEF IndexUpdate, Fields
<1> HIDE DEF r
<1>5. /\ Residents(r) = Residents(c) /\ r.entries[k] = e
      /\ \A j \in Residents(c) \ {k} : r.entries[j] = c.entries[j]
      /\ r.entries = [j \in Residents(r) |-> r.entries[j]]
    BY <1>1, <1>2, <1>4 DEF Residents
<1>6. \A d \in Dimensions : \A g :
          Members(r, d, g) = IF g = Group(d, e) THEN Members(c, d, g) \cup {k}
                             ELSE Members(c, d, g) \ {k}
    <2> TAKE d \in Dimensions
    <2> TAKE g
    <2>1. \A j \in Residents(c) \ {k} : Group(d, r.entries[j]) = Group(d, c.entries[j])
        BY <1>5
    <2>2. Group(d, r.entries[k]) = Group(d, e)
        BY <1>5
    <2> QED
        BY <1>5, <2>1, <2>2 DEF Members
<1>7. Formed(r) /\ Lifetime(r)
    BY <1>1, <1>4, <1>5 DEF Consistent, Formed, Lifetime
<1>8. RecencyAgrees(r)
    <2>1. Ordered(AtEnd(c.recency, k)) /\ KeysIn(AtEnd(c.recency, k)) = KeysIn(c.recency) \cup {k}
        BY <1>1, AtEndOrder DEF Consistent, RecencyAgrees
    <2>2. KeysIn(c.recency) \cup {k} = Residents(c)
        BY <1>1 DEF Consistent, RecencyAgrees
    <2> QED
        BY <1>4, <1>5, <2>1, <2>2 DEF RecencyAgrees
<1>9. ASSUME NEW d \in Dimensions, NEW g \in Groups[d] PROVE GroupAgrees(r, d, g)
    <2> DEFINE M == Members(c, d, g)
               N == Members(r, d, g)
               i == c.index[d][g]
               o == c.recency
    <2>1. /\ GroupAgrees(c, d, g) /\ IsFiniteSet(M) /\ M \subseteq KeysIn(o) /\ Ordered(o)
          /\ Cardinality(M) \in Nat /\ (k \in M <=> g = Group(d, x))
          /\ Ordered(i) /\ (Indexed(d) => KeysIn(i) = M)
          /\ (ExactLru /\ Indexed(d) => i = Within(o, M))
          /\ (Counted(d) => c.count[d][g] = Cardinality(M))
        <3>1. GroupAgrees(c, d, g)
            BY DEF Consistent
        <3>2. IsFiniteSet(M) /\ Cardinality(M) \in Nat /\ M \subseteq Residents(c)
            BY MembersFinite DEF Consistent, Formed
        <3>3. Ordered(o) /\ KeysIn(o) = Residents(c)
            BY DEF Consistent, RecencyAgrees
        <3>4. k \in M <=> g = Group(d, x)
            BY DEF Members, x
        <3> QED
            BY <3>1, <3>2, <3>3, <3>4 DEF GroupAgrees
    <2>2. N = IF g = Group(d, e) THEN M \cup {k} ELSE M \ {k}
        BY <1>6
    <2>3. Indexed(d) => ~Counted(d)
        BY CacheConstants DEF Indexed, Counted
    <2>4. r.recency = AtEnd(o, k)
        BY <1>4
    <2>5. /\ Ordered(AtEnd(i, k)) /\ KeysIn(AtEnd(i, k)) = KeysIn(i) \cup {k}
          /\ Ordered(Without(i, {k})) /\ KeysIn(Without(i, {k})) = KeysIn(i) \ {k}
        BY <1>1, <2>1, AtEndOrder, WithoutOrder
    <2>6. /\ k \notin M => Within(AtEnd(o, k), M) = Within(o, M)
          /\ AtEnd(Within(o, M), k) = Within(AtEnd(o, k), M \cup {k})
        <3> HIDE DEF M, o
        <3> QED
            BY <1>1, <2>1, AtEndWithin
    <2>7. Within(AtEnd(o, k), M \ {k}) = Without(Within(o, M), {k})
        BY DEF Within, AtEnd, Without
    <2> HIDE DEF M, N, i, o
    <2>8. CASE g = Group(d, x) /\ g # Group(d, e)
        <3>1. Indexed(d) => r.index[d][g] = Without(i, {k})
            BY <1>4, <2>8 DEF i
        <3>2. ~Indexed(d) => r.index[d][g] = i
            BY <1>4 DEF i
        <3>3. Counted(d) => r.count[d][g] = c.count[d][g] - 1
            BY <1>4, <2>8
        <3>4. N = M \ {k} /\ Cardinality(M \ {k}) = Cardinality(M) - 1
            BY <2>1, <2>2, <2>8, FS_RemoveElement
        <3> QED
            BY <2>1, <2>4, <2>5, <2>7, <3>1, <3>2, <3>3, <3>4 DEF GroupAgrees, N
    <2>9. CASE g # Group(d, x) /\ g = Group(d, e)
        <3>1. Indexed(d) => r.index[d][g] = AtEnd(i, k)
            BY <1>4, <2>9 DEF i
        <3>2. ~Indexed(d) => r.index[d][g] = i
            BY <1>4 DEF i
        <3>3. Counted(d) => r.count[d][g] = c.count[d][g] + 1
            BY <1>4, <2>9
        <3>4. N = M \cup {k} /\ Cardinality(M \cup {k}) = Cardinality(M) + 1
            BY <2>1, <2>2, <2>9, FS_AddElement
        <3> QED
            BY <2>1, <2>4, <2>5, <2>6, <3>1, <3>2, <3>3, <3>4 DEF GroupAgrees, N
    <2>10. CASE g = Group(d, x) /\ g = Group(d, e)
        <3>1. r.index[d][g] = IF Indexed(d) /\ ExactLru THEN AtEnd(i, k) ELSE i
            <4> DEFINE same == Group(d, x) = Group(d, e)
            <4>1. r.index[d][g] =
                    CASE ~Indexed(d)                        -> i
                      [] Indexed(d) /\ ~same /\ g = Group(d, x) -> Without(i, {k})
                      [] Indexed(d) /\ g = Group(d, e) /\ (~same \/ ExactLru) -> AtEnd(i, k)
                      [] OTHER                              -> i
                BY <1>4 DEF i
            <4>2. same
                BY <2>10
            <4> HIDE DEF same
            <4> QED
                BY <2>10, <4>1, <4>2
        <3>2. r.count[d][g] = c.count[d][g]
            <4> DEFINE same == Group(d, x) = Group(d, e)
            <4>1. r.count[d][g] =
                    CASE Counted(d) /\ ~same /\ g = Group(d, x) -> c.count[d][g] - 1
                      [] Counted(d) /\ ~same /\ g = Group(d, e) -> c.count[d][g] + 1
                      [] OTHER                               -> c.count[d][g]
                BY <1>4
            <4>2. same
                BY <2>10
            <4> HIDE DEF same
            <4> QED
                BY <4>1, <4>2
        <3>3. N = M /\ M \cup {k} = M
            BY <2>1, <2>2, <2>10
        <3> QED
            <4>1. Ordered(r.index[d][g])
                BY <2>1, <2>5, <3>1
            <4>2. Indexed(d) => KeysIn(r.index[d][g]) = M
                BY <2>1, <2>5, <3>1, <3>3
            <4>3. ExactLru /\ Indexed(d) => r.index[d][g] = Within(r.recency, M)
                BY <2>1, <2>4, <2>6, <3>1, <3>3
            <4> QED
                BY <2>1, <3>2, <3>3, <4>1, <4>2, <4>3 DEF GroupAgrees, N
    <2>11. CASE g # Group(d, x) /\ g # Group(d, e)
        <3>1. r.index[d][g] = i /\ r.count[d][g] = c.count[d][g]
            BY <1>4, <2>11 DEF i
        <3>2. N = M /\ k \notin M
            BY <2>1, <2>2, <2>11
        <3> QED
            BY <2>1, <2>4, <2>6, <3>1, <3>2 DEF GroupAgrees, N
    <2> QED
        BY <2>8, <2>9, <2>10, <2>11
<1> QED
    BY <1>4, <1>5, <1>6, <1>7, <1>8, <1>9 DEF Consistent, r, h, s, x, Replaced

-----------------------------------------------------------------------------
(* The bounds, and the plans that keep them.                               *)

\* The group g of dimension d is within its quota, if it has one.
GroupBounded(c, d, g) ==
    config.quota[d] <= Capacity => Cardinality(Members(c, d, g)) <= config.quota[d]

Bounded(c) ==
    /\ Cardinality(Residents(c)) <= Capacity
    /\ \A d \in Dimensions : \A g \in Groups[d] : GroupBounded(c, d, g)

LEMMA QuotaType ==
    ASSUME config \in Settings
    PROVE  /\ Capacity \in Nat \ {0} /\ config.max_ttl \in Nat \ {0}
           /\ config.policy \in {"lru", "tinylfu", "lfu"}
           /\ \A d \in Dimensions : config.quota[d] \in Nat \ {0}
BY CacheConstants

\* A cache with fewer entries, or the same, is no closer to a bound.
LEMMA FewerBounded ==
    ASSUME config \in Settings, NEW c, Consistent(c), Bounded(c),
           NEW r, Residents(r) \subseteq Residents(c),
           \A k \in Residents(r) : r.entries[k] = c.entries[k]
    PROVE  Bounded(r)
<1>1. \A d, g : Members(r, d, g) \subseteq Members(c, d, g)
    BY DEF Members
<1>2. Residents(c) \subseteq Keys /\ Residents(r) \subseteq Keys
    BY DEF Consistent, Formed
<1>3. /\ Cardinality(Residents(r)) \in Nat /\ Cardinality(Residents(c)) \in Nat
      /\ Cardinality(Residents(r)) <= Cardinality(Residents(c))
    BY <1>2, MembersFinite, FS_Subset
<1>4. \A d, g : /\ Cardinality(Members(r, d, g)) \in Nat /\ Cardinality(Members(c, d, g)) \in Nat
                /\ Cardinality(Members(r, d, g)) <= Cardinality(Members(c, d, g))
    BY <1>1, <1>2, MembersFinite, FS_Subset
<1> QED
    BY <1>3, <1>4, QuotaType DEF Bounded, GroupBounded

\* Pressure means what it says: the group has filled its quota.
LEMMA PressedGroup ==
    ASSUME config \in Settings, NEW c, Consistent(c),
           NEW d \in Dimensions, NEW g \in Groups[d]
    PROVE  Pressed(c, d, g) <=> /\ config.quota[d] <= Capacity
                                /\ Cardinality(Members(c, d, g)) >= config.quota[d]
BY QuotaType DEF Consistent, GroupAgrees, Pressed, Indexed, Counted

\* A victim is chosen from the pool.
LEMMA ChosenFromPool ==
    ASSUME config \in Settings, NEW c, Consistent(c), NEW k, NEW S, S \subseteq Residents(c),
           NEW v \in ChooseVictim(c, k, S)
    PROVE  v \in S
<1>1. CASE config.policy = "lru"
    <2>1. v \in KeysIn(c.recency) \ (Keys \ S)
        BY <1>1 DEF ChooseVictim, First
    <2> QED
        BY <2>1 DEF Consistent, RecencyAgrees, Formed
<1>2. CASE config.policy = "lfu"
    BY <1>2 DEF ChooseVictim, Coldest
<1>3. CASE config.policy = "tinylfu"
    BY <1>3 DEF ChooseVictim, Coldest
<1> QED
    BY <1>1, <1>2, <1>3, QuotaType

LEMMA QuotaVictim ==
    ASSUME config \in Settings, NEW c, Consistent(c), NEW k,
           NEW d \in Dimensions, NEW g \in Groups[d], NEW X,
           NEW v \in QuotaVictims(c, k, d, g, X)
    PROVE  v \in Members(c, d, g) \ X
<1> DEFINE pool == IF Indexed(d) THEN KeysIn(c.index[d][g]) ELSE Residents(c)
<1>1. pool \subseteq Residents(c)
    BY DEF Consistent, GroupAgrees, Members
<1>2. v \in Members(c, d, g)
    BY DEF QuotaVictims
<1>3. CASE ExactLru /\ Indexed(d)
    BY <1>2, <1>3 DEF QuotaVictims, First
<1>4. CASE ~(ExactLru /\ Indexed(d))
    <2>1. v \in ChooseVictim(c, k, pool \ X)
        BY <1>4 DEF QuotaVictims
    <2> HIDE DEF pool
    <2>2. v \in pool \ X
        BY <1>1, <2>1, ChosenFromPool
    <2> QED
        BY <1>2, <2>2
<1> QED
    BY <1>3, <1>4

\* What a plan gives up: residents, at most two, each of them for the group of the new
\* entry it shares or because the cache is full.
Serves(c, e, v) ==
    \E d \in Dimensions : Group(d, c.entries[v]) = Group(d, e)

\* What a plan makes room for: one more entry in the group.
Relieved(c, d, g, plan) ==
    config.quota[d] <= Capacity => Cardinality(Members(c, d, g) \ plan) < config.quota[d]

LEMMA GivingOneUp ==
    ASSUME config \in Settings, NEW c, Consistent(c), Bounded(c),
           NEW d \in Dimensions, NEW g \in Groups[d]
    PROVE  /\ \A v \in Members(c, d, g) : \A P : v \in P => Relieved(c, d, g, P)
           /\ ~Pressed(c, d, g) => \A P : Relieved(c, d, g, P)
<1> DEFINE M == Members(c, d, g)
           q == config.quota[d]
<1>1. /\ IsFiniteSet(M) /\ Cardinality(M) \in Nat /\ q \in Nat \ {0} /\ Capacity \in Nat
      /\ (q <= Capacity => Cardinality(M) <= q)
    BY MembersFinite, QuotaType DEF Consistent, Formed, Bounded, GroupBounded
<1>2. Pressed(c, d, g) <=> q <= Capacity /\ Cardinality(M) >= q
    BY PressedGroup
<1> HIDE DEF M, q
<1>3. \A P : Cardinality(M \ P) \in Nat /\ Cardinality(M \ P) <= Cardinality(M)
    <2> TAKE P
    <2>1. IsFiniteSet(M \ P) /\ Cardinality(M \ P) <= Cardinality(M)
        BY <1>1, FS_Subset, M \ P \subseteq M
    <2> QED
        BY <2>1, FS_CardinalityType
<1>4. ASSUME NEW v \in M, NEW P, v \in P PROVE Cardinality(M \ P) < Cardinality(M)
    <2>1. IsFiniteSet(M \ {v}) /\ Cardinality(M \ {v}) = Cardinality(M) - 1
        BY <1>1, FS_RemoveElement, FS_Subset, M \ {v} \subseteq M
    <2>2. Cardinality(M \ P) <= Cardinality(M \ {v})
        BY <1>4, <2>1, FS_Subset, M \ P \subseteq M \ {v}
    <2> QED
        <3> DEFINE n == Cardinality(M \ P)
        <3>1. n \in Nat /\ n <= Cardinality(M \ {v})
            BY <1>3, <2>2
        <3> HIDE DEF n
        <3>2. n < Cardinality(M)
            BY <1>1, <2>1, <3>1
        <3> QED
            BY <3>2 DEF n
<1>5. \A v \in M : \A P : v \in P => Relieved(c, d, g, P)
    BY <1>1, <1>3, <1>4 DEF Relieved, M, q
<1>6. ~Pressed(c, d, g) => \A P : Relieved(c, d, g, P)
    BY <1>1, <1>2, <1>3 DEF Relieved, M, q
<1> QED
    BY <1>5, <1>6 DEF M

\* The plan for the account: none, or one of its members.
LEMMA AccountPlan ==
    ASSUME config \in Settings, NEW c, Consistent(c), Bounded(c), NEW k, NEW e \in Entries,
           NEW plan \in AccountPlans(c, k, e)
    PROVE  /\ plan = {} \/ \E v \in Members(c, "account", Group("account", e)) : plan = {v}
           /\ \A P : plan \subseteq P => Relieved(c, "account", Group("account", e), P)
<1> DEFINE g == Group("account", e)
<1>1. "account" \in Dimensions /\ g \in Groups["account"]
    BY GroupType DEF Dimensions
<1> HIDE DEF g
<1>2. CASE Pressed(c, "account", g)
    <2>1. PICK v \in QuotaVictims(c, k, "account", g, {}) : plan = {v}
        BY <1>2 DEF AccountPlans, g
    <2>2. v \in Members(c, "account", g)
        BY <1>1, <2>1, QuotaVictim
    <2> QED
        BY <1>1, <2>1, <2>2, GivingOneUp DEF g
<1>3. CASE ~Pressed(c, "account", g)
    BY <1>1, <1>3, GivingOneUp DEF AccountPlans, g
<1> QED
    BY <1>2, <1>3

\* The plan for both quotas.
LEMMA RegionPlan ==
    ASSUME config \in Settings, NEW c, Consistent(c), Bounded(c), NEW k, NEW e \in Entries,
           NEW plan \in RegionPlans(c, k, e)
    PROVE  /\ plan \subseteq Residents(c) /\ IsFiniteSet(plan) /\ Cardinality(plan) <= 2
           /\ \A v \in plan : Serves(c, e, v)
           /\ \A d \in Dimensions : \A P : plan \subseteq P => Relieved(c, d, Group(d, e), P)
<1>1. PICK p \in AccountPlans(c, k, e) :
          plan \in (IF NeedsRegionVictim(c, e, p)
                    THEN {p \cup {v} : v \in QuotaVictims(c, k, "region", e.region, p)}
                    ELSE {p})
    BY DEF RegionPlans
<1>2. /\ "region" \in Dimensions /\ "account" \in Dimensions
      /\ Group("region", e) = e.region /\ e.region \in Groups["region"]
      /\ \A v : Group("region", c.entries[v]) = c.entries[v].region
    BY GroupType DEF Dimensions, Group
<1>3. /\ p = {} \/ \E v \in Members(c, "account", Group("account", e)) : p = {v}
      /\ \A P : p \subseteq P => Relieved(c, "account", Group("account", e), P)
    BY AccountPlan
<1>4. /\ IsFiniteSet(p) /\ Cardinality(p) \in {0, 1}
      /\ p \subseteq Members(c, "account", Group("account", e))
    BY <1>3, FS_EmptySet, FS_Singleton
<1>5. \A d \in Dimensions : \A v \in Members(c, d, Group(d, e)) :
          v \in Residents(c) /\ Serves(c, e, v)
    BY DEF Members, Serves
<1>6. CASE NeedsRegionVictim(c, e, p)
    <2>1. PICK v \in QuotaVictims(c, k, "region", e.region, p) : plan = p \cup {v}
        BY <1>1, <1>6
    <2>2. v \in Members(c, "region", e.region)
        BY <1>2, <2>1, QuotaVictim
    <2>3. IsFiniteSet(plan) /\ Cardinality(plan) <= 2
        <3>1. /\ IsFiniteSet(p \cup {v})
              /\ Cardinality(p \cup {v}) = Cardinality(p) \/ Cardinality(p \cup {v}) = Cardinality(p) + 1
            BY <1>4, FS_AddElement
        <3> QED
            BY <1>4, <2>1, <3>1
    <2>4. \A P : plan \subseteq P => Relieved(c, "region", e.region, P)
        BY <1>2, <2>1, <2>2, GivingOneUp
    <2> QED
        BY <1>2, <1>3, <1>4, <1>5, <2>1, <2>2, <2>3, <2>4 DEF Dimensions
<1>7. CASE ~NeedsRegionVictim(c, e, p)
    <2>1. plan = p
        BY <1>1, <1>7
    <2>2. ~Pressed(c, "region", e.region) \/ \E v \in p : c.entries[v].region = e.region
        BY <1>7 DEF NeedsRegionVictim
    <2>3. \A v \in p : c.entries[v].region = e.region => v \in Members(c, "region", e.region)
        BY <1>2, <1>4 DEF Members
    <2>4. \A P : p \subseteq P => Relieved(c, "region", e.region, P)
        BY <1>2, <2>2, <2>3, GivingOneUp
    <2> QED
        BY <1>2, <1>3, <1>4, <1>5, <2>1, <2>4 DEF Dimensions
<1> QED
    BY <1>6, <1>7

\* The full plan also keeps the capacity.
LEMMA FullPlan ==
    ASSUME config \in Settings, NEW c, Consistent(c), Bounded(c), NEW k, NEW e \in Entries,
           NEW plan \in Plans(c, k, e)
    PROVE  /\ plan \subseteq Residents(c) /\ IsFiniteSet(plan) /\ Cardinality(plan) <= 2
           /\ \A v \in plan : Serves(c, e, v) \/ Cardinality(Residents(c)) = Capacity
           /\ \A d \in Dimensions : Relieved(c, d, Group(d, e), plan)
           /\ Cardinality(Residents(c) \ plan) < Capacity
<1>1. PICK p \in RegionPlans(c, k, e) :
          plan \in (IF Cardinality(Residents(c)) - Cardinality(p) >= Capacity
                    THEN {p \cup {v} : v \in CapacityVictims(c, k, p)} ELSE {p})
    BY DEF Plans
<1>2. /\ p \subseteq Residents(c) /\ IsFiniteSet(p) /\ Cardinality(p) <= 2
      /\ \A v \in p : Serves(c, e, v)
      /\ \A d \in Dimensions : \A P : p \subseteq P => Relieved(c, d, Group(d, e), P)
    BY RegionPlan
<1> DEFINE R == Residents(c)
<1>3. /\ IsFiniteSet(R) /\ Cardinality(R) \in Nat /\ Cardinality(p) \in Nat /\ Capacity \in Nat
      /\ Cardinality(R) <= Capacity /\ p \subseteq R
    BY <1>2, MembersFinite, QuotaType, FS_CardinalityType DEF Consistent, Formed, Bounded
<1> HIDE DEF R
<1>4. CASE Cardinality(R) - Cardinality(p) >= Capacity
    <2>1. PICK v \in CapacityVictims(c, k, p) : plan = p \cup {v}
        BY <1>1, <1>4 DEF R
    <2>2. v \in R
        BY <2>1 DEF CapacityVictims, R
    <2>3. Cardinality(p) = 0 /\ Cardinality(R) = Capacity
        BY <1>3, <1>4
    <2>4. p = {}
        BY <1>2, <2>3, FS_EmptySet
    <2>5. IsFiniteSet(plan) /\ Cardinality(plan) <= 2
        <3>1. plan = {v}
            BY <2>1, <2>4
        <3>2. IsFiniteSet({v}) /\ Cardinality({v}) = 1
            BY FS_Singleton
        <3> QED
            BY <3>1, <3>2
    <2>6. Cardinality(R \ plan) < Capacity
        <3>1. Cardinality(R \ {v}) = Cardinality(R) - 1
            BY <1>3, <2>2, FS_RemoveElement
        <3> QED
            BY <1>3, <2>1, <2>4, <3>1
    <2> QED
        BY <1>2, <2>1, <2>2, <2>3, <2>5, <2>6 DEF R
<1>5. CASE ~(Cardinality(R) - Cardinality(p) >= Capacity)
    <2>1. plan = p
        BY <1>1, <1>5 DEF R
    <2>2. Cardinality(R \ p) = Cardinality(R) - Cardinality(p)
        <3>1. Cardinality(R \ p) = Cardinality(R) - Cardinality(R \cap p) /\ R \cap p = p
            BY <1>3, FS_Difference
        <3> QED
            BY <3>1
    <2> QED
        BY <1>2, <1>3, <1>5, <2>1, <2>2 DEF R
<1> QED
    BY <1>4, <1>5

\* The plan of a move gives up at most one key of the new region, and none when the
\* entry stays where it was.
LEMMA MovePlan ==
    ASSUME config \in Settings, NEW c, Consistent(c), Bounded(c), NEW k \in Residents(c),
           NEW e \in Entries, NEW plan \in MovePlans(c, k, e)
    PROVE  /\ plan \subseteq Members(c, "region", e.region) \ {k}
           /\ IsFiniteSet(plan) /\ Cardinality(plan) <= 1
           /\ plan # {} => c.entries[k].region # e.region
           /\ c.entries[k].region # e.region => Relieved(c, "region", e.region, plan)
<1>1. /\ "region" \in Dimensions /\ Group("region", e) = e.region
      /\ e.region \in Groups["region"]
      /\ \A v : Group("region", c.entries[v]) = c.entries[v].region
    BY GroupType DEF Dimensions, Group
<1>2. CASE c.entries[k].region # e.region /\ Pressed(c, "region", e.region)
    <2>1. PICK v \in QuotaVictims(c, k, "region", e.region, {}) : plan = {v}
        BY <1>2 DEF MovePlans
    <2>2. v \in Members(c, "region", e.region)
        BY <1>1, <2>1, QuotaVictim
    <2>3. v # k
        BY <1>1, <1>2, <2>2 DEF Members
    <2>4. IsFiniteSet(plan) /\ Cardinality(plan) = 1
        BY <2>1, FS_Singleton
    <2>5. Relieved(c, "region", e.region, plan)
        BY <1>1, <2>1, <2>2, GivingOneUp
    <2> QED
        BY <1>2, <2>1, <2>2, <2>3, <2>4, <2>5
<1>3. CASE ~(c.entries[k].region # e.region /\ Pressed(c, "region", e.region))
    <2>1. plan = {}
        BY <1>3 DEF MovePlans
    <2>2. c.entries[k].region # e.region => Relieved(c, "region", e.region, plan)
        BY <1>1, <1>3, GivingOneUp
    <2> QED
        BY <2>1, <2>2, FS_EmptySet
<1> QED
    BY <1>2, <1>3

-----------------------------------------------------------------------------
(* The history TinyLFU remembers.                                          *)

LEMMA RememberedFinite ==
    ASSUME NEW f
    PROVE  IsFiniteSet(Remembered(f)) /\ Cardinality(Remembered(f)) \in Nat
<1>1. IsFiniteSet(1 .. MaxFrequency)
    BY CacheConstants, FS_Interval
<1>2. IsFiniteSet(Keys \X (1 .. MaxFrequency))
    BY <1>1, CacheConstants, FS_Product
<1>3. Remembered(f) \subseteq Keys \X (1 .. MaxFrequency)
    BY DEF Remembered
<1> QED
    BY <1>2, <1>3, FS_Subset, FS_CardinalityType

\* An observation adds one.
LEMMA CountingAddsOne ==
    ASSUME NEW f \in [Keys -> Nat], NEW k \in Keys
    PROVE  Cardinality(Remembered([f EXCEPT ![k] = Capped(f[k] + 1)]))
              <= Cardinality(Remembered(f)) + 1
<1> DEFINE h == [f EXCEPT ![k] = Capped(f[k] + 1)]
           new == <<k, f[k] + 1>>
<1>1. /\ h \in [Keys -> Nat] /\ h[k] <= f[k] + 1
      /\ \A j \in Keys : j # k => h[j] = f[j]
    BY CacheConstants DEF Capped
<1> HIDE DEF h
<1>2. Remembered(h) \subseteq Remembered(f) \cup {new}
    <2> SUFFICES ASSUME NEW p \in Remembered(h), p # new PROVE p \in Remembered(f)
        OBVIOUS
    <2>1. PICK j \in Keys, i \in 1 .. MaxFrequency : p = <<j, i>> /\ i <= h[j]
        BY DEF Remembered
    <2>2. i <= f[j]
        BY <1>1, <2>1, CacheConstants
    <2> QED
        BY <2>1, <2>2 DEF Remembered
<1> HIDE DEF new
<1>3. /\ IsFiniteSet(Remembered(f) \cup {new})
      /\ Cardinality(Remembered(f) \cup {new}) \in {Cardinality(Remembered(f)),
                                                     Cardinality(Remembered(f)) + 1}
    BY RememberedFinite, FS_AddElement
<1>4. Cardinality(Remembered(h)) <= Cardinality(Remembered(f) \cup {new})
    BY <1>2, <1>3, FS_Subset
<1> QED
    BY <1>3, <1>4, RememberedFinite DEF h

\* Halving forgets at least half: each observation kept stands for two.
LEMMA HalvingForgets ==
    ASSUME NEW f \in [Keys -> Nat], \A k \in Keys : f[k] <= MaxFrequency
    PROVE  2 * Cardinality(Remembered([k \in Keys |-> f[k] \div 2]))
              <= Cardinality(Remembered(f))
<1> DEFINE half == [k \in Keys |-> f[k] \div 2]
           H == Remembered(half)
           S == H \X {0, 1}
           T == Remembered(f)
           F == [q \in S |-> <<q[1][1], 2 * q[1][2] - q[2]>>]
<1>1. ASSUME NEW q \in S
      PROVE  \E k \in Keys, i \in 1 .. MaxFrequency, b \in {0, 1} :
                /\ q = <<<<k, i>>, b>> /\ 2 * i <= f[k]
                /\ F[q] = <<k, 2 * i - b>>
    <2>1. PICK p \in H, b \in {0, 1} : q = <<p, b>>
        OBVIOUS
    <2>2. PICK k \in Keys, i \in 1 .. MaxFrequency : p = <<k, i>> /\ i <= half[k]
        BY DEF Remembered
    <2>3. i <= f[k] \div 2 /\ f[k] \in Nat /\ i \in Nat
        BY <2>2, CacheConstants
    <2>4. 2 * i <= f[k]
        BY <2>3
    <2>5. F[q] = <<k, 2 * i - b>>
        BY <2>1, <2>2
    <2> QED
        BY <2>1, <2>2, <2>4, <2>5
<1>2. ASSUME NEW q \in S PROVE F[q] \in T
    <2>1. PICK k \in Keys, i \in 1 .. MaxFrequency, b \in {0, 1} :
             2 * i <= f[k] /\ F[q] = <<k, 2 * i - b>>
        BY <1>1
    <2> HIDE DEF F
    <2>2. f[k] \in Nat /\ f[k] <= MaxFrequency /\ MaxFrequency \in Nat
        BY CacheConstants
    <2>3. 2 * i - b \in 1 .. MaxFrequency /\ 2 * i - b <= f[k]
        BY <2>1, <2>2
    <2> QED
        BY <2>1, <2>3 DEF Remembered
<1>3. ASSUME NEW q \in S, NEW r \in S, F[q] = F[r] PROVE q = r
    <2> HIDE DEF F, S
    <2>1. PICK k \in Keys, i \in 1 .. MaxFrequency, b \in {0, 1} :
             q = <<<<k, i>>, b>> /\ F[q] = <<k, 2 * i - b>>
        BY <1>1
    <2>2. PICK j \in Keys, n \in 1 .. MaxFrequency, a \in {0, 1} :
             r = <<<<j, n>>, a>> /\ F[r] = <<j, 2 * n - a>>
        BY <1>1
    <2>3. k = j /\ 2 * i - b = 2 * n - a
        BY <1>3, <2>1, <2>2
    <2>4. i = n /\ b = a
        <3>1. i \in Nat /\ n \in Nat /\ b \in {0, 1} /\ a \in {0, 1}
            BY CacheConstants
        <3> QED
            BY <2>3, <3>1
    <2> QED
        BY <2>1, <2>2, <2>3, <2>4
<1>4. F \in [S -> T]
    BY <1>2
<1>5. F \in Injection(S, T)
    <2> HIDE DEF F, S, T
    <2> QED
        BY <1>3, <1>4, Fun_IsInj
<1> HIDE DEF F, H, T, S
<1>6. /\ IsFiniteSet(T) /\ Cardinality(T) \in Nat /\ IsFiniteSet(H) /\ Cardinality(H) \in Nat
    BY RememberedFinite DEF T, H
<1>7. Cardinality(S) <= Cardinality(T)
    BY <1>5, <1>6, FS_Injection
<1>8. Cardinality(S) = Cardinality(H) * 2
    <2>1. IsFiniteSet({0, 1}) /\ Cardinality({0, 1}) = 2
        <3>1. IsFiniteSet({0}) /\ Cardinality({0}) = 1
            BY FS_Singleton
        <3>2. IsFiniteSet({0} \cup {1}) /\ Cardinality({0} \cup {1}) = 1 + 1
            BY <3>1, FS_AddElement, 1 \notin {0}
        <3>3. {0} \cup {1} = {0, 1}
            OBVIOUS
        <3> QED
            BY <3>2, <3>3
    <2> QED
        BY <1>6, <2>1, FS_Product DEF S
<1> QED
    BY <1>6, <1>7, <1>8 DEF H, T

\* What the cache remembers of its history.
Remembers(c) ==
    config.policy = "tinylfu" =>
        /\ \A k \in Keys : c.frequency[k] <= MaxFrequency
        /\ Cardinality(Remembered(c.frequency)) <= ResetAfter + c.samples
        /\ c.samples < ResetAfter

LEMMA ObserveRemembers ==
    ASSUME NEW c, Consistent(c), Remembers(c), NEW k \in Keys
    PROVE  Remembers(Observe(c, k))
<1> SUFFICES ASSUME config.policy = "tinylfu" PROVE Remembers(Observe(c, k))
    BY DEF Remembers
<1> DEFINE f == c.frequency
           counted == [f EXCEPT ![k] = Capped(f[k] + 1)]
           half == [j \in Keys |-> counted[j] \div 2]
           r == Observe(c, k)
<1>1. /\ f \in [Keys -> Nat] /\ DOMAIN c = Fields /\ c.samples \in Nat
      /\ \A j \in Keys : f[j] <= MaxFrequency
      /\ Cardinality(Remembered(f)) <= ResetAfter + c.samples /\ c.samples < ResetAfter
      /\ MaxFrequency \in Nat /\ ResetAfter \in Nat \ {0}
    BY CacheConstants DEF Consistent, Formed, Remembers
<1>2. counted \in [Keys -> Nat] /\ \A j \in Keys : counted[j] <= MaxFrequency
    BY <1>1 DEF Capped
<1>3. Cardinality(Remembered(counted)) <= Cardinality(Remembered(f)) + 1
    <2> HIDE DEF f
    <2> QED
        BY <1>1, CountingAddsOne
<1>4. /\ c.samples + 1 >= ResetAfter => r.frequency = half /\ r.samples = 0
      /\ ~(c.samples + 1 >= ResetAfter) => r.frequency = counted /\ r.samples = c.samples + 1
    <2> HIDE DEF counted
    <2>1. r = IF c.samples + 1 >= ResetAfter
              THEN [c EXCEPT !.frequency = half, !.samples = 0]
              ELSE [c EXCEPT !.frequency = counted, !.samples = c.samples + 1]
        BY DEF Observe, counted
    <2> HIDE DEF r, half
    <2> QED
        BY <1>1, <2>1 DEF Fields
<1> HIDE DEF r
<1>5. CASE c.samples + 1 >= ResetAfter
    <2> HIDE DEF counted, f
    <2>1. 2 * Cardinality(Remembered(half)) <= Cardinality(Remembered(counted))
        BY <1>2, HalvingForgets
    <2>2. \A j \in Keys : half[j] <= MaxFrequency
        BY <1>1, <1>2
    <2> HIDE DEF half
    <2>3. Cardinality(Remembered(half)) <= ResetAfter
        <3> DEFINE a == Cardinality(Remembered(half))
                   b == Cardinality(Remembered(counted))
                   n == Cardinality(Remembered(f))
        <3>1. a \in Nat /\ b \in Nat /\ n \in Nat
            BY RememberedFinite
        <3>2. 2 * a <= b /\ b <= n + 1 /\ n <= ResetAfter + c.samples
            BY <1>1, <1>3, <2>1
        <3> HIDE DEF a, b, n
        <3>3. a <= ResetAfter
            BY <1>1, <3>1, <3>2
        <3> QED
            BY <3>3 DEF a
    <2>4. 0 < ResetAfter /\ ResetAfter + 0 = ResetAfter
        BY <1>1
    <2> QED
        BY <1>4, <1>5, <2>2, <2>3, <2>4 DEF Remembers, r
<1>6. CASE ~(c.samples + 1 >= ResetAfter)
    <2> HIDE DEF counted, f
    <2>1. Cardinality(Remembered(counted)) <= ResetAfter + (c.samples + 1)
        <3>1. Cardinality(Remembered(counted)) \in Nat /\ Cardinality(Remembered(f)) \in Nat
            BY RememberedFinite
        <3> QED
            BY <1>1, <1>3, <3>1
    <2>2. c.samples + 1 < ResetAfter
        BY <1>1, <1>6
    <2> QED
        BY <1>2, <1>4, <1>6, <2>1, <2>2 DEF Remembers, r
<1> QED
    BY <1>5, <1>6

-----------------------------------------------------------------------------
(* The calls.                                                              *)

Sound(c) == Consistent(c) /\ Bounded(c) /\ Remembers(c)

\* No entry changes, and none is added.
Shrinks(c, r) ==
    /\ Residents(r) \subseteq Residents(c)
    /\ \A k \in Residents(r) : r.entries[k] = c.entries[k]

LEMMA ObserveSound ==
    ASSUME config \in Settings, NEW c, Sound(c), NEW k \in Keys
    PROVE  Sound(Observe(c, k)) /\ Observe(c, k).entries = c.entries
<1>1. Consistent(Observe(c, k)) /\ Observe(c, k).entries = c.entries
    BY ObserveKeeps DEF Sound, SameEntries
<1>2. Bounded(Observe(c, k))
    BY <1>1, FewerBounded DEF Sound, Residents
<1> QED
    BY <1>1, <1>2, ObserveRemembers DEF Sound

LEMMA TouchSound ==
    ASSUME config \in Settings, NEW c, Sound(c), NEW k \in Residents(c)
    PROVE  LET r == IndexTouch(OnHit(c, k), k)
           IN  Sound(r) /\ r.entries = c.entries
<1> DEFINE r == IndexTouch(OnHit(c, k), k)
<1>1. Consistent(r) /\ r.entries = c.entries /\ r.frequency = c.frequency /\ r.samples = c.samples
    BY TouchKeeps DEF Sound
<1> HIDE DEF r
<1>2. Bounded(r)
    BY <1>1, FewerBounded DEF Sound, Residents
<1>3. Remembers(r)
    BY <1>1 DEF Sound, Remembers
<1> QED
    BY <1>1, <1>2, <1>3 DEF Sound, r

LEMMA RemoveAllSound ==
    ASSUME config \in Settings, NEW c, Sound(c), NEW K
    PROVE  LET r == RemoveAll(c, K)
           IN  Sound(r) /\ Shrinks(c, r) /\ Residents(r) = Residents(c) \ K
<1> DEFINE r == RemoveAll(c, K)
<1>1. /\ Consistent(r) /\ Residents(r) = Residents(c) \ K
      /\ \A k \in Residents(r) : r.entries[k] = c.entries[k]
      /\ config.policy # "lfu" => r.frequency = c.frequency
      /\ r.samples = c.samples
    BY RemoveAllKeeps DEF Sound
<1> HIDE DEF r
<1>2. Bounded(r)
    BY <1>1, FewerBounded DEF Sound
<1>3. Remembers(r)
    <2>1. CASE config.policy = "tinylfu"
        BY <1>1, <2>1 DEF Sound, Remembers
    <2>2. CASE config.policy # "tinylfu"
        BY <2>2 DEF Remembers
    <2> QED
        BY <2>1, <2>2
<1> QED
    BY <1>1, <1>2, <1>3 DEF Sound, Shrinks, r

\* An expired entry is all that a purge removes.
LEMMA PurgeSound ==
    ASSUME config \in Settings, NEW c, Sound(c), NEW now
    PROVE  /\ Sound(Purge(c, now)) /\ Shrinks(c, Purge(c, now))
           /\ \A k \in Residents(c) \ Residents(Purge(c, now)) : c.entries[k].expires_at <= now
BY RemoveAllSound DEF Purge

\* What was given up may be filled by one entry.
LEMMA Refill ==
    ASSUME config \in Settings, NEW c, Consistent(c), NEW M, M \subseteq Residents(c),
           NEW P, NEW k, NEW n \in Nat, Cardinality(M \ P) < n
    PROVE  Cardinality((M \ P) \cup {k}) <= n
<1>1. IsFiniteSet(M \ P)
    BY MembersFinite, FS_Subset, M \ P \subseteq Residents(c) DEF Consistent, Formed
<1>2. /\ Cardinality(M \ P) \in Nat
      /\ Cardinality((M \ P) \cup {k}) = Cardinality(M \ P)
         \/ Cardinality((M \ P) \cup {k}) = Cardinality(M \ P) + 1
    BY <1>1, FS_CardinalityType, FS_AddElement
<1> QED
    BY <1>2

\* The store of a new key after its plan was carried out.
LEMMA InsertSound ==
    ASSUME config \in Settings, NEW c, Sound(c), NEW k \in Keys \ Residents(c),
           NEW e \in Entries, e.expires_at <= e.inserted_at + config.max_ttl,
           NEW plan \in Plans(c, k, e)
    PROVE  LET r == Stored(RemoveAll(c, plan), k, e)
           IN  /\ Sound(r) /\ Residents(r) = (Residents(c) \ plan) \cup {k}
               /\ r.entries[k] = e
<1> DEFINE v == RemoveAll(c, plan)
           r == Stored(v, k, e)
<1>1. /\ Consistent(v) /\ Remembers(v) /\ Residents(v) = Residents(c) \ plan
      /\ \A d, g : Members(v, d, g) = Members(c, d, g) \ plan
    BY RemoveAllKeeps, RemoveAllSound DEF Sound
<1> HIDE DEF v
<1>2. /\ Consistent(r) /\ Residents(r) = Residents(v) \cup {k} /\ r.entries[k] = e
      /\ \A d, g : Members(r, d, g)
                      = Members(v, d, g) \cup (IF g = Group(d, e) THEN {k} ELSE {})
      /\ config.policy # "lfu" => r.frequency = v.frequency
      /\ r.samples = v.samples
    <2>1. Consistent(v) /\ k \in Keys \ Residents(v)
        BY <1>1
    <2> QED
        BY <2>1, InsertKeeps
<1> HIDE DEF r
<1>3. /\ \A d \in Dimensions : Relieved(c, d, Group(d, e), plan)
      /\ Cardinality(Residents(c) \ plan) < Capacity
    BY FullPlan DEF Sound
<1>4. Cardinality(Residents(r)) <= Capacity
    <2>1. Residents(r) = (Residents(c) \ plan) \cup {k}
        BY <1>1, <1>2
    <2>2. Capacity \in Nat
        BY QuotaType
    <2> QED
        BY <1>3, <2>1, <2>2, Refill DEF Sound
<1>5. ASSUME NEW d \in Dimensions, NEW g \in Groups[d] PROVE GroupBounded(r, d, g)
    <2> SUFFICES ASSUME config.quota[d] <= Capacity
                 PROVE  Cardinality(Members(r, d, g)) <= config.quota[d]
        BY DEF GroupBounded
    <2> DEFINE M == Members(c, d, g)
    <2>1. /\ M \subseteq Residents(c) /\ config.quota[d] \in Nat
          /\ IsFiniteSet(M) /\ Cardinality(M) <= config.quota[d]
        BY MembersFinite, QuotaType DEF Sound, Consistent, Formed, Bounded, GroupBounded
    <2>2. CASE g = Group(d, e)
        <3>1. Cardinality(M \ plan) < config.quota[d]
            BY <1>3, <2>2 DEF Relieved
        <3>2. Members(r, d, g) = (M \ plan) \cup {k}
            BY <1>1, <1>2, <2>2
        <3> HIDE DEF M
        <3> QED
            BY <2>1, <3>1, <3>2, Refill DEF Sound
    <2>3. CASE g # Group(d, e)
        <3>1. Members(r, d, g) = M \ plan
            BY <1>1, <1>2, <2>3
        <3> HIDE DEF M
        <3>2. Cardinality(M \ plan) <= Cardinality(M)
            BY <2>1, FS_Subset, M \ plan \subseteq M
        <3>3. Cardinality(M \ plan) \in Nat /\ Cardinality(M) \in Nat
            BY <2>1, FS_Subset, FS_CardinalityType, M \ plan \subseteq M
        <3> QED
            BY <2>1, <3>1, <3>2, <3>3
    <2> QED
        BY <2>2, <2>3
<1>6. Remembers(r)
    BY <1>1, <1>2 DEF Remembers
<1> QED
    BY <1>1, <1>2, <1>4, <1>5, <1>6 DEF Sound, Bounded, r, v

\* The replacement of a resident's entry after the plan of its move was carried out.
LEMMA ReplaceSound ==
    ASSUME config \in Settings, NEW c, Sound(c), NEW k \in Residents(c),
           NEW e \in Entries, e.expires_at <= e.inserted_at + config.max_ttl,
           c.entries[k].scope = e.scope, NEW plan \in MovePlans(c, k, e)
    PROVE  LET r == Replaced(RemoveAll(c, plan), k, e)
           IN  Sound(r) /\ Residents(r) = Residents(c) \ plan /\ r.entries[k] = e
<1> DEFINE v == RemoveAll(c, plan)
           r == Replaced(v, k, e)
<1>1. /\ Consistent(v) /\ Remembers(v) /\ Residents(v) = Residents(c) \ plan
      /\ \A j \in Residents(v) : v.entries[j] = c.entries[j]
      /\ \A d, g : Members(v, d, g) = Members(c, d, g) \ plan
    BY RemoveAllKeeps, RemoveAllSound DEF Sound
<1>2. /\ plan \subseteq Members(c, "region", e.region) \ {k}
      /\ c.entries[k].region # e.region => Relieved(c, "region", e.region, plan)
    BY MovePlan DEF Sound
<1> HIDE DEF v
<1>3. k \in Residents(v) /\ v.entries[k] = c.entries[k]
    BY <1>1, <1>2
<1>4. /\ Consistent(r) /\ Residents(r) = Residents(v) /\ r.entries[k] = e
      /\ \A d \in Dimensions : \A g :
            Members(r, d, g) = IF g = Group(d, e) THEN Members(v, d, g) \cup {k}
                               ELSE Members(v, d, g) \ {k}
      /\ r.frequency = v.frequency /\ r.samples = v.samples
    <2>1. Consistent(v) /\ k \in Residents(v)
        BY <1>1, <1>3
    <2> QED
        BY <2>1, ReplaceKeeps
<1> HIDE DEF r
<1>5. Cardinality(Residents(r)) <= Capacity
    <2>1. /\ IsFiniteSet(Residents(c)) /\ Cardinality(Residents(c)) <= Capacity
          /\ Residents(r) \subseteq Residents(c)
        BY <1>1, <1>4, MembersFinite DEF Sound, Consistent, Formed, Bounded
    <2>2. Cardinality(Residents(r)) <= Cardinality(Residents(c))
        BY <2>1, FS_Subset
    <2>3. Cardinality(Residents(r)) \in Nat /\ Cardinality(Residents(c)) \in Nat
        BY <2>1, FS_Subset, FS_CardinalityType
    <2> QED
        BY <2>1, <2>2, <2>3, QuotaType
<1>6. ASSUME NEW d \in Dimensions, NEW g \in Groups[d] PROVE GroupBounded(r, d, g)
    <2> SUFFICES ASSUME config.quota[d] <= Capacity
                 PROVE  Cardinality(Members(r, d, g)) <= config.quota[d]
        BY DEF GroupBounded
    <2> DEFINE M == Members(c, d, g)
    <2>1. /\ M \subseteq Residents(c) /\ config.quota[d] \in Nat
          /\ IsFiniteSet(M) /\ Cardinality(M) <= config.quota[d]
        BY MembersFinite, QuotaType DEF Sound, Consistent, Formed, Bounded, GroupBounded
    <2>2. Members(r, d, g) = IF g = Group(d, e) THEN (M \ plan) \cup {k} ELSE (M \ plan) \ {k}
        BY <1>1, <1>4
    <2>3. CASE g = Group(d, e) /\ k \notin M
        <3>1. Group(d, c.entries[k]) # Group(d, e)
            BY <2>3 DEF Members
        <3>2. d = "region" /\ g = e.region /\ c.entries[k].region # e.region
            BY <2>3, <3>1 DEF Group, Dimensions
        <3>3. Cardinality(M \ plan) < config.quota[d]
            BY <1>2, <3>2 DEF Relieved
        <3> HIDE DEF M
        <3> QED
            BY <2>1, <2>2, <2>3, <3>3, Refill DEF Sound
    <2>4. CASE ~(g = Group(d, e) /\ k \notin M)
        <3>1. Members(r, d, g) \subseteq M
            <4> HIDE DEF M
            <4> QED
                BY <2>2, <2>4
        <3> HIDE DEF M
        <3>2. Cardinality(Members(r, d, g)) <= Cardinality(M)
            BY <2>1, <3>1, FS_Subset
        <3>3. Cardinality(Members(r, d, g)) \in Nat /\ Cardinality(M) \in Nat
            BY <2>1, <3>1, FS_Subset, FS_CardinalityType
        <3> QED
            BY <2>1, <3>2, <3>3
    <2> QED
        BY <2>3, <2>4
<1>7. Remembers(r)
    BY <1>1, <1>4 DEF Remembers
<1> QED
    BY <1>1, <1>4, <1>5, <1>6, <1>7 DEF Sound, Bounded, r, v

-----------------------------------------------------------------------------
(* The specification.                                                      *)

CacheInvariant ==
    /\ config \in Settings /\ clock \in Nat
    /\ Consistent(cache) /\ Bounded(cache) /\ Remembers(cache)

\* What a call does to the entries that are still alive.
ServesAdmission ==
    LET given == {k \in Residents(cache) \ Residents(cache') :
                     cache.entries[k].expires_at > clock}
        got == {k \in Residents(cache') : k \notin Residents(cache)
                     \/ cache'.entries[k] # cache.entries[k]}
    IN given # {} =>
         /\ Cardinality(given) <= 2
         /\ \E k \in got : \A v \in given :
              \/ \E d \in Dimensions :
                    Group(d, cache.entries[v]) = Group(d, cache'.entries[k])
              \/ Cardinality(Residents(cache)) = Capacity

\* A call that gives up expired entries only serves no admission.
LEMMA NothingGiven ==
    ASSUME \A k \in Residents(cache) \ Residents(cache') : ~(cache.entries[k].expires_at > clock)
    PROVE  ServesAdmission
BY DEF ServesAdmission

\* What every call does with a sound cache.
CallOutcome ==
    /\ config' = config /\ clock' = clock
    /\ Sound(cache')
    /\ ServesAdmission
    /\ \A h \in hit' : /\ h.key \in Residents(cache')
                       /\ cache'.entries[h.key].scope = h.scope
                       /\ h.at < cache'.entries[h.key].inserted_at + config.max_ttl

LEMMA LookupOutcome ==
    ASSUME CacheInvariant, NEW k \in Keys, NEW scope, Lookup(k, scope)
    PROVE  CallOutcome
<1> USE DEF CacheInvariant
<1> DEFINE c == Observe(cache, k)
<1>1. Sound(cache) /\ Sound(c) /\ c.entries = cache.entries
    BY ObserveSound DEF Sound
<1>2. Residents(c) = Residents(cache)
    BY <1>1 DEF Residents
<1> HIDE DEF c
<1>3. CASE LookupMiss(k) \/ \E now \in CallTimes : LookupMismatch(k, scope, now)
    <2>1. cache' = c /\ hit' = {} /\ config' = config /\ clock' = clock
        BY <1>3 DEF LookupMiss, LookupMismatch, c
    <2> QED
        BY <1>1, <1>2, <2>1, NothingGiven DEF CallOutcome
<1>4. ASSUME NEW now \in CallTimes, LookupExpired(k, now) PROVE CallOutcome
    <2>1. /\ cache' = RemoveAll(c, {k}) /\ hit' = {} /\ config' = config /\ clock' = clock
          /\ k \in Residents(cache) /\ cache.entries[k].expires_at <= now
        BY <1>4 DEF LookupExpired, c
    <2>2. Sound(cache') /\ Residents(cache') = Residents(cache) \ {k}
        BY <1>1, <1>2, <2>1, RemoveAllSound
    <2>3. ~(cache.entries[k].expires_at > clock)
        <3>1. now \in Nat /\ clock \in Nat /\ now <= clock
            BY DEF CallTimes
        <3>2. cache.entries[k].expires_at \in Nat
            BY <2>1 DEF Consistent, Formed, Entries
        <3> QED
            BY <2>1, <3>1, <3>2
    <2>4. ServesAdmission
        BY <2>2, <2>3, NothingGiven
    <2> QED
        BY <2>1, <2>2, <2>4 DEF CallOutcome
<1>5. ASSUME NEW now \in CallTimes, LookupHit(k, scope, now) PROVE CallOutcome
    <2>1. /\ cache' = IndexTouch(OnHit(c, k), k) /\ config' = config /\ clock' = clock
          /\ hit' = {[key |-> k, scope |-> scope, at |-> now]}
          /\ k \in Residents(cache) /\ cache.entries[k].expires_at > now
          /\ cache.entries[k].scope = scope
        BY <1>5 DEF LookupHit, c
    <2>2. Sound(cache') /\ cache'.entries = cache.entries
        BY <1>1, <1>2, <2>1, TouchSound
    <2>3. Residents(cache') = Residents(cache)
        BY <2>2 DEF Residents
    <2>4. now < cache.entries[k].inserted_at + config.max_ttl
        <3>1. now \in Nat /\ config.max_ttl \in Nat
            BY QuotaType DEF CallTimes
        <3>2. /\ cache.entries[k].expires_at \in Nat /\ cache.entries[k].inserted_at \in Nat
              /\ cache.entries[k].expires_at <= cache.entries[k].inserted_at + config.max_ttl
            BY <2>1 DEF Consistent, Formed, Lifetime, Entries
        <3> QED
            BY <2>1, <3>1, <3>2
    <2>5. \A h \in hit' : h.key = k /\ h.scope = scope /\ h.at = now
        BY <2>1
    <2>6. ServesAdmission
        BY <2>3, NothingGiven
    <2> QED
        BY <2>1, <2>2, <2>3, <2>4, <2>5, <2>6 DEF CallOutcome
<1> QED
    BY <1>3, <1>4, <1>5 DEF Lookup

\* The entry of an insertion.
LEMMA CandidateType ==
    ASSUME CacheInvariant, NEW now \in CallTimes, NEW ttl \in Ttls, NEW o \in Offers
    PROVE  LET e == Candidate(o.scope, o.region, ttl, now)
           IN  e \in Entries /\ e.expires_at <= e.inserted_at + config.max_ttl
               /\ e.expires_at > now
<1> DEFINE life == IF ttl < config.max_ttl THEN ttl ELSE config.max_ttl
<1>1. /\ now \in Nat /\ ttl \in Nat \ {0} /\ config.max_ttl \in Nat \ {0}
      /\ o.scope \in Scopes /\ o.region \in Regions
    BY CacheConstants, QuotaType DEF CallTimes, CacheInvariant
<1>2. /\ life \in Nat \ {0} /\ now + life \in Nat /\ now + life <= now + config.max_ttl
      /\ now + life > now
    BY <1>1
<1> QED
    BY <1>1, <1>2 DEF Candidate, Entries

\* What an insertion finds once it has purged the cache.
LEMMA Purged ==
    ASSUME CacheInvariant, NEW now \in CallTimes
    PROVE  LET c == Purge(cache, now)
           IN  /\ Sound(c) /\ Shrinks(cache, c)
               /\ \A k \in Residents(cache) \ Residents(c) :
                     /\ cache.entries[k].expires_at <= now
                     /\ ~(cache.entries[k].expires_at > clock)
<1> DEFINE c == Purge(cache, now)
<1>1. /\ Sound(c) /\ Shrinks(cache, c)
      /\ \A k \in Residents(cache) \ Residents(c) : cache.entries[k].expires_at <= now
    BY PurgeSound DEF CacheInvariant, Sound
<1> HIDE DEF c
<1>2. ASSUME NEW k \in Residents(cache) \ Residents(c)
      PROVE  ~(cache.entries[k].expires_at > clock)
    <2>1. cache.entries[k].expires_at \in Nat /\ clock \in Nat /\ now \in Nat /\ now <= clock
        BY DEF CacheInvariant, CallTimes, Consistent, Formed, Entries
    <2> QED
        BY <1>1, <2>1
<1> QED
    BY <1>1, <1>2 DEF c

LEMMA InsertNewOutcome ==
    ASSUME CacheInvariant, NEW now \in CallTimes, NEW k \in Keys, NEW e \in Entries,
           e.expires_at <= e.inserted_at + config.max_ttl, e.expires_at > now,
           InsertNew(k, e, now)
    PROVE  CallOutcome
<1> DEFINE c == Purge(cache, now)
<1>1. /\ Sound(c) /\ Shrinks(cache, c)
      /\ \A j \in Residents(cache) \ Residents(c) :
            cache.entries[j].expires_at <= now /\ ~(cache.entries[j].expires_at > clock)
    BY Purged
<1>2. k \notin Residents(c) /\ hit' = {} /\ config' = config /\ clock' = clock
    BY DEF InsertNew
<1>3. PICK plan \in Plans(c, k, e) : cache' = Stored(RemoveAll(c, plan), k, e)
    BY DEF InsertNew, Stored
<1> HIDE DEF c
<1>4. config \in Settings /\ Consistent(c) /\ Bounded(c) /\ Consistent(cache) /\ Bounded(cache)
    BY <1>1 DEF CacheInvariant, Sound
<1>5. /\ Sound(cache') /\ Residents(cache') = (Residents(c) \ plan) \cup {k}
      /\ cache'.entries[k] = e
    BY <1>1, <1>2, <1>3, <1>4, InsertSound
<1>6. /\ plan \subseteq Residents(c) /\ IsFiniteSet(plan) /\ Cardinality(plan) <= 2
      /\ \A v \in plan : Serves(c, e, v) \/ Cardinality(Residents(c)) = Capacity
    BY <1>3, <1>4, FullPlan
<1>7. Cardinality(Residents(c)) = Capacity => Cardinality(Residents(cache)) = Capacity
    <2>1. /\ Residents(c) \subseteq Residents(cache) /\ IsFiniteSet(Residents(cache))
          /\ Cardinality(Residents(cache)) \in Nat /\ Cardinality(Residents(cache)) <= Capacity
        BY <1>1, <1>4, MembersFinite DEF Shrinks, Consistent, Formed, Bounded
    <2>2. Cardinality(Residents(c)) <= Cardinality(Residents(cache))
        BY <2>1, FS_Subset
    <2> QED
        BY <1>4, <2>1, <2>2, QuotaType
<1>8. ServesAdmission
    <2> DEFINE given == {j \in Residents(cache) \ Residents(cache') :
                            cache.entries[j].expires_at > clock}
               got == {j \in Residents(cache') : j \notin Residents(cache)
                            \/ cache'.entries[j] # cache.entries[j]}
    <2>1. given \subseteq plan
        BY <1>1, <1>5
    <2>2. Cardinality(given) <= 2
        <3>1. IsFiniteSet(given) /\ Cardinality(given) <= Cardinality(plan)
            BY <1>6, <2>1, FS_Subset
        <3>2. Cardinality(given) \in Nat /\ Cardinality(plan) \in Nat
            BY <1>6, <3>1, FS_CardinalityType
        <3> HIDE DEF given
        <3> QED
            BY <1>6, <3>1, <3>2
    <2>3. k \in got
        <3>1. k \in Residents(cache')
            BY <1>5
        <3>2. CASE k \notin Residents(cache)
            BY <3>1, <3>2
        <3>3. CASE k \in Residents(cache)
            <4>1. cache.entries[k].expires_at <= now
                BY <1>1, <1>2, <3>3
            <4>2. now \in Nat /\ e.expires_at \in Nat
                BY DEF CallTimes, Entries
            <4>3. e # cache.entries[k]
                BY <4>1, <4>2
            <4> QED
                BY <1>5, <3>1, <4>3
        <3> QED
            BY <3>2, <3>3
    <2>4. ASSUME NEW v \in given
          PROVE  \/ \E d \in Dimensions :
                       Group(d, cache.entries[v]) = Group(d, cache'.entries[k])
                 \/ Cardinality(Residents(cache)) = Capacity
        <3>1. v \in plan /\ v \in Residents(c) /\ c.entries[v] = cache.entries[v]
            BY <1>1, <1>6, <2>1, <2>4 DEF Shrinks
        <3> QED
            BY <1>5, <1>6, <1>7, <3>1 DEF Serves
    <2> HIDE DEF given, got
    <2>5. Cardinality(given) <= 2 /\ \E j \in got : \A v \in given :
                 \/ \E d \in Dimensions :
                       Group(d, cache.entries[v]) = Group(d, cache'.entries[j])
                 \/ Cardinality(Residents(cache)) = Capacity
        BY <2>2, <2>3, <2>4
    <2> QED
        BY <2>5 DEF ServesAdmission, given, got
<1> QED
    BY <1>2, <1>5, <1>8 DEF CallOutcome

LEMMA InsertUpdateOutcome ==
    ASSUME CacheInvariant, NEW now \in CallTimes, NEW k \in Keys, NEW e \in Entries,
           e.expires_at <= e.inserted_at + config.max_ttl, e.expires_at > now,
           InsertUpdate(k, e, now)
    PROVE  CallOutcome
<1> DEFINE c == Purge(cache, now)
<1>1. /\ Sound(c) /\ Shrinks(cache, c)
      /\ \A j \in Residents(cache) \ Residents(c) :
            cache.entries[j].expires_at <= now /\ ~(cache.entries[j].expires_at > clock)
    BY Purged
<1>2. /\ k \in Residents(c) /\ c.entries[k].scope = e.scope
      /\ hit' = {} /\ config' = config /\ clock' = clock
    BY DEF InsertUpdate
<1>3. config \in Settings /\ Consistent(c) /\ Bounded(c)
    BY <1>1 DEF CacheInvariant, Sound
<1>4. PICK plan \in MovePlans(c, k, e) :
          cache' = IndexUpdate(OnHit([RemoveAll(c, plan) EXCEPT !.entries[k] = e], k),
                               k, c.entries[k], e)
    BY DEF InsertUpdate
<1> HIDE DEF c
<1>5. /\ plan \subseteq Members(c, "region", e.region) \ {k}
      /\ IsFiniteSet(plan) /\ Cardinality(plan) <= 1
      /\ plan # {} => c.entries[k].region # e.region
    BY <1>2, <1>3, MovePlan
<1>6. cache' = Replaced(RemoveAll(c, plan), k, e)
    <2>1. Residents(RemoveAll(c, plan)) = Residents(c) \ plan
          /\ Shrinks(c, RemoveAll(c, plan))
        BY <1>1, <1>3, RemoveAllSound
    <2>2. RemoveAll(c, plan).entries[k] = c.entries[k]
        BY <1>2, <1>5, <2>1 DEF Shrinks
    <2> QED
        BY <1>4, <2>2 DEF Replaced
<1>7. Sound(cache') /\ Residents(cache') = Residents(c) \ plan /\ cache'.entries[k] = e
    BY <1>1, <1>2, <1>3, <1>6, ReplaceSound
<1>8. ServesAdmission
    <2> DEFINE given == {j \in Residents(cache) \ Residents(cache') :
                            cache.entries[j].expires_at > clock}
               got == {j \in Residents(cache') : j \notin Residents(cache)
                            \/ cache'.entries[j] # cache.entries[j]}
    <2>1. given \subseteq plan
        BY <1>1, <1>7
    <2>2. Cardinality(given) <= 2
        <3>1. IsFiniteSet(given) /\ Cardinality(given) <= Cardinality(plan)
            BY <1>5, <2>1, FS_Subset
        <3>2. Cardinality(given) \in Nat /\ Cardinality(plan) \in Nat
            BY <1>5, <3>1, FS_CardinalityType
        <3> HIDE DEF given
        <3> QED
            BY <1>5, <3>1, <3>2
    <2>3. given # {} => k \in got
        <3> SUFFICES ASSUME given # {} PROVE k \in got
            OBVIOUS
        <3>1. c.entries[k].region # e.region
            BY <1>5, <2>1
        <3>2. cache.entries[k] = c.entries[k] /\ k \in Residents(cache')
            BY <1>1, <1>2, <1>5, <1>7 DEF Shrinks
        <3> QED
            BY <1>7, <3>1, <3>2
    <2>4. ASSUME NEW v \in given
          PROVE  \E d \in Dimensions : Group(d, cache.entries[v]) = Group(d, cache'.entries[k])
        <3>1. v \in Members(c, "region", e.region) /\ c.entries[v] = cache.entries[v]
            BY <1>1, <1>5, <2>1, <2>4 DEF Shrinks, Members
        <3> QED
            BY <1>7, <3>1 DEF Members, Group, Dimensions
    <2> HIDE DEF given, got
    <2>5. given # {} =>
             Cardinality(given) <= 2 /\ \E j \in got : \A v \in given :
                 \/ \E d \in Dimensions :
                       Group(d, cache.entries[v]) = Group(d, cache'.entries[j])
                 \/ Cardinality(Residents(cache)) = Capacity
        BY <2>2, <2>3, <2>4
    <2> QED
        BY <2>5 DEF ServesAdmission, given, got
<1> QED
    BY <1>2, <1>7, <1>8 DEF CallOutcome

\* An insertion that stores nothing only purges.
LEMMA PurgeOutcome ==
    ASSUME CacheInvariant, NEW now \in CallTimes, cache' = Purge(cache, now),
           hit' = {}, config' = config, clock' = clock
    PROVE  CallOutcome
<1>1. Sound(cache') /\ ServesAdmission
    BY Purged, NothingGiven
<1> QED
    BY <1>1 DEF CallOutcome

LEMMA InsertOutcome ==
    ASSUME CacheInvariant, NEW o \in Offers, Insert(o.key, o.scope, o.region)
    PROVE  CallOutcome
<1>1. PICK now \in CallTimes, ttl \in Ttls :
          LET e == Candidate(o.scope, o.region, ttl, now) IN
          \/ InsertCollision(o.key, o.scope, now) \/ InsertUpdate(o.key, e, now)
          \/ InsertNew(o.key, e, now) \/ InsertRefused(o.key, e, now)
    BY DEF Insert
<1> DEFINE e == Candidate(o.scope, o.region, ttl, now)
<1>2. /\ e \in Entries /\ e.expires_at <= e.inserted_at + config.max_ttl
      /\ e.expires_at > now /\ o.key \in Keys
    BY CandidateType, CacheConstants
<1> HIDE DEF e
<1>3. CASE InsertCollision(o.key, o.scope, now) \/ InsertRefused(o.key, e, now)
    BY <1>3, PurgeOutcome DEF InsertCollision, InsertRefused
<1>4. CASE InsertUpdate(o.key, e, now)
    BY <1>2, <1>4, InsertUpdateOutcome
<1>5. CASE InsertNew(o.key, e, now)
    BY <1>2, <1>5, InsertNewOutcome
<1> QED
    BY <1>1, <1>3, <1>4, <1>5 DEF e

\* The constructor's arguments do not change, so neither does what is asked of a cache.
LEMMA SettingsKept ==
    ASSUME config' = config, Sound(cache')
    PROVE  Consistent(cache)' /\ Bounded(cache)' /\ Remembers(cache)'
<1>1. Formed(cache)' /\ Lifetime(cache)' /\ RecencyAgrees(cache)'
    BY DEF Sound, Consistent, Formed, Lifetime, RecencyAgrees
<1>2. \A d \in Dimensions : \A g \in Groups[d] : GroupAgrees(cache, d, g)'
    BY DEF Sound, Consistent, GroupAgrees, Indexed, Counted, ExactLru
<1>3. Bounded(cache)' /\ Remembers(cache)'
    BY DEF Sound, Bounded, GroupBounded, Remembers
<1> QED
    BY <1>1, <1>2, <1>3 DEF Consistent

\* A step is a call or the passing of time.
LEMMA CacheStep ==
    ASSUME CacheInvariant, [CacheNext]_cacheVars
    PROVE  \/ CallOutcome
           \/ /\ config' = config /\ cache' = cache /\ hit' = hit
              /\ clock' \in Nat
<1>1. ASSUME NEW o \in Offers, Lookup(o.key, o.scope) PROVE CallOutcome
    BY <1>1, CacheConstants, LookupOutcome
<1>2. ASSUME NEW o \in Offers, Insert(o.key, o.scope, o.region) PROVE CallOutcome
    BY <1>2, InsertOutcome
<1>3. CASE Tick
    BY <1>3 DEF Tick, CacheInvariant
<1>4. CASE UNCHANGED cacheVars
    BY <1>4 DEF cacheVars, CacheInvariant
<1> QED
    BY <1>1, <1>2, <1>3, <1>4 DEF CacheNext

\* The cache's parts agree, its bounds hold and its history is what one period and the
\* current one saw, in every reachable state.
THEOREM CacheInvariance == CacheSpec => []CacheInvariant
<1>1. CacheInit => CacheInvariant
    <2> SUFFICES ASSUME CacheInit PROVE CacheInvariant
        OBVIOUS
    <2> DEFINE c == EmptyCache
    <2>1. Consistent(c)
        BY EmptyConsistent
    <2>2. Residents(c) = {} /\ c.frequency = [k \in Keys |-> 0] /\ c.samples = 0
        BY DEF EmptyCache, Residents
    <2>3. config \in Settings /\ clock \in Nat /\ cache = c
        BY DEF CacheInit
    <2> HIDE DEF c
    <2>4. Cardinality({}) = 0
        BY FS_EmptySet
    <2>5. Bounded(c)
        <3>1. \A d, g : Members(c, d, g) = {}
            BY <2>2 DEF Members
        <3> QED
            BY <2>2, <2>3, <2>4, <3>1, QuotaType DEF Bounded, GroupBounded
    <2>6. Remembers(c)
        <3>1. Remembered(c.frequency) = {}
            BY <2>2, CacheConstants DEF Remembered
        <3> QED
            <4>1. \A k \in Keys : c.frequency[k] = 0
                BY <2>2
            <4>2. 0 <= MaxFrequency /\ 0 <= ResetAfter + 0 /\ 0 < ResetAfter
                BY CacheConstants
            <4> QED
                BY <2>2, <2>4, <3>1, <4>1, <4>2 DEF Remembers
    <2> QED
        BY <2>1, <2>3, <2>5, <2>6 DEF CacheInvariant
<1>2. CacheInvariant /\ [CacheNext]_cacheVars => CacheInvariant'
    <2> SUFFICES ASSUME CacheInvariant, [CacheNext]_cacheVars PROVE CacheInvariant'
        OBVIOUS
    <2>1. /\ config' = config /\ clock' \in Nat /\ Sound(cache')
        BY CacheStep DEF CallOutcome, CacheInvariant, Sound
    <2> QED
        BY <2>1, SettingsKept DEF CacheInvariant
<1> QED
    BY <1>1, <1>2, PTL DEF CacheSpec

\* The capacity and both quotas hold after every call, whatever sequence of insertions,
\* moves, expiries and evictions led there.
THEOREM BoundsAlwaysHold == CacheSpec => []BoundsHold
<1>1. CacheInvariant => BoundsHold
    BY DEF CacheInvariant, BoundsHold, Bounded, GroupBounded
<1> QED
    BY <1>1, CacheInvariance, PTL

\* The policy's order, the key indexes and the counts describe the entries.
THEOREM IndexesAlwaysAgree == CacheSpec => []IndexesAgree
<1>1. CacheInvariant => IndexesAgree
    BY DEF CacheInvariant, IndexesAgree, Consistent, RecencyAgrees, GroupAgrees
<1> QED
    BY <1>1, CacheInvariance, PTL

\* Under the exact LRU each group's order is the part of the global order in the group.
THEOREM GroupOrdersAlwaysAgree == CacheSpec => []GroupOrdersAgree
<1>1. CacheInvariant => GroupOrdersAgree
    BY DEF CacheInvariant, GroupOrdersAgree, Consistent, GroupAgrees, Within
<1> QED
    BY <1>1, CacheInvariance, PTL

\* TinyLFU remembers no more than one period beyond the current one.
THEOREM HistoryIsBounded == CacheSpec => []HistoryBounded
<1>1. CacheInvariant => HistoryBounded
    BY DEF CacheInvariant, HistoryBounded, Remembers
<1> QED
    BY <1>1, CacheInvariance, PTL

\* A hit answers for the scope its entry was inserted for, within its clamped lifetime.
THEOREM HitsAreCurrent == CacheSpec => []HitIsCurrent
<1>1. CacheInit => HitIsCurrent
    BY DEF CacheInit, HitIsCurrent
<1>2. CacheInvariant /\ HitIsCurrent /\ [CacheNext]_cacheVars => HitIsCurrent'
    <2> SUFFICES ASSUME CacheInvariant, HitIsCurrent, [CacheNext]_cacheVars PROVE HitIsCurrent'
        OBVIOUS
    <2>1. CASE CallOutcome
        BY <2>1 DEF CallOutcome, HitIsCurrent
    <2>2. CASE config' = config /\ cache' = cache /\ hit' = hit
        BY <2>2 DEF HitIsCurrent
    <2> QED
        BY <2>1, <2>2, CacheStep
<1> QED
    BY <1>1, <1>2, CacheInvariance, PTL DEF CacheSpec

\* An entry that is still alive leaves only for one that shares a group with it or because
\* the cache is full, two at most for one admission.
THEOREM EvictionsServe == CacheSpec => EvictionServesAdmission
<1>1. CacheInvariant /\ [CacheNext]_cacheVars => [ServesAdmission]_cacheVars
    <2> SUFFICES ASSUME CacheInvariant, [CacheNext]_cacheVars PROVE ServesAdmission
        OBVIOUS
    <2>1. CASE CallOutcome
        BY <2>1 DEF CallOutcome
    <2>2. CASE cache' = cache
        BY <2>2, NothingGiven
    <2> QED
        BY <2>1, <2>2, CacheStep
<1> QED
    BY <1>1, CacheInvariance, PTL DEF CacheSpec, EvictionServesAdmission, ServesAdmission
===============================================================================
