----------------------- MODULE EdgeStructures_proofs -----------------------
(***************************************************************************)
(* Proofs about two data structures of an edge.                            *)
(*                                                                         *)
(* The adaptive cuckoo filter, for any buckets, cells, hashes and number   *)
(* of kicks: the tables hold exactly the members, and a member always      *)
(* queries positive.                                                       *)
(*                                                                         *)
(* The expiry heap of the negative cache, for any keys and instants: the   *)
(* heap keeps its order and the position of every key, and a purge that    *)
(* looks only at the head removes exactly what is due.                     *)
(***************************************************************************)
EXTENDS AdaptiveCuckooFilter, ExpiryHeap, FiniteSetTheorems, SequenceTheorems, TLAPS

-----------------------------------------------------------------------------
(* Induction.  The induction theorems of the library take an operator; here *)
(* the property is the set of the numbers that have it.                    *)

\* Some set of a non-empty family of finite sets has none of the others inside it.
LEMMA MinimalSubset ==
    ASSUME NEW S, IsFiniteSet(S), NEW F \in SUBSET (SUBSET S), F # {}
    PROVE  \E U \in F : \A V \in F : V \subseteq U => V = U
<1>1. IsWellFoundedOn(StrictSubsetOrdering(S), SUBSET S)
    BY FS_StrictSubsetOrderingWellFounded, FS_FiniteSubsetsOfFinite
<1>2. \E U \in F : \A V \in F : <<V, U>> \notin StrictSubsetOrdering(S)
    BY <1>1, WFMin
<1> QED
    BY <1>2 DEF StrictSubsetOrdering

\* A non-empty set of naturals has a least element.
LEMMA LeastElement ==
    ASSUME NEW T \in SUBSET Nat, T # {}
    PROVE  \E m \in T : \A n \in T : m <= n
<1>1. PICK n \in T : TRUE
    OBVIOUS
<1> DEFINE F == {0 .. m : m \in {k \in T : k <= n}}
<1>2. F \in SUBSET (SUBSET (0 .. n)) /\ F # {} /\ IsFiniteSet(0 .. n)
    <2>1. F \in SUBSET (SUBSET (0 .. n))
        OBVIOUS
    <2>2. 0 .. n \in F
        OBVIOUS
    <2>3. 0 \in Int /\ n \in Int
        OBVIOUS
    <2> QED
        BY <2>1, <2>2, <2>3, FS_Interval
<1>3. PICK U \in F : \A V \in F : V \subseteq U => V = U
    <2> DEFINE S == 0 .. n
    <2>1. IsFiniteSet(S) /\ F \in SUBSET (SUBSET S) /\ F # {}
        BY <1>2
    <2> HIDE DEF F, S
    <2> QED
        BY <2>1, MinimalSubset
<1>4. PICK m \in T : m <= n /\ U = 0 .. m
    BY <1>3
<1>5. \A k \in T : m <= k
    <2> SUFFICES ASSUME NEW k \in T, k < m PROVE FALSE
        OBVIOUS
    <2>1. 0 .. k \in F /\ 0 .. k \subseteq U
        BY <1>4
    <2>2. 0 .. k = 0 .. m
        BY <1>3, <1>4, <2>1
    <2>3. m \in 0 .. m /\ m \notin 0 .. k
        OBVIOUS
    <2> QED
        BY <2>2, <2>3
<1> QED
    BY <1>5

\* A set that holds 0 and the successor of each of its members is Nat.
LEMMA NatInduced ==
    ASSUME NEW T \in SUBSET Nat, 0 \in T, \A n \in T : n + 1 \in T
    PROVE  T = Nat
<1> SUFFICES ASSUME Nat \ T # {} PROVE FALSE
   OBVIOUS
<1>1. PICK m \in Nat \ T : \A n \in Nat \ T : m <= n
   BY LeastElement
<1>2. m # 0
   OBVIOUS
<1> QED
   BY <1>1, <1>2

\* The same up to a bound.
LEMMA BoundedInduction ==
    ASSUME NEW n \in Nat, NEW T, 0 \in T, \A i \in 0 .. n : i < n /\ i \in T => i + 1 \in T
    PROVE  0 .. n \subseteq T
<1> DEFINE S == {i \in Nat : i <= n => i \in T}
<1>1. 0 \in S
    OBVIOUS
<1>2. \A i \in S : i + 1 \in S
    OBVIOUS
<1> HIDE DEF S
<1>3. S \in SUBSET Nat
    BY DEF S
<1>4. S = Nat
    BY <1>1, <1>2, <1>3, NatInduced
<1> QED
    BY <1>4 DEF S

-----------------------------------------------------------------------------
(* The two recursions of an insertion.                                     *)

\* Keys restored after i cells of undo.
Restoring(ks, undo, f) ==
    f = [i \in 0 .. Len(undo) |->
            IF i = 0 THEN ks
            ELSE [f[i - 1] EXCEPT ![undo[Len(undo) - i + 1].slot] =
                                     undo[Len(undo) - i + 1].previous]]

LEMMA RestoreExists ==
    ASSUME NEW ks, NEW undo, Len(undo) \in Nat
    PROVE  \E f : Restoring(ks, undo, f) /\ Restore(ks, undo) = f[Len(undo)]
<1> DEFINE Step(g, i) == [g EXCEPT ![undo[Len(undo) - i + 1].slot] =
                                      undo[Len(undo) - i + 1].previous]
           Partial(n, f) == f = [i \in 0 .. n |-> IF i = 0 THEN ks ELSE Step(f[i - 1], i)]
           T == {n \in Nat : \E f : Partial(n, f)}
<1>1. 0 \in T
    <2>1. Partial(0, [i \in 0 .. 0 |-> ks])
        OBVIOUS
    <2> HIDE DEF Partial
    <2> QED
        BY <2>1
<1>2. ASSUME NEW n \in T PROVE n + 1 \in T
    <2> HIDE DEF Step
    <2>1. PICK f : Partial(n, f)
        OBVIOUS
    <2> DEFINE h == [i \in 0 .. n + 1 |-> IF i <= n THEN f[i] ELSE Step(f[n], n + 1)]
    <2>2. \A i \in 0 .. n + 1 : h[i] = IF i = 0 THEN ks ELSE Step(h[i - 1], i)
        BY <2>1
    <2>3. Partial(n + 1, h)
        <3>1. h = [i \in 0 .. n + 1 |-> h[i]]
            OBVIOUS
        <3> HIDE DEF h
        <3> QED
            BY <2>2, <3>1
    <2> HIDE DEF Partial
    <2> QED
        BY <2>3
<1>3. T = Nat
    <2> HIDE DEF T
    <2>1. T \in SUBSET Nat
        BY DEF T
    <2> QED
        BY <1>1, <1>2, <2>1, NatInduced
<1> HIDE DEF Step
<1>4. \E f : Partial(Len(undo), f)
    BY <1>3
<1> DEFINE r == CHOOSE f : Partial(Len(undo), f)
<1>5. Partial(Len(undo), r)
    <2> HIDE DEF Partial
    <2> QED
        BY <1>4
<1>6. Restoring(ks, undo, r)
    BY <1>5 DEF Restoring, Step
<1>7. Restore(ks, undo) = r[Len(undo)]
    BY DEF Restore, Step
<1> QED
    BY <1>6, <1>7

\* A cell overwritten last is the first restored.
LEMMA RestoreLast ==
    ASSUME NEW written, NEW ks, NEW undo, NEW r,
           Len(undo) \in Nat, Len(Append(undo, r)) = Len(undo) + 1,
           Append(undo, r)[Len(undo) + 1] = r,
           \A i \in 1 .. Len(undo) : Append(undo, r)[i] = undo[i],
           [written EXCEPT ![r.slot] = r.previous] = ks
    PROVE  Restore(written, Append(undo, r)) = Restore(ks, undo)
<1> DEFINE n == Len(undo)
           longer == Append(undo, r)
<1>1. PICK f : Restoring(ks, undo, f) /\ Restore(ks, undo) = f[n]
    BY RestoreExists
<1>2. PICK g : Restoring(written, longer, g) /\ Restore(written, longer) = g[n + 1]
    <2>1. Len(longer) = n + 1 /\ Len(longer) \in Nat
        OBVIOUS
    <2> HIDE DEF longer, n
    <2>2. \E g : Restoring(written, longer, g) /\ Restore(written, longer) = g[Len(longer)]
        BY <2>1, RestoreExists
    <2> QED
        BY <2>1, <2>2
<1> DEFINE Step(h, u) == [h EXCEPT ![u.slot] = u.previous]
<1>3. f[0] = ks /\ \A i \in 1 .. n : f[i] = Step(f[i - 1], undo[n - i + 1])
    <2>1. \A i \in 0 .. n : f[i] = IF i = 0 THEN ks ELSE Step(f[i - 1], undo[n - i + 1])
        <3> HIDE DEF n
        <3> QED
            BY <1>1 DEF Restoring, n
    <2> HIDE DEF Step
    <2> QED
        BY <2>1
<1>4. g[0] = written /\ \A i \in 1 .. n + 1 : g[i] = Step(g[i - 1], longer[n + 1 - i + 1])
    <2>1. \A i \in 0 .. n + 1 : g[i] = IF i = 0 THEN written ELSE Step(g[i - 1], longer[n + 1 - i + 1])
        <3>1. Len(longer) = n + 1 /\ n \in Nat
            OBVIOUS
        <3> HIDE DEF n, longer
        <3>2. \A i \in 0 .. Len(longer) :
                 g[i] = IF i = 0 THEN written ELSE Step(g[i - 1], longer[Len(longer) - i + 1])
            BY <1>2 DEF Restoring
        <3> HIDE DEF Step
        <3> QED
            BY <3>1, <3>2
    <2> HIDE DEF Step, longer
    <2> QED
        BY <2>1
<1>5. \A i \in 1 .. n : longer[n - i + 1] = undo[n - i + 1]
    OBVIOUS
<1>6. longer[n + 1] = r /\ Step(written, r) = ks
    OBVIOUS
<1> HIDE DEF Step, longer
<1> DEFINE T == {i \in 0 .. n : g[i + 1] = f[i]}
<1>7. 0 \in T
    BY <1>3, <1>4, <1>6
<1>8. ASSUME NEW i \in 0 .. n, i < n, i \in T PROVE i + 1 \in T
    <2>1. g[i + 2] = Step(g[i + 1], longer[n - (i + 1) + 1])
        <3>1. i + 2 \in 1 .. n + 1 /\ (i + 2) - 1 = i + 1
              /\ n + 1 - (i + 2) + 1 = n - (i + 1) + 1
            BY <1>8
        <3> HIDE DEF n
        <3> QED
            BY <1>4, <3>1
    <2>2. f[i + 1] = Step(f[i], undo[n - (i + 1) + 1])
        <3>1. i + 1 \in 1 .. n /\ (i + 1) - 1 = i
            BY <1>8
        <3> HIDE DEF n
        <3> QED
            BY <1>3, <3>1
    <2>3. longer[n - (i + 1) + 1] = undo[n - (i + 1) + 1]
        BY <1>5, <1>8
    <2>4. g[i + 1] = f[i]
        BY <1>8
    <2>5. (i + 1) + 1 = i + 2 /\ i + 1 \in 0 .. n
        BY <1>8
    <2> QED
        BY <2>1, <2>2, <2>3, <2>4, <2>5
<1>9. n \in T
    <2> HIDE DEF T
    <2>1. 0 .. n \subseteq T
        BY <1>7, <1>8, BoundedInduction
    <2> QED
        BY <2>1
<1> QED
    BY <1>1, <1>2, <1>9 DEF longer

LEMMA RestoreNothing ==
    ASSUME NEW ks
    PROVE  Restore(ks, <<>>) = ks
<1>1. PICK f : Restoring(ks, <<>>, f) /\ Restore(ks, <<>>) = f[Len(<<>>)]
    BY RestoreExists
<1> QED
    BY <1>1 DEF Restoring

\* Whatever holds of the first chain and is kept by kicks holds of every chain.
LEMMA ChainsKeep ==
    ASSUME NEW chain, NEW n \in Nat, NEW G, chain \in G,
           \A c \in G : ~c.placed => \A o \in Offsets : Kick(c, o) \in G
    PROVE  Chains(chain, n) \subseteq G
<1> DEFINE Step(S) == UNION {IF c.placed THEN {c} ELSE {Kick(c, o) : o \in Offsets} : c \in S}
           Partial(m, f) == f = [i \in 0 .. m |-> IF i = 0 THEN {chain} ELSE Step(f[i - 1])]
           T == {m \in Nat : \E f : Partial(m, f)}
<1>1. 0 \in T
    <2>1. Partial(0, [i \in 0 .. 0 |-> {chain}])
        OBVIOUS
    <2> HIDE DEF Partial
    <2> QED
        BY <2>1
<1>2. ASSUME NEW m \in T PROVE m + 1 \in T
    <2> HIDE DEF Step
    <2>1. PICK f : Partial(m, f)
        OBVIOUS
    <2> DEFINE h == [i \in 0 .. m + 1 |-> IF i <= m THEN f[i] ELSE Step(f[m])]
    <2>2. \A i \in 0 .. m + 1 : h[i] = IF i = 0 THEN {chain} ELSE Step(h[i - 1])
        <3>1. m \in Nat /\ \A i \in 0 .. m : f[i] = IF i = 0 THEN {chain} ELSE Step(f[i - 1])
            BY <2>1
        <3>2. h[m + 1] = Step(f[m]) /\ \A i \in 0 .. m : h[i] = f[i]
            BY <3>1
        <3>3. \A i \in 0 .. m + 1 : i = m + 1 \/ (i \in 0 .. m /\ (i = 0 \/ i - 1 \in 0 .. m))
            BY <3>1
        <3>4. m + 1 # 0 /\ (m + 1) - 1 = m /\ m \in 0 .. m
            BY <3>1
        <3> HIDE DEF h
        <3> QED
            BY <3>1, <3>2, <3>3, <3>4
    <2>3. Partial(m + 1, h)
        <3>1. h = [i \in 0 .. m + 1 |-> h[i]]
            OBVIOUS
        <3> HIDE DEF h
        <3> QED
            BY <2>2, <3>1
    <2>4. m + 1 \in Nat
        OBVIOUS
    <2> HIDE DEF Partial
    <2> QED
        BY <2>3, <2>4
<1>3. T = Nat
    <2> HIDE DEF T
    <2>1. T \in SUBSET Nat
        BY DEF T
    <2> QED
        BY <1>1, <1>2, <2>1, NatInduced
<1>4. ASSUME NEW S, S \subseteq G PROVE Step(S) \subseteq G
    BY <1>4
<1> DEFINE r == CHOOSE f : Partial(n, f)
<1>5. Chains(chain, n) = r[n]
    BY DEF Chains
<1> HIDE DEF Step
<1>6. Partial(n, r)
    <2>1. \E f : Partial(n, f)
        BY <1>3
    <2> HIDE DEF Partial
    <2> QED
        BY <2>1
<1> HIDE DEF r
<1>7. r[0] = {chain} /\ \A i \in 0 .. n : i < n => r[i + 1] = Step(r[i])
    <2>1. \A i \in 0 .. n : r[i] = IF i = 0 THEN {chain} ELSE Step(r[i - 1])
        BY <1>6
    <2>2. \A i \in 0 .. n : i < n => i + 1 \in 0 .. n /\ i + 1 # 0 /\ (i + 1) - 1 = i
        OBVIOUS
    <2> HIDE DEF Partial
    <2> QED
        BY <2>1, <2>2
<1> DEFINE U == {i \in 0 .. n : r[i] \subseteq G}
<1>8. 0 \in U
    BY <1>7
<1>9. \A i \in 0 .. n : i < n /\ i \in U => i + 1 \in U
    BY <1>4, <1>7
<1>10. n \in U
    <2> HIDE DEF U
    <2>1. 0 .. n \subseteq U
        BY <1>8, <1>9, BoundedInduction
    <2> QED
        BY <2>1
<1> QED
    BY <1>5, <1>10

-----------------------------------------------------------------------------
(* Tables that hold a set of tokens.                                       *)

Backing == [Slots -> Tokens \cup {Empty}]

\* Each token of S is in one cell of one of its own buckets, and nothing else is stored.
Holds(ks, S) ==
    /\ ks \in Backing
    /\ \A s \in Slots : ks[s] # Empty => ks[s] \in S /\ s \in SlotsOf(ks[s])
    /\ \A t \in S : \E s \in Slots : ks[s] = t
    /\ \A s, z \in Slots : ks[s] # Empty /\ ks[s] = ks[z] => s = z

LEMMA SlotType ==
    ASSUME NEW token \in Tokens
    PROVE  /\ \A t \in Tables, o \in Offsets : Slot(token, t, o) \in Slots
                                              /\ Slot(token, t, o) \in SlotsOf(token)
           /\ \A s \in SlotsOf(token) : s \in Slots /\ s.table \in Tables /\ s.offset \in Offsets
                                        /\ s = Slot(token, s.table, s.offset)
<1>1. \A t \in Tables : BucketOf[<<token, t>>] \in Buckets
    BY FilterConstants
<1>2. \A t \in Tables, o \in Offsets :
          /\ Slot(token, t, o) \in Slots /\ Slot(token, t, o) \in SlotsOf(token)
          /\ Slot(token, t, o).table = t /\ Slot(token, t, o).offset = o
    BY <1>1 DEF Slot, SlotsOf, Slots
<1>3. \A s \in SlotsOf(token) : \E t \in Tables, o \in Offsets : s = Slot(token, t, o)
    BY DEF SlotsOf
<1> QED
    BY <1>2, <1>3

LEMMA LowestOffset ==
    ASSUME NEW S \in SUBSET Offsets, S # {}
    PROVE  Lowest(S) \in S
<1>1. \E o \in S : \A q \in S : o <= q
    BY FilterConstants, LeastElement
<1> QED
    BY <1>1 DEF Lowest

\* An empty cell is one of the token's own, and only one is proposed.
LEMMA EmptySlotType ==
    ASSUME NEW ks, NEW token \in Tokens, NEW t \in Tables
    PROVE  \/ EmptySlots(ks, token, t) = {}
           \/ \E s \in SlotsOf(token) :
                 EmptySlots(ks, token, t) = {s} /\ s \in Slots /\ ks[s] = Empty
<1> DEFINE free == {o \in Offsets : ks[Slot(token, t, o)] = Empty}
<1>1. CASE free = {}
    BY <1>1 DEF EmptySlots
<1>2. CASE free # {}
    <2>1. Lowest(free) \in free
        <3>1. free \in SUBSET Offsets
            OBVIOUS
        <3> HIDE DEF free
        <3> QED
            BY <1>2, <3>1, LowestOffset
    <2>2. EmptySlots(ks, token, t) = {Slot(token, t, Lowest(free))}
        BY <1>2 DEF EmptySlots
    <2> QED
        BY <2>1, <2>2, SlotType
<1> QED
    BY <1>1, <1>2

\* A token written over a cell of one of its buckets takes the place of what was there.
LEMMA WriteHolds ==
    ASSUME NEW S \in SUBSET Tokens, NEW ks, Holds(ks, S), NEW token \in Tokens \ S,
           NEW slot \in SlotsOf(token)
    PROVE  Holds([ks EXCEPT ![slot] = token], (S \ {ks[slot]}) \cup {token})
<1> DEFINE new == [ks EXCEPT ![slot] = token]
<1>1. slot \in Slots /\ ks \in Backing /\ token # Empty
    BY SlotType, FilterConstants DEF Holds
<1>2. new \in Backing /\ new[slot] = token /\ \A s \in Slots : s # slot => new[s] = ks[s]
    BY <1>1 DEF Backing
<1> HIDE DEF new
<1>3. \A s \in Slots : s # slot /\ ks[s] # Empty => ks[s] # ks[slot] /\ ks[s] # token
    BY <1>1 DEF Holds
<1>4. \A s \in Slots : new[s] # Empty =>
          new[s] \in (S \ {ks[slot]}) \cup {token} /\ s \in SlotsOf(new[s])
    BY <1>2, <1>3 DEF Holds
<1>5. \A t \in (S \ {ks[slot]}) \cup {token} : \E s \in Slots : new[s] = t
    BY <1>1, <1>2 DEF Holds
<1>6. \A s, z \in Slots : new[s] # Empty /\ new[s] = new[z] => s = z
    BY <1>2, <1>3 DEF Holds
<1> QED
    BY <1>2, <1>4, <1>5, <1>6 DEF Holds, new

\* A cell that is emptied loses its token.
LEMMA ClearHolds ==
    ASSUME NEW S \in SUBSET Tokens, NEW ks, Holds(ks, S), NEW slot \in Slots, ks[slot] # Empty
    PROVE  Holds([ks EXCEPT ![slot] = Empty], S \ {ks[slot]})
<1> DEFINE new == [ks EXCEPT ![slot] = Empty]
<1>1. new \in Backing /\ new[slot] = Empty /\ \A s \in Slots : s # slot => new[s] = ks[s]
    BY DEF Holds, Backing
<1> HIDE DEF new
<1>2. \A s \in Slots : s # slot /\ ks[s] # Empty => ks[s] # ks[slot]
    BY DEF Holds
<1>3. \A s \in Slots : new[s] # Empty => new[s] \in S \ {ks[slot]} /\ s \in SlotsOf(new[s])
    BY <1>1, <1>2 DEF Holds
<1>4. \A t \in S \ {ks[slot]} : \E s \in Slots : new[s] = t
    BY <1>1 DEF Holds
<1>5. \A s, z \in Slots : new[s] # Empty /\ new[s] = new[z] => s = z
    BY <1>1 DEF Holds
<1> QED
    BY <1>1, <1>3, <1>4, <1>5 DEF Holds, new

\* Two cells of one bucket may swap their tokens.
LEMMA SwapHolds ==
    ASSUME NEW S \in SUBSET Tokens, NEW ks, Holds(ks, S), NEW a \in Slots, NEW o \in Offsets,
           o # a.offset
    PROVE  LET b == [a EXCEPT !.offset = o]
           IN  Holds([ks EXCEPT ![a] = ks[b], ![b] = ks[a]], S)
<1> DEFINE b == [a EXCEPT !.offset = o]
           new == [ks EXCEPT ![a] = ks[b], ![b] = ks[a]]
<1>1. b \in Slots /\ b.table = a.table /\ b.bucket = a.bucket /\ b.offset = o /\ a # b
    BY DEF Slots
<1>2. ASSUME NEW t \in Tokens
      PROVE  (a \in SlotsOf(t) <=> a.bucket = BucketOf[<<t, a.table>>])
             /\ (b \in SlotsOf(t) <=> b.bucket = BucketOf[<<t, b.table>>])
    <2>1. \A s \in Slots : s = [table |-> s.table, bucket |-> s.bucket, offset |-> s.offset]
                           /\ s.table \in Tables /\ s.offset \in Offsets
        BY DEF Slots
    <2>2. \A s \in Slots : s \in SlotsOf(t) <=> s.bucket = BucketOf[<<t, s.table>>]
        <3> TAKE s \in Slots
        <3>1. s.bucket = BucketOf[<<t, s.table>>] => s = Slot(t, s.table, s.offset)
            BY <2>1 DEF Slot
        <3>2. \A u \in Tables, q \in Offsets :
                 Slot(t, u, q).bucket = BucketOf[<<t, Slot(t, u, q).table>>]
            BY DEF Slot
        <3> QED
            BY <2>1, <3>1, <3>2 DEF SlotsOf
    <2> QED
        BY <1>1, <2>2
<1> HIDE DEF b
<1>3. /\ new \in Backing /\ new[a] = ks[b] /\ new[b] = ks[a]
      /\ \A s \in Slots : s # a /\ s # b => new[s] = ks[s]
    BY <1>1 DEF Holds, Backing
<1> HIDE DEF new
<1>4. \A s \in Slots : ks[s] # Empty => ks[s] \in Tokens
    BY DEF Holds
<1>5. \A s \in Slots : new[s] # Empty => new[s] \in S /\ s \in SlotsOf(new[s])
    <2> TAKE s \in Slots
    <2>1. CASE s = a
        BY <1>1, <1>2, <1>3, <1>4, <2>1 DEF Holds
    <2>2. CASE s = b
        BY <1>1, <1>2, <1>3, <1>4, <2>2 DEF Holds
    <2>3. CASE s # a /\ s # b
        BY <1>3, <2>3 DEF Holds
    <2> QED
        BY <2>1, <2>2, <2>3
<1>6. \A t \in S : \E s \in Slots : new[s] = t
    <2> TAKE t \in S
    <2>1. PICK s \in Slots : ks[s] = t
        BY DEF Holds
    <2> QED
        BY <1>1, <1>3, <2>1
<1>7. \A s, z \in Slots : new[s] # Empty /\ new[s] = new[z] => s = z
    <2> DEFINE Other(s) == IF s = a THEN b ELSE IF s = b THEN a ELSE s
    <2>1. \A s \in Slots : Other(s) \in Slots /\ new[s] = ks[Other(s)] /\ Other(Other(s)) = s
        BY <1>1, <1>3
    <2>2. \A s, z \in Slots : ks[s] # Empty /\ ks[s] = ks[z] => s = z
        BY DEF Holds
    <2> HIDE DEF Other
    <2> TAKE s, z \in Slots
    <2>3. new[s] # Empty /\ new[s] = new[z] => Other(s) = Other(z)
        BY <2>1, <2>2
    <2> QED
        BY <2>1, <2>3
<1> QED
    BY <1>3, <1>5, <1>6, <1>7 DEF Holds, b, new

-----------------------------------------------------------------------------
(* Kicks.                                                                  *)

Cells == [slot : Slots, previous : Tokens \cup {Empty}]

\* The chains of an insertion that found the tables ks0 full: a chain that found a cell
\* holds one token more, any other is the displaced token short and can be undone.
Chain(ks0, S) ==
    {c \in [keys : Backing, undo : Seq(Cells), displaced : Tokens \cup {Empty},
            table : Tables, placed : BOOLEAN] :
        IF c.placed THEN Holds(c.keys, S)
        ELSE /\ c.displaced \in S
             /\ Holds(c.keys, S \ {c.displaced})
             /\ Restore(c.keys, c.undo) = ks0}

LEMMA KickKeeps ==
    ASSUME NEW ks0, NEW S \in SUBSET Tokens, NEW c \in Chain(ks0, S), ~c.placed,
           NEW o \in Offsets
    PROVE  Kick(c, o) \in Chain(ks0, S)
<1> DEFINE slot == Slot(c.displaced, c.table, o)
           previous == c.keys[slot]
           written == [c.keys EXCEPT ![slot] = c.displaced]
           other == 1 - c.table
           free == IF previous = Empty THEN {} ELSE EmptySlots(written, previous, other)
           undone == Append(c.undo, [slot |-> slot, previous |-> previous])
           k == Kick(c, o)
<1>1. /\ c.keys \in Backing /\ c.undo \in Seq(Cells) /\ c.table \in Tables
      /\ c.displaced \in S /\ Holds(c.keys, S \ {c.displaced})
      /\ Restore(c.keys, c.undo) = ks0
    BY DEF Chain
<1>2. slot \in SlotsOf(c.displaced) /\ slot \in Slots
    BY <1>1, SlotType
<1>3. /\ k = [keys |-> IF free = {} THEN written
                       ELSE [s \in Slots |-> IF s \in free THEN previous ELSE written[s]],
              undo |-> undone, displaced |-> previous, table |-> other,
              placed |-> previous = Empty \/ free # {}]
    BY DEF Kick
<1> HIDE DEF slot, k
<1>4. previous \in Tokens \cup {Empty} /\ other \in Tables /\ written \in Backing
    BY <1>1, <1>2 DEF Backing, Tables
<1>5. [slot |-> slot, previous |-> previous] \in Cells /\ undone \in Seq(Cells)
    BY <1>1, <1>2, <1>4 DEF Cells
<1>6. previous # Empty => previous \in S \ {c.displaced}
    BY <1>1, <1>2 DEF Holds
<1>7. Holds(written, S \ {previous})
    <2>1. Holds(written, ((S \ {c.displaced}) \ {previous}) \cup {c.displaced})
        <3> HIDE DEF previous
        <3> QED
            BY <1>1, <1>2, WriteHolds DEF previous
    <2>2. previous # c.displaced
        BY <1>1, <1>6, FilterConstants
    <2>3. ((S \ {c.displaced}) \ {previous}) \cup {c.displaced} = S \ {previous}
        BY <1>1, <2>2
    <2> QED
        BY <2>1, <2>3
<1>8. Restore(written, undone) = ks0
    <2>1. [written EXCEPT ![slot] = previous] = c.keys
        BY <1>1, <1>2 DEF Backing
    <2> DEFINE r == [slot |-> slot, previous |-> previous]
    <2>2. /\ Len(c.undo) \in Nat /\ Len(undone) = Len(c.undo) + 1
          /\ undone[Len(c.undo) + 1] = r /\ \A i \in 1 .. Len(c.undo) : undone[i] = c.undo[i]
        <3> HIDE DEF previous
        <3> QED
            BY <1>1, <1>5, AppendProperties
    <2>3. [written EXCEPT ![r.slot] = r.previous] = c.keys /\ undone = Append(c.undo, r)
        BY <2>1
    <2> HIDE DEF r, written, undone
    <2> QED
        BY <1>1, <2>2, <2>3, RestoreLast
<1>9. CASE previous = Empty
    <2>1. free = {} /\ S \ {previous} = S
        BY <1>9, FilterConstants
    <2> HIDE DEF written, previous, undone, other, free
    <2>2. k.keys = written /\ k.placed = TRUE
        BY <1>3, <1>9, <2>1
    <2>3. k \in [keys : Backing, undo : Seq(Cells), displaced : Tokens \cup {Empty},
                 table : Tables, placed : BOOLEAN]
        BY <1>3, <1>4, <1>5, <2>1, <1>9
    <2> QED
        BY <1>7, <2>1, <2>2, <2>3 DEF Chain, k
<1>10. CASE previous # Empty /\ free = {}
    <2> HIDE DEF written, previous, undone, other, free
    <2>1. k.keys = written /\ k.placed = FALSE /\ k.displaced = previous /\ k.undo = undone
        BY <1>3, <1>10
    <2>2. k \in [keys : Backing, undo : Seq(Cells), displaced : Tokens \cup {Empty},
                 table : Tables, placed : BOOLEAN]
        BY <1>3, <1>4, <1>5, <1>10
    <2> QED
        BY <1>6, <1>7, <1>8, <1>10, <2>1, <2>2 DEF Chain, k
<1>11. CASE previous # Empty /\ free # {}
    <2>1. PICK s \in SlotsOf(previous) : free = {s} /\ s \in Slots /\ written[s] = Empty
        <3>1. free = EmptySlots(written, previous, other) /\ previous \in Tokens
            BY <1>4, <1>11
        <3> HIDE DEF written, previous, other, free
        <3> QED
            BY <1>4, <1>11, <3>1, EmptySlotType
    <2> HIDE DEF written, previous, undone, other, free
    <2>2. k.keys = [written EXCEPT ![s] = previous] /\ k.placed = TRUE
        BY <1>3, <1>4, <1>11, <2>1 DEF Backing
    <2>3. Holds(k.keys, ((S \ {previous}) \ {written[s]}) \cup {previous})
        BY <1>6, <1>7, <1>11, <2>1, <2>2, WriteHolds
    <2>4. ((S \ {previous}) \ {written[s]}) \cup {previous} = S
        BY <1>6, <1>11, <2>1, FilterConstants
    <2>5. k.keys \in Backing
        BY <2>3 DEF Holds
    <2>6. /\ k.undo = undone /\ k.displaced = previous /\ k.table = other
          /\ k = [keys |-> k.keys, undo |-> k.undo, displaced |-> k.displaced,
                  table |-> k.table, placed |-> k.placed]
        BY <1>3
    <2>7. k \in [keys : Backing, undo : Seq(Cells), displaced : Tokens \cup {Empty},
                 table : Tables, placed : BOOLEAN]
        BY <1>4, <1>5, <2>2, <2>5, <2>6
    <2> QED
        BY <2>2, <2>3, <2>4, <2>7 DEF Chain, k
<1> QED
    BY <1>9, <1>10, <1>11

-----------------------------------------------------------------------------
(* The specification.                                                      *)

FilterInvariant ==
    /\ members \subseteq Tokens /\ IsFiniteSet(members)
    /\ Holds(keys, members)
    /\ fingerprints = Written(keys)
    /\ n_items = Cardinality(members)

\* A token in the tables is one cell's, and its fingerprint is in that cell.
LEMMA CellOf ==
    ASSUME FilterInvariant, NEW token \in members
    PROVE  \E s \in SlotsOf(token) :
              /\ {z \in Slots : keys[z] = token} = {s}
              /\ fingerprints[s] = FingerprintOf[<<token, s.offset>>]
<1>1. PICK s \in Slots : keys[s] = token
    BY DEF FilterInvariant, Holds
<1>2. token # Empty
    BY FilterConstants DEF FilterInvariant
<1>3. s \in SlotsOf(token) /\ \A z \in Slots : keys[z] = token => z = s
    BY <1>1, <1>2 DEF FilterInvariant, Holds
<1>4. fingerprints[s] = FingerprintOf[<<token, s.offset>>]
    BY <1>1, <1>2 DEF FilterInvariant, Written
<1>5. {z \in Slots : keys[z] = token} = {s}
    BY <1>1, <1>3
<1> QED
    BY <1>3, <1>4, <1>5

\* Among cells that a call considers in order there is a first.
LEMMA FirstCell ==
    ASSUME NEW Z \in SUBSET Slots, Z # {}
    PROVE  \E s \in Z : \A z \in Z : \/ s.table < z.table
                                     \/ s.table = z.table /\ s.offset <= z.offset
<1> DEFINE In(t) == {s \in Z : s.table = t}
           Of(t) == {s.offset : s \in In(t)}
<1>1. \A s \in Z : s.table \in {0, 1} /\ s.offset \in Offsets
    BY DEF Slots, Tables
<1>2. ASSUME NEW t \in {0, 1}, In(t) # {}
      PROVE  \E s \in In(t) : \A z \in In(t) : s.offset <= z.offset
    <2>1. Of(t) \in SUBSET Nat /\ Of(t) # {}
        <3>1. \A s \in In(t) : s.offset \in Nat
            BY <1>1, FilterConstants
        <3>2. PICK s \in In(t) : TRUE
            BY <1>2
        <3>3. s.offset \in Of(t)
            BY <3>2
        <3> HIDE DEF In
        <3> QED
            BY <3>1, <3>3
    <2> HIDE DEF Of
    <2>2. PICK m \in Of(t) : \A q \in Of(t) : m <= q
        BY <2>1, LeastElement
    <2> USE DEF Of
    <2>3. PICK s \in In(t) : m = s.offset
        OBVIOUS
    <2> QED
        BY <2>2, <2>3
<1>3. CASE In(0) # {}
    BY <1>1, <1>2, <1>3
<1>4. CASE In(0) = {}
    <2>1. In(1) = Z
        BY <1>1, <1>4
    <2> QED
        BY <1>1, <1>2, <2>1
<1> QED
    BY <1>3, <1>4

LEMMA TokensStay ==
    ASSUME FilterInvariant, NEW token \in Tokens \ members
    PROVE  /\ members \cup {token} \subseteq Tokens /\ IsFiniteSet(members \cup {token})
           /\ Cardinality(members \cup {token}) = n_items + 1
BY FS_AddElement DEF FilterInvariant

\* add in an empty cell.
LEMMA AddDirectlyKeeps ==
    ASSUME FilterInvariant, NEW token \in Tokens, AddDirectly(token)
    PROVE  FilterInvariant'
<1> DEFINE free == [t \in Tables |-> EmptySlots(keys, token, t)]
           slots == IF free[0] # {} THEN free[0] ELSE free[1]
<1>1. /\ token \notin members /\ slots # {}
      /\ keys' = [s \in Slots |-> IF s \in slots THEN token ELSE keys[s]]
      /\ fingerprints' = Written(keys') /\ n_items' = n_items + 1
      /\ members' = members \cup {token}
    BY DEF AddDirectly
<1>2. PICK s \in SlotsOf(token) : slots = {s} /\ s \in Slots /\ keys[s] = Empty
    <2>1. \A t \in Tables : free[t] = {} \/ \E s \in SlotsOf(token) :
                                 free[t] = {s} /\ s \in Slots /\ keys[s] = Empty
        BY EmptySlotType
    <2>2. 0 \in Tables /\ 1 \in Tables
        BY DEF Tables
    <2> HIDE DEF free
    <2> QED
        BY <1>1, <2>1, <2>2
<1> HIDE DEF slots
<1>3. keys' = [keys EXCEPT ![s] = token]
    BY <1>1, <1>2 DEF FilterInvariant, Holds, Backing
<1>4. Holds(keys', (members \ {keys[s]}) \cup {token})
    BY <1>1, <1>3, WriteHolds DEF FilterInvariant
<1>5. members \ {keys[s]} = members
    BY <1>2, FilterConstants DEF FilterInvariant
<1> QED
    BY <1>1, <1>4, <1>5, TokensStay DEF FilterInvariant, Written, Holds

\* add with kicks, which places every token or restores every cell.
LEMMA AddWithKicksKeeps ==
    ASSUME FilterInvariant, NEW token \in Tokens, AddWithKicks(token)
    PROVE  FilterInvariant'
<1> DEFINE S == members \cup {token}
           First(t) == [keys |-> keys, undo |-> <<>>, displaced |-> token,
                        table |-> t, placed |-> FALSE]
<1>1. PICK t \in Tables : \E chain \in Chains(First(t), MaxKicks) :
          /\ keys' = IF chain.placed THEN chain.keys ELSE Restore(chain.keys, chain.undo)
          /\ fingerprints' = Written(keys')
          /\ n_items' = IF chain.placed THEN n_items + 1 ELSE n_items
          /\ members' = IF chain.placed THEN members \cup {token} ELSE members
    BY DEF AddWithKicks
<1>2. token \notin members
    BY DEF AddWithKicks
<1>3. First(t) \in Chain(keys, S)
    <2>1. keys \in Backing /\ Holds(keys, members) /\ members = S \ {token}
        BY <1>2 DEF FilterInvariant, Holds
    <2>2. <<>> \in Seq(Cells) /\ Restore(keys, <<>>) = keys
        BY RestoreNothing
    <2> QED
        BY <2>1, <2>2 DEF Chain
<1>4. S \in SUBSET Tokens
    BY DEF FilterInvariant
<1>5. \A c \in Chain(keys, S) : ~c.placed => \A o \in Offsets : Kick(c, o) \in Chain(keys, S)
    <2> HIDE DEF S
    <2> QED
        BY <1>4, KickKeeps
<1>6. Chains(First(t), MaxKicks) \subseteq Chain(keys, S)
    <2> DEFINE start == First(t)
               G == Chain(keys, S)
    <2>1. MaxKicks \in Nat
        BY FilterConstants
    <2>2. start \in G /\ \A c \in G : ~c.placed => \A o \in Offsets : Kick(c, o) \in G
        BY <1>3, <1>5
    <2> HIDE DEF start, G
    <2>3. Chains(start, MaxKicks) \subseteq G
        BY <2>1, <2>2, ChainsKeep
    <2> QED
        BY <2>3 DEF start, G
<1> HIDE DEF First, S
<1>7. PICK chain \in Chain(keys, S) :
          /\ keys' = IF chain.placed THEN chain.keys ELSE Restore(chain.keys, chain.undo)
          /\ fingerprints' = Written(keys')
          /\ n_items' = IF chain.placed THEN n_items + 1 ELSE n_items
          /\ members' = IF chain.placed THEN members \cup {token} ELSE members
    BY <1>1, <1>6
<1>8. CASE chain.placed
    <2>1. Holds(keys', members')
        BY <1>7, <1>8 DEF Chain, S
    <2> QED
        BY <1>2, <1>7, <1>8, <2>1, TokensStay DEF FilterInvariant, Written, Holds
<1>9. CASE ~chain.placed
    <2>1. keys' = keys /\ members' = members /\ n_items' = n_items
        BY <1>7, <1>9 DEF Chain
    <2> QED
        BY <1>7, <2>1 DEF FilterInvariant, Written, Holds
<1> QED
    BY <1>8, <1>9

\* An adaptation moves tokens within their buckets only.
LEMMA ConfirmKeeps ==
    ASSUME FilterInvariant, NEW token \in Tokens, ConfirmFalsePositive(token)
    PROVE  FilterInvariant'
<1> DEFINE first == CHOOSE s \in Matches(token) : \A z \in Matches(token) :
                        \/ s.table < z.table
                        \/ s.table = z.table /\ s.offset <= z.offset
<1>1. Matches(token) \in SUBSET Slots /\ Matches(token) # {}
    BY SlotType DEF ConfirmFalsePositive, Matches
<1>2. first \in Slots
    BY <1>1, FirstCell
<1>3. PICK o \in Offsets \ {first.offset} :
          LET target == [first EXCEPT !.offset = o] IN
          keys' = [keys EXCEPT ![first] = keys[target], ![target] = keys[first]]
    BY DEF ConfirmFalsePositive
<1>4. fingerprints' = Written(keys') /\ n_items' = n_items /\ members' = members
    BY DEF ConfirmFalsePositive
<1> HIDE DEF first
<1>5. Holds(keys', members)
    BY <1>2, <1>3, SwapHolds DEF FilterInvariant
<1> QED
    BY <1>4, <1>5 DEF FilterInvariant, Written, Holds

\* delete empties the cell of the token.
LEMMA DeleteKeeps ==
    ASSUME FilterInvariant, NEW token \in Tokens, Delete(token)
    PROVE  FilterInvariant'
<1> DEFINE holding == {s \in SlotsOf(token) : keys[s] = token}
           slot == CHOOSE s \in holding : \A z \in holding :
                        \/ s.table < z.table
                        \/ s.table = z.table /\ s.offset <= z.offset
<1>1. holding \in SUBSET Slots /\ holding # {}
    BY SlotType DEF Delete
<1>2. slot \in holding
    <2> HIDE DEF holding
    <2> QED
        BY <1>1, FirstCell
<1>3. /\ keys' = [keys EXCEPT ![slot] = Empty] /\ fingerprints' = Written(keys')
      /\ n_items' = n_items - 1 /\ members' = members \ {token}
    BY DEF Delete
<1>4. slot \in Slots /\ keys[slot] = token /\ token # Empty
    BY <1>1, <1>2, FilterConstants
<1> HIDE DEF slot, holding
<1>5. Holds(keys', members \ {token}) /\ token \in members
    <2>1. token \in members
        BY <1>4 DEF FilterInvariant, Holds
    <2>2. members \in SUBSET Tokens /\ Holds(keys, members) /\ keys[slot] # Empty
        BY <1>4 DEF FilterInvariant
    <2>3. Holds([keys EXCEPT ![slot] = Empty], members \ {keys[slot]})
        BY <1>4, <2>2, ClearHolds
    <2> QED
        BY <1>3, <1>4, <2>1, <2>3
<1>6. IsFiniteSet(members \ {token}) /\ Cardinality(members \ {token}) = n_items - 1
    BY <1>5, FS_RemoveElement DEF FilterInvariant
<1> QED
    BY <1>3, <1>5, <1>6 DEF FilterInvariant, Written, Holds

\* The tables hold the members, each in one cell with its fingerprint, in every reachable
\* state.
THEOREM FilterInvariance == FilterSpec => []FilterInvariant
<1>1. FilterInit => FilterInvariant
    <2> SUFFICES ASSUME FilterInit PROVE FilterInvariant
        OBVIOUS
    <2>1. Holds(keys, {})
        BY DEF FilterInit, Holds, Backing
    <2>2. fingerprints = Written(keys)
        BY DEF FilterInit, Written
    <2> QED
        BY <2>1, <2>2, FS_EmptySet DEF FilterInit, FilterInvariant
<1>2. FilterInvariant /\ [FilterNext]_filterVars => FilterInvariant'
    <2> SUFFICES ASSUME FilterInvariant, [FilterNext]_filterVars PROVE FilterInvariant'
        OBVIOUS
    <2>1. CASE UNCHANGED filterVars
        BY <2>1 DEF filterVars, FilterInvariant, Holds, Written
    <2> QED
        BY <2>1, AddDirectlyKeeps, AddWithKicksKeeps, ConfirmKeeps, DeleteKeeps DEF FilterNext
<1> QED
    BY <1>1, <1>2, PTL DEF FilterSpec

\* A token that was added and not deleted always queries positive.
THEOREM NeverFalseNegative == FilterSpec => []NoFalseNegatives
<1>1. FilterInvariant => NoFalseNegatives
    <2> SUFFICES ASSUME FilterInvariant, NEW token \in members PROVE Query(token)
        BY DEF NoFalseNegatives
    <2> QED
        BY CellOf DEF Query, Matches
<1> QED
    BY <1>1, FilterInvariance, PTL

\* Both tables and the count describe the set of members.
THEOREM TablesAlwaysHoldMembers == FilterSpec => []TablesHoldMembers
<1>1. FilterInvariant => TablesHoldMembers
    <2> SUFFICES ASSUME FilterInvariant PROVE TablesHoldMembers
        OBVIOUS
    <2>1. \A token \in members : Cardinality({s \in Slots : keys[s] = token}) = 1
        BY CellOf, FS_Singleton
    <2>2. \A s \in Slots : fingerprints[s] =
              (IF keys[s] = Empty THEN 0 ELSE FingerprintOf[<<keys[s], s.offset>>])
        BY DEF FilterInvariant, Written
    <2> QED
        BY <2>1, <2>2 DEF FilterInvariant, TablesHoldMembers, Holds
<1> QED
    BY <1>1, FilterInvariance, PTL
-----------------------------------------------------------------------------
(* The expiry heap.                                                        *)

Items == Nat \X Nat

\* The order of the items is total and transitive.
LEMMA ItemOrder ==
    ASSUME NEW a \in Items, NEW b \in Items, NEW c \in Items
    PROVE  /\ Before(a, b) => ~Before(b, a)
           /\ ~Before(b, a) /\ ~Before(c, b) => ~Before(c, a)
<1>1. a[1] \in Nat /\ a[2] \in Nat /\ b[1] \in Nat /\ b[2] \in Nat /\ c[1] \in Nat /\ c[2] \in Nat
    BY DEF Items
<1> QED
    BY <1>1 DEF Before

\* Positions of parents and children.
LEMMA Halves ==
    ASSUME NEW j \in Nat, j >= 2
    PROVE  /\ j \div 2 \in Nat /\ 1 <= j \div 2 /\ j \div 2 < j
           /\ \A i \in Nat : j \div 2 = i <=> j = 2 * i \/ j = 2 * i + 1
OBVIOUS

\* A sequence with one element replaced.
LEMMA Replaced ==
    ASSUME NEW S, NEW q \in Seq(S), NEW i \in 1 .. Len(q), NEW v \in S
    PROVE  LET r == [q EXCEPT ![i] = v]
           IN  /\ r \in Seq(S) /\ Len(r) = Len(q) /\ Len(q) \in Nat
               /\ \A m \in 1 .. Len(q) : r[m] = IF m = i THEN v ELSE q[m]
OBVIOUS

\* The index describes the entries: one item for each, at its position.
Describes(x, e) ==
    /\ DOMAIN x = {"items", "position"}
    /\ DOMAIN e \subseteq Nat
    /\ e \in [DOMAIN e -> Nat]
    /\ x.items \in Seq(Items)
    /\ x.position \in [DOMAIN e -> 1 .. Len(x.items)]
    /\ \A i \in 1 .. Len(x.items) :
          x.items[i][2] \in DOMAIN e /\ x.position[x.items[i][2]] = i
    /\ \A k \in DOMAIN e : x.items[x.position[k]] = <<e[k], k>>

\* Every item is in order with its parent.
Fits(h, j) == ~Before(h[j], h[j \div 2])
Heaped(h) == \A j \in 2 .. Len(h) : Fits(h, j)

\* ... but for the item at i, which may be out of order with its parent or
\* with its children; these are in order with the parent of i.
Loose(h, i) ==
    /\ \A j \in 2 .. Len(h) : j # i /\ j \div 2 # i => Fits(h, j)
    /\ \A j \in 2 .. Len(h) : j \div 2 = i /\ i # 1 => ~Before(h[j], h[i \div 2])
AboveChildren(h, i) == \A j \in 2 .. Len(h) : j \div 2 = i => Fits(h, j)
BelowParent(h, i) == i # 1 => Fits(h, i)

LEMMA InPlace ==
    ASSUME NEW h, NEW i, Loose(h, i), AboveChildren(h, i), BelowParent(h, i)
    PROVE  Heaped(h)
BY DEF Loose, AboveChildren, BelowParent, Heaped

LEMMA ItemsOf ==
    ASSUME NEW x, NEW e, Describes(x, e)
    PROVE  /\ x.items \in Seq(Items) /\ Len(x.items) \in Nat
           /\ \A m \in 1 .. Len(x.items) : x.items[m] \in Items
<1>1. x.items \in Seq(Items)
    BY DEF Describes
<1> QED
    BY <1>1

\* What a swap does.
LEMMA SwapKeeps ==
    ASSUME NEW x, NEW e, Describes(x, e),
           NEW i \in 1 .. Len(x.items), NEW j \in 1 .. Len(x.items), i # j
    PROVE  LET y == Swap(x, i, j)
           IN  /\ Describes(y, e)
               /\ Len(y.items) = Len(x.items)
               /\ \A m \in 1 .. Len(x.items) :
                     y.items[m] = IF m = i THEN x.items[j] ELSE IF m = j THEN x.items[i] ELSE x.items[m]
<1> DEFINE n == Len(x.items)
           y == Swap(x, i, j)
           a == x.items[i][2]
           b == x.items[j][2]
           half == [x.items EXCEPT ![i] = x.items[j]]
<1>1. x.items \in Seq(Items) /\ x.items[i] \in Items /\ x.items[j] \in Items
    BY ItemsOf
<1>2. half \in Seq(Items) /\ Len(half) = n /\ n \in Nat
      /\ \A m \in 1 .. n : half[m] = IF m = i THEN x.items[j] ELSE x.items[m]
    BY <1>1, Replaced
<1>3. y.items = [half EXCEPT ![j] = x.items[i]]
    BY DEF Swap
<1>4. y.items \in Seq(Items) /\ Len(y.items) = n
      /\ \A m \in 1 .. n : y.items[m] = IF m = j THEN x.items[i] ELSE half[m]
    <2> HIDE DEF half, y
    <2> QED
        BY <1>1, <1>2, <1>3, Replaced
<1>5. \A m \in 1 .. n : y.items[m] = IF m = i THEN x.items[j] ELSE IF m = j THEN x.items[i] ELSE x.items[m]
    BY <1>2, <1>4
<1>6. a \in DOMAIN e /\ b \in DOMAIN e /\ a # b /\ x.position[a] = i /\ x.position[b] = j
    <2>1. \A m \in 1 .. n : x.items[m][2] \in DOMAIN e /\ x.position[x.items[m][2]] = m
        BY DEF Describes
    <2> QED
        BY <2>1
<1>7. y.position = [x.position EXCEPT ![b] = i, ![a] = j]
    BY DEF Swap
<1>8. y.position \in [DOMAIN e -> 1 .. n]
      /\ \A k \in DOMAIN e : y.position[k] = IF k = a THEN j ELSE IF k = b THEN i ELSE x.position[k]
    <2>1. x.position \in [DOMAIN e -> 1 .. n]
        BY DEF Describes
    <2> HIDE DEF y, a, b, n
    <2> QED
        BY <1>6, <1>7, <2>1
<1> HIDE DEF y, half
<1>9. ASSUME NEW m \in 1 .. n
      PROVE  y.items[m][2] \in DOMAIN e /\ y.position[y.items[m][2]] = m
    <2>1. x.items[m][2] \in DOMAIN e /\ x.position[x.items[m][2]] = m
        BY DEF Describes
    <2>2. CASE m = i
        BY <1>5, <1>6, <1>8, <2>2
    <2>3. CASE m = j
        BY <1>5, <1>6, <1>8, <2>3
    <2>4. CASE m # i /\ m # j
        <3>1. y.items[m] = x.items[m]
            BY <1>5, <2>4
        <3>2. x.items[m][2] # a /\ x.items[m][2] # b
            BY <1>6, <2>1, <2>4
        <3> QED
            BY <1>8, <2>1, <3>1, <3>2
    <2> QED
        BY <2>2, <2>3, <2>4
<1>10. ASSUME NEW k \in DOMAIN e PROVE y.items[y.position[k]] = <<e[k], k>>
    <2>1. x.items[x.position[k]] = <<e[k], k>> /\ x.position[k] \in 1 .. n
          /\ x.items[i] = <<e[a], a>> /\ x.items[j] = <<e[b], b>>
        BY <1>6 DEF Describes
    <2>2. k # a /\ k # b => x.position[k] # i /\ x.position[k] # j
        BY <2>1
    <2> QED
        BY <1>5, <1>6, <1>8, <2>1, <2>2
<1>11. Describes(y, e)
    <2>1. DOMAIN y = {"items", "position"}
        BY DEF y, Swap
    <2>2. DOMAIN e \subseteq Nat /\ e \in [DOMAIN e -> Nat]
        BY DEF Describes
    <2>3. y.items \in Seq(Items) /\ y.position \in [DOMAIN e -> 1 .. Len(y.items)]
        BY <1>4, <1>8
    <2>4. \A m \in 1 .. Len(y.items) :
             y.items[m][2] \in DOMAIN e /\ y.position[y.items[m][2]] = m
        BY <1>4, <1>9
    <2> QED
        BY <1>10, <2>1, <2>2, <2>3, <2>4 DEF Describes
<1> QED
    BY <1>4, <1>5, <1>11 DEF y

\* One turn upwards.
LEMMA RiseKeeps ==
    ASSUME NEW c, NEW e, Describes(c.index, e),
           c.at \in 1 .. Len(c.index.items), Loose(c.index.items, c.at)
    PROVE  LET d == Rise(c)
           IN  /\ Describes(d.index, e)
               /\ Len(d.index.items) = Len(c.index.items)
               /\ d.at \in 1 .. Len(c.index.items)
               /\ Loose(d.index.items, d.at)
               /\ AboveChildren(c.index.items, c.at) => AboveChildren(d.index.items, d.at)
               /\ BelowParent(d.index.items, d.at) \/ d.at < c.at
               /\ BelowParent(c.index.items, c.at) => d = c
<1> DEFINE i == c.at
           h == c.index.items
           p == i \div 2
           d == Rise(c)
<1>1. h \in Seq(Items) /\ Len(h) \in Nat /\ \A m \in 1 .. Len(h) : h[m] \in Items
    BY ItemsOf
<1>2. CASE i = 1 \/ ~Before(h[i], h[p])
    <2>1. d = c
        BY <1>2 DEF Rise
    <2>2. BelowParent(h, i)
        BY <1>2 DEF BelowParent, Fits
    <2> QED
        BY <2>1, <2>2
<1>3. CASE i # 1 /\ Before(h[i], h[p])
    <2> DEFINE g == Swap(c.index, i, p).items
    <2>1. d = [index |-> Swap(c.index, i, p), at |-> p]
        BY <1>3 DEF Rise, Cursor
    <2>2. i \in Nat /\ i >= 2 /\ i <= Len(h)
        BY <1>1, <1>3
    <2>3. p \in 1 .. Len(h) /\ p < i /\ p # i
        BY <1>1, <2>2, Halves
    <2>4. /\ Describes(Swap(c.index, i, p), e)
          /\ Len(g) = Len(h)
          /\ \A m \in 1 .. Len(h) : g[m] = IF m = i THEN h[p] ELSE IF m = p THEN h[i] ELSE h[m]
        <3> DEFINE x == c.index
        <3>1. Describes(x, e) /\ i \in 1 .. Len(x.items) /\ p \in 1 .. Len(x.items) /\ i # p
            BY <2>3
        <3> HIDE DEF x, i, p
        <3>2. /\ Describes(Swap(x, i, p), e)
              /\ Len(Swap(x, i, p).items) = Len(x.items)
              /\ \A m \in 1 .. Len(x.items) :
                    Swap(x, i, p).items[m] = IF m = i THEN x.items[p]
                                             ELSE IF m = p THEN x.items[i] ELSE x.items[m]
            BY <3>1, SwapKeeps
        <3> QED
            BY <3>2 DEF x
    <2> HIDE DEF g
    <2>5. \A j \in 2 .. Len(h) : j \in 1 .. Len(h) /\ j \div 2 \in 1 .. Len(h) /\ j \div 2 < j
        BY <1>1, Halves
    <2>6. ASSUME NEW j \in 2 .. Len(h), j # p PROVE Fits(g, j)
        <3>1. g[j] = (IF j = i THEN h[p] ELSE h[j])
              /\ g[j \div 2] = IF j \div 2 = i THEN h[p] ELSE IF j \div 2 = p THEN h[i] ELSE h[j \div 2]
            BY <2>4, <2>5, <2>6
        <3>2. CASE j = i
            <4>1. g[j] = h[p] /\ g[j \div 2] = h[i]
                BY <2>3, <3>1, <3>2
            <4> QED
                BY <1>1, <1>3, <2>3, <4>1, ItemOrder DEF Fits
        <3>3. CASE j # i /\ j \div 2 = i
            <4>1. g[j] = h[j] /\ g[j \div 2] = h[p]
                BY <3>1, <3>3
            <4>2. ~Before(h[j], h[p])
                BY <1>3, <3>3 DEF Loose
            <4> QED
                BY <4>1, <4>2 DEF Fits
        <3>4. CASE j # i /\ j \div 2 = p
            <4>1. g[j] = h[j] /\ g[j \div 2] = h[i]
                BY <2>3, <3>1, <3>4
            <4>2. ~Before(h[j], h[p])
                BY <2>3, <3>4 DEF Loose, Fits
            <4>3. ~Before(h[p], h[i])
                BY <1>1, <1>3, <2>3, ItemOrder
            <4> QED
                BY <1>1, <2>3, <2>5, <4>1, <4>2, <4>3, ItemOrder DEF Fits
        <3>5. CASE j # i /\ j \div 2 # i /\ j \div 2 # p
            <4>1. g[j] = h[j] /\ g[j \div 2] = h[j \div 2] /\ Fits(h, j)
                BY <3>1, <3>5 DEF Loose
            <4> QED
                BY <4>1 DEF Fits
        <3> QED
            BY <3>2, <3>3, <3>4, <3>5
    <2>7. ASSUME NEW j \in 2 .. Len(h), j \div 2 = p, p # 1 PROVE ~Before(g[j], g[p \div 2])
        <3>1. p \in 2 .. Len(h) /\ p # i /\ p \div 2 < p
            BY <2>3, <2>7, Halves
        <3>2. ~Before(h[p], h[p \div 2])
            <4>1. p \div 2 # i
                BY <2>3, <3>1
            <4> QED
                BY <3>1, <4>1 DEF Loose, Fits
        <3>3. g[p \div 2] = h[p \div 2] /\ p \div 2 \in 1 .. Len(h)
            <4>1. p \div 2 \in 1 .. Len(h) /\ p \div 2 < i
                BY <1>1, <2>2, <2>3, <2>5, <3>1
            <4>2. p \div 2 # p /\ p \div 2 # i
                BY <2>2, <2>3, <3>1, <4>1
            <4> QED
                BY <2>4, <4>1, <4>2
        <3>4. j # p /\ g[j] = IF j = i THEN h[p] ELSE h[j]
            BY <2>4, <2>5, <2>7
        <3>5. j # i => ~Before(h[j], h[p])
            BY <2>3, <2>7 DEF Loose, Fits
        <3>6. h[j] \in Items /\ h[p] \in Items /\ h[p \div 2] \in Items
            BY <1>1, <2>3, <2>5, <3>3
        <3>7. j # i => ~Before(h[j], h[p \div 2])
            BY <3>2, <3>5, <3>6, ItemOrder
        <3> QED
            BY <3>2, <3>3, <3>4, <3>7
    <2>8. Loose(g, p) /\ AboveChildren(g, p)
        <3>1. \A j \in 2 .. Len(h) : j \div 2 = p => j # p
            BY <2>5
        <3> QED
            BY <2>4, <2>6, <2>7, <3>1 DEF Loose, AboveChildren
    <2>9. ~BelowParent(h, i)
        BY <1>3 DEF BelowParent, Fits
    <2> QED
        BY <2>1, <2>3, <2>4, <2>8, <2>9 DEF g
<1> QED
    BY <1>2, <1>3

\* The turns of the loop.
LEMMA SiftUpTurns ==
    ASSUME NEW x, NEW i \in Nat
    PROVE  \E r : /\ r[0] = Cursor(x, i)
                  /\ \A n \in 0 .. i : n < i => r[n + 1] = Rise(r[n])
                  /\ SiftUp(x, i) = r[i]
<1> DEFINE Partial(n, f) == f = [m \in 0 .. n |-> IF m = 0 THEN Cursor(x, i) ELSE Rise(f[m - 1])]
           T == {n \in Nat : \E f : Partial(n, f)}
<1>1. 0 \in T
    <2>1. Partial(0, [m \in 0 .. 0 |-> Cursor(x, i)])
        OBVIOUS
    <2> HIDE DEF Partial
    <2> QED
        BY <2>1
<1>2. ASSUME NEW n \in T PROVE n + 1 \in T
    <2>1. PICK f : Partial(n, f)
        OBVIOUS
    <2> DEFINE g == [m \in 0 .. n + 1 |-> IF m <= n THEN f[m] ELSE Rise(f[n])]
    <2>2. \A m \in 0 .. n + 1 : g[m] = IF m = 0 THEN Cursor(x, i) ELSE Rise(g[m - 1])
        BY <2>1
    <2>3. Partial(n + 1, g)
        <3>1. g = [m \in 0 .. n + 1 |-> g[m]]
            OBVIOUS
        <3> HIDE DEF g
        <3> QED
            BY <2>2, <3>1
    <2>4. n + 1 \in Nat
        OBVIOUS
    <2> HIDE DEF Partial
    <2> QED
        BY <2>3, <2>4
<1>3. \E f : Partial(i, f)
    <2> HIDE DEF Partial
    <2>1. T \in SUBSET Nat
        OBVIOUS
    <2>2. T = Nat
        <3> HIDE DEF T
        <3> QED
            BY <1>1, <1>2, <2>1, NatInduced
    <2> QED
        BY <2>2
<1> DEFINE r == CHOOSE f : Partial(i, f)
<1>4. SiftUp(x, i) = r[i]
    BY DEF SiftUp
<1>5. Partial(i, r)
    <2> HIDE DEF Partial
    <2> QED
        BY <1>3
<1> HIDE DEF r
<1>6. \A m \in 0 .. i : r[m] = IF m = 0 THEN Cursor(x, i) ELSE Rise(r[m - 1])
    BY <1>5
<1>7. r[0] = Cursor(x, i) /\ \A n \in 0 .. i : n < i => r[n + 1] = Rise(r[n])
    BY <1>6
<1> QED
    BY <1>4, <1>7

\* The loop upwards ends with the item below its parent.
LEMMA SiftUpKeeps ==
    ASSUME NEW x, NEW e, Describes(x, e), NEW i \in 1 .. Len(x.items), Loose(x.items, i)
    PROVE  LET c == SiftUp(x, i)
           IN  /\ Describes(c.index, e)
               /\ Len(c.index.items) = Len(x.items)
               /\ c.at \in 1 .. Len(x.items)
               /\ Loose(c.index.items, c.at)
               /\ BelowParent(c.index.items, c.at)
               /\ AboveChildren(x.items, i) => AboveChildren(c.index.items, c.at)
<1>1. i \in Nat
    OBVIOUS
<1>2. PICK r : /\ r[0] = Cursor(x, i)
               /\ \A n \in 0 .. i : n < i => r[n + 1] = Rise(r[n])
               /\ SiftUp(x, i) = r[i]
    BY <1>1, SiftUpTurns
<1> DEFINE Good(c) == /\ Describes(c.index, e)
                      /\ Len(c.index.items) = Len(x.items)
                      /\ c.at \in 1 .. Len(x.items)
                      /\ Loose(c.index.items, c.at)
                      /\ AboveChildren(x.items, i) => AboveChildren(c.index.items, c.at)
           T == {n \in 0 .. i : Good(r[n]) /\ (BelowParent(r[n].index.items, r[n].at)
                                                \/ r[n].at + n <= i)}
<1>3. 0 \in T
    BY <1>2 DEF Cursor
<1>4. ASSUME NEW n \in 0 .. i, n < i, n \in T PROVE n + 1 \in T
    <2> DEFINE c == r[n]
               d == r[n + 1]
    <2>1. d = Rise(c) /\ n + 1 \in 0 .. i
        BY <1>2, <1>4
    <2>2. Good(c) /\ (BelowParent(c.index.items, c.at) \/ c.at + n <= i)
        BY <1>4
    <2> HIDE DEF c, d
    <2>3. /\ Good(d)
          /\ BelowParent(d.index.items, d.at) \/ d.at < c.at
          /\ BelowParent(c.index.items, c.at) => d = c
        BY <2>1, <2>2, RiseKeeps
    <2>4. BelowParent(d.index.items, d.at) \/ d.at + (n + 1) <= i
        <3>1. c.at \in Nat /\ d.at \in Nat
            BY <2>2, <2>3
        <3> HIDE DEF Good
        <3> QED
            BY <1>1, <2>2, <2>3, <3>1
    <2> QED
        BY <2>1, <2>3, <2>4 DEF d
<1>5. i \in T
    <2> HIDE DEF T
    <2>1. 0 .. i \subseteq T
        BY <1>1, <1>3, <1>4, BoundedInduction
    <2> QED
        BY <1>1, <2>1
<1>6. Good(r[i]) /\ BelowParent(r[i].index.items, r[i].at)
    <2>1. r[i].at \in Nat /\ r[i].at >= 1
        BY <1>5
    <2> HIDE DEF Good
    <2> QED
        BY <1>1, <1>5, <2>1
<1> QED
    BY <1>2, <1>6

\* One turn downwards.
LEMMA SinkKeeps ==
    ASSUME NEW c, NEW e, Describes(c.index, e),
           c.at \in 1 .. Len(c.index.items), Loose(c.index.items, c.at),
           BelowParent(c.index.items, c.at)
    PROVE  LET d == Sink(c)
           IN  /\ Describes(d.index, e)
               /\ Len(d.index.items) = Len(c.index.items)
               /\ d.at \in 1 .. Len(c.index.items)
               /\ Loose(d.index.items, d.at)
               /\ BelowParent(d.index.items, d.at)
               /\ AboveChildren(d.index.items, d.at) \/ d.at > c.at
               /\ AboveChildren(c.index.items, c.at) => d = c
<1> DEFINE i == c.at
           h == c.index.items
           s == Smallest(c.index, i)
           d == Sink(c)
<1>1. h \in Seq(Items) /\ Len(h) \in Nat /\ \A m \in 1 .. Len(h) : h[m] \in Items
    BY ItemsOf
<1>2. i \in Nat /\ i >= 1 /\ i <= Len(h)
    BY <1>1
<1>3. \A j \in 2 .. Len(h) : /\ j \in 1 .. Len(h) /\ j \div 2 \in 1 .. Len(h) /\ j \div 2 < j
                             /\ j \div 2 = i <=> j = 2 * i \/ j = 2 * i + 1
    <2> TAKE j \in 2 .. Len(h)
    <2>1. j \in Nat /\ j >= 2 /\ j <= Len(h)
        BY <1>1
    <2>2. /\ j \div 2 \in Nat /\ 1 <= j \div 2 /\ j \div 2 < j
          /\ j \div 2 = i <=> j = 2 * i \/ j = 2 * i + 1
        BY <1>2, <2>1, Halves
    <2> QED
        BY <1>1, <2>1, <2>2
<1>4. CASE 2 * i > Len(h)
    <2>1. d = c
        BY <1>4 DEF Sink
    <2>2. AboveChildren(h, i)
        BY <1>1, <1>2, <1>3, <1>4 DEF AboveChildren
    <2> QED
        BY <2>1, <2>2
<1>5. ASSUME 2 * i <= Len(h)
      PROVE  /\ s \in 2 .. Len(h) /\ s \div 2 = i /\ s > i /\ s # i
             /\ \A j \in 2 .. Len(h) : j \div 2 = i => ~Before(h[j], h[s])
    <2> DEFINE left == 2 * i
               right == 2 * i + 1
    <2>1. left \in 2 .. Len(h) /\ left \div 2 = i /\ left > i
        BY <1>1, <1>2, <1>3, <1>5
    <2>2. right <= Len(h) => right \in 2 .. Len(h) /\ right \div 2 = i /\ right > i
        <3>1. right \in Nat /\ right >= 2 /\ right > i
            BY <1>2
        <3>2. right <= Len(h) => right \in 2 .. Len(h)
            BY <1>1, <3>1
        <3>3. right \in 2 .. Len(h) => right \div 2 = i
            BY <1>3
        <3> QED
            BY <3>1, <3>2, <3>3
    <2>3. s = IF right <= Len(h) /\ Before(h[right], h[left]) THEN right ELSE left
        BY DEF Smallest
    <2>4. h[left] \in Items /\ (right <= Len(h) => h[right] \in Items)
        BY <1>1, <1>3, <2>1, <2>2
    <2>5. ~Before(h[left], h[left]) /\ (right <= Len(h) => ~Before(h[right], h[right])
             /\ (Before(h[right], h[left]) => ~Before(h[left], h[right])))
        BY <2>4, ItemOrder
    <2>6. \A j \in 2 .. Len(h) : j \div 2 = i => j = left \/ (j = right /\ right <= Len(h))
        BY <1>1, <1>3
    <2> HIDE DEF s, left, right
    <2>7. s \in 2 .. Len(h) /\ s \div 2 = i /\ s > i
        BY <2>1, <2>2, <2>3
    <2>8. s # i
        BY <1>2, <2>7
    <2>9. \A j \in 2 .. Len(h) : j \div 2 = i => ~Before(h[j], h[s])
        BY <2>3, <2>5, <2>6
    <2> QED
        BY <2>7, <2>8, <2>9
<1>6. CASE 2 * i <= Len(h) /\ ~Before(h[s], h[i])
    <2>1. d = c
        BY <1>1, <1>2, <1>6 DEF Sink
    <2>2. ASSUME NEW j \in 2 .. Len(h), j \div 2 = i PROVE Fits(h, j)
        <3>1. ~Before(h[j], h[s]) /\ s \in 1 .. Len(h) /\ j \in 1 .. Len(h) /\ i \in 1 .. Len(h)
            BY <1>3, <1>5, <1>6, <2>2
        <3> HIDE DEF s
        <3>2. ~Before(h[j], h[i])
            BY <1>1, <1>6, <3>1, ItemOrder
        <3> QED
            BY <2>2, <3>2 DEF Fits
    <2> QED
        BY <2>1, <2>2 DEF AboveChildren
<1>7. CASE 2 * i <= Len(h) /\ Before(h[s], h[i])
    <2> DEFINE g == Swap(c.index, i, s).items
    <2>1. d = [index |-> Swap(c.index, i, s), at |-> s]
        <3>1. ~(2 * i > Len(h))
            BY <1>1, <1>2, <1>7
        <3> QED
            BY <1>7, <3>1 DEF Sink, Cursor
    <2>2. /\ s \in 2 .. Len(h) /\ s \in 1 .. Len(h) /\ s \div 2 = i /\ s > i /\ s # i
          /\ \A j \in 2 .. Len(h) : j \div 2 = i => ~Before(h[j], h[s])
        BY <1>3, <1>5, <1>7
    <2> HIDE DEF s
    <2>3. /\ Describes(Swap(c.index, i, s), e)
          /\ Len(g) = Len(h)
          /\ \A m \in 1 .. Len(h) : g[m] = IF m = i THEN h[s] ELSE IF m = s THEN h[i] ELSE h[m]
        <3> DEFINE x == c.index
        <3>1. Describes(x, e) /\ i \in 1 .. Len(x.items) /\ s \in 1 .. Len(x.items) /\ i # s
            BY <2>2
        <3> HIDE DEF x, i
        <3>2. /\ Describes(Swap(x, i, s), e)
              /\ Len(Swap(x, i, s).items) = Len(x.items)
              /\ \A m \in 1 .. Len(x.items) :
                    Swap(x, i, s).items[m] = IF m = i THEN x.items[s]
                                             ELSE IF m = s THEN x.items[i] ELSE x.items[m]
            BY <3>1, SwapKeeps
        <3> QED
            BY <3>2 DEF x
    <2> HIDE DEF g
    <2>4. ~Before(h[i], h[s])
        BY <1>1, <1>7, <2>2, ItemOrder
    <2>5. g[i] = h[s] /\ g[s] = h[i]
        BY <2>2, <2>3
    <2>6. BelowParent(g, s)
        BY <2>2, <2>4, <2>5 DEF BelowParent, Fits
    <2>7. ASSUME NEW j \in 2 .. Len(h), j # s, j \div 2 # s PROVE Fits(g, j)
        <3>1. g[j] = (IF j = i THEN h[s] ELSE h[j])
              /\ g[j \div 2] = IF j \div 2 = i THEN h[s] ELSE h[j \div 2]
            BY <1>3, <2>3, <2>7
        <3>2. CASE j = i
            <4>1. j \div 2 # i /\ i # 1
                BY <1>2, <1>3, <3>2
            <4>2. ~Before(h[s], h[i \div 2])
                BY <2>2, <4>1 DEF Loose
            <4> QED
                BY <3>1, <3>2, <4>1, <4>2 DEF Fits
        <3>3. CASE j # i /\ j \div 2 = i
            BY <2>2, <3>1, <3>3 DEF Fits
        <3>4. CASE j # i /\ j \div 2 # i
            BY <3>1, <3>4 DEF Fits, Loose
        <3> QED
            BY <3>2, <3>3, <3>4
    <2>8. ASSUME NEW j \in 2 .. Len(h), j \div 2 = s PROVE ~Before(g[j], g[s \div 2])
        <3>1. j # s /\ j # i /\ j \div 2 # i
            BY <1>2, <1>3, <2>2, <2>8
        <3>2. g[j] = h[j]
            BY <1>3, <2>3, <3>1
        <3>3. ~Before(h[j], h[s])
            BY <2>8, <3>1 DEF Loose, Fits
        <3> QED
            BY <2>2, <2>5, <3>2, <3>3
    <2>9. Loose(g, s)
        BY <2>3, <2>7, <2>8 DEF Loose
    <2>10. ~AboveChildren(h, i)
        BY <1>7, <2>2 DEF AboveChildren, Fits
    <2> QED
        BY <2>1, <2>2, <2>3, <2>6, <2>9, <2>10 DEF g
<1> QED
    BY <1>1, <1>2, <1>4, <1>6, <1>7

\* The turns of the loop.
LEMMA SiftDownTurns ==
    ASSUME NEW x, NEW i, Len(x.items) \in Nat
    PROVE  \E r : /\ r[0] = Cursor(x, i)
                  /\ \A n \in 0 .. Len(x.items) : n < Len(x.items) => r[n + 1] = Sink(r[n])
                  /\ SiftDown(x, i) = r[Len(x.items)].index
<1> DEFINE N == Len(x.items)
           Partial(n, f) == f = [m \in 0 .. n |-> IF m = 0 THEN Cursor(x, i) ELSE Sink(f[m - 1])]
           T == {n \in Nat : \E f : Partial(n, f)}
<1>1. 0 \in T
    <2>1. Partial(0, [m \in 0 .. 0 |-> Cursor(x, i)])
        OBVIOUS
    <2> HIDE DEF Partial
    <2> QED
        BY <2>1
<1>2. ASSUME NEW n \in T PROVE n + 1 \in T
    <2>1. PICK f : Partial(n, f)
        OBVIOUS
    <2> DEFINE g == [m \in 0 .. n + 1 |-> IF m <= n THEN f[m] ELSE Sink(f[n])]
    <2>2. \A m \in 0 .. n + 1 : g[m] = IF m = 0 THEN Cursor(x, i) ELSE Sink(g[m - 1])
        BY <2>1
    <2>3. Partial(n + 1, g)
        <3>1. g = [m \in 0 .. n + 1 |-> g[m]]
            OBVIOUS
        <3> HIDE DEF g
        <3> QED
            BY <2>2, <3>1
    <2>4. n + 1 \in Nat
        OBVIOUS
    <2> HIDE DEF Partial
    <2> QED
        BY <2>3, <2>4
<1>3. \E f : Partial(N, f)
    <2> HIDE DEF Partial
    <2>1. T \in SUBSET Nat
        OBVIOUS
    <2>2. T = Nat
        <3> HIDE DEF T
        <3> QED
            BY <1>1, <1>2, <2>1, NatInduced
    <2> QED
        BY <2>2
<1> DEFINE r == CHOOSE f : Partial(N, f)
<1>4. SiftDown(x, i) = r[N].index
    BY DEF SiftDown
<1>5. Partial(N, r)
    <2> HIDE DEF Partial
    <2> QED
        BY <1>3
<1> HIDE DEF r
<1>6. \A m \in 0 .. N : r[m] = IF m = 0 THEN Cursor(x, i) ELSE Sink(r[m - 1])
    BY <1>5
<1>7. r[0] = Cursor(x, i) /\ \A n \in 0 .. N : n < N => r[n + 1] = Sink(r[n])
    BY <1>6
<1> QED
    BY <1>4, <1>7

\* The loop downwards restores the order.
LEMMA SiftDownKeeps ==
    ASSUME NEW x, NEW e, Describes(x, e), NEW i \in 1 .. Len(x.items),
           Loose(x.items, i), BelowParent(x.items, i)
    PROVE  LET y == SiftDown(x, i)
           IN  Describes(y, e) /\ Len(y.items) = Len(x.items) /\ Heaped(y.items)
<1> DEFINE N == Len(x.items)
<1>1. i \in Nat /\ N \in Nat /\ i >= 1
    BY ItemsOf
<1>2. PICK r : /\ r[0] = Cursor(x, i)
               /\ \A n \in 0 .. N : n < N => r[n + 1] = Sink(r[n])
               /\ SiftDown(x, i) = r[N].index
    BY <1>1, SiftDownTurns
<1> DEFINE Good(c) == /\ Describes(c.index, e)
                      /\ Len(c.index.items) = N
                      /\ c.at \in 1 .. N
                      /\ Loose(c.index.items, c.at)
                      /\ BelowParent(c.index.items, c.at)
           T == {n \in 0 .. N : Good(r[n]) /\ (AboveChildren(r[n].index.items, r[n].at)
                                                \/ r[n].at >= i + n)}
<1>3. 0 \in T
    BY <1>1, <1>2 DEF Cursor
<1>4. ASSUME NEW n \in 0 .. N, n < N, n \in T PROVE n + 1 \in T
    <2> DEFINE c == r[n]
               d == r[n + 1]
    <2>1. d = Sink(c) /\ n + 1 \in 0 .. N
        BY <1>1, <1>2, <1>4
    <2>2. Good(c) /\ (AboveChildren(c.index.items, c.at) \/ c.at >= i + n)
        BY <1>4
    <2> HIDE DEF c, d
    <2>3. /\ Good(d)
          /\ AboveChildren(d.index.items, d.at) \/ d.at > c.at
          /\ AboveChildren(c.index.items, c.at) => d = c
        BY <2>1, <2>2, SinkKeeps
    <2>4. AboveChildren(d.index.items, d.at) \/ d.at >= i + (n + 1)
        <3>1. c.at \in Nat /\ d.at \in Nat
            BY <2>2, <2>3
        <3> HIDE DEF Good
        <3> QED
            BY <1>1, <2>2, <2>3, <3>1
    <2> QED
        BY <2>1, <2>3, <2>4 DEF d
<1>5. N \in T
    <2> HIDE DEF T
    <2>1. 0 .. N \subseteq T
        BY <1>1, <1>3, <1>4, BoundedInduction
    <2> QED
        BY <1>1, <2>1
<1>6. Good(r[N]) /\ AboveChildren(r[N].index.items, r[N].at)
    <2>1. r[N].at \in Nat /\ r[N].at <= N
        BY <1>1, <1>5
    <2> HIDE DEF Good
    <2> QED
        BY <1>1, <1>5, <2>1
<1> QED
    BY <1>2, <1>6, InPlace

\* An item put at i finds its place.
LEMMA SettleKeeps ==
    ASSUME NEW x, NEW e, Describes(x, e), NEW i \in 1 .. Len(x.items), Loose(x.items, i)
    PROVE  LET y == Settle(x, i)
           IN  Describes(y, e) /\ Len(y.items) = Len(x.items) /\ Heaped(y.items)
<1> DEFINE c == SiftUp(x, i)
<1>1. /\ Describes(c.index, e)
      /\ Len(c.index.items) = Len(x.items)
      /\ c.at \in 1 .. Len(x.items)
      /\ Loose(c.index.items, c.at)
      /\ BelowParent(c.index.items, c.at)
    BY SiftUpKeeps
<1>2. Settle(x, i) = SiftDown(c.index, c.at)
    BY DEF Settle
<1> HIDE DEF c
<1> QED
    BY <1>1, <1>2, SiftDownKeeps

\* One item replaced, or the last one left out as well.
LEMMA ReplacedIsLoose ==
    ASSUME NEW h, Len(h) \in Nat, \A m \in 1 .. Len(h) : h[m] \in Items, Heaped(h),
           NEW i \in 1 .. Len(h),
           NEW g, Len(g) \in Nat, Len(g) <= Len(h),
           \A m \in 1 .. Len(g) : m # i => g[m] = h[m]
    PROVE  Loose(g, i)
<1>1. i \in Nat /\ i >= 1 /\ i <= Len(h)
    OBVIOUS
<1>2. ASSUME NEW j \in 2 .. Len(g)
      PROVE  /\ j \in 2 .. Len(h) /\ j \in 1 .. Len(g)
             /\ j \div 2 \in 1 .. Len(g) /\ j \div 2 \in 1 .. Len(h) /\ j \div 2 < j
             /\ Fits(h, j)
    <2>1. j \in Nat /\ j >= 2 /\ j <= Len(g) /\ j \in 2 .. Len(h)
        OBVIOUS
    <2>2. j \div 2 \in Nat /\ 1 <= j \div 2 /\ j \div 2 < j
        BY <2>1, Halves
    <2> QED
        BY <2>1, <2>2 DEF Heaped
<1>3. ASSUME NEW j \in 2 .. Len(g), j # i, j \div 2 # i PROVE Fits(g, j)
    BY <1>2, <1>3 DEF Fits
<1>4. ASSUME NEW j \in 2 .. Len(g), j \div 2 = i, i # 1 PROVE ~Before(g[j], g[i \div 2])
    <2>1. i \in 2 .. Len(g) /\ j # i
        BY <1>1, <1>2, <1>4
    <2>2. i \div 2 \in 1 .. Len(g) /\ i \div 2 \in 1 .. Len(h) /\ i \div 2 # i /\ Fits(h, i)
        BY <1>1, <1>2, <2>1
    <2>3. ~Before(h[j], h[i]) /\ ~Before(h[i], h[i \div 2])
        BY <1>2, <1>4, <2>2 DEF Fits
    <2>4. h[j] \in Items /\ h[i] \in Items /\ h[i \div 2] \in Items
        BY <1>2, <2>2
    <2>5. ~Before(h[j], h[i \div 2])
        BY <2>3, <2>4, ItemOrder
    <2> QED
        BY <1>2, <2>1, <2>2, <2>5
<1> QED
    BY <1>3, <1>4 DEF Loose

\* An insertion or a new expiry.
LEMMA PutKeeps ==
    ASSUME NEW x, NEW e, Describes(x, e), Heaped(x.items), NEW k \in Nat, NEW t \in Nat
    PROVE  LET y == Put(x, k, t)
               f == [j \in DOMAIN e \cup {k} |-> IF j = k THEN t ELSE e[j]]
           IN  Describes(y, f) /\ Heaped(y.items)
<1> DEFINE f == [j \in DOMAIN e \cup {k} |-> IF j = k THEN t ELSE e[j]]
           N == Len(x.items)
<1>1. x.items \in Seq(Items) /\ N \in Nat /\ \A m \in 1 .. N : x.items[m] \in Items
    BY ItemsOf
<1>2. /\ x.position \in [DOMAIN e -> 1 .. N] /\ DOMAIN x.position = DOMAIN e
      /\ \A m \in 1 .. N : x.items[m][2] \in DOMAIN e /\ x.position[x.items[m][2]] = m
      /\ \A j \in DOMAIN e : x.items[x.position[j]] = <<e[j], j>>
    BY DEF Describes
<1>3. /\ DOMAIN f = DOMAIN e \cup {k} /\ f[k] = t
      /\ \A j \in DOMAIN e : j # k => f[j] = e[j]
    OBVIOUS
<1>4. DOMAIN f \subseteq Nat /\ f \in [DOMAIN f -> Nat]
    <2>1. DOMAIN e \subseteq Nat /\ \A j \in DOMAIN e : e[j] \in Nat
        BY DEF Describes
    <2> QED
        BY <2>1
<1>5. <<t, k>> \in Items /\ <<t, k>>[2] = k
    BY DEF Items
<1> HIDE DEF f
<1>6. CASE k \notin DOMAIN e
    <2> DEFINE n == N + 1
               items == Append(x.items, <<t, k>>)
               position == [j \in DOMAIN x.position \cup {k} |-> IF j = k THEN n ELSE x.position[j]]
               z == [items |-> items, position |-> position]
    <2>1. /\ items \in Seq(Items) /\ Len(items) = n
          /\ \A m \in 1 .. N : items[m] = x.items[m]
          /\ items[n] = <<t, k>>
        BY <1>1, <1>5
    <2>2. /\ DOMAIN position = DOMAIN f /\ position[k] = n
          /\ \A j \in DOMAIN e : position[j] = x.position[j]
        BY <1>2, <1>3, <1>6
    <2>3. position \in [DOMAIN f -> 1 .. n]
        BY <1>1, <1>2, <1>3
    <2> HIDE DEF items, position
    <2>4. Describes(z, f)
        <3>1. ASSUME NEW m \in 1 .. n
              PROVE  items[m][2] \in DOMAIN f /\ position[items[m][2]] = m
            <4>1. CASE m = n
                BY <1>3, <1>5, <2>1, <2>2, <4>1
            <4>2. CASE m # n
                <5>1. m \in 1 .. N
                    BY <1>1, <4>2
                <5>2. items[m] = x.items[m] /\ x.items[m][2] \in DOMAIN e
                      /\ x.position[x.items[m][2]] = m
                    BY <1>2, <2>1, <5>1
                <5> QED
                    BY <1>3, <2>2, <5>2
            <4> QED
                BY <4>1, <4>2
        <3>2. ASSUME NEW j \in DOMAIN f PROVE items[position[j]] = <<f[j], j>>
            <4>1. CASE j = k
                BY <1>3, <2>1, <2>2, <4>1
            <4>2. CASE j # k
                BY <1>2, <1>3, <2>1, <2>2, <4>2
            <4> QED
                BY <4>1, <4>2
        <3> QED
            BY <1>4, <2>1, <2>3, <3>1, <3>2 DEF Describes
    <2>5. n \in 1 .. Len(z.items) /\ n \in Nat
        BY <1>1, <2>1
    <2>6. Loose(items, n) /\ AboveChildren(items, n)
        <3>1. ASSUME NEW j \in 2 .. n
              PROVE  /\ j \div 2 # n /\ (j # n => j \in 2 .. N) /\ j \in 1 .. n
                     /\ j \div 2 \in 1 .. N
            <4>1. j \in Nat /\ j >= 2 /\ j <= n
                BY <1>1
            <4>2. j \div 2 \in Nat /\ 1 <= j \div 2 /\ j \div 2 < j
                BY <4>1, Halves
            <4> QED
                BY <1>1, <4>1, <4>2
        <3>2. ASSUME NEW j \in 2 .. n, j # n PROVE Fits(items, j)
            <4>1. j \in 2 .. N /\ j \in 1 .. N /\ j \div 2 \in 1 .. N
                BY <1>1, <3>1, <3>2
            <4>2. Fits(x.items, j)
                BY <4>1 DEF Heaped
            <4> QED
                BY <2>1, <4>1, <4>2 DEF Fits
        <3> QED
            BY <2>1, <3>1, <3>2 DEF Loose, AboveChildren
    <2>7. Put(x, k, t) = SiftUp(z, n).index
        BY <1>2, <1>6 DEF Put, items, position
    <2> DEFINE c == SiftUp(z, n)
    <2>8. Loose(z.items, n) /\ AboveChildren(z.items, n)
        BY <2>6
    <2> HIDE DEF z, n
    <2>9. /\ Describes(c.index, f)
          /\ Loose(c.index.items, c.at)
          /\ BelowParent(c.index.items, c.at)
          /\ AboveChildren(c.index.items, c.at)
        BY <2>4, <2>5, <2>8, SiftUpKeeps
    <2>10. Heaped(c.index.items)
        BY <2>9, InPlace
    <2> QED
        BY <2>7, <2>9, <2>10 DEF f
<1>7. CASE k \in DOMAIN e
    <2> DEFINE i == x.position[k]
               items == [x.items EXCEPT ![i] = <<t, k>>]
               z == [x EXCEPT !.items[i] = <<t, k>>]
    <2>1. i \in 1 .. N /\ x.items[i] = <<e[k], k>>
        BY <1>2, <1>7
    <2>2. /\ items \in Seq(Items) /\ Len(items) = N
          /\ \A m \in 1 .. N : items[m] = IF m = i THEN <<t, k>> ELSE x.items[m]
        BY <1>1, <1>5, <2>1, Replaced
    <2>3. DOMAIN z = {"items", "position"} /\ z.items = items /\ z.position = x.position
        BY DEF Describes
    <2>4. DOMAIN f = DOMAIN e
        BY <1>3, <1>7
    <2> HIDE DEF items, z
    <2>5. Describes(z, f)
        <3>1. ASSUME NEW m \in 1 .. N
              PROVE  items[m][2] \in DOMAIN f /\ x.position[items[m][2]] = m
            <4>1. x.items[m][2] \in DOMAIN e /\ x.position[x.items[m][2]] = m
                BY <1>2
            <4>2. items[m] = IF m = i THEN <<t, k>> ELSE x.items[m]
                BY <2>2
            <4> QED
                BY <1>5, <1>7, <2>4, <4>1, <4>2
        <3>2. ASSUME NEW j \in DOMAIN f PROVE items[x.position[j]] = <<f[j], j>>
            <4>1. CASE j = k
                BY <1>3, <2>1, <2>2, <4>1
            <4>2. CASE j # k
                <5>1. j \in DOMAIN e /\ x.position[j] \in 1 .. N
                      /\ x.items[x.position[j]] = <<e[j], j>> /\ f[j] = e[j]
                    BY <1>2, <1>3, <2>4, <4>2
                <5>2. x.position[j] # i
                    BY <2>1, <4>2, <5>1
                <5> QED
                    BY <2>2, <5>1, <5>2
            <4> QED
                BY <4>1, <4>2
        <3> QED
            BY <1>2, <1>4, <2>2, <2>3, <2>4, <3>1, <3>2 DEF Describes
    <2>6. Loose(z.items, i)
        <3>1. Len(items) \in Nat /\ Len(items) <= N
            BY <1>1, <2>2
        <3>2. \A m \in 1 .. Len(items) : m # i => items[m] = x.items[m]
            BY <2>2
        <3> HIDE DEF i
        <3>3. Loose(items, i)
            BY <1>1, <2>1, <3>1, <3>2, ReplacedIsLoose
        <3> QED
            BY <2>3, <3>3
    <2>7. Put(x, k, t) = Settle(z, i)
        BY <1>2, <1>7 DEF Put, z
    <2>8. i \in 1 .. Len(z.items)
        BY <2>1, <2>2, <2>3
    <2> HIDE DEF i
    <2> QED
        BY <2>5, <2>6, <2>7, <2>8, SettleKeeps DEF f
<1> QED
    BY <1>6, <1>7

\* A removal from anywhere.
LEMMA TakeKeeps ==
    ASSUME NEW x, NEW e, Describes(x, e), Heaped(x.items), NEW k \in DOMAIN e
    PROVE  LET y == Take(x, k)
               f == [j \in DOMAIN e \ {k} |-> e[j]]
           IN  Describes(y, f) /\ Heaped(y.items) /\ Len(y.items) = Len(x.items) - 1
<1> DEFINE f == [j \in DOMAIN e \ {k} |-> e[j]]
           n == Len(x.items)
           i == x.position[k]
           last == x.items[n]
           shorter == SubSeq(x.items, 1, n - 1)
           rest == [j \in DOMAIN x.position \ {k} |-> x.position[j]]
<1>1. x.items \in Seq(Items) /\ n \in Nat /\ \A m \in 1 .. n : x.items[m] \in Items
    BY ItemsOf
<1>2. /\ DOMAIN x.position = DOMAIN e /\ \A j \in DOMAIN e : x.position[j] \in 1 .. n
      /\ \A m \in 1 .. n : x.items[m][2] \in DOMAIN e /\ x.position[x.items[m][2]] = m
      /\ \A j \in DOMAIN e : x.items[x.position[j]] = <<e[j], j>>
    BY DEF Describes
<1>3. DOMAIN f = DOMAIN e \ {k} /\ \A j \in DOMAIN f : f[j] = e[j]
    OBVIOUS
<1>4. DOMAIN f \subseteq Nat /\ f \in [DOMAIN f -> Nat]
    <2>1. DOMAIN e \subseteq Nat /\ \A j \in DOMAIN e : e[j] \in Nat
        BY DEF Describes
    <2> QED
        BY <2>1
<1>5. i \in 1 .. n /\ x.items[i] = <<e[k], k>> /\ n >= 1 /\ n \in 1 .. n /\ n - 1 \in Nat
    BY <1>1, <1>2
<1>6. /\ shorter \in Seq(Items) /\ Len(shorter) = n - 1
      /\ \A m \in 1 .. n - 1 : shorter[m] = x.items[m]
    <2>1. \A m \in 1 .. n - 1 : x.items[m] \in Items
        BY <1>1
    <2>2. 1 \in Int /\ n - 1 \in Int
        BY <1>5
    <2> HIDE DEF n
    <2>3. /\ shorter \in Seq(Items)
          /\ Len(shorter) = IF 1 <= n - 1 THEN (n - 1) - 1 + 1 ELSE 0
          /\ \A m \in 1 .. (n - 1) - 1 + 1 : shorter[m] = x.items[1 + m - 1]
        BY <2>1, <2>2, SubSeqProperties
    <2>4. (n - 1) - 1 + 1 = n - 1 /\ \A m \in 1 .. n - 1 : 1 + m - 1 = m
        BY <1>5
    <2>5. Len(shorter) = n - 1
        BY <1>5, <2>3
    <2> HIDE DEF shorter
    <2> QED
        BY <2>3, <2>4, <2>5
<1>7. DOMAIN rest = DOMAIN f /\ \A j \in DOMAIN f : rest[j] = x.position[j]
    BY <1>2
<1> HIDE DEF f, n, shorter, rest
<1>8. CASE i = n
    <2> DEFINE y == [items |-> shorter, position |-> rest]
    <2>1. Take(x, k) = y
        BY <1>8 DEF Take, n, shorter, rest
    <2>2. ASSUME NEW m \in 1 .. n - 1
          PROVE  shorter[m][2] \in DOMAIN f /\ rest[shorter[m][2]] = m
        <3>1. m \in 1 .. n /\ m # n
            BY <1>5
        <3>2. x.items[m][2] \in DOMAIN e /\ x.position[x.items[m][2]] = m /\ shorter[m] = x.items[m]
            BY <1>2, <1>6, <3>1
        <3> QED
            BY <1>3, <1>7, <1>8, <3>1, <3>2
    <2>3. ASSUME NEW j \in DOMAIN f
          PROVE  rest[j] \in 1 .. n - 1 /\ shorter[rest[j]] = <<f[j], j>>
        <3>1. j \in DOMAIN e /\ j # k /\ x.position[j] \in 1 .. n
              /\ x.items[x.position[j]] = <<e[j], j>> /\ f[j] = e[j] /\ rest[j] = x.position[j]
            BY <1>2, <1>3, <1>7
        <3>2. x.position[j] # n
            BY <1>5, <1>8, <3>1
        <3>3. x.position[j] \in 1 .. n - 1
            BY <1>5, <3>1, <3>2
        <3> QED
            BY <1>6, <3>1, <3>3
    <2>4. rest \in [DOMAIN f -> 1 .. n - 1]
        BY <1>7, <2>3 DEF rest
    <2>5. Describes(y, f)
        BY <1>4, <1>6, <2>2, <2>3, <2>4 DEF Describes
    <2>6. Heaped(shorter)
        <3> SUFFICES ASSUME NEW j \in 2 .. n - 1 PROVE Fits(shorter, j)
            BY <1>6 DEF Heaped
        <3>1. j \in Nat /\ j >= 2 /\ j <= n - 1
            BY <1>5
        <3>2. j \div 2 \in Nat /\ 1 <= j \div 2 /\ j \div 2 < j
            BY <3>1, Halves
        <3>3. j \in 1 .. n - 1 /\ j \div 2 \in 1 .. n - 1 /\ j \in 2 .. n
            BY <1>5, <3>1, <3>2
        <3>4. Fits(x.items, j)
            BY <3>3 DEF Heaped, n
        <3> QED
            BY <1>6, <3>3, <3>4 DEF Fits
    <2> QED
        BY <1>6, <2>1, <2>5, <2>6 DEF f, n
<1>9. CASE i # n
    <2> DEFINE items == [shorter EXCEPT ![i] = last]
               position == [rest EXCEPT ![last[2]] = i]
               z == [items |-> items, position |-> position]
    <2>1. Take(x, k) = Settle(z, i)
        BY <1>9 DEF Take, n, shorter, rest
    <2>2. i \in 1 .. n - 1 /\ i \in 1 .. Len(shorter) /\ last \in Items
        BY <1>1, <1>5, <1>6, <1>9
    <2>3. /\ items \in Seq(Items) /\ Len(items) = n - 1
          /\ \A m \in 1 .. n - 1 : items[m] = IF m = i THEN last ELSE x.items[m]
        <3> HIDE DEF i, last
        <3>1. /\ items \in Seq(Items) /\ Len(items) = Len(shorter)
              /\ \A m \in 1 .. Len(shorter) : items[m] = IF m = i THEN last ELSE shorter[m]
            BY <1>6, <2>2, Replaced
        <3> QED
            BY <1>6, <3>1
    <2>4. last[2] \in DOMAIN f /\ x.position[last[2]] = n
          /\ last = <<e[last[2]], last[2]>>
        <3>1. last[2] \in DOMAIN e /\ x.position[last[2]] = n
            BY <1>2, <1>5
        <3>2. x.items[n] = <<e[last[2]], last[2]>>
            BY <1>2, <3>1
        <3>3. last[2] # k
            BY <1>9, <3>1
        <3> QED
            BY <1>3, <3>1, <3>2, <3>3
    <2>5. /\ DOMAIN position = DOMAIN f
          /\ \A j \in DOMAIN f : position[j] = IF j = last[2] THEN i ELSE x.position[j]
        BY <1>7, <2>4
    <2> HIDE DEF items, position, last
    <2>6. ASSUME NEW m \in 1 .. n - 1
          PROVE  items[m][2] \in DOMAIN f /\ position[items[m][2]] = m
        <3>1. m \in 1 .. n /\ m # n
            BY <1>5
        <3>2. CASE m = i
            BY <2>3, <2>4, <2>5, <3>2
        <3>3. CASE m # i
            <4>1. x.items[m][2] \in DOMAIN e /\ x.position[x.items[m][2]] = m /\ items[m] = x.items[m]
                BY <1>2, <2>3, <3>1, <3>3
            <4>2. x.items[m][2] # k /\ x.items[m][2] # last[2]
                BY <2>4, <3>1, <3>3, <4>1
            <4> QED
                BY <1>3, <2>5, <4>1, <4>2
        <3> QED
            BY <3>2, <3>3
    <2>7. ASSUME NEW j \in DOMAIN f
          PROVE  position[j] \in 1 .. n - 1 /\ items[position[j]] = <<f[j], j>>
        <3>1. j \in DOMAIN e /\ j # k /\ x.position[j] \in 1 .. n
              /\ x.items[x.position[j]] = <<e[j], j>> /\ f[j] = e[j]
            BY <1>2, <1>3
        <3>2. CASE j = last[2]
            BY <2>2, <2>3, <2>4, <2>5, <3>1, <3>2
        <3>3. CASE j # last[2]
            <4>1. position[j] = x.position[j]
                BY <2>5, <3>3
            <4>2. x.position[j] # n /\ x.position[j] # i
                BY <1>5, <3>1, <3>3 DEF last
            <4>3. x.position[j] \in 1 .. n - 1
                BY <1>5, <3>1, <4>2
            <4> QED
                BY <2>3, <3>1, <4>1, <4>2, <4>3
        <3> QED
            BY <3>2, <3>3
    <2>8. position \in [DOMAIN f -> 1 .. n - 1]
        <3>1. position = [j \in DOMAIN position |-> position[j]]
            BY DEF position, rest
        <3> QED
            BY <2>5, <2>7, <3>1
    <2>9. Describes(z, f)
        BY <1>4, <2>3, <2>6, <2>7, <2>8 DEF Describes
    <2>10. Loose(items, i)
        <3>1. Len(items) \in Nat /\ Len(items) <= n
            BY <1>5, <2>3
        <3>2. \A m \in 1 .. Len(items) : m # i => items[m] = x.items[m]
            BY <2>3
        <3> HIDE DEF i
        <3> QED
            BY <1>1, <1>5, <3>1, <3>2, ReplacedIsLoose DEF n
    <2>11. z.items = items
        OBVIOUS
    <2> HIDE DEF z, i
    <2>12. i \in 1 .. Len(z.items)
        BY <2>2, <2>3, <2>11
    <2>13. /\ Describes(Settle(z, i), f) /\ Heaped(Settle(z, i).items)
           /\ Len(Settle(z, i).items) = Len(z.items)
        BY <2>9, <2>10, <2>11, <2>12, SettleKeeps
    <2> QED
        BY <2>1, <2>3, <2>11, <2>13 DEF f, n
<1> QED
    BY <1>8, <1>9

\* The head is due before every other item.
LEMMA HeadIsFirst ==
    ASSUME NEW h, Len(h) \in Nat, \A m \in 1 .. Len(h) : h[m] \in Items, Heaped(h)
    PROVE  \A m \in 1 .. Len(h) : ~Before(h[m], h[1])
<1> DEFINE T == {m \in 1 .. Len(h) : Before(h[m], h[1])}
<1>1. SUFFICES ASSUME T # {} PROVE FALSE
    OBVIOUS
<1>2. T \in SUBSET Nat
    OBVIOUS
<1>3. PICK j \in T : \A m \in T : j <= m
    <2> HIDE DEF T
    <2> QED
        BY <1>1, <1>2, LeastElement
<1>4. j \in 1 .. Len(h) /\ Before(h[j], h[1]) /\ j \in Nat
    BY <1>3
<1>5. j >= 2
    <2>1. h[1] \in Items /\ ~Before(h[1], h[1])
        <3>1. 1 \in 1 .. Len(h)
            BY <1>4
        <3> QED
            BY <3>1, ItemOrder
    <2> QED
        BY <1>4, <2>1
<1>6. j \div 2 \in Nat /\ 1 <= j \div 2 /\ j \div 2 < j
    BY <1>4, <1>5, Halves
<1>7. j \div 2 \in 1 .. Len(h) /\ j \in 2 .. Len(h) /\ 1 \in 1 .. Len(h)
    BY <1>4, <1>5, <1>6
<1>8. ~Before(h[j], h[j \div 2])
    BY <1>7 DEF Heaped, Fits
<1>9. ~Before(h[j \div 2], h[1])
    <2>1. j \div 2 \notin T
        BY <1>3, <1>4, <1>6
    <2> QED
        BY <1>7, <2>1
<1>10. ~Before(h[j], h[1])
    BY <1>4, <1>7, <1>8, <1>9, ItemOrder
<1> QED
    BY <1>4, <1>10

\* The turns of a purge.
LEMMA DrainTurns ==
    ASSUME NEW x, NEW now, Len(x.items) \in Nat
    PROVE  \E r : /\ r[0] = [index |-> x, gone |-> {}]
                  /\ \A n \in 0 .. Len(x.items) : n < Len(x.items) => r[n + 1] = DrainHead(r[n], now)
                  /\ Drain(x, now) = r[Len(x.items)]
<1> DEFINE N == Len(x.items)
           Start == [index |-> x, gone |-> {}]
           Partial(n, f) == f = [m \in 0 .. n |-> IF m = 0 THEN Start ELSE DrainHead(f[m - 1], now)]
           T == {n \in Nat : \E f : Partial(n, f)}
<1> HIDE DEF Start
<1>1. 0 \in T
    <2>1. Partial(0, [m \in 0 .. 0 |-> Start])
        OBVIOUS
    <2> HIDE DEF Partial
    <2> QED
        BY <2>1
<1>2. ASSUME NEW n \in T PROVE n + 1 \in T
    <2>1. PICK f : Partial(n, f)
        OBVIOUS
    <2> DEFINE g == [m \in 0 .. n + 1 |-> IF m <= n THEN f[m] ELSE DrainHead(f[n], now)]
    <2>2. \A m \in 0 .. n + 1 : g[m] = IF m = 0 THEN Start ELSE DrainHead(g[m - 1], now)
        BY <2>1
    <2>3. Partial(n + 1, g)
        <3>1. g = [m \in 0 .. n + 1 |-> g[m]]
            OBVIOUS
        <3> HIDE DEF g
        <3> QED
            BY <2>2, <3>1
    <2>4. n + 1 \in Nat
        OBVIOUS
    <2> HIDE DEF Partial
    <2> QED
        BY <2>3, <2>4
<1>3. \E f : Partial(N, f)
    <2> HIDE DEF Partial
    <2>1. T \in SUBSET Nat
        OBVIOUS
    <2>2. T = Nat
        <3> HIDE DEF T
        <3> QED
            BY <1>1, <1>2, <2>1, NatInduced
    <2> QED
        BY <2>2
<1> DEFINE r == CHOOSE f : Partial(N, f)
<1>4. Drain(x, now) = r[N]
    BY DEF Drain, Start
<1>5. Partial(N, r)
    <2> HIDE DEF Partial
    <2> QED
        BY <1>3
<1> HIDE DEF r
<1>6. \A m \in 0 .. N : r[m] = IF m = 0 THEN Start ELSE DrainHead(r[m - 1], now)
    BY <1>5
<1>7. r[0] = Start /\ \A n \in 0 .. N : n < N => r[n + 1] = DrainHead(r[n], now)
    BY <1>6
<1> QED
    BY <1>4, <1>7 DEF Start

\* A purge removes what is due and nothing else.
LEMMA DrainIsExact ==
    ASSUME NEW x, NEW e, Describes(x, e), Heaped(x.items), NEW now \in Nat
    PROVE  LET d == Drain(x, now)
               f == [j \in DOMAIN e \ d.gone |-> e[j]]
           IN  /\ Describes(d.index, f) /\ Heaped(d.index.items)
               /\ DOMAIN e \ d.gone = {k \in DOMAIN e : e[k] > now}
<1> DEFINE N == Len(x.items)
           Left(d) == [j \in DOMAIN e \ d.gone |-> e[j]]
           Done(d) == d.index.items = <<>> \/ d.index.items[1][1] > now
           Good(d) == /\ Describes(d.index, Left(d)) /\ Heaped(d.index.items)
                      /\ \A k \in DOMAIN e : k \in d.gone => e[k] <= now
<1>1. N \in Nat
    BY ItemsOf
<1>2. PICK r : /\ r[0] = [index |-> x, gone |-> {}]
               /\ \A n \in 0 .. N : n < N => r[n + 1] = DrainHead(r[n], now)
               /\ Drain(x, now) = r[N]
    BY <1>1, DrainTurns
<1>3. ASSUME NEW d, Good(d), ~Done(d)
      PROVE  LET c == DrainHead(d, now)
             IN  Good(c) /\ Len(c.index.items) = Len(d.index.items) - 1
    <2> DEFINE h == d.index.items
               k == h[1][2]
               y == Take(d.index, k)
               c == DrainHead(d, now)
    <2>1. h \in Seq(Items) /\ Len(h) \in Nat /\ h # <<>> /\ ~(h[1][1] > now)
        BY <1>3, ItemsOf
    <2>2. 1 \in 1 .. Len(h)
        BY <2>1
    <2>3. k \in DOMAIN e /\ k \notin d.gone /\ h[1] = <<e[k], k>>
        <3> DEFINE f == Left(d)
        <3>1. Describes(d.index, f)
            BY <1>3
        <3> HIDE DEF f
        <3>2. k \in DOMAIN f /\ d.index.position[k] = 1
            BY <2>2, <3>1 DEF Describes
        <3>3. h[d.index.position[k]] = <<f[k], k>>
            BY <3>1, <3>2 DEF Describes
        <3>4. h[1] = <<f[k], k>>
            BY <3>2, <3>3
        <3> HIDE DEF k
        <3> QED
            BY <3>2, <3>4 DEF f
    <2>4. e[k] <= now
        <3> HIDE DEF k
        <3>1. e[k] \in Nat
            BY <2>3 DEF Describes
        <3> QED
            BY <2>1, <2>3, <3>1
    <2>5. c = [index |-> y, gone |-> d.gone \cup {k}]
        BY <1>3 DEF DrainHead
    <2>6. [j \in DOMAIN Left(d) \ {k} |-> Left(d)[j]] = Left(c)
        BY <2>5
    <2>7. /\ Describes(y, [j \in DOMAIN Left(d) \ {k} |-> Left(d)[j]]) /\ Heaped(y.items)
          /\ Len(y.items) = Len(h) - 1
        <3> DEFINE f == Left(d)
        <3>1. Describes(d.index, f) /\ Heaped(d.index.items) /\ k \in DOMAIN f
            BY <1>3, <2>3
        <3> HIDE DEF f, k
        <3>2. /\ Describes(y, [j \in DOMAIN f \ {k} |-> f[j]]) /\ Heaped(y.items)
              /\ Len(y.items) = Len(h) - 1
            BY <3>1, TakeKeeps
        <3> QED
            BY <3>2 DEF f
    <2>8. \A j \in DOMAIN e : j \in c.gone => e[j] <= now
        BY <1>3, <2>4, <2>5
    <2>9. c.index = y
        BY <2>5
    <2> HIDE DEF c, y, k
    <2>10. Describes(c.index, Left(c))
        BY <2>6, <2>7, <2>9
    <2> QED
        BY <2>7, <2>8, <2>9, <2>10 DEF c
<1>4. ASSUME NEW d, Done(d) PROVE DrainHead(d, now) = d
    BY <1>4 DEF DrainHead
<1> DEFINE T == {n \in 0 .. N : Good(r[n]) /\ (Done(r[n]) \/ Len(r[n].index.items) = N - n)}
<1>5. 0 \in T
    <2>1. DOMAIN e \ {} = DOMAIN e /\ r[0].gone = {} /\ r[0].index = x
        BY <1>2
    <2>2. e = [j \in DOMAIN e |-> e[j]]
        BY DEF Describes
    <2> QED
        BY <1>1, <2>1, <2>2
<1>6. ASSUME NEW n \in 0 .. N, n < N, n \in T PROVE n + 1 \in T
    <2> DEFINE d == r[n]
               c == r[n + 1]
    <2>1. c = DrainHead(d, now) /\ n + 1 \in 0 .. N
        BY <1>1, <1>2, <1>6
    <2>2. Good(d) /\ (Done(d) \/ Len(d.index.items) = N - n)
        BY <1>6
    <2> HIDE DEF d, c, Good, Done
    <2>3. CASE Done(d)
        BY <1>4, <2>1, <2>2, <2>3 DEF c
    <2>4. CASE ~Done(d)
        <3>1. Good(c) /\ Len(c.index.items) = Len(d.index.items) - 1
            BY <1>3, <2>1, <2>2, <2>4
        <3>2. Len(c.index.items) = N - (n + 1)
            BY <1>1, <2>2, <2>4, <3>1
        <3> QED
            BY <2>1, <3>1, <3>2 DEF c
    <2> QED
        BY <2>3, <2>4
<1>7. N \in T
    <2> HIDE DEF T
    <2>1. 0 .. N \subseteq T
        BY <1>1, <1>5, <1>6, BoundedInduction
    <2> QED
        BY <1>1, <2>1
<1> DEFINE d == r[N]
<1>8. Good(d) /\ (Done(d) \/ Len(d.index.items) = N - N)
    BY <1>7
<1> HIDE DEF d
<1>9. Done(d)
    <2>1. d.index.items \in Seq(Items)
        <3> DEFINE f == Left(d)
        <3>1. Describes(d.index, f)
            BY <1>8
        <3> HIDE DEF f
        <3> QED
            BY <3>1, ItemsOf
    <2>2. N - N = 0
        BY <1>1
    <2> HIDE DEF Good
    <2> QED
        BY <1>8, <2>1, <2>2
<1>10. ASSUME NEW k \in DOMAIN e, k \notin d.gone PROVE e[k] > now
    <2> DEFINE f == Left(d)
               h == d.index.items
               i == d.index.position[k]
    <2>1. Describes(d.index, f) /\ Heaped(h) /\ k \in DOMAIN f /\ f[k] = e[k]
        BY <1>8, <1>10
    <2> HIDE DEF f
    <2>2. h \in Seq(Items) /\ Len(h) \in Nat /\ \A m \in 1 .. Len(h) : h[m] \in Items
        BY <2>1, ItemsOf
    <2>3. i \in 1 .. Len(h) /\ h[i] = <<e[k], k>>
        BY <2>1 DEF Describes
    <2>4. ~Before(h[i], h[1])
        <3> HIDE DEF h, i
        <3> QED
            BY <2>1, <2>2, <2>3, HeadIsFirst
    <2>5. h[1] \in Items /\ h[1][1] > now
        <3>1. 1 \in 1 .. Len(h) /\ h # <<>>
            BY <2>2, <2>3
        <3> QED
            BY <1>9, <2>2, <3>1
    <2>6. e[k] \in Nat /\ h[1][1] \in Nat /\ h[i][1] = e[k]
        <3>1. e[k] \in Nat
            BY DEF Describes
        <3>2. h[1][1] \in Nat
            BY <2>5 DEF Items
        <3> QED
            BY <2>3, <3>1, <3>2
    <2>7. ~(h[i][1] < h[1][1])
        BY <2>4 DEF Before
    <2> QED
        BY <2>5, <2>6, <2>7
<1>11. ASSUME NEW k \in DOMAIN e, k \in d.gone PROVE ~(e[k] > now)
    <2>1. e[k] <= now /\ e[k] \in Nat
        <3>1. e[k] <= now
            BY <1>8, <1>11
        <3>2. e[k] \in Nat
            BY DEF Describes
        <3> QED
            BY <3>1, <3>2
    <2> QED
        BY <2>1
<1>12. DOMAIN e \ d.gone = {k \in DOMAIN e : e[k] > now}
    BY <1>10, <1>11
<1> QED
    BY <1>2, <1>8, <1>12 DEF d

-----------------------------------------------------------------------------
HeapInvariant ==
    /\ Describes(heap, expiring) /\ Heaped(heap.items)
    /\ DOMAIN expiring \subseteq HeapKeys

\* The heap is in order and describes the resident entries, with the position
\* of every key, after any insertions, re-timings, removals and purges.
THEOREM HeapAlwaysDescribes == HeapSpec => []HeapInvariant
<1>1. HeapInit => HeapInvariant
    <2> SUFFICES ASSUME HeapInit PROVE HeapInvariant
        OBVIOUS
    <2>1. /\ heap.items = <<>> /\ heap.position = [k \in {} |-> 1]
          /\ DOMAIN expiring = {} /\ expiring \in [{} -> Nat]
          /\ DOMAIN heap = {"items", "position"}
        BY DEF HeapInit
    <2>2. Len(heap.items) = 0 /\ heap.items \in Seq(Items)
        BY <2>1
    <2>3. heap.position \in [{} -> 1 .. Len(heap.items)]
        BY <2>1
    <2>4. Describes(heap, expiring)
        BY <2>1, <2>2, <2>3 DEF Describes
    <2>5. Heaped(heap.items)
        BY <2>2 DEF Heaped
    <2> QED
        BY <2>1, <2>4, <2>5 DEF HeapInvariant
<1>2. HeapInvariant /\ [HeapNext]_heapVars => HeapInvariant'
    <2> SUFFICES ASSUME HeapInvariant, [HeapNext]_heapVars PROVE HeapInvariant'
        OBVIOUS
    <2>1. Describes(heap, expiring) /\ Heaped(heap.items) /\ DOMAIN expiring \subseteq HeapKeys
        BY DEF HeapInvariant
    <2>2. ASSUME NEW k \in HeapKeys, NEW t \in Expiries, SetExpiration(k, t)
          PROVE  HeapInvariant'
        <3>1. k \in Nat /\ t \in Nat
            BY HeapConstants
        <3>2. Describes(heap', expiring') /\ Heaped(heap'.items)
            BY <2>1, <2>2, <3>1, PutKeeps DEF SetExpiration
        <3>3. DOMAIN expiring' \subseteq HeapKeys
            BY <2>1, <2>2 DEF SetExpiration
        <3> QED
            BY <3>2, <3>3 DEF HeapInvariant, Describes, Heaped, Fits
    <2>3. ASSUME NEW k \in HeapKeys, RemoveExpiration(k)
          PROVE  HeapInvariant'
        <3>1. Describes(heap', expiring') /\ Heaped(heap'.items)
            BY <2>1, <2>3, TakeKeeps DEF RemoveExpiration
        <3>2. DOMAIN expiring' \subseteq HeapKeys
            BY <2>1, <2>3 DEF RemoveExpiration
        <3> QED
            BY <3>1, <3>2 DEF HeapInvariant, Describes, Heaped, Fits
    <2>4. ASSUME NEW now \in Expiries, PurgeDue(now)
          PROVE  HeapInvariant'
        <3>1. now \in Nat
            BY HeapConstants
        <3>2. Describes(heap', expiring') /\ Heaped(heap'.items)
            BY <2>1, <2>4, <3>1, DrainIsExact DEF PurgeDue
        <3>3. DOMAIN expiring' \subseteq HeapKeys
            BY <2>1, <2>4 DEF PurgeDue
        <3> QED
            BY <3>2, <3>3 DEF HeapInvariant, Describes, Heaped, Fits
    <2>5. CASE UNCHANGED heapVars
        BY <2>1, <2>5 DEF heapVars, HeapInvariant, Describes, Heaped, Fits
    <2> QED
        BY <2>2, <2>3, <2>4, <2>5 DEF HeapNext
<1> QED
    BY <1>1, <1>2, PTL DEF HeapSpec

\* A purge, which looks only at the head of the heap, removes every entry that
\* is due and no other.
THEOREM PurgeAlwaysExact == HeapSpec => PurgeIsExact
<1>1. ASSUME HeapInvariant, NEW now \in Expiries, PurgeDue(now)
      PROVE  DOMAIN expiring' = {k \in DOMAIN expiring : expiring[k] > now}
    <2>1. Describes(heap, expiring) /\ Heaped(heap.items) /\ now \in Nat
        BY <1>1, HeapConstants DEF HeapInvariant
    <2>2. DOMAIN expiring' = DOMAIN expiring \ Drain(heap, now).gone
        BY <1>1 DEF PurgeDue
    <2> QED
        BY <2>1, <2>2, DrainIsExact
<1>2. HeapInvariant /\ [HeapNext]_heapVars =>
         [\A now \in Expiries : PurgeDue(now) =>
             DOMAIN expiring' = {k \in DOMAIN expiring : expiring[k] > now}]_heapVars
    BY <1>1
<1> QED
    BY <1>2, HeapAlwaysDescribes, PTL DEF HeapSpec, PurgeIsExact
=============================================================================
