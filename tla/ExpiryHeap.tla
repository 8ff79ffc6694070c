----------------------------- MODULE ExpiryHeap -----------------------------
(***************************************************************************)
(* The expiry index of dataplane/negative_cache.py: a binary heap of       *)
(* (expiry, key) pairs with the position of every key, so that an entry    *)
(* can be re-timed or removed from the middle.  NegativeCache takes the    *)
(* purge as "every entry that is due"; this module checks that the array   *)
(* algorithm does that.  Positions start at 1 here, at 0 in the code.      *)
(***************************************************************************)
EXTENDS Naturals, Sequences, FiniteSets

CONSTANTS
    HeapKeys,      \* keys, ordered as NegativeKey is
    Expiries       \* instants an entry may expire at

ASSUME HeapConstants == HeapKeys \subseteq Nat /\ Expiries \subseteq Nat

VARIABLES
    heap,          \* _expiration_heap, with _expiration_positions: see Index
    expiring       \* the resident entries: key -> expires_at

heapVars == <<heap, expiring>>

-----------------------------------------------------------------------------
(* An index is the heap and the positions of its keys.                     *)

\* Items compare by expiry, then by key.
Before(a, b) == a[1] < b[1] \/ (a[1] = b[1] /\ a[2] < b[2])

\* _expiration_swap: both arrays change together.
Swap(index, i, j) ==
    [items |-> [index.items EXCEPT ![i] = index.items[j], ![j] = index.items[i]],
     position |-> [index.position EXCEPT ![index.items[j][2]] = i,
                                         ![index.items[i][2]] = j]]

\* A loop over an index and a position in it.  A turn that finds nothing to do
\* leaves the cursor as it is, so the turns past the end of a loop do nothing.
Cursor(index, i) == [index |-> index, at |-> i]

\* _expiration_sift_up, one turn.
Rise(c) ==
    LET parent == c.at \div 2 IN
    IF c.at = 1 \/ ~Before(c.index.items[c.at], c.index.items[parent])
    THEN c
    ELSE Cursor(Swap(c.index, c.at, parent), parent)

\* _expiration_sift_up: the index and where the item came to rest.
SiftUp(index, i) ==
    LET turn[n \in 0 .. i] == IF n = 0 THEN Cursor(index, i) ELSE Rise(turn[n - 1])
    IN turn[i]

\* The child a descending item is compared with.
Smallest(index, i) ==
    IF 2 * i + 1 <= Len(index.items) /\ Before(index.items[2 * i + 1], index.items[2 * i])
    THEN 2 * i + 1 ELSE 2 * i

\* _expiration_sift_down, one turn.
Sink(c) ==
    LET child == Smallest(c.index, c.at) IN
    IF \/ 2 * c.at > Len(c.index.items)
       \/ ~Before(c.index.items[child], c.index.items[c.at])
    THEN c
    ELSE Cursor(Swap(c.index, c.at, child), child)

\* _expiration_sift_down.
SiftDown(index, i) ==
    LET turn[n \in 0 .. Len(index.items)] ==
            IF n = 0 THEN Cursor(index, i) ELSE Sink(turn[n - 1])
    IN turn[Len(index.items)].index

\* Mutant: an item that took the place of another is only moved upwards.
SettleUp(index, i) == SiftUp(index, i).index

\* An item put at i finds its place in either direction.
Settle(index, i) ==
    LET risen == SiftUp(index, i) IN SiftDown(risen.index, risen.at)

\* _set_expiration.
Put(index, k, t) ==
    IF k \notin DOMAIN index.position
    THEN LET n == Len(index.items) + 1 IN
         SiftUp([items |-> Append(index.items, <<t, k>>),
                 position |-> [j \in DOMAIN index.position \cup {k} |->
                                 IF j = k THEN n ELSE index.position[j]]], n).index
    ELSE LET i == index.position[k] IN
         Settle([index EXCEPT !.items[i] = <<t, k>>], i)

\* _remove_expiration: the last item takes the place of the removed one.
Take(index, k) ==
    LET i == index.position[k]
        n == Len(index.items)
        last == index.items[n]
        shorter == SubSeq(index.items, 1, n - 1)
        rest == [j \in DOMAIN index.position \ {k} |-> index.position[j]]
    IN IF i = n THEN [items |-> shorter, position |-> rest]
       ELSE Settle([items |-> [shorter EXCEPT ![i] = last],
                    position |-> [rest EXCEPT ![last[2]] = i]], i)

\* _purge_expired, one turn: remove the head if it is due.
DrainHead(d, now) ==
    IF d.index.items = <<>> \/ d.index.items[1][1] > now
    THEN d
    ELSE LET k == d.index.items[1][2] IN
         [index |-> Take(d.index, k), gone |-> d.gone \cup {k}]

\* _purge_expired: the index afterwards and the keys removed.
Drain(index, now) ==
    LET turn[n \in 0 .. Len(index.items)] ==
            IF n = 0 THEN [index |-> index, gone |-> {}] ELSE DrainHead(turn[n - 1], now)
    IN turn[Len(index.items)]

-----------------------------------------------------------------------------
HeapInit ==
    /\ heap = [items |-> <<>>, position |-> [k \in {} |-> 1]]
    /\ expiring = [k \in {} |-> 0]

\* An insertion or an update.
SetExpiration(k, t) ==
    /\ heap' = Put(heap, k, t)
    /\ expiring' = [j \in DOMAIN expiring \cup {k} |-> IF j = k THEN t ELSE expiring[j]]

\* An eviction, or a lookup that finds the entry expired.
RemoveExpiration(k) ==
    /\ k \in DOMAIN expiring
    /\ heap' = Take(heap, k)
    /\ expiring' = [j \in DOMAIN expiring \ {k} |-> expiring[j]]

PurgeDue(now) ==
    LET drained == Drain(heap, now) IN
    /\ heap' = drained.index
    /\ expiring' = [j \in DOMAIN expiring \ drained.gone |-> expiring[j]]

HeapNext ==
    \/ \E k \in HeapKeys : (\E t \in Expiries : SetExpiration(k, t)) \/ RemoveExpiration(k)
    \/ \E now \in Expiries : PurgeDue(now)

HeapSpec == HeapInit /\ [][HeapNext]_heapVars

-----------------------------------------------------------------------------
\* A purge removes the entries that are due, every one of them and no other,
\* although it looks only at the head.
PurgeIsExact ==
    [][\A now \in Expiries : PurgeDue(now) =>
         DOMAIN expiring' = {k \in DOMAIN expiring : expiring[k] > now}]_heapVars
=============================================================================
