------------------------ MODULE AdaptiveCuckooFilter ------------------------
(***************************************************************************)
(* reference/adaptive/cuckoo.py: two tables of buckets whose cells hold a  *)
(* fingerprint and, in an exact backing table, the token it was made from. *)
(* The fingerprint function depends on the cell's offset, so swapping two  *)
(* cells of a bucket removes a reported false positive.  Every call holds  *)
(* the filter's lock and is one step.                                      *)
(*                                                                         *)
(* Bucket and fingerprint hashes are constants; the pseudo-random choices  *)
(* (first table and offsets of an insertion, target of an adaptation) are  *)
(* free.  Metrics and memory reports are left out.                         *)
(***************************************************************************)
EXTENDS Naturals, Sequences, FiniteSets

CONSTANTS
    Tokens, Empty,
    Buckets,           \* 0 .. bucket_count - 1
    Offsets,           \* 0 .. bucket_size - 1
    BucketOf,          \* _bucket: <<token, table>> -> bucket
    FingerprintOf,     \* _fingerprint: <<token, offset>> -> fingerprint, never 0
    MaxKicks           \* max_kicks

Tables == {0, 1}
Slots == [table : Tables, bucket : Buckets, offset : Offsets]

ASSUME FilterConstants ==
    /\ Empty \notin Tokens
    /\ Offsets \subseteq Nat
    /\ MaxKicks \in Nat \ {0}
    /\ BucketOf \in [Tokens \X Tables -> Buckets]
    /\ FingerprintOf \in [Tokens \X Offsets -> Nat \ {0}]

VARIABLES
    keys,              \* _keys, the exact backing table
    fingerprints,      \* _fingerprints
    n_items,
    members            \* what callers added and did not delete

filterVars == <<keys, fingerprints, n_items, members>>

-----------------------------------------------------------------------------
Slot(token, table, offset) ==
    [table |-> table, bucket |-> BucketOf[<<token, table>>], offset |-> offset]
SlotsOf(token) == {Slot(token, t, o) : t \in Tables, o \in Offsets}

Lowest(S) == CHOOSE o \in S : \A q \in S : o <= q

\* _empty_slot: the first empty cell of the token's bucket in a table, if any.
EmptySlots(ks, token, table) ==
    LET free == {o \in Offsets : ks[Slot(token, table, o)] = Empty} IN
    IF free = {} THEN {} ELSE {Slot(token, table, Lowest(free))}

\* _write, for the fingerprint table that goes with the backing table ks.
Written(ks) == [s \in Slots |->
    IF ks[s] = Empty THEN 0 ELSE FingerprintOf[<<ks[s], s.offset>>]]

\* query compares the fingerprints of every cell of the token's two buckets.
Matches(token) ==
    {s \in SlotsOf(token) : fingerprints[s] = FingerprintOf[<<token, s.offset>>]}
Query(token) == Matches(token) # {}

-----------------------------------------------------------------------------
(* One insertion with kicks: the displaced token, the table to try, the    *)
(* cells overwritten so far and whether the chain ended in an empty cell.  *)

\* Write the displaced token over a cell; its former token moves to the other
\* table, into an empty cell of its bucket there if there is one.
Kick(chain, offset) ==
    LET slot == Slot(chain.displaced, chain.table, offset)
        previous == chain.keys[slot]
        written == [chain.keys EXCEPT ![slot] = chain.displaced]
        other == 1 - chain.table
        free == IF previous = Empty THEN {} ELSE EmptySlots(written, previous, other)
    IN [keys |-> IF free = {} THEN written
                 ELSE [s \in Slots |-> IF s \in free THEN previous ELSE written[s]],
        undo |-> Append(chain.undo, [slot |-> slot, previous |-> previous]),
        displaced |-> previous,
        table |-> other,
        placed |-> previous = Empty \/ free # {}]

\* The chains of at most n kicks, stopping where a cell was found.
Chains(chain, n) ==
    LET f[i \in 0 .. n] ==
            IF i = 0 THEN {chain}
            ELSE UNION {IF c.placed THEN {c} ELSE {Kick(c, o) : o \in Offsets} : c \in f[i - 1]}
    IN f[n]

\* Mutant: the overwritten cells are restored oldest first.
RestoreForwards(ks, undo) ==
    LET f[i \in 0 .. Len(undo)] ==
            IF i = 0 THEN ks ELSE [f[i - 1] EXCEPT ![undo[i].slot] = undo[i].previous]
    IN f[Len(undo)]

\* A chain that found no cell restores what it overwrote, last write first.
Restore(ks, undo) ==
    LET f[i \in 0 .. Len(undo)] ==
            IF i = 0 THEN ks
            ELSE LET last == undo[Len(undo) - i + 1] IN
                 [f[i - 1] EXCEPT ![last.slot] = last.previous]
    IN f[Len(undo)]

-----------------------------------------------------------------------------
FilterInit ==
    /\ keys = [s \in Slots |-> Empty]
    /\ fingerprints = [s \in Slots |-> 0]
    /\ n_items = 0
    /\ members = {}

\* add, when one of the two buckets has an empty cell.  A filter is built by
\* adding every token once, so a member is never added again.
AddDirectly(token) ==
    LET free == [t \in Tables |-> EmptySlots(keys, token, t)]
        slots == IF free[0] # {} THEN free[0] ELSE free[1] IN
    /\ token \notin members
    /\ slots # {}
    /\ keys' = [s \in Slots |-> IF s \in slots THEN token ELSE keys[s]]
    /\ fingerprints' = Written(keys')
    /\ n_items' = n_items + 1
    /\ members' = members \cup {token}

\* add, when both buckets are full.
AddWithKicks(token) ==
    /\ token \notin members
    /\ \A t \in Tables : EmptySlots(keys, token, t) = {}
    /\ \E t \in Tables :
       \E chain \in Chains([keys |-> keys, undo |-> <<>>, displaced |-> token,
                            table |-> t, placed |-> FALSE], MaxKicks) :
          /\ keys' = IF chain.placed THEN chain.keys ELSE Restore(chain.keys, chain.undo)
          /\ fingerprints' = Written(keys')
          /\ n_items' = IF chain.placed THEN n_items + 1 ELSE n_items
          /\ members' = IF chain.placed THEN members \cup {token} ELSE members

\* confirm_false_positive: the first cell that matches and holds another
\* token swaps with another cell of its bucket; a member is refused.
ConfirmFalsePositive(token) ==
    /\ \A s \in Matches(token) : keys[s] # token
    /\ Matches(token) # {}
    /\ LET first == CHOOSE s \in Matches(token) : \A z \in Matches(token) :
                        \/ s.table < z.table
                        \/ s.table = z.table /\ s.offset <= z.offset
       IN \E o \in Offsets \ {first.offset} :
            LET target == [first EXCEPT !.offset = o] IN
            keys' = [keys EXCEPT ![first] = keys[target], ![target] = keys[first]]
    /\ fingerprints' = Written(keys')
    /\ UNCHANGED <<n_items, members>>

\* Mutant: deletion trusts a fingerprint match.
DeleteMatching(token) ==
    /\ Matches(token) # {}
    /\ LET slot == CHOOSE s \in Matches(token) : TRUE IN
       keys' = [keys EXCEPT ![slot] = Empty]
    /\ fingerprints' = Written(keys')
    /\ n_items' = n_items - 1
    /\ members' = members \ {token}

\* delete removes the first cell that holds exactly this token.
Delete(token) ==
    LET holding == {s \in SlotsOf(token) : keys[s] = token} IN
    /\ holding # {}
    /\ LET slot == CHOOSE s \in holding : \A z \in holding :
                        \/ s.table < z.table
                        \/ s.table = z.table /\ s.offset <= z.offset
       IN keys' = [keys EXCEPT ![slot] = Empty]
    /\ fingerprints' = Written(keys')
    /\ n_items' = n_items - 1
    /\ members' = members \ {token}

FilterNext == \E token \in Tokens :
    AddDirectly(token) \/ AddWithKicks(token) \/ ConfirmFalsePositive(token) \/ Delete(token)

FilterSpec == FilterInit /\ [][FilterNext]_filterVars

-----------------------------------------------------------------------------
\* A represented token always queries positive, through kicks, undone
\* insertions, adaptations triggered by colliding tokens and deletions.
NoFalseNegatives == \A token \in members : Query(token)

\* The two tables and the count describe the set of members: every member is
\* in exactly one cell, of one of its own buckets, every other cell is empty,
\* and each fingerprint is that of the token in its cell.
TablesHoldMembers ==
    /\ n_items = Cardinality(members)
    /\ \A s \in Slots : keys[s] # Empty => keys[s] \in members /\ s \in SlotsOf(keys[s])
    /\ \A token \in members : Cardinality({s \in Slots : keys[s] = token}) = 1
    /\ \A s \in Slots : fingerprints[s] =
          (IF keys[s] = Empty THEN 0 ELSE FingerprintOf[<<keys[s], s.offset>>])
=============================================================================
