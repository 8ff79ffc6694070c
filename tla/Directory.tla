----------------------------- MODULE Directory -----------------------------
(***************************************************************************)
(* dataplane/directory.py: the authoritative directory and the replica     *)
(* each edge holds of it.  A slot is a _DirectorySlot: the scope of its    *)
(* view (None for a tombstone), its directory epoch and the last account   *)
(* generation of the username.  The absent slot has epoch 0, which is also *)
(* what replicate_to_edge copies when the username was never published.    *)
(***************************************************************************)
EXTENDS Credentials

VARIABLES
    nextEpoch,      \* _next_epoch
    authoritative,  \* _authoritative: username -> slot
    edgeReplica,    \* _edge: (edge, username) -> slot, None when never copied
    aliases,        \* _aliases: alias -> canonical username, None when unset
    crashedEdges    \* _crashed_edges

directoryVars == <<nextEpoch, authoritative, edgeReplica, aliases, crashedEdges>>

Slots == [scope : Scopes \cup {None}, epoch : Nat, lastGen : Generations \cup {0}]

NoSlot == [scope |-> None, epoch |-> 0, lastGen |-> 0]

DirectoryTypeOK ==
    /\ nextEpoch \in Nat \ {0}
    /\ authoritative \in [Users -> Slots]
    /\ edgeReplica \in [Edges \X Users -> Slots \cup {None}]
    /\ aliases \in [Users -> Users \cup {None}]
    /\ crashedEdges \in SUBSET Edges

DirectoryInit ==
    /\ nextEpoch = 1
    /\ authoritative = [u \in Users |-> NoSlot]
    /\ edgeReplica = [eu \in Edges \X Users |-> None]
    /\ aliases = [u \in Users |-> None]
    /\ crashedEdges = {}

\* The username key behind a requested name.
Resolve(name) == IF aliases[name] = None THEN name ELSE aliases[name]

Present(u) == authoritative[u].scope # None

LastGeneration(u) == authoritative[u].lastGen

-----------------------------------------------------------------------------
(* lookup.  A view keeps the status, the scope it may screen with and the  *)
(* username the backend is asked about (DirectoryView.backend_username).   *)

View(status, scope, epoch, user) ==
    [status |-> status, scope |-> scope, epoch |-> epoch, user |-> user]

ViewStatuses == {"PRESENT", "MISSING", "STALE", "UNCERTAIN"}

Views == [status : ViewStatuses, scope : Scopes \cup {None}, epoch : Nat, user : Users]

\* lookup(username) without an edge.
AuthoritativeLookup(name) ==
    LET key == Resolve(name) IN
    IF Present(key)
    THEN View("PRESENT", authoritative[key].scope, authoritative[key].epoch, key)
    ELSE View("MISSING", None, 0, name)

\* lookup(username, edge_id).
EdgeLookup(name, e) ==
    LET key == Resolve(name)
        replica == edgeReplica[<<e, key>>]
        truth == authoritative[key]
    IN
    CASE e \in crashedEdges ->
            View("UNCERTAIN", None, 0, name)
      [] e \notin crashedEdges /\ replica = None ->
            View(IF truth.epoch = 0 THEN "MISSING" ELSE "UNCERTAIN", None, 0, name)
      [] e \notin crashedEdges /\ replica # None
         /\ (truth.epoch = 0 \/ replica.epoch # truth.epoch) ->
            IF replica.scope = None
            THEN View("UNCERTAIN", None, 0, name)
            ELSE View("STALE", replica.scope, replica.epoch, key)
      [] OTHER ->
            IF replica.scope = None
            THEN View("MISSING", None, 0, name)
            ELSE View("PRESENT", replica.scope, replica.epoch, key)

-----------------------------------------------------------------------------
(* Operations.  Each is one critical section of the directory's lock.      *)

\* The checks publish_active makes before it writes.
MayPublish(s) ==
    LET prior == authoritative[UserOf(s)] IN
    /\ aliases[UserOf(s)] = None
    /\ prior.epoch # 0 =>
        /\ s.gen >= prior.lastGen
        /\ s.gen = prior.lastGen => prior.scope # None
        /\ prior.scope # None =>
            IF SameIdentity(s, prior.scope)
            THEN s.ver > prior.scope.ver
            ELSE s.gen > prior.lastGen

\* Mutant: publishing an epoch reserved before others takes the counter back to it.
PublishRewindingEpochs(s, epoch) ==
    /\ MayPublish(s)
    /\ nextEpoch' = epoch + 1
    /\ authoritative' = [authoritative EXCEPT ![UserOf(s)] =
                            [scope |-> s, epoch |-> epoch, lastGen |-> s.gen]]
    /\ UNCHANGED <<edgeReplica, aliases, crashedEdges>>

PublishActive(s, epoch) ==
    /\ MayPublish(s)
    /\ nextEpoch' = IF epoch >= nextEpoch THEN epoch + 1 ELSE nextEpoch
    /\ authoritative' = [authoritative EXCEPT ![UserOf(s)] =
                            [scope |-> s, epoch |-> epoch, lastGen |-> s.gen]]
    /\ UNCHANGED <<edgeReplica, aliases, crashedEdges>>

ReserveEpoch ==
    /\ nextEpoch' = nextEpoch + 1
    /\ UNCHANGED <<authoritative, edgeReplica, aliases, crashedEdges>>

\* The replica map after replicate_to_edge(e, name).
Replicated(replicas, e, name) ==
    [replicas EXCEPT ![<<e, Resolve(name)>>] = authoritative[Resolve(name)]]

ReplicateToEdge(e, name) ==
    /\ edgeReplica' = Replicated(edgeReplica, e, name)
    /\ UNCHANGED <<nextEpoch, authoritative, aliases, crashedEdges>>

MarkEdgeUncertain(e) ==
    /\ crashedEdges' = crashedEdges \cup {e}
    /\ UNCHANGED <<nextEpoch, authoritative, edgeReplica, aliases>>

RecoverDirectoryEdge(e) ==
    /\ crashedEdges' = crashedEdges \ {e}
    /\ UNCHANGED <<nextEpoch, authoritative, edgeReplica, aliases>>

\* delete: raises unless the name is present with the expected generation.
MayDelete(name, gen) ==
    /\ Present(Resolve(name))
    /\ authoritative[Resolve(name)].scope.gen = gen

\* Mutant: the tombstone keeps the epoch of the entry it replaces.
DeleteEntryInPlace(name, gen) ==
    /\ MayDelete(name, gen)
    /\ authoritative' = [authoritative EXCEPT ![Resolve(name)].scope = None]
    /\ UNCHANGED <<nextEpoch, edgeReplica, aliases, crashedEdges>>

\* Mutant: the tombstone is written under the name of the call, alias or not.
DeleteEntryUnresolved(name, gen) ==
    /\ MayDelete(name, gen)
    /\ nextEpoch' = nextEpoch + 1
    /\ authoritative' = [authoritative EXCEPT ![name] =
                            [scope |-> None, epoch |-> nextEpoch, lastGen |-> gen]]
    /\ UNCHANGED <<edgeReplica, aliases, crashedEdges>>

DeleteEntry(name, gen) ==
    /\ MayDelete(name, gen)
    /\ nextEpoch' = nextEpoch + 1
    /\ authoritative' = [authoritative EXCEPT ![Resolve(name)] =
                            [scope |-> None, epoch |-> nextEpoch, lastGen |-> gen]]
    /\ UNCHANGED <<edgeReplica, aliases, crashedEdges>>

AddAlias(existing, alias) ==
    /\ Present(Resolve(existing))
    /\ authoritative[alias].epoch = 0
    /\ aliases[alias] = None
    /\ aliases' = [aliases EXCEPT ![alias] = Resolve(existing)]
    /\ UNCHANGED <<nextEpoch, authoritative, edgeReplica, crashedEdges>>
=============================================================================
