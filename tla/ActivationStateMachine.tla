----------------------- MODULE ActivationStateMachine -----------------------
(***************************************************************************)
(* controlplane/delta_activation/state_machine.py over the directory, the  *)
(* verifier backend, the positive screen and the epoch tracker.            *)
(*                                                                         *)
(* The state machine's own lock serialises prepare, publish_delta, the two *)
(* acknowledgements, activate, compact and retire.  crash_edge, the first  *)
(* half of recover_edge and delete_account call the components without it, *)
(* so their component calls are steps of their own here, and so are the    *)
(* component calls of activate: the login path and those three operations  *)
(* see the states in between.  The other locked operations touch one       *)
(* component or write nothing their callers could see half-done, and are   *)
(* one step.  A call that raises before it writes leaves no step.          *)
(***************************************************************************)
EXTENDS Directory, InMemoryBackend, PositiveScreen, EpochTracker

CONSTANTS
    \* TRUE: the administrative calls of one username, add_alias included, come
    \* from one thread (experiments/runners/fault_bench.py); crashes, recoveries
    \* and replication stay concurrent with them.
    SerializedAdmin,
    \* TRUE: a new generation is prepared only when no verifier of another
    \* identity of the username is left, that is after delete_account.
    ReuseAfterDelete,
    \* TRUE: an activation that stopped after its backend step is resumed
    \* before another version of the username is activated.
    ResumeInterrupted,
    \* Bound: publications and compactions stop when this many representation
    \* epochs have been allocated.
    MaxRepresentationEpochs

VARIABLES
    status,             \* scope -> ActivationRecord.status, NONE without record
    viewEpoch,          \* scope -> record.view.directory_epoch
    requiredEdges,      \* scope -> record.required_edges
    deltaAcks,          \* scope -> record.delta_acknowledged_edges
    compactedAcks,      \* scope -> record.compacted_acknowledged_edges
    latest,             \* _latest_by_username
    activating,         \* the activate call that holds the lock, or None
    deleting,           \* the delete_account call in progress, or None
    recovering,         \* the recover_edge call in progress, or None
    crashing            \* edge -> the last step of the crash_edge call in progress

recordVars == <<status, viewEpoch, requiredEdges, deltaAcks, compactedAcks, latest>>

callVars == <<activating, deleting, recovering, crashing>>

controlVars == <<directoryVars, backendVars, screenVars, trackerVars, recordVars, callVars>>

Statuses == {"NONE", "PREPARED", "EDGE_DELTA_READY", "ACTIVE", "COMPACTED", "RETIRED"}

Activations == [key : Scopes, step : {"ADVANCED", "PUBLISHED"}]
Deletions == [name : Users, user : Users, gen : Generations, step : {"BACKEND", "DIRECTORY"}]
CrashSteps == {"NONE", "DIRECTORY", "CERTIFICATES"}
Recoveries == [edge : Edges, name : Users, user : Users, step : {"CERTAIN", "REPLICATED"}]

\* None stands for the absence of a call.
ASSUME CallAssumption == None \notin Activations \cup Deletions \cup Recoveries

ControlTypeOK ==
    /\ status \in [Scopes -> Statuses]
    /\ viewEpoch \in [Scopes -> Nat]
    /\ requiredEdges \in [Scopes -> SUBSET Edges]
    /\ deltaAcks \in [Scopes -> SUBSET Edges]
    /\ compactedAcks \in [Scopes -> SUBSET Edges]
    /\ latest \in [Users -> Scopes \cup {None}]
    /\ activating \in Activations \cup {None}
    /\ deleting \in Deletions \cup {None}
    /\ recovering \in Recoveries \cup {None}
    /\ crashing \in [Edges -> CrashSteps]

TypeOK ==
    /\ DirectoryTypeOK
    /\ BackendTypeOK
    /\ ScreenTypeOK
    /\ TrackerTypeOK
    /\ ControlTypeOK

ControlInit ==
    /\ DirectoryInit
    /\ BackendInit
    /\ ScreenInit
    /\ TrackerInit
    /\ status = [s \in Scopes |-> "NONE"]
    /\ viewEpoch = [s \in Scopes |-> 0]
    /\ requiredEdges = [s \in Scopes |-> {}]
    /\ deltaAcks = [s \in Scopes |-> {}]
    /\ compactedAcks = [s \in Scopes |-> {}]
    /\ latest = [u \in Users |-> None]
    /\ activating = None
    /\ deleting = None
    /\ recovering = None
    /\ crashing = [e \in Edges |-> "NONE"]

-----------------------------------------------------------------------------
LockFree == activating = None

EpochBudget == nextRepresentationEpoch <= MaxRepresentationEpochs

\* The lock is free for an administrative call.
AdminTurn == LockFree /\ (SerializedAdmin => deleting = None)

ActivationReady(s) == requiredEdges[s] \subseteq deltaAcks[s]

RetirementReady(s) == requiredEdges[s] \subseteq compactedAcks[s]

ResumeDiscipline(s) ==
    ResumeInterrupted =>
        active[UserOf(s)] \in {None, s, authoritative[UserOf(s)].scope}

\* Mutant: a version that does not advance past the current one is accepted.
MayPrepareAnyVersion(s) ==
    /\ status[s] = "NONE"
    /\ s.gen >= LastGeneration(Resolve(UserOf(s)))

\* What prepare checks against the directory before it reserves an epoch.
MayPrepare(s) ==
    LET name == UserOf(s)
        last == LastGeneration(Resolve(name))
        current == AuthoritativeLookup(name).scope
    IN
    /\ status[s] = "NONE"
    /\ s.gen >= last
    /\ last # 0 /\ s.gen = last =>
        /\ current # None
        /\ SameIdentity(current, s)
        /\ s.ver > current.ver

ReuseDiscipline(s) ==
    ReuseAfterDelete =>
        \A t \in prepared : UserOf(t) = UserOf(s) => SameIdentity(t, s)

Prepare(s, required) ==
    /\ AdminTurn
    /\ ReuseDiscipline(s)
    /\ required # {}
    /\ MayPrepare(s)
    /\ ReserveEpoch
    /\ PrepareVersion(s)
    /\ status' = [status EXCEPT ![s] = "PREPARED"]
    /\ viewEpoch' = [viewEpoch EXCEPT ![s] = nextEpoch]
    /\ requiredEdges' = [requiredEdges EXCEPT ![s] = required]
    /\ UNCHANGED <<screenVars, trackerVars, callVars, deltaAcks, compactedAcks, latest>>

PublishDelta(s) ==
    /\ AdminTurn
    /\ EpochBudget
    /\ status[s] = "PREPARED"
    /\ PublishDeltaTokens(s)
    /\ status' = [status EXCEPT ![s] = "EDGE_DELTA_READY"]
    /\ UNCHANGED <<directoryVars, backendVars, trackerVars, callVars,
                   viewEpoch, requiredEdges, deltaAcks, compactedAcks, latest>>

AcknowledgeDelta(s, e) ==
    /\ AdminTurn
    /\ status[s] \in {"EDGE_DELTA_READY", "ACTIVE", "COMPACTED"}
    /\ e \in requiredEdges[s]
    /\ IssueCertificate(e, s, viewEpoch[s], "POSITIVE_DELTA")
    /\ deltaAcks' = [deltaAcks EXCEPT ![s] = @ \cup {e}]
    /\ Advance(e, s, [directory |-> viewEpoch[s], representation |-> deltaEpoch[s]])
    /\ UNCHANGED <<directoryVars, backendVars, callVars,
                   status, viewEpoch, requiredEdges, compactedAcks, latest>>

-----------------------------------------------------------------------------
(* activate: backend step, directory step, then commit and bookkeeping.    *)

ActivateBackend(s) ==
    /\ AdminTurn
    /\ status[s] = "EDGE_DELTA_READY"
    /\ ActivationReady(s)
    /\ ResumeDiscipline(s)
    /\ ActivateVersion(s)
    /\ activating' = [key |-> s, step |-> "ADVANCED"]
    /\ UNCHANGED <<directoryVars, screenVars, trackerVars, recordVars,
                   deleting, recovering, crashing>>

\* publish_active may refuse; the call then raises and the backend step stays.
ActivateDirectory ==
    /\ activating # None
    /\ activating.step = "ADVANCED"
    /\ LET s == activating.key IN
       \/ /\ PublishActive(s, viewEpoch[s])
          /\ activating' = [activating EXCEPT !.step = "PUBLISHED"]
       \/ /\ ~MayPublish(s)
          /\ activating' = None
          /\ UNCHANGED directoryVars
    /\ UNCHANGED <<backendVars, screenVars, trackerVars, recordVars,
                   deleting, recovering, crashing>>

\* The replicas after activate(replicate_directory) has visited its edges.
ReplicatedToRequired(s, replicate) ==
    [eu \in Edges \X Users |->
        IF replicate /\ eu[1] \in requiredEdges[s] /\ eu[2] = UserOf(s)
        THEN authoritative[UserOf(s)]
        ELSE edgeReplica[eu]]

ActivateCommit(replicate) ==
    /\ activating # None
    /\ activating.step = "PUBLISHED"
    /\ LET s == activating.key IN
       \/ /\ CommitDirectoryVersion(s)
          /\ status' = [status EXCEPT ![s] = "ACTIVE"]
          /\ latest' = [latest EXCEPT ![UserOf(s)] = s]
          /\ edgeReplica' = ReplicatedToRequired(s, replicate)
       \/ /\ active[UserOf(s)] # s
          /\ UNCHANGED <<backendVars, status, latest, edgeReplica>>
    /\ activating' = None
    /\ UNCHANGED <<nextEpoch, authoritative, aliases, crashedEdges, screenVars,
                   trackerVars, viewEpoch, requiredEdges, deltaAcks, compactedAcks,
                   deleting, recovering, crashing>>

\* The fault hook: activate stops after its backend step.
FaultBackendAdvanceBeforeDirectory(s) ==
    /\ AdminTurn
    /\ status[s] = "EDGE_DELTA_READY"
    /\ ActivationReady(s)
    /\ ResumeDiscipline(s)
    /\ ActivateVersion(s)
    /\ UNCHANGED <<directoryVars, screenVars, trackerVars, recordVars, callVars>>

-----------------------------------------------------------------------------
Compact(s) ==
    /\ AdminTurn
    /\ EpochBudget
    /\ status[s] = "ACTIVE"
    /\ CompactTokens(s)
    /\ status' = [status EXCEPT ![s] = "COMPACTED"]
    /\ UNCHANGED <<directoryVars, backendVars, trackerVars, callVars,
                   viewEpoch, requiredEdges, deltaAcks, compactedAcks, latest>>

AcknowledgeCompacted(s, e) ==
    /\ AdminTurn
    /\ status[s] \in {"COMPACTED", "RETIRED"}
    /\ e \in requiredEdges[s]
    /\ IssueCertificate(e, s, viewEpoch[s], "COMPACTED_BASE")
    /\ compactedAcks' = [compactedAcks EXCEPT ![s] = @ \cup {e}]
    /\ Advance(e, s, [directory |-> viewEpoch[s], representation |-> baseEpoch[s]])
    /\ UNCHANGED <<directoryVars, backendVars, callVars,
                   status, viewEpoch, requiredEdges, deltaAcks, latest>>

Retire(s) ==
    /\ AdminTurn
    /\ status[s] = "COMPACTED"
    /\ RetirementReady(s)
    /\ RetireDelta(s)
    /\ status' = [status EXCEPT ![s] = "RETIRED"]
    /\ UNCHANGED <<directoryVars, backendVars, trackerVars, callVars,
                   viewEpoch, requiredEdges, deltaAcks, compactedAcks, latest>>

-----------------------------------------------------------------------------
(* crash_edge: three component calls, none under the state machine's lock. *)

CrashEdge(e) ==
    /\ crashing[e] = "NONE"
    /\ MarkEdgeUncertain(e)
    /\ crashing' = [crashing EXCEPT ![e] = "DIRECTORY"]
    /\ UNCHANGED <<backendVars, screenVars, trackerVars, recordVars,
                   activating, deleting, recovering>>

CrashEdgeCertificates(e) ==
    /\ crashing[e] = "DIRECTORY"
    /\ ClearEdgeCertificates(e)
    /\ crashing' = [crashing EXCEPT ![e] = "CERTIFICATES"]
    /\ UNCHANGED <<directoryVars, backendVars, trackerVars, recordVars,
                   activating, deleting, recovering>>

CrashEdgeTracker(e) ==
    /\ crashing[e] = "CERTIFICATES"
    /\ MarkTrackerUncertain(e)
    /\ crashing' = [crashing EXCEPT ![e] = "NONE"]
    /\ UNCHANGED <<directoryVars, backendVars, screenVars, recordVars,
                   activating, deleting, recovering>>

-----------------------------------------------------------------------------
(* recover_edge: the edge is made certain and its replica refreshed before *)
(* the lock is taken to certify the username's latest version.             *)

RecoverEdge(e, name) ==
    /\ recovering = None
    /\ RecoverDirectoryEdge(e)
    /\ recovering' = [edge |-> e, name |-> name,
                      user |-> AuthoritativeLookup(name).user, step |-> "CERTAIN"]
    /\ UNCHANGED <<backendVars, screenVars, trackerVars, recordVars,
                   activating, deleting, crashing>>

RecoverEdgeReplica ==
    /\ recovering # None
    /\ recovering.step = "CERTAIN"
    /\ ReplicateToEdge(recovering.edge, recovering.name)
    /\ recovering' = [recovering EXCEPT !.step = "REPLICATED"]
    /\ UNCHANGED <<backendVars, screenVars, trackerVars, recordVars,
                   activating, deleting, crashing>>

RecoverySource(s) ==
    IF status[s] \in {"COMPACTED", "RETIRED"} THEN "COMPACTED_BASE" ELSE "POSITIVE_DELTA"

RecoverEdgeCertificate ==
    /\ LockFree
    /\ recovering # None
    /\ recovering.step = "REPLICATED"
    /\ LET e == recovering.edge
           s == latest[recovering.user]
           certifies == /\ s # None
                        /\ e \in requiredEdges[s]
                        /\ MayIssue(s, RecoverySource(s))
       IN
       \/ /\ certifies
          /\ IssueCertificate(e, s, viewEpoch[s], RecoverySource(s))
          /\ Advance(e, s, [directory |-> viewEpoch[s],
                            representation |-> RepresentationEpoch(s, RecoverySource(s))])
       \/ /\ ~certifies
          /\ UNCHANGED <<screenVars, trackerVars>>
    /\ recovering' = None
    /\ UNCHANGED <<directoryVars, backendVars, recordVars, activating, deleting, crashing>>

-----------------------------------------------------------------------------
(* delete_account: backend, then directory, then the latest-version entry. *)

DeleteBackend(name, gen) ==
    LET user == AuthoritativeLookup(name).user IN
    /\ deleting = None
    /\ SerializedAdmin => LockFree
    /\ DeleteBackendAccount(user, gen)
    /\ deleting' = [name |-> name, user |-> user, gen |-> gen, step |-> "BACKEND"]
    /\ UNCHANGED <<directoryVars, screenVars, trackerVars, recordVars,
                   activating, recovering, crashing>>

\* Directory.delete may refuse; the call then raises and the backend step stays.
DeleteDirectory ==
    /\ deleting # None
    /\ deleting.step = "BACKEND"
    /\ \/ /\ DeleteEntry(deleting.name, deleting.gen)
          /\ deleting' = [deleting EXCEPT !.step = "DIRECTORY"]
       \/ /\ ~MayDelete(deleting.name, deleting.gen)
          /\ deleting' = None
          /\ UNCHANGED directoryVars
    /\ UNCHANGED <<backendVars, screenVars, trackerVars, recordVars,
                   activating, recovering, crashing>>

DeleteLatest ==
    /\ LockFree
    /\ deleting # None
    /\ deleting.step = "DIRECTORY"
    /\ latest' = [latest EXCEPT ![deleting.user] = None]
    /\ deleting' = None
    /\ UNCHANGED <<directoryVars, backendVars, screenVars, trackerVars, status, viewEpoch,
                   requiredEdges, deltaAcks, compactedAcks, activating, recovering, crashing>>

-----------------------------------------------------------------------------
(* Component operations an operator calls directly.                        *)

Replicate(e, name) ==
    /\ ReplicateToEdge(e, name)
    /\ UNCHANGED <<backendVars, screenVars, trackerVars, recordVars, callVars>>

Alias(existing, alias) ==
    /\ SerializedAdmin => LockFree /\ deleting = None
    /\ AddAlias(existing, alias)
    /\ UNCHANGED <<backendVars, screenVars, trackerVars, recordVars, callVars>>

Install(cert) ==
    /\ InstallCertificate(cert)
    /\ UNCHANGED <<directoryVars, backendVars, trackerVars, recordVars, callVars>>

-----------------------------------------------------------------------------
Lifecycle(s) ==
    \/ \E required \in SUBSET Edges : Prepare(s, required)
    \/ PublishDelta(s)
    \/ \E e \in Edges : AcknowledgeDelta(s, e)
    \/ ActivateBackend(s)
    \/ FaultBackendAdvanceBeforeDirectory(s)
    \/ Compact(s)
    \/ \E e \in Edges : AcknowledgeCompacted(s, e)
    \/ Retire(s)

EdgeFaults ==
    \/ \E e \in Edges : CrashEdge(e) \/ CrashEdgeCertificates(e) \/ CrashEdgeTracker(e)
    \/ \E e \in Edges, name \in Users : RecoverEdge(e, name)
    \/ RecoverEdgeReplica
    \/ RecoverEdgeCertificate

Deletion ==
    \/ \E name \in Users, gen \in Generations : DeleteBackend(name, gen)
    \/ DeleteDirectory
    \/ DeleteLatest

ControlNext ==
    \/ \E s \in Scopes : Lifecycle(s)
    \/ ActivateDirectory
    \/ \E replicate \in BOOLEAN : ActivateCommit(replicate)
    \/ EdgeFaults
    \/ Deletion
    \/ \E e \in Edges, name \in Users : Replicate(e, name)
    \/ \E existing, alias \in Users : Alias(existing, alias)
    \/ \E cert \in issued : Install(cert)

ControlSpec == ControlInit /\ [][ControlNext]_controlVars

-----------------------------------------------------------------------------
(* Properties.                                                             *)

\* One-sidedness (theory/definitions.md, "Screen semantics"): an edge that may
\* reject locally - its view is PRESENT and its certificate is valid - holds
\* every credential of that scope, in the delta or in the base, whatever
\* publication, compaction, retirement, crash, recovery or late certificate
\* came before.
ScreenComplete ==
    \A name \in Users, e \in Edges :
        LET v == EdgeLookup(name, e) IN
        v.status = "PRESENT" /\ CertificateValid(e, v.scope, v.epoch)
            => Creds[v.scope] \subseteq Represented(v.scope)

\* An edge calls its view PRESENT only when it is the authoritative one: the
\* replica, however old, is judged by its epoch alone (Directory.lookup), so
\* no two slots of a username may ever share an epoch.
PresentIsCurrent ==
    \A name \in Users, e \in Edges :
        EdgeLookup(name, e).status = "PRESENT"
            => EdgeLookup(name, e) = AuthoritativeLookup(name)

\* The backend accepts, on fail-open paths, the version the directory calls
\* active: through the activation window, the fault hook, a crash or a refused
\* activation, and until delete_account has begun.
BackendCoversDirectory ==
    \A u \in Users :
        Present(u) /\ (deleting = None \/ deleting.user # u)
            => authoritative[u].scope \in FailOpenSnapshot(u)

\* Once no activation is in progress, the fail-open path no longer accepts a
\* version older than the directory's: the window is closed, not just moved.
RevokedNotAccepted ==
    \A u \in Users :
        LockFree /\ deleting = None /\ Present(u)
            => \A s \in FailOpenSnapshot(u) :
                  /\ SameIdentity(s, authoritative[u].scope)
                  /\ s.ver >= authoritative[u].scope.ver

\* After delete_account no version of the deleted generations is live in the
\* backend (the executable model's "deleted state retained a live formal
\* scope"): only a later generation may be.
DeletedNotLive ==
    \A u \in Users :
        LockFree /\ deleting = None /\ ~Present(u) /\ active[u] # None
            => active[u].gen > authoritative[u].lastGen

\* activate's comment: if execution stops after the backend step, both the
\* externally active credential and the prepared one remain verifiable on
\* fail-open paths.
DualVerificationWindow ==
    (activating # None /\ activating.step = "ADVANCED") =>
        LET u == UserOf(activating.key) IN
        /\ activating.key \in FailOpenSnapshot(u)
        /\ Present(u) => authoritative[u].scope \in FailOpenSnapshot(u)

\* controlplane/README.md: ACTIVE "cannot be reached until all required edges
\* hold signed positive-delta certificates": activate does not get past its
\* guards while one of them holds none.
ActiveNeedsCertificates ==
    [][\A s \in Scopes :
          activating = None /\ activating' = [key |-> s, step |-> "ADVANCED"]
              => \A e \in requiredEdges[s] : CertificateValid(e, s, viewEpoch[s])]_controlVars

\* "Uncertain state is not a negative result; it fails open": whatever an edge
\* knows of a name that has an account, the backend is asked about that account.
FailOpenReachesAccount ==
    \A name \in Users, e \in Edges :
        Present(Resolve(name)) => EdgeLookup(name, e).user = Resolve(name)
-----------------------------------------------------------------------------
(* Strengthenings: what ScreenComplete and PresentIsCurrent rest on.       *)

\* A representation that has an epoch holds every credential of its scope;
\* retire_delta takes the delta's epoch away together with its tokens.
RepresentationsWhole ==
    \A s \in Scopes :
        /\ deltaEpoch[s] # 0 => Creds[s] \subseteq delta[s]
        /\ baseEpoch[s] # 0 => Creds[s] \subseteq base[s]

Recorded(s) == status[s] # "NONE"

\* A slot that holds a scope has the epoch reserved for it, and one that holds
\* none has an epoch reserved for no scope.
SlotIdentified(slot) ==
    /\ slot.epoch < nextEpoch
    /\ slot.scope # None => /\ Recorded(slot.scope)
                            /\ slot.epoch = viewEpoch[slot.scope]
                            /\ slot.lastGen = slot.scope.gen
    /\ slot.scope = None => \A s \in Scopes : Recorded(s) => viewEpoch[s] # slot.epoch

\* Directory epochs identify what they were allocated for: an epoch belongs to
\* one prepared scope or to tombstones, in the authoritative directory and in
\* every replica, through refused, repeated and interrupted activations.
EpochsIdentifySlots ==
    /\ \A s \in Scopes : Recorded(s) => viewEpoch[s] > 0 /\ viewEpoch[s] < nextEpoch
    /\ \A s, t \in Scopes :
          Recorded(s) /\ Recorded(t) /\ viewEpoch[s] = viewEpoch[t] => s = t
    /\ \A u \in Users : SlotIdentified(authoritative[u])
    /\ \A e \in Edges, u \in Users :
          edgeReplica[<<e, u>>] # None => SlotIdentified(edgeReplica[<<e, u>>])
    /\ activating # None => Recorded(activating.key)

-----------------------------------------------------------------------------
\* What the login path may rely on: under the three disciplines the protocol
\* implements AccountAuthority.
Authority == INSTANCE AccountAuthority WITH
    current <- [u \in Users |-> authoritative[u].scope],
    lastGen <- [u \in Users |-> authoritative[u].lastGen],
    removing <- {u \in Users : /\ deleting # None
                               /\ deleting.step = "BACKEND"
                               /\ deleting.user = u
                               /\ Present(u)}

ImplementsAuthority == Authority!AuthoritySpec
=============================================================================
