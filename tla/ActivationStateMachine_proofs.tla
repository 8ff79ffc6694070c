------------------- MODULE ActivationStateMachine_proofs -------------------
(***************************************************************************)
(* Proofs about the activation protocol for every value of its constants.  *)
(* Whatever the administrative discipline: type correctness, the one-sided *)
(* completeness of the positive screen and the currency of PRESENT views.  *)
(* Under the three disciplines: the protocol implements AccountAuthority,  *)
(* and the backend covers, revokes and deletes with the directory.         *)
(***************************************************************************)
EXTENDS ActivationStateMachine, InMemoryBackend_proofs

\* Resolving a name gives a username, through an alias or not.
LEMMA ResolveType ==
    ASSUME DirectoryTypeOK, NEW name \in Users
    PROVE  Resolve(name) \in Users
  BY DEF DirectoryTypeOK, Resolve

\* An authoritative view names a user.
LEMMA AuthoritativeUser ==
    ASSUME DirectoryTypeOK, NEW name \in Users
    PROVE  AuthoritativeLookup(name).user \in Users
  BY ResolveType DEF AuthoritativeLookup, View

-----------------------------------------------------------------------------
(* Each component keeps its types.                                         *)

\* Every operation of the directory keeps the directory's types.
LEMMA DirectoryKeepsTypes ==
    ASSUME DirectoryTypeOK,
           \/ ReserveEpoch
           \/ \E s \in Scopes, epoch \in Nat : PublishActive(s, epoch)
           \/ \E e \in Edges, name \in Users : ReplicateToEdge(e, name)
           \/ \E e \in Edges : MarkEdgeUncertain(e) \/ RecoverDirectoryEdge(e)
           \/ \E name \in Users, gen \in Generations : DeleteEntry(name, gen)
           \/ \E existing, alias \in Users : AddAlias(existing, alias)
           \/ UNCHANGED directoryVars
    PROVE  DirectoryTypeOK'
<1>1. CASE ReserveEpoch
  BY <1>1 DEF ReserveEpoch, DirectoryTypeOK
<1>2. ASSUME NEW s \in Scopes, NEW epoch \in Nat, PublishActive(s, epoch)
      PROVE  DirectoryTypeOK'
  <2>1. [scope |-> s, epoch |-> epoch, lastGen |-> s.gen] \in Slots
    BY ScopeFields DEF Slots
  <2> QED
    BY <1>2, <2>1, ScopeFields DEF PublishActive, DirectoryTypeOK
<1>3. ASSUME NEW e \in Edges, NEW name \in Users, ReplicateToEdge(e, name)
      PROVE  DirectoryTypeOK'
  <2>1. authoritative[Resolve(name)] \in Slots
    BY ResolveType DEF DirectoryTypeOK
  <2>2. Replicated(edgeReplica, e, name) \in [Edges \X Users -> Slots \cup {None}]
    BY <2>1, ResolveType DEF Replicated, DirectoryTypeOK
  <2> QED
    BY <1>3, <2>2 DEF ReplicateToEdge, DirectoryTypeOK
<1>4. ASSUME NEW e \in Edges, MarkEdgeUncertain(e) \/ RecoverDirectoryEdge(e)
      PROVE  DirectoryTypeOK'
  BY <1>4 DEF MarkEdgeUncertain, RecoverDirectoryEdge, DirectoryTypeOK
<1>5. ASSUME NEW name \in Users, NEW gen \in Generations, DeleteEntry(name, gen)
      PROVE  DirectoryTypeOK'
  <2>1. [scope |-> None, epoch |-> nextEpoch, lastGen |-> gen] \in Slots
    BY DEF Slots, DirectoryTypeOK
  <2> QED
    BY <1>5, <2>1, ResolveType DEF DeleteEntry, DirectoryTypeOK
<1>6. ASSUME NEW existing \in Users, NEW alias \in Users, AddAlias(existing, alias)
      PROVE  DirectoryTypeOK'
  BY <1>6, ResolveType DEF AddAlias, DirectoryTypeOK
<1>7. CASE UNCHANGED directoryVars
  BY <1>7 DEF directoryVars, DirectoryTypeOK
<1> QED
  BY <1>1, <1>2, <1>3, <1>4, <1>5, <1>6, <1>7

\* Every operation of the screen keeps the screen's types.
LEMMA ScreenKeepsTypes ==
    ASSUME ScreenTypeOK,
           \/ \E s \in Scopes : PublishDeltaTokens(s) \/ CompactTokens(s) \/ RetireDelta(s)
           \/ \E e \in Edges, s \in Scopes, watermark \in Nat, source \in Sources :
                 IssueCertificate(e, s, watermark, source)
           \/ \E cert \in issued : InstallCertificate(cert)
           \/ \E e \in Edges : ClearEdgeCertificates(e)
           \/ UNCHANGED screenVars
    PROVE  ScreenTypeOK'
<1>1. ASSUME NEW s \in Scopes, PublishDeltaTokens(s)
      PROVE  ScreenTypeOK'
  <2>1. Creds[s] \in SUBSET Passwords
    BY IdentityAssumption DEF IdentityAssumption
  <2> QED
    BY <1>1, <2>1 DEF PublishDeltaTokens, ScreenTypeOK
<1>2. ASSUME NEW s \in Scopes, CompactTokens(s)
      PROVE  ScreenTypeOK'
  BY <1>2 DEF CompactTokens, ScreenTypeOK
<1>3. ASSUME NEW s \in Scopes, RetireDelta(s)
      PROVE  ScreenTypeOK'
  BY <1>3 DEF RetireDelta, ScreenTypeOK
<1>4. ASSUME NEW e \in Edges, NEW s \in Scopes, NEW watermark \in Nat,
             NEW source \in Sources, IssueCertificate(e, s, watermark, source)
      PROVE  ScreenTypeOK'
  <2>1. Certificate(e, s, watermark, source) \in Certificates
    BY DEF Certificate, Certificates, RepresentationEpoch, ScreenTypeOK
  <2> QED
    BY <1>4, <2>1 DEF IssueCertificate, ScreenTypeOK
<1>5. ASSUME NEW cert \in issued, InstallCertificate(cert)
      PROVE  ScreenTypeOK'
  <2>1. cert \in Certificates /\ cert.edge \in Edges /\ cert.scope \in Scopes
    BY DEF ScreenTypeOK, Certificates
  <2> QED
    BY <1>5, <2>1 DEF InstallCertificate, ScreenTypeOK
<1>6. ASSUME NEW e \in Edges, ClearEdgeCertificates(e)
      PROVE  ScreenTypeOK'
  BY <1>6 DEF ClearEdgeCertificates, ScreenTypeOK
<1>7. CASE UNCHANGED screenVars
  BY <1>7 DEF screenVars, ScreenTypeOK
<1> QED
  BY <1>1, <1>2, <1>3, <1>4, <1>5, <1>6, <1>7

\* Every operation of the tracker keeps the tracker's types.
LEMMA TrackerKeepsTypes ==
    ASSUME TrackerTypeOK,
           \/ \E e \in Edges, s \in Scopes, mark \in Marks : Advance(e, s, mark)
           \/ \E e \in Edges : MarkTrackerUncertain(e)
           \/ UNCHANGED trackerVars
    PROVE  TrackerTypeOK'
  BY DEF Advance, MarkTrackerUncertain, TrackerTypeOK, trackerVars

-----------------------------------------------------------------------------
(* Each step of the protocol is, for a component, one of its operations or *)
(* a stutter.                                                              *)

\* A step of the protocol keeps the directory's types.
LEMMA DirectoryStep ==
    ASSUME TypeOK, ControlNext
    PROVE  DirectoryTypeOK'
<1> USE DEF TypeOK
<1>1. ASSUME NEW s \in Scopes, Lifecycle(s)
      PROVE  DirectoryTypeOK'
  <2>1. ReserveEpoch \/ UNCHANGED directoryVars
    BY <1>1 DEF Lifecycle, Prepare, PublishDelta, AcknowledgeDelta, ActivateBackend,
                FaultBackendAdvanceBeforeDirectory, Compact, AcknowledgeCompacted, Retire
  <2> QED
    BY <2>1, DirectoryKeepsTypes
<1>2. CASE ActivateDirectory
  <2>1. activating.key \in Scopes /\ viewEpoch[activating.key] \in Nat
    BY <1>2 DEF ActivateDirectory, ControlTypeOK, Activations
  <2>2. \/ PublishActive(activating.key, viewEpoch[activating.key])
        \/ UNCHANGED directoryVars
    BY <1>2 DEF ActivateDirectory
  <2> QED
    BY <2>1, <2>2, DirectoryKeepsTypes
<1>3. ASSUME NEW replicate \in BOOLEAN, ActivateCommit(replicate)
      PROVE  DirectoryTypeOK'
  <2>1. activating.key \in Scopes
    BY <1>3 DEF ActivateCommit, ControlTypeOK, Activations
  <2>2. authoritative[UserOf(activating.key)] \in Slots
    BY <2>1, ScopeFields DEF DirectoryTypeOK
  <2>3. ReplicatedToRequired(activating.key, replicate)
           \in [Edges \X Users -> Slots \cup {None}]
    BY <2>2 DEF ReplicatedToRequired, DirectoryTypeOK
  <2> QED
    BY <1>3, <2>3 DEF ActivateCommit, DirectoryTypeOK
<1>4. CASE EdgeFaults
  <2>1. recovering # None => recovering.edge \in Edges /\ recovering.name \in Users
    BY DEF ControlTypeOK, Recoveries
  <2>2. \/ \E e \in Edges : MarkEdgeUncertain(e) \/ RecoverDirectoryEdge(e)
        \/ \E e \in Edges, name \in Users : ReplicateToEdge(e, name)
        \/ UNCHANGED directoryVars
    BY <1>4, <2>1 DEF EdgeFaults, CrashEdge, CrashEdgeCertificates, CrashEdgeTracker,
                      RecoverEdge,
                      RecoverEdgeReplica, RecoverEdgeCertificate
  <2> QED
    BY <2>2, DirectoryKeepsTypes
<1>5. CASE Deletion
  <2>1. deleting # None => deleting.name \in Users /\ deleting.gen \in Generations
    BY DEF ControlTypeOK, Deletions
  <2>2. \/ \E name \in Users, gen \in Generations : DeleteEntry(name, gen)
        \/ UNCHANGED directoryVars
    BY <1>5, <2>1 DEF Deletion, DeleteBackend, DeleteDirectory, DeleteLatest
  <2> QED
    BY <2>2, DirectoryKeepsTypes
<1>6. ASSUME NEW e \in Edges, NEW name \in Users, Replicate(e, name)
      PROVE  DirectoryTypeOK'
  BY <1>6, DirectoryKeepsTypes DEF Replicate
<1>7. ASSUME NEW existing \in Users, NEW alias \in Users, Alias(existing, alias)
      PROVE  DirectoryTypeOK'
  BY <1>7, DirectoryKeepsTypes DEF Alias
<1>8. ASSUME NEW cert \in issued, Install(cert)
      PROVE  DirectoryTypeOK'
  BY <1>8, DirectoryKeepsTypes DEF Install
<1> QED
  BY <1>1, <1>2, <1>3, <1>4, <1>5, <1>6, <1>7, <1>8 DEF ControlNext

\* A step of the protocol keeps the backend's types.
LEMMA BackendStep ==
    ASSUME TypeOK, ControlNext
    PROVE  BackendTypeOK'
<1> USE DEF TypeOK
<1>1. ASSUME NEW s \in Scopes, Lifecycle(s)
      PROVE  BackendTypeOK'
  <2>1. PrepareVersion(s) \/ ActivateVersion(s) \/ UNCHANGED backendVars
    BY <1>1 DEF Lifecycle, Prepare, PublishDelta, AcknowledgeDelta, ActivateBackend,
                FaultBackendAdvanceBeforeDirectory, Compact, AcknowledgeCompacted, Retire
  <2> QED
    BY <2>1, BackendKeepsTypes
<1>2. ASSUME NEW replicate \in BOOLEAN, ActivateCommit(replicate)
      PROVE  BackendTypeOK'
  <2>1. activating.key \in Scopes
    BY <1>2 DEF ActivateCommit, ControlTypeOK, Activations
  <2>2. CommitDirectoryVersion(activating.key) \/ UNCHANGED backendVars
    BY <1>2 DEF ActivateCommit
  <2> QED
    BY <2>1, <2>2, BackendKeepsTypes
<1>3. CASE Deletion
  <2>1. \/ \E u \in Users, gen \in Generations : DeleteBackendAccount(u, gen)
        \/ UNCHANGED backendVars
    BY <1>3, AuthoritativeUser DEF Deletion, DeleteBackend, DeleteDirectory, DeleteLatest
  <2> QED
    BY <2>1, BackendKeepsTypes
<1>4. CASE UNCHANGED backendVars
  BY <1>4, BackendKeepsTypes
<1> QED
  BY <1>1, <1>2, <1>3, <1>4
  DEF ControlNext, ActivateDirectory, EdgeFaults, CrashEdge, CrashEdgeCertificates,
      CrashEdgeTracker, RecoverEdge, RecoverEdgeReplica, RecoverEdgeCertificate, Replicate, Alias, Install

\* A step of the protocol keeps the screen's types.
LEMMA ScreenStep ==
    ASSUME TypeOK, ControlNext
    PROVE  ScreenTypeOK'
<1> USE DEF TypeOK
<1>1. \A s \in Scopes : viewEpoch[s] \in Nat
  BY DEF ControlTypeOK
<1>2. ASSUME NEW s \in Scopes, Lifecycle(s)
      PROVE  ScreenTypeOK'
  <2>1. \/ PublishDeltaTokens(s) \/ CompactTokens(s) \/ RetireDelta(s)
        \/ \E e \in Edges, source \in Sources : IssueCertificate(e, s, viewEpoch[s], source)
        \/ UNCHANGED screenVars
    BY <1>2 DEF Lifecycle, Prepare, PublishDelta, AcknowledgeDelta, ActivateBackend,
                FaultBackendAdvanceBeforeDirectory, Compact, AcknowledgeCompacted, Retire,
                Sources
  <2> QED
    BY <1>1, <2>1, ScreenKeepsTypes
<1>3. CASE EdgeFaults
  <2>1. recovering # None => /\ recovering.edge \in Edges
                             /\ latest[recovering.user] \in Scopes \cup {None}
    BY DEF ControlTypeOK, Recoveries
  <2>2. \/ \E e \in Edges : ClearEdgeCertificates(e)
        \/ \E e \in Edges, s \in Scopes, source \in Sources :
              IssueCertificate(e, s, viewEpoch[s], source)
        \/ UNCHANGED screenVars
    BY <1>3, <2>1 DEF EdgeFaults, CrashEdge, CrashEdgeCertificates, CrashEdgeTracker, RecoverEdge,
                      RecoverEdgeReplica, RecoverEdgeCertificate, RecoverySource, Sources
  <2> QED
    BY <1>1, <2>2, ScreenKeepsTypes
<1>4. ASSUME NEW cert \in issued, Install(cert)
      PROVE  ScreenTypeOK'
  BY <1>4, ScreenKeepsTypes DEF Install
<1>5. CASE UNCHANGED screenVars
  BY <1>5, ScreenKeepsTypes
<1> QED
  BY <1>2, <1>3, <1>4, <1>5
  DEF ControlNext, ActivateDirectory, ActivateCommit, Deletion, DeleteBackend,
      DeleteDirectory, DeleteLatest, Replicate, Alias

\* A step of the protocol keeps the tracker's types.
LEMMA TrackerStep ==
    ASSUME TypeOK, ControlNext
    PROVE  TrackerTypeOK'
<1> USE DEF TypeOK
<1>1. ASSUME NEW s \in Scopes, NEW epoch \in Nat
      PROVE  [directory |-> viewEpoch[s], representation |-> epoch] \in Marks
  BY DEF ControlTypeOK, Marks
<1>2. \A s \in Scopes, source \in Sources : RepresentationEpoch(s, source) \in Nat
  BY DEF RepresentationEpoch, ScreenTypeOK
<1>3. ASSUME NEW s \in Scopes, Lifecycle(s)
      PROVE  TrackerTypeOK'
  <2>1. deltaEpoch[s] \in Nat /\ baseEpoch[s] \in Nat
    BY DEF ScreenTypeOK
  <2>2. \/ \E e \in Edges, mark \in Marks : Advance(e, s, mark)
        \/ UNCHANGED trackerVars
    BY <1>1, <1>3, <2>1
    DEF Lifecycle, Prepare, PublishDelta, AcknowledgeDelta, ActivateBackend,
        FaultBackendAdvanceBeforeDirectory, Compact, AcknowledgeCompacted, Retire
  <2> QED
    BY <2>2, TrackerKeepsTypes
<1>4. CASE EdgeFaults
  <2>1. recovering # None => /\ recovering.edge \in Edges
                             /\ latest[recovering.user] \in Scopes \cup {None}
    BY DEF ControlTypeOK, Recoveries
  <2>2. \A s \in Scopes : RepresentationEpoch(s, RecoverySource(s)) \in Nat
    BY <1>2 DEF RecoverySource, Sources
  <2>3. \/ \E e \in Edges, s \in Scopes, mark \in Marks : Advance(e, s, mark)
        \/ \E e \in Edges : MarkTrackerUncertain(e)
        \/ UNCHANGED trackerVars
    BY <1>1, <1>4, <2>1, <2>2
    DEF EdgeFaults, CrashEdge, CrashEdgeCertificates, CrashEdgeTracker, RecoverEdge,
        RecoverEdgeReplica, RecoverEdgeCertificate
  <2> QED
    BY <2>3, TrackerKeepsTypes
<1>5. CASE UNCHANGED trackerVars
  BY <1>5, TrackerKeepsTypes
<1> QED
  BY <1>3, <1>4, <1>5
  DEF ControlNext, ActivateDirectory, ActivateCommit, Deletion, DeleteBackend,
      DeleteDirectory, DeleteLatest, Replicate, Alias, Install

\* A step of the protocol keeps the types of its own records and calls.
LEMMA RecordsStep ==
    ASSUME TypeOK, ControlNext
    PROVE  ControlTypeOK'
<1> USE DEF TypeOK
<1>1. ASSUME NEW s \in Scopes, Lifecycle(s)
      PROVE  ControlTypeOK'
  <2>1. ASSUME NEW required \in SUBSET Edges, Prepare(s, required)
        PROVE  ControlTypeOK'
    BY <2>1 DEF Prepare, ControlTypeOK, Statuses, DirectoryTypeOK, callVars
  <2>2. CASE PublishDelta(s)
    BY <2>2 DEF PublishDelta, ControlTypeOK, Statuses, callVars
  <2>3. ASSUME NEW e \in Edges, AcknowledgeDelta(s, e) \/ AcknowledgeCompacted(s, e)
        PROVE  ControlTypeOK'
    BY <2>3 DEF AcknowledgeDelta, AcknowledgeCompacted, ControlTypeOK, callVars
  <2>4. CASE ActivateBackend(s)
    <3>1. [key |-> s, step |-> "ADVANCED"] \in Activations
      BY DEF Activations
    <3> QED
      BY <2>4, <3>1 DEF ActivateBackend, ControlTypeOK, recordVars
  <2>5. CASE FaultBackendAdvanceBeforeDirectory(s)
    BY <2>5 DEF FaultBackendAdvanceBeforeDirectory, ControlTypeOK, recordVars, callVars
  <2>6. CASE Compact(s) \/ Retire(s)
    BY <2>6 DEF Compact, Retire, ControlTypeOK, Statuses, callVars
  <2> QED
    BY <1>1, <2>1, <2>2, <2>3, <2>4, <2>5, <2>6 DEF Lifecycle
<1>2. CASE ActivateDirectory
  <2>1. [activating EXCEPT !.step = "PUBLISHED"] \in Activations
    BY <1>2 DEF ActivateDirectory, ControlTypeOK, Activations
  <2> QED
    BY <1>2, <2>1 DEF ActivateDirectory, ControlTypeOK, recordVars
<1>3. ASSUME NEW replicate \in BOOLEAN, ActivateCommit(replicate)
      PROVE  ControlTypeOK'
  <2>1. activating.key \in Scopes
    BY <1>3 DEF ActivateCommit, ControlTypeOK, Activations
  <2> QED
    BY <1>3, <2>1, ScopeFields DEF ActivateCommit, ControlTypeOK, Statuses
<1>4. CASE EdgeFaults
  <2>1. ASSUME NEW e \in Edges, CrashEdge(e) \/ CrashEdgeCertificates(e) \/ CrashEdgeTracker(e)
        PROVE  ControlTypeOK'
    BY <2>1 DEF CrashEdge, CrashEdgeCertificates, CrashEdgeTracker, ControlTypeOK, recordVars,
                CrashSteps
  <2>2. ASSUME NEW e \in Edges, NEW name \in Users, RecoverEdge(e, name)
        PROVE  ControlTypeOK'
    <3>1. [edge |-> e, name |-> name,
           user |-> AuthoritativeLookup(name).user, step |-> "CERTAIN"] \in Recoveries
      BY AuthoritativeUser DEF Recoveries
    <3> QED
      BY <2>2, <3>1 DEF RecoverEdge, ControlTypeOK, recordVars
  <2>3. CASE RecoverEdgeReplica
    <3>1. [recovering EXCEPT !.step = "REPLICATED"] \in Recoveries
      BY <2>3 DEF RecoverEdgeReplica, ControlTypeOK, Recoveries
    <3> QED
      BY <2>3, <3>1 DEF RecoverEdgeReplica, ControlTypeOK, recordVars
  <2>4. CASE RecoverEdgeCertificate
    BY <2>4 DEF RecoverEdgeCertificate, ControlTypeOK, recordVars
  <2> QED
    BY <1>4, <2>1, <2>2, <2>3, <2>4 DEF EdgeFaults
<1>5. CASE Deletion
  <2>1. ASSUME NEW name \in Users, NEW gen \in Generations, DeleteBackend(name, gen)
        PROVE  ControlTypeOK'
    <3>1. [name |-> name, user |-> AuthoritativeLookup(name).user, gen |-> gen,
           step |-> "BACKEND"] \in Deletions
      BY AuthoritativeUser DEF Deletions
    <3> QED
      BY <2>1, <3>1 DEF DeleteBackend, ControlTypeOK, recordVars
  <2>2. CASE DeleteDirectory
    <3>1. [deleting EXCEPT !.step = "DIRECTORY"] \in Deletions
      BY <2>2 DEF DeleteDirectory, ControlTypeOK, Deletions
    <3> QED
      BY <2>2, <3>1 DEF DeleteDirectory, ControlTypeOK, recordVars
  <2>3. CASE DeleteLatest
    BY <2>3 DEF DeleteLatest, ControlTypeOK, Deletions
  <2> QED
    BY <1>5, <2>1, <2>2, <2>3 DEF Deletion
<1>6. CASE UNCHANGED <<recordVars, callVars>>
  BY <1>6 DEF ControlTypeOK, recordVars, callVars
<1> QED
  BY <1>1, <1>2, <1>3, <1>4, <1>5, <1>6 DEF ControlNext, Replicate, Alias, Install

-----------------------------------------------------------------------------
\* The initial state has the types.
LEMMA TypesInitially == ControlInit => TypeOK
<1> SUFFICES ASSUME ControlInit PROVE TypeOK
  OBVIOUS
<1> USE DEF ControlInit
<1>1. DirectoryTypeOK
  BY DEF DirectoryInit, DirectoryTypeOK, Slots, NoSlot
<1>2. BackendTypeOK
  BY DEF BackendInit, BackendTypeOK
<1>3. ScreenTypeOK
  BY DEF ScreenInit, ScreenTypeOK
<1>4. TrackerTypeOK
  BY DEF TrackerInit, TrackerTypeOK, Marks, NoMark
<1>5. ControlTypeOK
  BY DEF ControlTypeOK, Statuses, CrashSteps
<1> QED
  BY <1>1, <1>2, <1>3, <1>4, <1>5 DEF TypeOK

\* Every step, and every stutter, keeps the types.
LEMMA TypesKept == TypeOK /\ [ControlNext]_controlVars => TypeOK'
<1>1. ASSUME TypeOK, ControlNext PROVE TypeOK'
  BY <1>1, DirectoryStep, BackendStep, ScreenStep, TrackerStep, RecordsStep DEF TypeOK
<1>2. ASSUME TypeOK, UNCHANGED controlVars PROVE TypeOK'
  BY <1>2
  DEF TypeOK, DirectoryTypeOK, BackendTypeOK, ScreenTypeOK, TrackerTypeOK, ControlTypeOK,
      controlVars, directoryVars, backendVars, screenVars, trackerVars, recordVars, callVars
<1> QED
  BY <1>1, <1>2

\* Type correctness of the composed control plane.
THEOREM TypeCorrectness == ControlSpec => []TypeOK
  BY TypesInitially, TypesKept, PTL DEF ControlSpec

-----------------------------------------------------------------------------
(* One-sidedness of the screen.                                            *)

\* No step leaves a representation with an epoch but without its credentials.
LEMMA RepresentationsKept ==
    ASSUME TypeOK, RepresentationsWhole, [ControlNext]_controlVars
    PROVE  RepresentationsWhole'
<1>1. ASSUME NEW s \in Scopes, PublishDeltaTokens(s)
      PROVE  RepresentationsWhole'
  BY <1>1 DEF PublishDeltaTokens, RepresentationsWhole, TypeOK, ScreenTypeOK
<1>2. ASSUME NEW s \in Scopes, CompactTokens(s)
      PROVE  RepresentationsWhole'
  BY <1>2 DEF CompactTokens, RepresentationsWhole, TypeOK, ScreenTypeOK
<1>3. ASSUME NEW s \in Scopes, RetireDelta(s)
      PROVE  RepresentationsWhole'
  BY <1>3 DEF RetireDelta, RepresentationsWhole, TypeOK, ScreenTypeOK
<1>4. CASE UNCHANGED <<base, delta, baseEpoch, deltaEpoch>>
  BY <1>4 DEF RepresentationsWhole
<1>5. ASSUME NEW s \in Scopes, Lifecycle(s)
      PROVE  RepresentationsWhole'
  <2>1. \/ PublishDeltaTokens(s) \/ CompactTokens(s) \/ RetireDelta(s)
        \/ UNCHANGED <<base, delta, baseEpoch, deltaEpoch>>
    BY <1>5
    DEF Lifecycle, Prepare, PublishDelta, AcknowledgeDelta, ActivateBackend,
        FaultBackendAdvanceBeforeDirectory, Compact, AcknowledgeCompacted, Retire,
        IssueCertificate, screenVars
  <2> QED
    BY <1>1, <1>2, <1>3, <1>4, <2>1
<1>6. CASE EdgeFaults \/ Deletion
  <2>1. UNCHANGED <<base, delta, baseEpoch, deltaEpoch>>
    BY <1>6
    DEF EdgeFaults, CrashEdge, CrashEdgeCertificates, CrashEdgeTracker, RecoverEdge, RecoverEdgeReplica,
        RecoverEdgeCertificate, IssueCertificate, ClearEdgeCertificates, Deletion,
        DeleteBackend, DeleteDirectory, DeleteLatest, screenVars
  <2> QED
    BY <1>4, <2>1
<1> QED
  BY <1>4, <1>5, <1>6
  DEF ControlNext, ActivateDirectory, ActivateCommit, Replicate, Alias, Install,
      InstallCertificate, controlVars, screenVars

\* Valid certificates are only for whole representations.
LEMMA WholeIsComplete == TypeOK /\ RepresentationsWhole => ScreenComplete
<1> SUFFICES ASSUME TypeOK, RepresentationsWhole, NEW e \in Edges, NEW s \in Scopes,
                    NEW epoch \in Nat, CertificateValid(e, s, epoch)
             PROVE  Creds[s] \subseteq Represented(s)
  <2>1. ASSUME TypeOK, NEW name \in Users, NEW e \in Edges,
               EdgeLookup(name, e).status = "PRESENT"
        PROVE  /\ EdgeLookup(name, e).scope \in Scopes
               /\ EdgeLookup(name, e).epoch \in Nat
    <3>1. edgeReplica[<<e, Resolve(name)>>] \in Slots \cup {None}
      BY <2>1, ResolveType DEF TypeOK, DirectoryTypeOK
    <3> QED
      BY <2>1, <3>1 DEF EdgeLookup, View, Slots
  <2> QED
    BY <2>1 DEF ScreenComplete
<1>1. certificates[<<e, s>>] \in Certificates
  BY DEF CertificateValid, TypeOK, ScreenTypeOK
<1>2. certificates[<<e, s>>].source \in Sources
  BY <1>1 DEF Certificates
<1>3. deltaEpoch[s] # 0 \/ baseEpoch[s] # 0
  BY <1>2 DEF CertificateValid, RepresentationEpoch, Sources
<1> QED
  BY <1>3 DEF RepresentationsWhole, Represented

\* One-sided completeness: whatever was published, compacted, retired, crashed,
\* recovered or certified late, in any order, an edge that may reject locally
\* holds every credential of the scope it screens.
THEOREM OneSidedScreen == ControlSpec => []ScreenComplete
<1>1. ControlInit => RepresentationsWhole
  BY DEF ControlInit, ScreenInit, RepresentationsWhole
<1>2. TypeOK /\ RepresentationsWhole /\ [ControlNext]_controlVars => RepresentationsWhole'
  BY RepresentationsKept
<1> QED
  BY <1>1, <1>2, TypesInitially, TypesKept, WholeIsComplete, PTL DEF ControlSpec

-----------------------------------------------------------------------------
(* Epochs identify slots.                                                  *)

\* Steps that allocate no epoch and only copy slots keep every slot identified.
LEMMA CopyingKeepsEpochs ==
    ASSUME TypeOK, TypeOK', EpochsIdentifySlots,
           UNCHANGED <<nextEpoch, authoritative, viewEpoch>>,
           \A s \in Scopes : (status'[s] # "NONE") <=> (status[s] # "NONE"),
           \A e \in Edges, u \in Users :
              edgeReplica'[<<e, u>>] \in {edgeReplica[<<e, u>>], authoritative[u]},
           activating' # None => status[activating'.key] # "NONE" /\ activating'.key \in Scopes
    PROVE  EpochsIdentifySlots'
<1>1. \A slot \in Slots : SlotIdentified(slot) => 
         /\ slot.epoch < nextEpoch'
         /\ slot.scope # None => /\ status'[slot.scope] # "NONE"
                                 /\ slot.epoch = viewEpoch'[slot.scope]
                                 /\ slot.lastGen = slot.scope.gen
         /\ slot.scope = None => \A s \in Scopes : status'[s] # "NONE" => viewEpoch'[s] # slot.epoch
  BY DEF SlotIdentified, Recorded, Slots
<1>2. \A u \in Users : SlotIdentified(authoritative[u])'
  BY <1>1 DEF TypeOK, DirectoryTypeOK, EpochsIdentifySlots, SlotIdentified, Recorded
<1>3. ASSUME NEW e \in Edges, NEW u \in Users, edgeReplica'[<<e, u>>] # None
      PROVE  SlotIdentified(edgeReplica[<<e, u>>])'
  <2>1. edgeReplica'[<<e, u>>] \in Slots
    BY <1>3 DEF TypeOK, DirectoryTypeOK
  <2>2. SlotIdentified(edgeReplica'[<<e, u>>])
    BY <1>3 DEF EpochsIdentifySlots
  <2> QED
    BY <1>1, <2>1, <2>2 DEF SlotIdentified, Recorded
<1> QED
  BY <1>2, <1>3 DEF EpochsIdentifySlots, Recorded

\* Preparing allocates an epoch above every slot's and every view's.
LEMMA PrepareKeepsEpochs ==
    ASSUME TypeOK, EpochsIdentifySlots, NEW s \in Scopes, NEW required \in SUBSET Edges,
           Prepare(s, required)
    PROVE  EpochsIdentifySlots'
<1>1. /\ nextEpoch \in Nat \ {0}
      /\ nextEpoch' = nextEpoch + 1
      /\ viewEpoch' = [viewEpoch EXCEPT ![s] = nextEpoch]
      /\ status' = [status EXCEPT ![s] = "PREPARED"]
      /\ status[s] = "NONE"
      /\ UNCHANGED <<authoritative, edgeReplica, activating>>
      /\ viewEpoch \in [Scopes -> Nat]
      /\ status \in [Scopes -> Statuses]
  BY DEF Prepare, MayPrepare, ReserveEpoch, TypeOK, DirectoryTypeOK, ControlTypeOK, callVars
<1>2. \A t \in Scopes : /\ Recorded(t)' <=> (t = s \/ Recorded(t))
                        /\ viewEpoch'[t] = IF t = s THEN nextEpoch ELSE viewEpoch[t]
                        /\ Recorded(t) => t # s
  BY <1>1 DEF Recorded
<1>3. ASSUME NEW slot \in Slots, SlotIdentified(slot)
      PROVE  /\ slot.epoch < nextEpoch'
             /\ slot.scope # None => /\ status'[slot.scope] # "NONE"
                                     /\ slot.epoch = viewEpoch'[slot.scope]
                                     /\ slot.lastGen = slot.scope.gen
             /\ slot.scope = None =>
                   \A t \in Scopes : status'[t] # "NONE" => viewEpoch'[t] # slot.epoch
  <2>1. slot.epoch \in Nat /\ slot.scope \in Scopes \cup {None}
    BY DEF Slots
  <2>2. slot.epoch < nextEpoch' /\ slot.epoch # nextEpoch
    BY <1>1, <1>3, <2>1 DEF SlotIdentified
  <2> QED
    BY <1>1, <1>2, <1>3, <2>1, <2>2 DEF SlotIdentified, Recorded
<1>4. \A u \in Users : SlotIdentified(authoritative[u])'
  BY <1>1, <1>3 DEF TypeOK, DirectoryTypeOK, EpochsIdentifySlots, SlotIdentified, Recorded
<1>5. ASSUME NEW e \in Edges, NEW u \in Users, edgeReplica'[<<e, u>>] # None
      PROVE  SlotIdentified(edgeReplica[<<e, u>>])'
  <2>1. edgeReplica[<<e, u>>] \in Slots /\ SlotIdentified(edgeReplica[<<e, u>>])
    BY <1>1, <1>5 DEF TypeOK, DirectoryTypeOK, EpochsIdentifySlots
  <2> QED
    BY <1>1, <1>3, <2>1 DEF SlotIdentified, Recorded
<1>6. \A t \in Scopes : Recorded(t)' => viewEpoch'[t] > 0 /\ viewEpoch'[t] < nextEpoch'
  BY <1>1, <1>2 DEF EpochsIdentifySlots
<1>7. \A t, r \in Scopes :
         Recorded(t)' /\ Recorded(r)' /\ viewEpoch'[t] = viewEpoch'[r] => t = r
  BY <1>1, <1>2 DEF EpochsIdentifySlots
<1>8. activating' # None => Recorded(activating.key)'
  BY <1>1, <1>2 DEF EpochsIdentifySlots, TypeOK, ControlTypeOK, Activations
<1> QED
  BY <1>4, <1>5, <1>6, <1>7, <1>8 DEF EpochsIdentifySlots

\* Publishing stores the epoch reserved for the published scope.
LEMMA PublishKeepsEpochs ==
    ASSUME TypeOK, EpochsIdentifySlots, ActivateDirectory
    PROVE  EpochsIdentifySlots'
<1> DEFINE s == activating.key
<1>1. s \in Scopes /\ Recorded(s) /\ UserOf(s) \in Users
  BY ScopeFields DEF ActivateDirectory, TypeOK, ControlTypeOK, Activations, EpochsIdentifySlots
<1>2. /\ UNCHANGED <<edgeReplica, viewEpoch, status>>
      /\ activating' # None => activating'.key = s
  BY DEF ActivateDirectory, PublishActive, directoryVars, recordVars, TypeOK,
         ControlTypeOK, Activations
<1>3. CASE PublishActive(s, viewEpoch[s])
  <2>1. nextEpoch' = nextEpoch
    BY <1>1, <1>3 DEF PublishActive, EpochsIdentifySlots, TypeOK, DirectoryTypeOK, ControlTypeOK
  <2>2. \A u \in Users : \/ authoritative'[u] = authoritative[u]
                         \/ authoritative'[u] = [scope |-> s, epoch |-> viewEpoch[s],
                                                 lastGen |-> s.gen]
    BY <1>1, <1>3 DEF PublishActive, TypeOK, DirectoryTypeOK
  <2>3. SlotIdentified([scope |-> s, epoch |-> viewEpoch[s], lastGen |-> s.gen])
    BY <1>1, IdentityAssumption DEF SlotIdentified, EpochsIdentifySlots, IdentityAssumption
  <2>4. \A u \in Users : SlotIdentified(authoritative[u])'
    BY <1>2, <2>1, <2>2, <2>3 DEF SlotIdentified, Recorded, EpochsIdentifySlots
  <2> QED
    BY <1>1, <1>2, <2>1, <2>4 DEF SlotIdentified, Recorded, EpochsIdentifySlots
<1>4. CASE UNCHANGED directoryVars
  BY <1>1, <1>2, <1>4 DEF SlotIdentified, Recorded, EpochsIdentifySlots, directoryVars
<1> QED
  BY <1>3, <1>4 DEF ActivateDirectory

\* A tombstone gets an epoch of its own.
LEMMA DeletionKeepsEpochs ==
    ASSUME TypeOK, EpochsIdentifySlots, DeleteDirectory
    PROVE  EpochsIdentifySlots'
<1>1. UNCHANGED <<edgeReplica, viewEpoch, status, activating>>
  BY DEF DeleteDirectory, DeleteEntry, directoryVars, recordVars
<1>2. CASE DeleteEntry(deleting.name, deleting.gen)
  <2> DEFINE tombstone == [scope |-> None, epoch |-> nextEpoch, lastGen |-> deleting.gen]
  <2>1. nextEpoch \in Nat /\ nextEpoch' = nextEpoch + 1
    BY <1>2 DEF DeleteEntry, TypeOK, DirectoryTypeOK
  <2>2. \A u \in Users : authoritative'[u] \in {authoritative[u], tombstone}
    BY <1>2 DEF DeleteEntry, TypeOK, DirectoryTypeOK
  <2>3. \A t \in Scopes : Recorded(t) => viewEpoch[t] # nextEpoch /\ viewEpoch[t] < nextEpoch'
    BY <2>1 DEF EpochsIdentifySlots, TypeOK, ControlTypeOK
  <2>4. ASSUME NEW slot \in Slots, SlotIdentified(slot) PROVE slot.epoch < nextEpoch'
    BY <2>1, <2>4 DEF SlotIdentified, Slots
  <2>5. \A u \in Users : SlotIdentified(authoritative[u])'
    <3> SUFFICES ASSUME NEW u \in Users PROVE SlotIdentified(authoritative[u])'
      OBVIOUS
    <3>1. CASE authoritative'[u] = authoritative[u]
      <4>1. authoritative[u] \in Slots /\ SlotIdentified(authoritative[u])
        BY DEF TypeOK, DirectoryTypeOK, EpochsIdentifySlots
      <4> QED
        BY <1>1, <2>4, <3>1, <4>1 DEF SlotIdentified, Recorded
    <3>2. CASE authoritative'[u] = tombstone
      BY <1>1, <2>1, <2>3, <3>2 DEF SlotIdentified, Recorded
    <3> QED
      BY <2>2, <3>1, <3>2
  <2>6. ASSUME NEW e \in Edges, NEW u \in Users, edgeReplica[<<e, u>>] # None
        PROVE  SlotIdentified(edgeReplica[<<e, u>>])'
    <3>1. edgeReplica[<<e, u>>] \in Slots /\ SlotIdentified(edgeReplica[<<e, u>>])
      BY <2>6 DEF TypeOK, DirectoryTypeOK, EpochsIdentifySlots
    <3> QED
      BY <1>1, <2>4, <3>1 DEF SlotIdentified, Recorded
  <2> QED
    BY <1>1, <2>3, <2>5, <2>6 DEF EpochsIdentifySlots, Recorded
<1>3. CASE UNCHANGED directoryVars
  BY <1>1, <1>3 DEF SlotIdentified, Recorded, EpochsIdentifySlots, directoryVars
<1> QED
  BY <1>2, <1>3 DEF DeleteDirectory

\* No step of the protocol gives two slots one epoch.
LEMMA EpochsKept ==
    ASSUME TypeOK, TypeOK', EpochsIdentifySlots, [ControlNext]_controlVars
    PROVE  EpochsIdentifySlots'
<1>1. ASSUME UNCHANGED <<nextEpoch, authoritative, edgeReplica, viewEpoch, status, activating>>
      PROVE  EpochsIdentifySlots'
  BY <1>1 DEF EpochsIdentifySlots, SlotIdentified, Recorded
<1>2. ASSUME NEW s \in Scopes, Lifecycle(s)
      PROVE  EpochsIdentifySlots'
  <2>1. ASSUME NEW required \in SUBSET Edges, Prepare(s, required)
        PROVE  EpochsIdentifySlots'
    BY <2>1, PrepareKeepsEpochs
  <2>2. CASE PublishDelta(s) \/ ActivateBackend(s) \/ Compact(s) \/ Retire(s)
    <3>1. /\ UNCHANGED <<nextEpoch, authoritative, edgeReplica, viewEpoch>>
          /\ \A t \in Scopes : (status'[t] # "NONE") <=> (status[t] # "NONE")
          /\ activating' # None => status[activating'.key] # "NONE" /\ activating'.key \in Scopes
      BY <2>2
      DEF PublishDelta, ActivateBackend, Compact, Retire, directoryVars, recordVars, callVars,
          TypeOK, ControlTypeOK, Activations, EpochsIdentifySlots, Recorded
    <3> QED
      BY <3>1, CopyingKeepsEpochs
  <2>3. CASE \/ \E e \in Edges : AcknowledgeDelta(s, e) \/ AcknowledgeCompacted(s, e)
             \/ FaultBackendAdvanceBeforeDirectory(s)
    BY <1>1, <2>3
    DEF AcknowledgeDelta, AcknowledgeCompacted, FaultBackendAdvanceBeforeDirectory,
        directoryVars, recordVars, callVars
  <2> QED
    BY <1>2, <2>1, <2>2, <2>3 DEF Lifecycle
<1>3. CASE ActivateDirectory
  BY <1>3, PublishKeepsEpochs
<1>4. ASSUME NEW replicate \in BOOLEAN, ActivateCommit(replicate)
      PROVE  EpochsIdentifySlots'
  <2>1. activating.key \in Scopes /\ Recorded(activating.key) /\ activating' = None
    BY <1>4 DEF ActivateCommit, TypeOK, ControlTypeOK, Activations, EpochsIdentifySlots
  <2>2. \A t \in Scopes : (status'[t] # "NONE") <=> (status[t] # "NONE")
    BY <1>4, <2>1 DEF ActivateCommit, TypeOK, ControlTypeOK, Recorded
  <2>3. \A e \in Edges, u \in Users :
           edgeReplica'[<<e, u>>] \in {edgeReplica[<<e, u>>], authoritative[u]}
    BY <1>4 DEF ActivateCommit, ReplicatedToRequired, UserOf
  <2>4. UNCHANGED <<nextEpoch, authoritative, viewEpoch>>
    BY <1>4 DEF ActivateCommit
  <2> QED
    BY <2>1, <2>2, <2>3, <2>4, CopyingKeepsEpochs
<1>5. ASSUME NEW e \in Edges, NEW name \in Users, ReplicateToEdge(e, name),
             UNCHANGED <<recordVars, activating>>
      PROVE  EpochsIdentifySlots'
  <2>1. /\ UNCHANGED <<nextEpoch, authoritative, viewEpoch>>
        /\ \A t \in Scopes : (status'[t] # "NONE") <=> (status[t] # "NONE")
        /\ activating' # None => status[activating'.key] # "NONE" /\ activating'.key \in Scopes
    BY <1>5 DEF ReplicateToEdge, recordVars, TypeOK, ControlTypeOK, Activations,
                EpochsIdentifySlots, Recorded
  <2>2. \A f \in Edges, u \in Users :
           edgeReplica'[<<f, u>>] \in {edgeReplica[<<f, u>>], authoritative[u]}
    BY <1>5, ResolveType DEF ReplicateToEdge, Replicated, TypeOK, DirectoryTypeOK
  <2> QED
    BY <2>1, <2>2, CopyingKeepsEpochs
<1>6. CASE EdgeFaults
  <2>1. CASE RecoverEdgeReplica
    <3>1. recovering.edge \in Edges /\ recovering.name \in Users
      BY <2>1 DEF RecoverEdgeReplica, TypeOK, ControlTypeOK, Recoveries
    <3> QED
      BY <1>5, <2>1, <3>1 DEF RecoverEdgeReplica
  <2>2. CASE ~RecoverEdgeReplica
    BY <1>1, <1>6, <2>2
    DEF EdgeFaults, CrashEdge, CrashEdgeCertificates, CrashEdgeTracker, RecoverEdge, RecoverEdgeCertificate,
        MarkEdgeUncertain, RecoverDirectoryEdge, directoryVars, recordVars
  <2> QED
    BY <2>1, <2>2
<1>7. CASE Deletion
  <2>1. CASE DeleteDirectory
    BY <2>1, DeletionKeepsEpochs
  <2>2. CASE ~DeleteDirectory
    BY <1>1, <1>7, <2>2 DEF Deletion, DeleteBackend, DeleteLatest, directoryVars, recordVars
  <2> QED
    BY <2>1, <2>2
<1>8. ASSUME NEW e \in Edges, NEW name \in Users, Replicate(e, name)
      PROVE  EpochsIdentifySlots'
  BY <1>5, <1>8 DEF Replicate, callVars
<1>9. CASE UNCHANGED controlVars
  BY <1>1, <1>9 DEF controlVars, directoryVars, recordVars, callVars
<1>10. ASSUME \/ \E existing, alias \in Users : Alias(existing, alias)
              \/ \E cert \in issued : Install(cert)
       PROVE  EpochsIdentifySlots'
  BY <1>1, <1>10 DEF Alias, AddAlias, Install, directoryVars, recordVars, callVars
<1> QED
  BY <1>2, <1>3, <1>4, <1>6, <1>7, <1>8, <1>9, <1>10 DEF ControlNext

\* With identified slots, an equal epoch is an equal slot.
LEMMA IdentifiedIsCurrent == TypeOK /\ EpochsIdentifySlots => PresentIsCurrent
<1> SUFFICES ASSUME TypeOK, EpochsIdentifySlots, NEW name \in Users, NEW e \in Edges,
                    EdgeLookup(name, e).status = "PRESENT"
             PROVE  EdgeLookup(name, e) = AuthoritativeLookup(name)
  BY DEF PresentIsCurrent
<1> DEFINE key == Resolve(name)
           replica == edgeReplica[<<e, key>>]
           truth == authoritative[key]
<1>1. key \in Users
  BY ResolveType DEF TypeOK
<1>2. truth \in Slots /\ replica \in Slots \cup {None}
  BY <1>1 DEF TypeOK, DirectoryTypeOK
<1>3. /\ replica # None
      /\ replica.epoch = truth.epoch
      /\ replica.scope # None
      /\ EdgeLookup(name, e) = View("PRESENT", replica.scope, replica.epoch, key)
  <2>1. CASE e \in crashedEdges
    BY <2>1 DEF EdgeLookup, View
  <2>2. CASE e \notin crashedEdges /\ replica = None
    BY <2>2 DEF EdgeLookup, View
  <2>3. CASE e \notin crashedEdges /\ replica # None
             /\ (truth.epoch = 0 \/ replica.epoch # truth.epoch)
    BY <2>3 DEF EdgeLookup, View
  <2>4. CASE e \notin crashedEdges /\ replica # None
             /\ ~(truth.epoch = 0 \/ replica.epoch # truth.epoch)
    BY <2>4 DEF EdgeLookup, View
  <2> QED
    BY <2>1, <2>2, <2>3, <2>4
<1>4. SlotIdentified(replica) /\ SlotIdentified(truth)
  BY <1>1, <1>3 DEF EpochsIdentifySlots
<1>5. replica.scope \in Scopes /\ truth.scope \in Scopes \cup {None}
  BY <1>2, <1>3 DEF Slots
<1>6. truth.scope # None
  BY <1>3, <1>4, <1>5 DEF SlotIdentified
<1>7. truth.scope = replica.scope
  BY <1>3, <1>4, <1>5, <1>6 DEF SlotIdentified, EpochsIdentifySlots
<1> QED
  BY <1>3, <1>6, <1>7 DEF AuthoritativeLookup, Present

\* Directory epochs identify slots, in every reachable state.
THEOREM EpochIdentity == ControlSpec => []EpochsIdentifySlots
<1>1. ControlInit => EpochsIdentifySlots
  BY DEF ControlInit, DirectoryInit, NoSlot, EpochsIdentifySlots, SlotIdentified, Recorded
<1>2. TypeOK /\ TypeOK' /\ EpochsIdentifySlots /\ [ControlNext]_controlVars
         => EpochsIdentifySlots'
  BY EpochsKept
<1> QED
  BY <1>1, <1>2, TypesInitially, TypesKept, PTL DEF ControlSpec

\* Currency of PRESENT views: an edge never serves as present anything but the
\* authoritative slot, however late or often its replica was refreshed.
THEOREM CurrentPresence == ControlSpec => []PresentIsCurrent
  BY EpochIdentity, TypeCorrectness, IdentifiedIsCurrent, PTL

-----------------------------------------------------------------------------
(* The protocol under the three disciplines.                               *)

\* The three disciplines the callers keep.
Disciplined == SerializedAdmin /\ ReuseAfterDelete /\ ResumeInterrupted

\* The scope the directory holds for u.
Now(u) == authoritative[u].scope

\* An activation has published for u and not yet committed.
PublishedFor(u) ==
    activating # None /\ activating.step = "PUBLISHED" /\ UserOf(activating.key) = u

\* u is being deleted and only its backend half has run.
Withdrawn(u) == deleting # None /\ deleting.step = "BACKEND" /\ deleting.user = u

\* A later version of the presented identity, or a later generation.
Supersedes(s) ==
    IF Present(UserOf(s))
    THEN SameIdentity(s, Now(UserOf(s))) /\ s.ver > Now(UserOf(s)).ver
    ELSE s.gen > LastGeneration(UserOf(s))

\* A username has verifiers of one identity, and its live ones are accepted.
VerifiersOwned ==
    /\ \A s, t \in prepared : UserOf(s) = UserOf(t) => SameIdentity(s, t)
    /\ \A u \in Users : failOpenVersions[u] \subseteq {t \in prepared : UserOf(t) = u}
    /\ \A u \in Users : active[u] # None =>
          active[u] \in failOpenVersions[u] \cap acceptedHistory

\* A slot holds a scope of its own username; an alias never had a slot.
SlotsOwned ==
    \A u \in Users :
        /\ Present(u) => UserOf(Now(u)) = u
        /\ authoritative[u].epoch = 0 => ~Present(u) /\ LastGeneration(u) = 0
        /\ aliases[u] # None => authoritative[u].epoch = 0

\* What an activation under way relies on.
ActivationHolds ==
    activating # None =>
        /\ deleting = None
        /\ status[activating.key] = "EDGE_DELTA_READY"
        /\ active[UserOf(activating.key)] = activating.key
        /\ activating.step = "PUBLISHED" => Now(UserOf(activating.key)) = activating.key

\* What a deletion under way relies on.
DeletionHolds ==
    deleting # None =>
        /\ Present(Resolve(deleting.name)) => deleting.user = Resolve(deleting.name)
        /\ Present(deleting.user) =>
              /\ deleting.step = "BACKEND"
              /\ deleting.user = Resolve(deleting.name)
              /\ Now(deleting.user).gen = deleting.gen
              /\ \A t \in prepared : UserOf(t) # deleting.user

\* Every verifier is the presented one's or its successor's, except while a
\* commit that will drop the older ones is due.
NextInLine ==
    \A s \in prepared : PublishedFor(UserOf(s)) \/ s = Now(UserOf(s)) \/ Supersedes(s)

\* The states of a record after its activation.
Settled == {"ACTIVE", "COMPACTED", "RETIRED"}

\* A published version has left the states it can be activated from.
PublishedSettled ==
    \A u \in Users : Present(u) /\ ~PublishedFor(u)
        => status[Now(u)] \in Settled

\* BackendCoversDirectory until the backend half of a deletion.
Covered ==
    \A u \in Users : Present(u) /\ ~Withdrawn(u)
        => active[u] # None /\ Now(u) \in failOpenVersions[u] \cap acceptedHistory

\* The inductive invariant of the disciplined protocol.
AuthorityInv ==
    /\ VerifiersOwned
    /\ SlotsOwned
    /\ ActivationHolds
    /\ DeletionHolds
    /\ NextInLine
    /\ PublishedSettled
    /\ Covered

\* Account generations are positive numbers.
LEMMA PositiveGenerations ==
    /\ \A gen \in Generations : gen \in Nat /\ gen > 0
    /\ \A gen \in Generations \cup {0} : gen \in Nat
<1>1. \A gen \in Generations : gen \in Nat \ {0}
  BY IdentityAssumption DEF IdentityAssumption
<1> QED
  BY <1>1

\* Backend facts every step uses.
LEMMA OwnVerifiers ==
    ASSUME BackendTypeOK, VerifiersOwned
    PROVE  /\ \A s, t \in prepared : UserOf(s) = UserOf(t) => SameIdentity(s, t)
           /\ \A s \in prepared : s \in Scopes
           /\ \A u \in Users : active[u] # None =>
                 active[u] \in prepared /\ UserOf(active[u]) = u
  BY DEF BackendTypeOK, VerifiersOwned

\* While a username is presented and not withdrawn, each of its verifiers has
\* the presented identity.
LEMMA PresentedIdentity ==
    ASSUME TypeOK, VerifiersOwned, SlotsOwned, Covered,
           NEW u \in Users, Present(u), ~Withdrawn(u)
    PROVE  /\ Now(u) \in prepared
           /\ UserOf(Now(u)) = u
           /\ active[u] # None
           /\ \A t \in prepared : UserOf(t) = u => SameIdentity(t, Now(u))
<1>1. UserOf(Now(u)) = u /\ active[u] # None /\ Now(u) \in failOpenVersions[u]
  BY DEF SlotsOwned, Covered
<1>2. Now(u) \in prepared
  BY <1>1 DEF VerifiersOwned
<1> QED
  BY <1>1, <1>2 DEF VerifiersOwned

\* A version that is still to be activated supersedes what is presented.
LEMMA ReadySupersedes ==
    ASSUME TypeOK, AuthorityInv, NEW s \in prepared, ~PublishedFor(UserOf(s)),
           status[s] = "EDGE_DELTA_READY"
    PROVE  Supersedes(s)
<1>1. s \in Scopes /\ UserOf(s) \in Users
  BY ScopeFields DEF TypeOK, BackendTypeOK
<1>2. s = Now(UserOf(s)) \/ Supersedes(s)
  BY DEF AuthorityInv, NextInLine
<1>3. CASE s = Now(UserOf(s))
  <2>1. s # None
    BY <1>1, IdentityAssumption DEF IdentityAssumption
  <2>2. Present(UserOf(s))
    BY <1>3, <2>1 DEF Present, Now
  <2> QED
    BY <1>1, <1>3, <2>2 DEF AuthorityInv, PublishedSettled, Settled
<1> QED
  BY <1>2, <1>3

-----------------------------------------------------------------------------
\* Steps that leave the directory's slots, the backend and both kinds of call
\* alone, and only move records forward.
LEMMA QuietKeeps ==
    ASSUME AuthorityInv, TypeOK,
           UNCHANGED <<authoritative, aliases, backendVars, activating, deleting>>,
           activating # None => status' = status,
           \A s \in Scopes : status[s] \in Settled => status'[s] \in Settled
    PROVE  AuthorityInv'
<1> USE DEF AuthorityInv
<1>1. UNCHANGED <<authoritative, aliases, prepared, active, acceptedHistory,
                  failOpenVersions, activating, deleting>>
  BY DEF backendVars
<1>2. VerifiersOwned'
  BY <1>1 DEF VerifiersOwned
<1>3. SlotsOwned'
  BY <1>1 DEF SlotsOwned, Present, Now, LastGeneration
<1>4. ActivationHolds'
  BY <1>1 DEF ActivationHolds, Now
<1>5. DeletionHolds'
  BY <1>1 DEF DeletionHolds, Present, Now, Resolve
<1>6. NextInLine'
  BY <1>1 DEF NextInLine, PublishedFor, Supersedes, Present, Now, LastGeneration
<1>7. PublishedSettled'
  <2>1. \A u \in Users : Present(u) => Now(u) \in Scopes
    BY DEF TypeOK, DirectoryTypeOK, Slots, Present, Now
  <2> QED
    BY <1>1, <2>1 DEF PublishedSettled, PublishedFor, Present, Now
<1>8. Covered'
  BY <1>1 DEF Covered, Withdrawn, Present, Now
<1> QED
  BY <1>2, <1>3, <1>4, <1>5, <1>6, <1>7, <1>8

\* Preparing a version: it supersedes what the directory presents, and every
\* verifier of its username has its identity.
LEMMA PreparedSupersedes ==
    ASSUME Disciplined, TypeOK, EpochsIdentifySlots, AuthorityInv,
           NEW s \in Scopes, NEW required \in SUBSET Edges, Prepare(s, required)
    PROVE  /\ Supersedes(s)
           /\ \A t \in prepared : UserOf(t) = UserOf(s) => SameIdentity(t, s)
           /\ deleting = None
           /\ activating = None
<1> DEFINE u == UserOf(s)
<1> USE DEF Disciplined
<1>1. deleting = None /\ activating = None
  BY DEF Prepare, AdminTurn, LockFree
<1>2. \A t \in prepared : UserOf(t) = u => SameIdentity(t, s)
  BY DEF Prepare, ReuseDiscipline
<1>3. u \in Users /\ s.gen \in Nat /\ s.gen > 0
  BY ScopeFields, PositiveGenerations
<1>4. /\ s.gen >= LastGeneration(Resolve(u))
      /\ LastGeneration(Resolve(u)) # 0 /\ s.gen = LastGeneration(Resolve(u)) =>
            /\ AuthoritativeLookup(u).scope # None
            /\ SameIdentity(AuthoritativeLookup(u).scope, s)
            /\ s.ver > AuthoritativeLookup(u).scope.ver
  BY DEF Prepare, MayPrepare
<1>5. CASE aliases[u] # None
  <2>1. ~Present(u) /\ LastGeneration(u) = 0
    BY <1>3, <1>5 DEF AuthorityInv, SlotsOwned
  <2> QED
    BY <1>1, <1>2, <1>3, <2>1 DEF Supersedes
<1>6. CASE aliases[u] = None /\ ~Present(u)
  <2>1. Resolve(u) = u
    BY <1>6 DEF Resolve
  <2>2. AuthoritativeLookup(u).scope = None
    BY <1>6, <2>1 DEF AuthoritativeLookup, View
  <2>3. LastGeneration(u) \in Nat
    BY <1>3, PositiveGenerations DEF LastGeneration, TypeOK, DirectoryTypeOK, Slots
  <2>4. s.gen > LastGeneration(u)
    BY <1>3, <1>4, <2>1, <2>2, <2>3
  <2> QED
    BY <1>1, <1>2, <1>6, <2>4 DEF Supersedes
<1>7. CASE aliases[u] = None /\ Present(u)
  <2>1. Resolve(u) = u
    BY <1>7 DEF Resolve
  <2>2. AuthoritativeLookup(u).scope = Now(u)
    BY <1>7, <2>1 DEF AuthoritativeLookup, View, Now
  <2>3. ~Withdrawn(u)
    BY <1>1 DEF Withdrawn
  <2>4. Now(u) \in prepared /\ UserOf(Now(u)) = u
    BY <1>3, <1>7, <2>3, PresentedIdentity DEF AuthorityInv
  <2>5. LastGeneration(u) = Now(u).gen
    BY <1>3, <1>7 DEF EpochsIdentifySlots, SlotIdentified, Present, Now, LastGeneration
  <2>6. Now(u).gen = s.gen
    BY <1>2, <2>4 DEF SameIdentity
  <2>7. SameIdentity(Now(u), s) /\ s.ver > Now(u).ver
    BY <1>3, <1>4, <2>1, <2>2, <2>5, <2>6
  <2> QED
    BY <1>1, <1>2, <1>7, <2>7 DEF Supersedes, SameIdentity
<1> QED
  BY <1>5, <1>6, <1>7

\* A prepared verifier joins the line behind what is presented.
LEMMA PrepareKeeps ==
    ASSUME Disciplined, TypeOK, EpochsIdentifySlots, AuthorityInv,
           NEW s \in Scopes, NEW required \in SUBSET Edges, Prepare(s, required)
    PROVE  AuthorityInv'
<1> USE DEF AuthorityInv
<1>1. /\ Supersedes(s)
      /\ \A t \in prepared : UserOf(t) = UserOf(s) => SameIdentity(t, s)
      /\ deleting = None
      /\ activating = None
  BY PreparedSupersedes
<1>2. /\ prepared' = prepared \cup {s}
      /\ UNCHANGED <<active, acceptedHistory, failOpenVersions, authoritative, aliases,
                     activating, deleting>>
      /\ status[s] = "NONE"
      /\ \A t \in Scopes : t # s => status'[t] = status[t]
  BY DEF Prepare, PrepareVersion, ReserveEpoch, MayPrepare, callVars, TypeOK, ControlTypeOK
<1>3. VerifiersOwned'
  <2>1. \A t, r \in prepared' : UserOf(t) = UserOf(r) => SameIdentity(t, r)
    BY <1>1, <1>2 DEF VerifiersOwned, SameIdentity
  <2> QED
    BY <1>2, <2>1 DEF VerifiersOwned
<1>4. SlotsOwned'
  BY <1>2 DEF SlotsOwned, Present, Now, LastGeneration
<1>5. ActivationHolds' /\ DeletionHolds'
  BY <1>1, <1>2 DEF ActivationHolds, DeletionHolds
<1>6. NextInLine'
  <2>1. \A t : Supersedes(t)' = Supersedes(t)
    BY <1>2 DEF Supersedes, Present, Now, LastGeneration
  <2> QED
    BY <1>1, <1>2, <2>1 DEF NextInLine, PublishedFor, Now
<1>7. PublishedSettled'
  <2>1. \A u \in Users : Present(u) => Now(u) \in Scopes /\ status[Now(u)] \in Settled
    BY <1>1 DEF TypeOK, DirectoryTypeOK, Slots, Present, Now, PublishedSettled, PublishedFor
  <2> QED
    BY <1>2, <2>1 DEF PublishedSettled, Present, Now, Settled
<1>8. Covered'
  BY <1>2 DEF Covered, Withdrawn, Present, Now
<1> QED
  BY <1>3, <1>4, <1>5, <1>6, <1>7, <1>8

\* The backend half of an activation, interrupted after it or not.
LEMMA AdvanceKeeps ==
    ASSUME Disciplined, TypeOK, AuthorityInv, NEW s \in Scopes,
           ActivateBackend(s) \/ FaultBackendAdvanceBeforeDirectory(s)
    PROVE  AuthorityInv'
<1> DEFINE u == UserOf(s)
<1> USE DEF AuthorityInv, Disciplined
<1>1. /\ activating = None
      /\ deleting = None
      /\ status[s] = "EDGE_DELTA_READY"
      /\ active[u] \in {None, s, Now(u)}
      /\ s \in prepared
      /\ u \in Users
  BY ScopeFields
  DEF ActivateBackend, FaultBackendAdvanceBeforeDirectory, AdminTurn, LockFree,
      ResumeDiscipline, ActivateVersion, MayActivateVersion, Now
<1>2. /\ UNCHANGED <<authoritative, aliases, status, prepared, deleting>>
      /\ activating' \in {None, [key |-> s, step |-> "ADVANCED"]}
  BY <1>1
  DEF ActivateBackend, FaultBackendAdvanceBeforeDirectory, ActivateVersion,
      directoryVars, recordVars, callVars, backendVars
<1>3. /\ active' = [active EXCEPT ![u] = s]
      /\ \A v \in Users : v # u => failOpenVersions'[v] = failOpenVersions[v]
      /\ \A v \in Users : failOpenVersions'[v] \subseteq {t \in prepared : UserOf(t) = v}
      /\ s \in failOpenVersions'[u] \cap acceptedHistory'
      /\ acceptedHistory \subseteq acceptedHistory'
      /\ Present(u) => Now(u) \in failOpenVersions'[u] \cap acceptedHistory'
  <2>1. ActivateVersion(s)
    BY DEF ActivateBackend, FaultBackendAdvanceBeforeDirectory
  <2>2. Present(u) => /\ active[u] \in {s, Now(u)}
                      /\ SameIdentity(Now(u), s)
                      /\ Now(u) \in failOpenVersions[u] \cap acceptedHistory
    <3>1. ~Withdrawn(u)
      BY <1>1 DEF Withdrawn
    <3> QED
      BY <1>1, <3>1, PresentedIdentity DEF Covered, SameIdentity
  <2>3. s # None
    BY IdentityAssumption DEF IdentityAssumption
  <2>4. CASE active[u] = s
    <3>1. UNCHANGED <<active, acceptedHistory, failOpenVersions>>
      BY <2>1, <2>4 DEF ActivateVersion, backendVars
    <3> QED
      BY <1>1, <2>2, <2>3, <2>4, <3>1 DEF VerifiersOwned, TypeOK, BackendTypeOK
  <2>5. CASE active[u] = None
    <3>1. /\ active' = [active EXCEPT ![u] = s]
          /\ acceptedHistory' = acceptedHistory \cup {s}
          /\ failOpenVersions' = [failOpenVersions EXCEPT ![u] = {s}]
      BY <2>1, <2>3, <2>5 DEF ActivateVersion
    <3>2. ~Present(u)
      BY <2>2, <2>3, <2>5 DEF Present, Now
    <3> QED
      BY <1>1, <3>1, <3>2 DEF VerifiersOwned, TypeOK, BackendTypeOK
  <2>6. CASE active[u] # None /\ active[u] # s
    <3>1. /\ active' = [active EXCEPT ![u] = s]
          /\ acceptedHistory' = acceptedHistory \cup {active[u]} \cup {s}
          /\ failOpenVersions' = [failOpenVersions EXCEPT ![u] =
                                     {s} \cup {t \in {active[u]} : SameIdentity(t, s)}]
      BY <2>1, <2>6 DEF ActivateVersion
    <3>2. active[u] \in prepared /\ UserOf(active[u]) = u
      BY <1>1, <2>6, OwnVerifiers DEF TypeOK
    <3> QED
      BY <1>1, <2>2, <2>6, <3>1, <3>2 DEF VerifiersOwned, TypeOK, BackendTypeOK
  <2> QED
    BY <2>4, <2>5, <2>6
<1>4. VerifiersOwned'
  <2>1. \A v \in Users : active'[v] # None =>
           active'[v] \in failOpenVersions'[v] \cap acceptedHistory'
    BY <1>1, <1>3 DEF VerifiersOwned, TypeOK, BackendTypeOK
  <2> QED
    BY <1>2, <1>3, <2>1 DEF VerifiersOwned
<1>5. SlotsOwned'
  BY <1>2 DEF SlotsOwned, Present, Now, LastGeneration
<1>6. ActivationHolds' /\ DeletionHolds'
  BY <1>1, <1>2, <1>3 DEF ActivationHolds, DeletionHolds, TypeOK, BackendTypeOK
<1>7. NextInLine'
  BY <1>1, <1>2 DEF NextInLine, PublishedFor, Supersedes, Present, Now, LastGeneration
<1>8. PublishedSettled'
  BY <1>1, <1>2 DEF PublishedSettled, PublishedFor, Present, Now
<1>9. Covered'
  <2>1. ASSUME NEW v \in Users, Present(v)
        PROVE  active'[v] # None /\ Now(v) \in failOpenVersions'[v] \cap acceptedHistory'
    <3>1. CASE v = u
      <4>1. s # None
        BY IdentityAssumption DEF IdentityAssumption
      <4> QED
        BY <1>1, <1>3, <2>1, <3>1, <4>1 DEF TypeOK, BackendTypeOK
    <3>2. CASE v # u
      <4>1. active[v] # None /\ Now(v) \in failOpenVersions[v] \cap acceptedHistory
        BY <1>1, <2>1 DEF Covered, Withdrawn
      <4> QED
        BY <1>1, <1>3, <3>2, <4>1 DEF TypeOK, BackendTypeOK
    <3> QED
      BY <3>1, <3>2
  <2> QED
    BY <1>2, <2>1 DEF Covered, Present, Now
<1> QED
  BY <1>4, <1>5, <1>6, <1>7, <1>8, <1>9

\* The directory half: published, or refused with nothing changed.
LEMMA PublishKeeps ==
    ASSUME Disciplined, TypeOK, EpochsIdentifySlots, AuthorityInv, ActivateDirectory
    PROVE  AuthorityInv'
<1> DEFINE s == activating.key
           u == UserOf(s)
<1> USE DEF AuthorityInv
<1>1. /\ activating # None /\ activating.step = "ADVANCED"
      /\ s \in Scopes /\ u \in Users
      /\ deleting = None
      /\ status[s] = "EDGE_DELTA_READY"
      /\ active[u] = s
      /\ UNCHANGED <<status, prepared, active, acceptedHistory, failOpenVersions, deleting,
                     aliases>>
  BY ScopeFields
  DEF ActivateDirectory, ActivationHolds, TypeOK, ControlTypeOK, Activations, recordVars,
      backendVars, directoryVars, PublishActive
<1>2. s # None
  BY <1>1, IdentityAssumption DEF IdentityAssumption
<1>3. \A v : ~PublishedFor(v)
  BY <1>1 DEF PublishedFor
<1>4. VerifiersOwned'
  BY <1>1 DEF VerifiersOwned
<1>5. CASE activating' = None /\ UNCHANGED directoryVars
  <2>1. UNCHANGED <<authoritative, aliases>>
    BY <1>5 DEF directoryVars
  <2>2. SlotsOwned'
    BY <2>1 DEF SlotsOwned, Present, Now, LastGeneration
  <2>3. ActivationHolds' /\ DeletionHolds'
    BY <1>1, <1>5 DEF ActivationHolds, DeletionHolds
  <2>4. NextInLine'
    BY <1>1, <1>3, <1>5, <2>1
    DEF NextInLine, PublishedFor, Supersedes, Present, Now, LastGeneration
  <2>5. PublishedSettled'
    BY <1>1, <1>3, <1>5, <2>1 DEF PublishedSettled, PublishedFor, Present, Now
  <2>6. Covered'
    BY <1>1, <2>1 DEF Covered, Withdrawn, Present, Now
  <2> QED
    BY <1>4, <2>2, <2>3, <2>4, <2>5, <2>6
<1>6. CASE /\ PublishActive(s, viewEpoch[s])
           /\ activating' = [activating EXCEPT !.step = "PUBLISHED"]
  <2>1. /\ authoritative' = [authoritative EXCEPT ![u] =
                                [scope |-> s, epoch |-> viewEpoch[s], lastGen |-> s.gen]]
        /\ aliases[u] = None
    BY <1>6 DEF PublishActive, MayPublish
  <2>2. authoritative'[u] = [scope |-> s, epoch |-> viewEpoch[s], lastGen |-> s.gen]
    BY <1>1, <2>1 DEF TypeOK, DirectoryTypeOK
  <2>3. \A v \in Users : v # u => authoritative'[v] = authoritative[v]
    BY <2>1 DEF TypeOK, DirectoryTypeOK
  <2>4. viewEpoch[s] # 0
    BY <1>1 DEF EpochsIdentifySlots, TypeOK, ControlTypeOK
  <2>5. /\ activating'.key = s
        /\ activating'.step = "PUBLISHED"
        /\ activating' # None => \A v : PublishedFor(v)' <=> v = u
    BY <1>1, <1>6 DEF PublishedFor, TypeOK, ControlTypeOK, Activations, UserOf
  <2>6. activating' # None
    <3>1. activating' \in Activations
      BY <1>1, <1>6 DEF TypeOK, ControlTypeOK, Activations
    <3> QED
      BY <3>1, CallAssumption DEF CallAssumption
  <2>7. SlotsOwned'
    BY <1>1, <2>1, <2>2, <2>3, <2>4 DEF SlotsOwned, Present, Now, LastGeneration
  <2>8. ActivationHolds' /\ DeletionHolds'
    BY <1>1, <2>2, <2>5 DEF ActivationHolds, DeletionHolds, Now
  <2>9. NextInLine'
    <3>1. ASSUME NEW t \in prepared, UserOf(t) # u
          PROVE  t = Now(UserOf(t))' \/ Supersedes(t)'
      <4>1. t = Now(UserOf(t)) \/ Supersedes(t)
        BY <1>3 DEF NextInLine
      <4>2. UserOf(t) \in Users
        BY ScopeFields DEF TypeOK, BackendTypeOK
      <4> QED
        BY <2>3, <3>1, <4>1, <4>2 DEF Supersedes, Present, Now, LastGeneration
    <3> QED
      BY <1>1, <2>5, <2>6, <3>1 DEF NextInLine
  <2>10. PublishedSettled'
    BY <1>1, <1>3, <2>3, <2>5, <2>6 DEF PublishedSettled, Present, Now
  <2>11. Covered'
    BY <1>1, <1>2, <2>2, <2>3 DEF Covered, Withdrawn, Present, Now, VerifiersOwned
  <2> QED
    BY <1>4, <2>7, <2>8, <2>9, <2>10, <2>11
<1> QED
  BY <1>5, <1>6 DEF ActivateDirectory

\* The commit leaves one verifier of the username, the presented one.
LEMMA CommitKeeps ==
    ASSUME TypeOK, AuthorityInv, NEW replicate \in BOOLEAN, ActivateCommit(replicate)
    PROVE  AuthorityInv'
<1> DEFINE s == activating.key
           u == UserOf(s)
           superseded == {t \in Scopes : SameIdentity(t, s) /\ t # s}
<1> USE DEF AuthorityInv
<1>1. /\ s \in Scopes /\ u \in Users
      /\ deleting = None
      /\ active[u] = s
      /\ Now(u) = s
      /\ s # None
  <2>1. /\ s \in Scopes /\ u \in Users /\ s # None
    BY ScopeFields, IdentityAssumption
    DEF ActivateCommit, TypeOK, ControlTypeOK, Activations, IdentityAssumption
  <2> QED
    BY <2>1 DEF ActivateCommit, ActivationHolds
<1>2. /\ failOpenVersions' = [failOpenVersions EXCEPT ![u] = {s}]
      /\ acceptedHistory' = acceptedHistory \ superseded
      /\ prepared' = prepared \ superseded
      /\ status' = [status EXCEPT ![s] = "ACTIVE"]
      /\ activating' = None
      /\ UNCHANGED <<active, authoritative, aliases, deleting>>
  BY <1>1 DEF ActivateCommit, CommitDirectoryVersion
<1>3. s \in prepared /\ s \in acceptedHistory
  BY <1>1 DEF VerifiersOwned
<1>4. \A t \in prepared' : UserOf(t) = u => t = s
  BY <1>1, <1>2, <1>3 DEF VerifiersOwned, TypeOK, BackendTypeOK
<1>5. \A t \in Scopes : UserOf(t) # u => t \notin superseded
  BY DEF SameIdentity, UserOf
<1>6. VerifiersOwned'
  <2>1. \A v \in Users : failOpenVersions'[v] \subseteq {t \in prepared' : UserOf(t) = v}
    BY <1>1, <1>2, <1>3, <1>5 DEF VerifiersOwned, TypeOK, BackendTypeOK
  <2>2. \A v \in Users : active'[v] # None =>
           active'[v] \in failOpenVersions'[v] \cap acceptedHistory'
    BY <1>1, <1>2, <1>3, <1>5 DEF VerifiersOwned, TypeOK, BackendTypeOK
  <2>3. \A t, r \in prepared' : UserOf(t) = UserOf(r) => SameIdentity(t, r)
    BY <1>2 DEF VerifiersOwned
  <2> QED
    BY <1>2, <2>1, <2>2, <2>3 DEF VerifiersOwned
<1>7. SlotsOwned'
  BY <1>2 DEF SlotsOwned, Present, Now, LastGeneration
<1>8. ActivationHolds' /\ DeletionHolds'
  BY <1>1, <1>2 DEF ActivationHolds, DeletionHolds
<1>9. NextInLine'
  <2>1. ASSUME NEW t \in prepared'
        PROVE  t = Now(UserOf(t)) \/ Supersedes(t)
    <3>1. CASE UserOf(t) = u
      BY <1>1, <1>4, <3>1
    <3>2. CASE UserOf(t) # u
      BY <1>2, <3>2 DEF NextInLine, PublishedFor
    <3> QED
      BY <3>1, <3>2
  <2> QED
    BY <1>2, <2>1 DEF NextInLine, Supersedes, Present, Now, LastGeneration
<1>10. PublishedSettled'
  <2>1. ASSUME NEW v \in Users, Present(v)
        PROVE  status'[Now(v)] \in Settled
    <3>1. Now(v) \in Scopes
      BY <2>1 DEF TypeOK, DirectoryTypeOK, Slots, Present, Now
    <3>2. CASE Now(v) = s
      BY <1>1, <1>2, <3>2 DEF TypeOK, ControlTypeOK, Settled
    <3>3. CASE Now(v) # s
      <4>1. v # u
        BY <1>1, <3>3
      <4>2. status[Now(v)] \in Settled
        BY <2>1, <4>1 DEF PublishedSettled, PublishedFor
      <4> QED
        BY <1>2, <3>1, <3>3, <4>2 DEF TypeOK, ControlTypeOK
    <3> QED
      BY <3>2, <3>3
  <2> QED
    BY <1>2, <2>1 DEF PublishedSettled, Present, Now
<1>11. Covered'
  <2>1. ASSUME NEW v \in Users, Present(v)
        PROVE  active[v] # None /\ Now(v) \in failOpenVersions'[v] \cap acceptedHistory'
    <3>1. active[v] # None /\ Now(v) \in failOpenVersions[v] \cap acceptedHistory
      BY <1>1, <2>1 DEF Covered, Withdrawn
    <3>2. CASE v = u
      BY <1>1, <1>2, <1>3, <3>1, <3>2 DEF TypeOK, BackendTypeOK
    <3>3. CASE v # u
      <4>1. Now(v) \in Scopes /\ UserOf(Now(v)) = v
        BY <2>1 DEF SlotsOwned, TypeOK, DirectoryTypeOK, Slots, Present, Now
      <4> QED
        BY <1>2, <1>5, <3>1, <3>3, <4>1 DEF TypeOK, BackendTypeOK
    <3> QED
      BY <3>2, <3>3
  <2> QED
    BY <1>2, <2>1 DEF Covered, Present, Now
<1> QED
  BY <1>6, <1>7, <1>8, <1>9, <1>10, <1>11

-----------------------------------------------------------------------------
\* The name a deletion was asked for and the user it withdraws.
LEMMA DeletedUser ==
    ASSUME TypeOK, SlotsOwned, NEW name \in Users,
           NEW user, user = AuthoritativeLookup(name).user
    PROVE  /\ user \in Users
           /\ Present(Resolve(name)) => user = Resolve(name)
           /\ Present(user) => user = Resolve(name)
<1>1. user \in Users /\ Resolve(name) \in Users
  BY AuthoritativeUser, ResolveType DEF TypeOK
<1>2. CASE Present(Resolve(name))
  BY <1>1, <1>2 DEF AuthoritativeLookup, View
<1>3. CASE ~Present(Resolve(name))
  <2>1. user = name
    BY <1>3 DEF AuthoritativeLookup, View
  <2>2. aliases[name] # None => ~Present(name)
    BY DEF SlotsOwned
  <2> QED
    BY <1>1, <1>3, <2>1, <2>2 DEF Resolve
<1> QED
  BY <1>2, <1>3

\* What the backend half of a deletion does under the discipline: the user it
\* names loses every verifier, provided it had an active one.
LEMMA WithdrawStep ==
    ASSUME Disciplined, TypeOK, EpochsIdentifySlots, AuthorityInv,
           NEW name \in Users, NEW gen \in Generations, DeleteBackend(name, gen),
           NEW user, user = AuthoritativeLookup(name).user
    PROVE  /\ activating = None /\ deleting = None
           /\ user \in Users
           /\ UNCHANGED <<authoritative, aliases, status, activating>>
           /\ deleting' = [name |-> name, user |-> user, gen |-> gen, step |-> "BACKEND"]
           /\ deleting' # None
           /\ prepared' \subseteq prepared
           /\ active' = [active EXCEPT ![user] = None]
           /\ \A v \in Users \ {user} : failOpenVersions'[v] = failOpenVersions[v]
           /\ \A t \in Scopes : UserOf(t) # user => /\ t \in prepared' <=> t \in prepared
                                                    /\ t \in acceptedHistory' <=> t \in acceptedHistory
           /\ failOpenVersions'[user] \subseteq prepared'
           /\ \A t \in failOpenVersions'[user] : UserOf(t) = user
           /\ active[user] # None =>
                 /\ active[user].gen = gen
                 /\ \A t \in prepared' : UserOf(t) # user
<1> USE DEF AuthorityInv
<1>1. /\ activating = None /\ deleting = None
      /\ UNCHANGED <<authoritative, aliases, status, activating>>
      /\ deleting' = [name |-> name, user |-> user, gen |-> gen, step |-> "BACKEND"]
      /\ DeleteBackendAccount(user, gen)
  BY DEF Disciplined, DeleteBackend, LockFree, directoryVars, recordVars
<1>2. user \in Users
  BY DeletedUser
<1>3. deleting' # None
  <2>1. deleting' \in Deletions
    BY <1>1, <1>2 DEF Deletions
  <2> QED
    BY <2>1, CallAssumption DEF CallAssumption
<1>4. CASE active[user] = None
  <2>1. UNCHANGED <<prepared, active, acceptedHistory, failOpenVersions>>
    BY <1>1, <1>4 DEF DeleteBackendAccount, backendVars
  <2>2. active' = [active EXCEPT ![user] = None]
    BY <1>2, <1>4, <2>1 DEF TypeOK, BackendTypeOK
  <2> QED
    BY <1>1, <1>2, <1>3, <1>4, <2>1, <2>2 DEF VerifiersOwned
<1>5. CASE active[user] # None
  <2> DEFINE gone == {t \in Scopes : SameIdentity(t, active[user])}
  <2>1. /\ active' = [active EXCEPT ![user] = None]
        /\ failOpenVersions' = [failOpenVersions EXCEPT ![user] = {}]
        /\ acceptedHistory' = acceptedHistory \ gone
        /\ prepared' = prepared \ gone
        /\ active[user].gen = gen
    BY <1>1, <1>5 DEF DeleteBackendAccount, MayDeleteAccount
  <2>2. active[user] \in prepared /\ UserOf(active[user]) = user
    BY <1>2, <1>5, OwnVerifiers DEF TypeOK
  <2>3. \A t \in Scopes : UserOf(t) # user => t \notin gone
    BY <2>2 DEF SameIdentity, UserOf
  <2>4. \A t \in prepared : UserOf(t) = user => t \in gone
    BY <2>2 DEF VerifiersOwned, TypeOK, BackendTypeOK
  <2> QED
    BY <1>1, <1>2, <1>3, <1>5, <2>1, <2>3, <2>4 DEF TypeOK, BackendTypeOK
<1> QED
  BY <1>4, <1>5

\* The backend half of a deletion.
LEMMA WithdrawKeeps ==
    ASSUME Disciplined, TypeOK, EpochsIdentifySlots, AuthorityInv,
           NEW name \in Users, NEW gen \in Generations, DeleteBackend(name, gen)
    PROVE  AuthorityInv'
<1> USE DEF AuthorityInv
<1>1. PICK user : user = AuthoritativeLookup(name).user
  OBVIOUS
<1>2. /\ activating = None /\ deleting = None
      /\ user \in Users
      /\ UNCHANGED <<authoritative, aliases, status, activating>>
      /\ deleting' = [name |-> name, user |-> user, gen |-> gen, step |-> "BACKEND"]
      /\ deleting' # None
      /\ prepared' \subseteq prepared
      /\ active' = [active EXCEPT ![user] = None]
      /\ \A v \in Users \ {user} : failOpenVersions'[v] = failOpenVersions[v]
      /\ \A t \in Scopes : UserOf(t) # user => /\ t \in prepared' <=> t \in prepared
                                               /\ t \in acceptedHistory' <=> t \in acceptedHistory
      /\ failOpenVersions'[user] \subseteq prepared'
      /\ \A t \in failOpenVersions'[user] : UserOf(t) = user
      /\ active[user] # None =>
            /\ active[user].gen = gen
            /\ \A t \in prepared' : UserOf(t) # user
  BY <1>1, WithdrawStep
<1>3. VerifiersOwned'
  <2>1. \A v \in Users : failOpenVersions'[v] \subseteq {t \in prepared' : UserOf(t) = v}
    BY <1>2 DEF VerifiersOwned, TypeOK, BackendTypeOK
  <2>2. \A v \in Users : active'[v] # None =>
           active'[v] \in failOpenVersions'[v] \cap acceptedHistory'
    BY <1>2 DEF VerifiersOwned, TypeOK, BackendTypeOK
  <2> QED
    BY <1>2, <2>1, <2>2 DEF VerifiersOwned
<1>4. SlotsOwned'
  BY <1>2 DEF SlotsOwned, Present, Now, LastGeneration
<1>5. ActivationHolds'
  BY <1>2 DEF ActivationHolds
<1>6. DeletionHolds'
  <2>1. /\ Present(Resolve(name)) => user = Resolve(name)
        /\ Present(user) => user = Resolve(name)
    BY <1>1, DeletedUser
  <2>2. Present(user) => Now(user).gen = gen /\ \A t \in prepared' : UserOf(t) # user
    <3>1. ~Withdrawn(user)
      BY <1>2 DEF Withdrawn
    <3>2. Present(user) => active[user] # None /\ SameIdentity(active[user], Now(user))
      BY <1>2, <3>1, PresentedIdentity, OwnVerifiers DEF TypeOK
    <3> QED
      BY <1>2, <3>2 DEF SameIdentity
  <2>3. /\ Present(Resolve(name))' = Present(Resolve(name))
        /\ Present(user)' = Present(user)
        /\ Resolve(name)' = Resolve(name)
        /\ Now(user)' = Now(user)
    BY <1>2 DEF Present, Resolve, Now
  <2>4. /\ deleting'.name = name /\ deleting'.user = user
        /\ deleting'.gen = gen /\ deleting'.step = "BACKEND"
    BY <1>2
  <2> QED
    BY <1>2, <2>1, <2>2, <2>3, <2>4 DEF DeletionHolds, Present, Resolve, Now
<1>7. NextInLine'
  BY <1>2 DEF NextInLine, PublishedFor, Supersedes, Present, Now, LastGeneration
<1>8. PublishedSettled'
  BY <1>2 DEF PublishedSettled, PublishedFor, Present, Now
<1>9. Covered'
  <2>1. ASSUME NEW v \in Users, Present(v), v # user
        PROVE  active'[v] # None /\ Now(v) \in failOpenVersions'[v] \cap acceptedHistory'
    <3>1. active[v] # None /\ Now(v) \in failOpenVersions[v] \cap acceptedHistory
      BY <1>2, <2>1 DEF Covered, Withdrawn
    <3>2. Now(v) \in Scopes /\ UserOf(Now(v)) = v
      BY <2>1 DEF SlotsOwned, TypeOK, DirectoryTypeOK, Slots, Present, Now
    <3> QED
      BY <1>2, <2>1, <3>1, <3>2 DEF TypeOK, BackendTypeOK
  <2> QED
    BY <1>2, <2>1 DEF Covered, Present, Now, Withdrawn
<1> QED
  BY <1>3, <1>4, <1>5, <1>6, <1>7, <1>8, <1>9

\* The directory half of a deletion: a tombstone, or nothing when the entry is
\* already gone.
LEMMA RemoveKeeps ==
    ASSUME TypeOK, EpochsIdentifySlots, AuthorityInv, DeleteDirectory
    PROVE  AuthorityInv'
<1> DEFINE u == deleting.user
<1> USE DEF AuthorityInv
<1>1. /\ deleting # None /\ deleting.step = "BACKEND"
      /\ u \in Users /\ deleting.name \in Users /\ deleting.gen \in Generations
      /\ activating = None
      /\ UNCHANGED <<prepared, active, acceptedHistory, failOpenVersions, aliases, status,
                     activating>>
  BY DEF DeleteDirectory, TypeOK, ControlTypeOK, Deletions, ActivationHolds, backendVars,
         recordVars, directoryVars, DeleteEntry
<1>2. VerifiersOwned'
  BY <1>1 DEF VerifiersOwned
<1>3. ActivationHolds'
  BY <1>1 DEF ActivationHolds
<1>4. CASE DeleteEntry(deleting.name, deleting.gen)
           /\ deleting' = [deleting EXCEPT !.step = "DIRECTORY"]
  <2>1. /\ Present(Resolve(deleting.name))
        /\ Resolve(deleting.name) = u
        /\ Now(u).gen = deleting.gen
        /\ \A t \in prepared : UserOf(t) # u
    BY <1>1, <1>4 DEF DeleteEntry, MayDelete, DeletionHolds, Now
  <2>2. authoritative' = [authoritative EXCEPT ![u] =
                             [scope |-> None, epoch |-> nextEpoch, lastGen |-> deleting.gen]]
    BY <1>4, <2>1 DEF DeleteEntry
  <2>3. authoritative'[u] = [scope |-> None, epoch |-> nextEpoch, lastGen |-> deleting.gen]
    BY <1>1, <2>2 DEF TypeOK, DirectoryTypeOK
  <2>4. \A v \in Users : v # u => authoritative'[v] = authoritative[v]
    BY <2>2 DEF TypeOK, DirectoryTypeOK
  <2>5. nextEpoch # 0
    BY DEF TypeOK, DirectoryTypeOK
  <2>6. SlotsOwned'
    BY <1>1, <2>1, <2>3, <2>4, <2>5 DEF SlotsOwned, Present, Now, LastGeneration
  <2>7. DeletionHolds'
    <3>1. /\ deleting'.name = deleting.name /\ deleting'.user = u
          /\ Resolve(deleting.name)' = u
          /\ ~Present(u)'
      BY <1>1, <1>4, <2>1, <2>3 DEF Present, Resolve, TypeOK, ControlTypeOK, Deletions
    <3> QED
      BY <3>1 DEF DeletionHolds, Present, Resolve
  <2>8. NextInLine'
    <3>1. ASSUME NEW t \in prepared
          PROVE  t = Now(UserOf(t))' \/ Supersedes(t)'
      <4>1. t = Now(UserOf(t)) \/ Supersedes(t)
        BY <1>1 DEF NextInLine, PublishedFor
      <4>2. UserOf(t) \in Users /\ UserOf(t) # u
        BY <2>1, ScopeFields DEF TypeOK, BackendTypeOK
      <4> QED
        BY <2>4, <4>1, <4>2 DEF Supersedes, Present, Now, LastGeneration
    <3> QED
      BY <1>1, <3>1 DEF NextInLine
  <2>9. PublishedSettled'
    BY <1>1, <2>3, <2>4 DEF PublishedSettled, PublishedFor, Present, Now
  <2>10. Covered'
    BY <1>1, <2>3, <2>4 DEF Covered, Withdrawn, Present, Now
  <2> QED
    BY <1>2, <1>3, <2>6, <2>7, <2>8, <2>9, <2>10
<1>5. CASE /\ ~MayDelete(deleting.name, deleting.gen)
           /\ deleting' = None
           /\ UNCHANGED directoryVars
  <2>1. UNCHANGED <<authoritative, aliases>>
    BY <1>5 DEF directoryVars
  <2>2. ~Present(u)
    BY <1>1, <1>5 DEF MayDelete, DeletionHolds, Now
  <2>3. SlotsOwned'
    BY <2>1 DEF SlotsOwned, Present, Now, LastGeneration
  <2>4. DeletionHolds'
    BY <1>5 DEF DeletionHolds
  <2>5. NextInLine' /\ PublishedSettled'
    BY <1>1, <2>1 DEF NextInLine, PublishedSettled, PublishedFor, Supersedes, Present, Now,
                      LastGeneration
  <2>6. Covered'
    BY <1>1, <2>1, <2>2 DEF Covered, Withdrawn, Present, Now
  <2> QED
    BY <1>2, <1>3, <2>3, <2>4, <2>5, <2>6
<1> QED
  BY <1>4, <1>5 DEF DeleteDirectory

\* The last step of a deletion: nothing of the user is presented by then.
LEMMA ForgetKeeps ==
    ASSUME TypeOK, AuthorityInv, DeleteLatest
    PROVE  AuthorityInv'
<1> USE DEF AuthorityInv
<1>1. /\ activating = None /\ deleting # None /\ deleting.step = "DIRECTORY"
      /\ deleting' = None
      /\ UNCHANGED <<authoritative, aliases, prepared, active, acceptedHistory,
                     failOpenVersions, status, activating>>
  BY DEF DeleteLatest, LockFree, directoryVars, backendVars
<1>2. VerifiersOwned'
  BY <1>1 DEF VerifiersOwned
<1>3. SlotsOwned'
  BY <1>1 DEF SlotsOwned, Present, Now, LastGeneration
<1>4. ActivationHolds' /\ DeletionHolds'
  BY <1>1 DEF ActivationHolds, DeletionHolds
<1>5. NextInLine' /\ PublishedSettled'
  BY <1>1 DEF NextInLine, PublishedSettled, PublishedFor, Supersedes, Present, Now,
              LastGeneration
<1>6. Covered'
  BY <1>1 DEF Covered, Withdrawn, Present, Now
<1> QED
  BY <1>2, <1>3, <1>4, <1>5, <1>6

\* A new alias never had a slot, and no deletion is under way.
LEMMA AliasKeeps ==
    ASSUME Disciplined, TypeOK, AuthorityInv, NEW existing \in Users, NEW alias \in Users,
           Alias(existing, alias)
    PROVE  AuthorityInv'
<1> USE DEF AuthorityInv
<1>1. /\ activating = None /\ deleting = None
      /\ authoritative[alias].epoch = 0
      /\ aliases' = [aliases EXCEPT ![alias] = Resolve(existing)]
      /\ UNCHANGED <<authoritative, prepared, active, acceptedHistory, failOpenVersions,
                     status, activating, deleting>>
  BY DEF Disciplined, Alias, LockFree, AddAlias, backendVars, recordVars, callVars
<1>2. VerifiersOwned'
  BY <1>1 DEF VerifiersOwned
<1>3. SlotsOwned'
  BY <1>1 DEF SlotsOwned, Present, Now, LastGeneration, TypeOK, DirectoryTypeOK
<1>4. ActivationHolds' /\ DeletionHolds'
  BY <1>1 DEF ActivationHolds, DeletionHolds
<1>5. NextInLine' /\ PublishedSettled'
  BY <1>1 DEF NextInLine, PublishedSettled, PublishedFor, Supersedes, Present, Now,
              LastGeneration
<1>6. Covered'
  BY <1>1 DEF Covered, Withdrawn, Present, Now
<1> QED
  BY <1>2, <1>3, <1>4, <1>5, <1>6

-----------------------------------------------------------------------------
\* The steps the abstraction does not see.
Unseen ==
    \/ \E s \in Scopes : \/ PublishDelta(s) \/ Compact(s) \/ Retire(s)
                         \/ \E e \in Edges : AcknowledgeDelta(s, e) \/ AcknowledgeCompacted(s, e)
    \/ EdgeFaults
    \/ \E e \in Edges, name \in Users : Replicate(e, name)
    \/ \E cert \in issued : Install(cert)
    \/ UNCHANGED controlVars

\* Unseen steps are quiet.
LEMMA UnseenIsQuiet ==
    ASSUME TypeOK, Unseen
    PROVE  /\ UNCHANGED <<authoritative, aliases, backendVars, activating, deleting>>
           /\ activating # None => status' = status
           /\ \A s \in Scopes : status[s] \in Settled => status'[s] \in Settled
<1>1. ASSUME NEW s \in Scopes, PublishDelta(s) \/ Compact(s) \/ Retire(s)
      PROVE  /\ UNCHANGED <<authoritative, aliases, backendVars, activating, deleting>>
             /\ activating = None
             /\ \A t \in Scopes : status[t] \in Settled => status'[t] \in Settled
  BY <1>1 DEF PublishDelta, Compact, Retire, AdminTurn, LockFree, Settled, directoryVars,
              callVars, TypeOK, ControlTypeOK
<1>2. ASSUME NEW s \in Scopes, NEW e \in Edges,
             AcknowledgeDelta(s, e) \/ AcknowledgeCompacted(s, e)
      PROVE  UNCHANGED <<authoritative, aliases, backendVars, activating, deleting, status>>
  BY <1>2 DEF AcknowledgeDelta, AcknowledgeCompacted, directoryVars, callVars
<1>3. CASE EdgeFaults
  <2>1. UNCHANGED <<authoritative, aliases, backendVars, activating, deleting, status>>
    BY <1>3
    DEF EdgeFaults, CrashEdge, CrashEdgeCertificates, CrashEdgeTracker, RecoverEdge,
        RecoverEdgeReplica, RecoverEdgeCertificate, MarkEdgeUncertain, RecoverDirectoryEdge,
        ReplicateToEdge, directoryVars, recordVars
  <2> QED
    BY <2>1
<1>4. ASSUME \/ \E e \in Edges, name \in Users : Replicate(e, name)
             \/ \E cert \in issued : Install(cert)
             \/ UNCHANGED controlVars
      PROVE  UNCHANGED <<authoritative, aliases, backendVars, activating, deleting, status>>
  BY <1>4 DEF Replicate, ReplicateToEdge, Install, directoryVars, recordVars, callVars,
              controlVars
<1> QED
  BY <1>1, <1>2, <1>3, <1>4 DEF Unseen

\* Every step is unseen or one of those the abstraction follows.
LEMMA SeenSteps ==
    ASSUME [ControlNext]_controlVars
    PROVE  \/ Unseen
           \/ \E s \in Scopes : \/ \E required \in SUBSET Edges : Prepare(s, required)
                                \/ ActivateBackend(s)
                                \/ FaultBackendAdvanceBeforeDirectory(s)
           \/ ActivateDirectory
           \/ \E replicate \in BOOLEAN : ActivateCommit(replicate)
           \/ \E name \in Users, gen \in Generations : DeleteBackend(name, gen)
           \/ DeleteDirectory
           \/ DeleteLatest
           \/ \E existing, alias \in Users : Alias(existing, alias)
  BY DEF ControlNext, Lifecycle, Deletion, Unseen

\* Every step keeps the invariant.
LEMMA AuthorityKept ==
    ASSUME Disciplined, TypeOK, EpochsIdentifySlots, AuthorityInv, [ControlNext]_controlVars
    PROVE  AuthorityInv'
  BY SeenSteps, UnseenIsQuiet, QuietKeeps, PrepareKeeps, AdvanceKeeps, PublishKeeps,
     CommitKeeps, WithdrawKeeps, RemoveKeeps, ForgetKeeps, AliasKeeps

\* Nothing is prepared, presented or under way initially.
LEMMA AuthorityInitially == ControlInit => AuthorityInv
  BY DEF ControlInit, DirectoryInit, BackendInit, NoSlot, AuthorityInv, VerifiersOwned,
         SlotsOwned, ActivationHolds, DeletionHolds, NextInLine, PublishedSettled, Covered,
         Present, Now, LastGeneration

\* The invariant holds in every reachable state of the disciplined protocol.
LEMMA AuthorityHolds ==
    ASSUME Disciplined
    PROVE  ControlSpec => []AuthorityInv
<1>1. TypeOK /\ EpochsIdentifySlots /\ AuthorityInv /\ [ControlNext]_controlVars => AuthorityInv'
  BY AuthorityKept
<1> QED
  BY <1>1, AuthorityInitially, TypeCorrectness, EpochIdentity, PTL DEF ControlSpec

\* The fail-open path accepts the version the directory calls active until
\* delete_account has begun, for every set of accounts, versions and edges.
THEOREM BackendCoverage ==
    ASSUME Disciplined
    PROVE  ControlSpec => []BackendCoversDirectory
<1>1. TypeOK /\ AuthorityInv => BackendCoversDirectory
  <2> SUFFICES ASSUME TypeOK, AuthorityInv, NEW u \in Users, Present(u),
                      deleting = None \/ deleting.user # u
               PROVE  authoritative[u].scope \in FailOpenSnapshot(u)
    BY DEF BackendCoversDirectory
  <2>1. ~Withdrawn(u)
    BY DEF Withdrawn
  <2> QED
    BY <2>1 DEF AuthorityInv, Covered, FailOpenSnapshot, Now
<1> QED
  BY <1>1, AuthorityHolds, TypeCorrectness, PTL

\* Once no activation is under way, the fail-open path accepts no version older
\* than the directory's: the commit closes the window.
THEOREM RevocationTakesEffect ==
    ASSUME Disciplined
    PROVE  ControlSpec => []RevokedNotAccepted
<1>1. TypeOK /\ AuthorityInv => RevokedNotAccepted
  <2> SUFFICES ASSUME TypeOK, AuthorityInv, NEW u \in Users, LockFree, deleting = None,
                      Present(u), NEW s \in FailOpenSnapshot(u)
               PROVE  /\ SameIdentity(s, authoritative[u].scope)
                      /\ s.ver >= authoritative[u].scope.ver
    BY DEF RevokedNotAccepted
  <2>1. s \in prepared /\ UserOf(s) = u
    BY DEF AuthorityInv, VerifiersOwned, FailOpenSnapshot
  <2>2. s = Now(u) \/ (SameIdentity(s, Now(u)) /\ s.ver > Now(u).ver)
    BY <2>1 DEF AuthorityInv, NextInLine, PublishedFor, LockFree, Supersedes
  <2>3. s.ver \in Nat /\ Now(u).ver \in Nat
    BY <2>1, ScopeFields, IdentityAssumption
    DEF IdentityAssumption, TypeOK, BackendTypeOK, DirectoryTypeOK, Slots, Present, Now
  <2> QED
    BY <2>2, <2>3 DEF SameIdentity, Now
<1> QED
  BY <1>1, AuthorityHolds, TypeCorrectness, PTL

\* After delete_account nothing of the deleted generations is live in the
\* backend, whatever was prepared or half-activated before it.
THEOREM DeletionReachesBackend ==
    ASSUME Disciplined
    PROVE  ControlSpec => []DeletedNotLive
<1>1. TypeOK /\ AuthorityInv => DeletedNotLive
  <2> SUFFICES ASSUME TypeOK, AuthorityInv, NEW u \in Users, LockFree, deleting = None,
                      ~Present(u), active[u] # None
               PROVE  active[u].gen > authoritative[u].lastGen
    BY DEF DeletedNotLive
  <2>1. active[u] \in prepared /\ UserOf(active[u]) = u
    BY OwnVerifiers DEF AuthorityInv, TypeOK
  <2>2. active[u] # Now(u)
    BY DEF Present, Now
  <2> QED
    BY <2>1, <2>2
    DEF AuthorityInv, NextInLine, PublishedFor, LockFree, Supersedes, LastGeneration
<1> QED
  BY <1>1, AuthorityHolds, TypeCorrectness, PTL

-----------------------------------------------------------------------------
(* The protocol implements AccountAuthority.                               *)

\* What the refinement maps the variables of AccountAuthority to.
Presented == [u \in Users |-> authoritative[u].scope]
Recent == [u \in Users |-> authoritative[u].lastGen]
Removing == {u \in Users : /\ deleting # None
                           /\ deleting.step = "BACKEND"
                           /\ deleting.user = u
                           /\ Present(u)}

\* The abstract operators over them are the detailed ones.
LEMMA MappedOperators ==
    /\ \A s \in Scopes : Authority!Succeeds(s) <=> Supersedes(s)
    /\ \A s \in Scopes : Authority!PrepareVersion(s) <=> PrepareVersion(s)
    /\ \A s \in Scopes : Authority!ActivateVersion(s) <=> ActivateVersion(s)
    /\ \A s \in Scopes : Authority!CommitDirectoryVersion(s) <=> CommitDirectoryVersion(s)
    /\ \A u \in Users, gen \in Generations :
          Authority!DeleteBackendAccount(u, gen) <=> DeleteBackendAccount(u, gen)
    /\ Authority!BackendInit <=> BackendInit
    /\ Authority!backendVars = backendVars
    /\ Authority!Scopes = Scopes
    /\ \A s : Authority!UserOf(s) = UserOf(s)
<1>1. \A s, t : Authority!SameIdentity(s, t) <=> SameIdentity(s, t)
  BY DEF Authority!SameIdentity, SameIdentity
<1>2. /\ \A s : Authority!UserOf(s) = UserOf(s)
      /\ Authority!backendVars = backendVars
      /\ Authority!Scopes = Scopes
  BY DEF Authority!UserOf, UserOf, Authority!backendVars, backendVars, Authority!Scopes, Scopes
<1>3. \A s \in Scopes : Authority!Succeeds(s) <=> Supersedes(s)
  BY <1>1, <1>2, ScopeFields
  DEF Authority!Succeeds, Supersedes, Present, Now, LastGeneration
<1>4. \A s \in Scopes : Authority!PrepareVersion(s) <=> PrepareVersion(s)
  BY DEF Authority!PrepareVersion, PrepareVersion
<1>5. \A s \in Scopes : Authority!ActivateVersion(s) <=> ActivateVersion(s)
  BY DEF Authority!ActivateVersion, ActivateVersion, Authority!MayActivateVersion,
         MayActivateVersion, Authority!UserOf, UserOf, Authority!backendVars, backendVars,
         Authority!SameIdentity, SameIdentity
<1>6. \A s \in Scopes : Authority!CommitDirectoryVersion(s) <=> CommitDirectoryVersion(s)
  BY DEF Authority!CommitDirectoryVersion, CommitDirectoryVersion, Authority!UserOf, UserOf,
         Authority!SameIdentity, SameIdentity, Authority!Scopes, Scopes
<1>7. \A u \in Users, gen \in Generations :
         Authority!DeleteBackendAccount(u, gen) <=> DeleteBackendAccount(u, gen)
  BY DEF Authority!DeleteBackendAccount, DeleteBackendAccount, Authority!MayDeleteAccount,
         MayDeleteAccount, Authority!backendVars, backendVars, Authority!SameIdentity,
         SameIdentity, Authority!Scopes, Scopes
<1>8. Authority!BackendInit <=> BackendInit
  BY DEF Authority!BackendInit, BackendInit
<1> QED
  BY <1>2, <1>3, <1>4, <1>5, <1>6, <1>7, <1>8

\* A step that keeps the slots, the backend and the pending removal is a stutter
\* of the abstraction.
LEMMA MappedStutter ==
    ASSUME UNCHANGED <<authoritative, backendVars>>, UNCHANGED Removing
    PROVE  UNCHANGED Authority!authorityVars
<1>1. Authority!backendVars' = Authority!backendVars
  BY DEF Authority!backendVars, backendVars
<1> QED
  BY <1>1 DEF Authority!authorityVars, Removing, Present

\* No removal is pending while no deletion is under way.
LEMMA NothingRemoving ==
    /\ deleting = None => Removing = {}
    /\ deleting' = None => Removing' = {}
  BY DEF Removing

\* Preparing offers a successor of what is presented.
LEMMA PrepareOffers ==
    ASSUME Disciplined, TypeOK, EpochsIdentifySlots, AuthorityInv,
           NEW s \in Scopes, NEW required \in SUBSET Edges, Prepare(s, required)
    PROVE  Authority!Offer(s)
<1>1. Supersedes(s) /\ deleting = None
  BY PreparedSupersedes
<1>2. PrepareVersion(s) /\ UNCHANGED <<authoritative, deleting>>
  BY DEF Prepare, ReserveEpoch, callVars
<1>3. UserOf(s) \notin Removing /\ UNCHANGED Removing
  BY <1>1, <1>2, NothingRemoving
<1> QED
  BY <1>1, <1>2, <1>3, MappedOperators DEF Authority!Offer, Removing

\* The backend half of an activation advances the abstract backend; the
\* interrupted one does too.
LEMMA ActivationAdvances ==
    ASSUME Disciplined, TypeOK, AuthorityInv, NEW s \in Scopes,
           ActivateBackend(s) \/ FaultBackendAdvanceBeforeDirectory(s)
    PROVE  Authority!AdvanceBackend(s)
<1>1. /\ activating = None /\ deleting = None
      /\ status[s] = "EDGE_DELTA_READY"
      /\ active[UserOf(s)] \in {None, s, authoritative[UserOf(s)].scope}
      /\ ActivateVersion(s)
      /\ UNCHANGED <<authoritative, deleting>>
  BY DEF Disciplined, ActivateBackend, FaultBackendAdvanceBeforeDirectory, AdminTurn, LockFree,
         ResumeDiscipline, directoryVars, callVars
<1>2. s \in prepared /\ ~PublishedFor(UserOf(s)) /\ UserOf(s) \in Users
  BY <1>1, ScopeFields DEF ActivateVersion, MayActivateVersion, PublishedFor
<1>3. Supersedes(s)
  BY <1>1, <1>2, ReadySupersedes
<1>4. UserOf(s) \notin Removing /\ UNCHANGED Removing
  BY <1>1, NothingRemoving
<1> QED
  BY <1>1, <1>2, <1>3, <1>4, MappedOperators DEF Authority!AdvanceBackend, Removing

\* The directory half presents the version, or is refused and not seen.
LEMMA PublicationPresents ==
    ASSUME TypeOK, AuthorityInv, ActivateDirectory
    PROVE  \/ \E s \in Scopes : Authority!PresentVersion(s)
           \/ UNCHANGED Authority!authorityVars
<1> DEFINE s == activating.key
<1>1. /\ activating # None /\ activating.step = "ADVANCED"
      /\ s \in Scopes /\ UserOf(s) \in Users /\ s # None
      /\ deleting = None
      /\ status[s] = "EDGE_DELTA_READY"
      /\ active[UserOf(s)] = s
      /\ UNCHANGED <<backendVars, deleting>>
  <2>1. s \in Scopes /\ s # None
    BY IdentityAssumption
    DEF ActivateDirectory, TypeOK, ControlTypeOK, Activations, IdentityAssumption
  <2> QED
    BY <2>1, ScopeFields DEF ActivateDirectory, AuthorityInv, ActivationHolds
<1>2. s \in prepared
  BY <1>1, OwnVerifiers DEF AuthorityInv, TypeOK
<1>3. Supersedes(s)
  BY <1>1, <1>2, ReadySupersedes DEF PublishedFor
<1>4. UserOf(s) \notin Removing /\ UNCHANGED Removing
  BY <1>1, NothingRemoving
<1>5. CASE PublishActive(s, viewEpoch[s])
  <2>1. authoritative' = [authoritative EXCEPT ![UserOf(s)] =
                             [scope |-> s, epoch |-> viewEpoch[s], lastGen |-> s.gen]]
    BY <1>5 DEF PublishActive
  <2>2. /\ Presented' = [Presented EXCEPT ![UserOf(s)] = s]
        /\ Recent' = [Recent EXCEPT ![UserOf(s)] = s.gen]
    BY <1>1, <2>1 DEF Presented, Recent, TypeOK, DirectoryTypeOK
  <2>3. UNCHANGED Authority!backendVars
    BY <1>1 DEF Authority!backendVars, backendVars
  <2>4. ASSUME NEW t \in Scopes, t = s
        PROVE  Authority!PresentVersion(t)
    BY <1>1, <1>3, <1>4, <2>2, <2>3, <2>4, MappedOperators
    DEF Authority!PresentVersion, Presented, Recent, Removing
  <2> QED
    BY <1>1, <2>4
<1>6. CASE UNCHANGED directoryVars
  BY <1>1, <1>4, <1>6, MappedStutter DEF directoryVars
<1> QED
  BY <1>1, <1>5, <1>6 DEF ActivateDirectory

\* The commit closes the window on the version presented.
LEMMA CommitCloses ==
    ASSUME TypeOK, AuthorityInv, NEW replicate \in BOOLEAN, ActivateCommit(replicate)
    PROVE  \E s \in Scopes : Authority!CloseWindow(s)
<1> DEFINE s == activating.key
<1>1. /\ s \in Scopes /\ UserOf(s) \in Users
      /\ deleting = None
      /\ active[UserOf(s)] = s
      /\ authoritative[UserOf(s)].scope = s
  <2>1. s \in Scopes
    BY DEF ActivateCommit, TypeOK, ControlTypeOK, Activations
  <2> QED
    BY <2>1, ScopeFields DEF ActivateCommit, AuthorityInv, ActivationHolds, Now
<1>2. CommitDirectoryVersion(s) /\ UNCHANGED <<authoritative, deleting>>
  BY <1>1 DEF ActivateCommit
<1>3. UNCHANGED Removing
  BY <1>1, <1>2, NothingRemoving
<1>4. ASSUME NEW t \in Scopes, t = s
      PROVE  Authority!CloseWindow(t)
  <2>1. CommitDirectoryVersion(t)
    BY <1>2, <1>4 DEF CommitDirectoryVersion
  <2> QED
    BY <1>1, <1>2, <1>3, <1>4, <2>1, MappedOperators DEF Authority!CloseWindow, Removing
<1> QED
  BY <1>1, <1>4

\* The backend half of a deletion withdraws the user.
LEMMA DeletionWithdraws ==
    ASSUME Disciplined, TypeOK, EpochsIdentifySlots, AuthorityInv,
           NEW name \in Users, NEW gen \in Generations, DeleteBackend(name, gen),
           NEW user, user = AuthoritativeLookup(name).user
    PROVE  user \in Users /\ Authority!Withdraw(user, gen)
<1>1. /\ deleting = None
      /\ user \in Users
      /\ UNCHANGED authoritative
      /\ deleting' = [name |-> name, user |-> user, gen |-> gen, step |-> "BACKEND"]
      /\ deleting' # None
  BY WithdrawStep
<1>2. DeleteBackendAccount(user, gen)
  BY DEF DeleteBackend
<1>3. Removing = {}
  BY <1>1, NothingRemoving
<1>4. Removing' = IF Present(user) THEN {user} ELSE {}
  BY <1>1 DEF Removing, Present
<1>5. Present(user) => active[user] # None
  BY <1>1 DEF AuthorityInv, Covered, Withdrawn
<1>6. Removing' = IF Presented[user] = None THEN Removing ELSE Removing \cup {user}
  BY <1>1, <1>3, <1>4 DEF Presented, Present
<1>7. user \notin Removing /\ (Presented[user] # None => active[user] # None)
  BY <1>1, <1>3, <1>5 DEF Presented, Present
<1> QED
  BY <1>1, <1>2, <1>6, <1>7, MappedOperators
  DEF Authority!Withdraw, Presented, Removing

\* The directory half removes the withdrawn user, or finds it gone.
LEMMA TombstoneRemoves ==
    ASSUME TypeOK, EpochsIdentifySlots, AuthorityInv, DeleteDirectory
    PROVE  \/ \E u \in Users : Authority!Remove(u)
           \/ UNCHANGED Authority!authorityVars
<1> DEFINE u == deleting.user
<1>1. /\ deleting # None /\ deleting.step = "BACKEND"
      /\ u \in Users
      /\ UNCHANGED backendVars
  BY DEF DeleteDirectory, TypeOK, ControlTypeOK, Deletions
<1>2. Removing = IF Present(u) THEN {u} ELSE {}
  BY <1>1 DEF Removing
<1>3. CASE DeleteEntry(deleting.name, deleting.gen)
           /\ deleting' = [deleting EXCEPT !.step = "DIRECTORY"]
  <2>1. Present(u) /\ Resolve(deleting.name) = u /\ Now(u).gen = deleting.gen
    BY <1>1, <1>3 DEF DeleteEntry, MayDelete, AuthorityInv, DeletionHolds
  <2>2. authoritative' = [authoritative EXCEPT ![u] =
                             [scope |-> None, epoch |-> nextEpoch, lastGen |-> deleting.gen]]
    BY <1>3, <2>1 DEF DeleteEntry
  <2>3. authoritative[u].lastGen = deleting.gen
    BY <1>1, <2>1 DEF EpochsIdentifySlots, SlotIdentified, Present, Now
  <2>4. Presented' = [Presented EXCEPT ![u] = None] /\ UNCHANGED Recent
    BY <1>1, <2>2, <2>3 DEF Presented, Recent, TypeOK, DirectoryTypeOK
  <2>5. deleting'.step = "DIRECTORY"
    BY <1>1, <1>3 DEF TypeOK, ControlTypeOK, Deletions
  <2>6. u \in Removing /\ Removing' = Removing \ {u}
    BY <1>2, <2>1, <2>5 DEF Removing
  <2>7. UNCHANGED Authority!backendVars
    BY <1>1 DEF Authority!backendVars, backendVars
  <2>8. ASSUME NEW v \in Users, v = u
        PROVE  Authority!Remove(v)
    BY <1>1, <2>4, <2>6, <2>7, <2>8 DEF Authority!Remove, Presented, Recent, Removing
  <2> QED
    BY <1>1, <2>8
<1>4. CASE deleting' = None /\ UNCHANGED directoryVars
           /\ ~MayDelete(deleting.name, deleting.gen)
  <2>1. ~Present(u)
    BY <1>1, <1>4 DEF MayDelete, AuthorityInv, DeletionHolds, Now
  <2>2. UNCHANGED Removing
    BY <1>2, <1>4, <2>1, NothingRemoving
  <2> QED
    BY <1>1, <1>4, <2>2, MappedStutter DEF directoryVars
<1> QED
  BY <1>3, <1>4 DEF DeleteDirectory

\* Every step of the protocol is a step of the abstraction or a stutter.
LEMMA StepRefines ==
    ASSUME Disciplined, TypeOK, EpochsIdentifySlots, AuthorityInv, [ControlNext]_controlVars
    PROVE  [Authority!AuthorityNext]_Authority!authorityVars
<1>1. CASE Unseen
  <2>1. UNCHANGED <<authoritative, backendVars, deleting>>
    BY <1>1, UnseenIsQuiet
  <2> QED
    BY <2>1, MappedStutter DEF Removing, Present
<1>2. ASSUME NEW s \in Scopes, NEW required \in SUBSET Edges, Prepare(s, required)
      PROVE  Authority!AuthorityNext
  BY <1>2, PrepareOffers, MappedOperators DEF Authority!AuthorityNext
<1>3. ASSUME NEW s \in Scopes, ActivateBackend(s) \/ FaultBackendAdvanceBeforeDirectory(s)
      PROVE  Authority!AuthorityNext
  <2>1. Authority!AdvanceBackend(s)
    BY <1>3, ActivationAdvances
  <2> QED
    BY <2>1, MappedOperators DEF Authority!AuthorityNext
<1>4. CASE ActivateDirectory
  BY <1>4, PublicationPresents, MappedOperators DEF Authority!AuthorityNext
<1>5. ASSUME NEW replicate \in BOOLEAN, ActivateCommit(replicate)
      PROVE  Authority!AuthorityNext
  BY <1>5, CommitCloses, MappedOperators DEF Authority!AuthorityNext
<1>6. ASSUME NEW name \in Users, NEW gen \in Generations, DeleteBackend(name, gen)
      PROVE  Authority!AuthorityNext
  <2>1. PICK user : user = AuthoritativeLookup(name).user
    OBVIOUS
  <2>2. user \in Users /\ Authority!Withdraw(user, gen)
    BY <1>6, <2>1, DeletionWithdraws
  <2> QED
    BY <2>2 DEF Authority!AuthorityNext
<1>7. CASE DeleteDirectory
  BY <1>7, TombstoneRemoves DEF Authority!AuthorityNext
<1>8. CASE DeleteLatest
  <2>1. /\ UNCHANGED <<authoritative, backendVars>>
        /\ deleting.step = "DIRECTORY" /\ deleting' = None
    BY <1>8 DEF DeleteLatest, directoryVars
  <2> QED
    BY <2>1, MappedStutter DEF Removing
<1>9. ASSUME NEW existing \in Users, NEW alias \in Users, Alias(existing, alias)
      PROVE  UNCHANGED Authority!authorityVars
  <2>1. UNCHANGED <<authoritative, backendVars, deleting>>
    BY <1>9 DEF Alias, AddAlias, callVars
  <2> QED
    BY <2>1, MappedStutter DEF Removing, Present
<1> QED
  BY SeenSteps, <1>1, <1>2, <1>3, <1>4, <1>5, <1>6, <1>7, <1>8, <1>9

\* Under the three disciplines the activation protocol implements the account
\* authority the login path is checked and proved over, for every set of edges,
\* accounts, generations and versions, and whatever crashes, recoveries, late
\* certificates, aliases and interrupted activations come in between.
THEOREM Refinement ==
    ASSUME Disciplined
    PROVE  ControlSpec => ImplementsAuthority
<1>1. ControlInit => Authority!AuthorityInit
  BY MappedOperators DEF ControlInit, DirectoryInit, NoSlot, Authority!AuthorityInit
<1>2. /\ TypeOK /\ EpochsIdentifySlots /\ AuthorityInv /\ [ControlNext]_controlVars
         => [Authority!AuthorityNext]_Authority!authorityVars
  BY StepRefines
<1> QED
  BY <1>1, <1>2, AuthorityHolds, TypeCorrectness, EpochIdentity, PTL
  DEF ControlSpec, ImplementsAuthority, Authority!AuthoritySpec
=============================================================================
