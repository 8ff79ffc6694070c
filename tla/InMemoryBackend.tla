-------------------------- MODULE InMemoryBackend --------------------------
(***************************************************************************)
(* dataplane/backend.py: the verifier store.  A _BackendVersion is its     *)
(* scope (the authenticator set is Creds[scope]); the accepted history is  *)
(* keyed by the owning username and the scope, and the owner follows from  *)
(* the account ID, so it is a set of scopes.                               *)
(***************************************************************************)
EXTENDS Credentials

VARIABLES
    prepared,          \* keys of _prepared
    active,            \* _active: username -> scope, None when absent
    acceptedHistory,   \* keys of _accepted_history
    failOpenVersions   \* _fail_open_versions: username -> scopes

backendVars == <<prepared, active, acceptedHistory, failOpenVersions>>

BackendTypeOK ==
    /\ prepared \in SUBSET Scopes
    /\ active \in [Users -> Scopes \cup {None}]
    /\ acceptedHistory \in SUBSET Scopes
    /\ failOpenVersions \in [Users -> SUBSET Scopes]

BackendInit ==
    /\ prepared = {}
    /\ active = [u \in Users |-> None]
    /\ acceptedHistory = {}
    /\ failOpenVersions = [u \in Users |-> {}]

-----------------------------------------------------------------------------
\* prepare_version: re-preparing the same version is a no-op.
PrepareVersion(s) ==
    /\ Creds[s] # {}
    /\ prepared' = prepared \cup {s}
    /\ UNCHANGED <<active, acceptedHistory, failOpenVersions>>

\* activate_version raises when the verifier was not prepared, when the
\* version regresses within an identity, or when a reused username does not
\* raise the generation.
MayActivateVersion(s) ==
    LET prior == active[UserOf(s)] IN
    /\ s \in prepared
    /\ prior # None =>
        IF SameIdentity(prior, s) THEN s.ver >= prior.ver ELSE s.gen > prior.gen

\* Mutant: the prior verifier is filed without asking whether there is one.
ActivateVersionFilingNone(s) ==
    LET u == UserOf(s) IN
    /\ MayActivateVersion(s)
    /\ IF active[u] = s
       THEN UNCHANGED backendVars
       ELSE /\ active' = [active EXCEPT ![u] = s]
            /\ acceptedHistory' = acceptedHistory \cup {active[u], s}
            /\ failOpenVersions' = [failOpenVersions EXCEPT ![u] = {s}]
            /\ UNCHANGED prepared

\* Mutant: no dual-verification window.
ActivateVersionWithoutWindow(s) ==
    LET u == UserOf(s) IN
    /\ MayActivateVersion(s)
    /\ active' = [active EXCEPT ![u] = s]
    /\ acceptedHistory' = acceptedHistory \cup {s}
    /\ failOpenVersions' = [failOpenVersions EXCEPT ![u] = {s}]
    /\ UNCHANGED prepared

\* Activating the active version again returns early and changes nothing.
ActivateVersion(s) ==
    LET u == UserOf(s)
        prior == active[u]
        keep == IF prior = None THEN {} ELSE {prior}
        window == {t \in keep : SameIdentity(t, s)}
    IN
    /\ MayActivateVersion(s)
    /\ IF prior = s
       THEN UNCHANGED backendVars
       ELSE /\ active' = [active EXCEPT ![u] = s]
            /\ acceptedHistory' = acceptedHistory \cup keep \cup {s}
            /\ failOpenVersions' = [failOpenVersions EXCEPT ![u] = {s} \cup window]
            /\ UNCHANGED prepared

\* Mutant: the commit leaves the dual-verification window open.
CommitLeavingWindow(s) ==
    /\ active[UserOf(s)] = s
    /\ UNCHANGED backendVars

\* commit_directory_version ends the dual-verification window and drops every
\* other version of the identity, prepared ones included.
CommitDirectoryVersion(s) ==
    LET superseded == {t \in Scopes : SameIdentity(t, s) /\ t # s} IN
    /\ active[UserOf(s)] = s
    /\ failOpenVersions' = [failOpenVersions EXCEPT ![UserOf(s)] = {s}]
    /\ acceptedHistory' = acceptedHistory \ superseded
    /\ prepared' = prepared \ superseded
    /\ UNCHANGED active

\* delete_account returns early when the user has no active version and
\* raises on a generation mismatch.
MayDeleteAccount(u, gen) == active[u] # None => active[u].gen = gen

\* Mutant: verifiers prepared but never activated survive the deletion.
DeleteKeepingPrepared(u, gen) ==
    /\ MayDeleteAccount(u, gen)
    /\ active' = [active EXCEPT ![u] = None]
    /\ failOpenVersions' = [failOpenVersions EXCEPT ![u] = {}]
    /\ acceptedHistory' = {t \in acceptedHistory : UserOf(t) # u}
    /\ UNCHANGED prepared

DeleteBackendAccount(u, gen) ==
    /\ MayDeleteAccount(u, gen)
    /\ IF active[u] = None
       THEN UNCHANGED backendVars
       ELSE LET gone == {t \in Scopes : SameIdentity(t, active[u])} IN
            /\ active' = [active EXCEPT ![u] = None]
            /\ failOpenVersions' = [failOpenVersions EXCEPT ![u] = {}]
            /\ acceptedHistory' = acceptedHistory \ gone
            /\ prepared' = prepared \ gone

-----------------------------------------------------------------------------
(* verify: the versions are chosen under the lock from the state of that   *)
(* moment; the comparison runs afterwards on that snapshot.                *)

\* With no expected version: every version of the fail-open window.
FailOpenSnapshot(u) ==
    IF active[u] = None THEN {} ELSE failOpenVersions[u] \cap acceptedHistory

\* With an expected version: the active one, or the retained one of the
\* active identity with that version number.
ExpectedSnapshot(u, ver) ==
    IF active[u] = None THEN {}
    ELSE IF active[u].ver = ver THEN {active[u]}
         ELSE {t \in acceptedHistory : SameIdentity(t, active[u]) /\ t.ver = ver}

ResultKinds == {"MATCH", "CREDENTIAL_MISMATCH", "NO_ACCOUNT", "VERSION_MISMATCH",
                "TRANSIENT_FAILURE", "PARTIAL_AUTHENTICATOR_FAILURE"}

\* A TypedBackendResult: the scope is the one all of whose authenticators were
\* compared, None when no single scope was (checked_version None or a partial
\* or empty checked_authenticator_ids).
Result(kind, scope) == [kind |-> kind, scope |-> scope]

BackendResults == [kind : ResultKinds, scope : Scopes \cup {None}]

\* A mismatch reported for a scope means that the scope lacks the password.
Truthful(result, pwd) ==
    result.kind = "CREDENTIAL_MISMATCH" /\ result.scope # None
        => pwd \notin Creds[result.scope]

\* The result of comparing a password with a snapshot of the account u.
CompareResult(hasAccount, snapshot, pwd) ==
    LET matching == {s \in snapshot : pwd \in Creds[s]} IN
    IF ~hasAccount THEN Result("NO_ACCOUNT", None)
    ELSE IF snapshot = {} THEN Result("VERSION_MISMATCH", None)
    ELSE IF matching # {} THEN Result("MATCH", None)
    ELSE Result("CREDENTIAL_MISMATCH",
                IF Cardinality(snapshot) = 1
                THEN CHOOSE s \in snapshot : TRUE
                ELSE None)
=============================================================================
