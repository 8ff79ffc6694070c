----------------------- MODULE InMemoryBackend_proofs -----------------------
(***************************************************************************)
(* Lemmas about the verifier store that the proofs of the activation       *)
(* protocol and of the login path share.                                   *)
(***************************************************************************)
EXTENDS InMemoryBackend, TLAPS

\* What every proof takes from a scope: its user is a username and its
\* generation a generation.
LEMMA ScopeFields ==
    \A s \in Scopes : /\ UserOf(s) \in Users
                      /\ s.acct \in Accounts
                      /\ s.gen \in Generations
                      /\ s.ver \in Versions
  BY IdentityAssumption DEF IdentityAssumption, Scopes, UserOf

\* Every operation of the backend keeps the backend's types.
LEMMA BackendKeepsTypes ==
    ASSUME BackendTypeOK,
           \/ \E s \in Scopes : \/ PrepareVersion(s)
                                \/ ActivateVersion(s)
                                \/ CommitDirectoryVersion(s)
           \/ \E u \in Users, gen \in Generations : DeleteBackendAccount(u, gen)
           \/ UNCHANGED backendVars
    PROVE  BackendTypeOK'
<1>1. ASSUME NEW s \in Scopes, PrepareVersion(s)
      PROVE  BackendTypeOK'
  BY <1>1 DEF PrepareVersion, BackendTypeOK
<1>2. ASSUME NEW s \in Scopes, ActivateVersion(s)
      PROVE  BackendTypeOK'
  BY <1>2, ScopeFields DEF ActivateVersion, BackendTypeOK, backendVars
<1>3. ASSUME NEW s \in Scopes, CommitDirectoryVersion(s)
      PROVE  BackendTypeOK'
  BY <1>3, ScopeFields DEF CommitDirectoryVersion, BackendTypeOK
<1>4. ASSUME NEW u \in Users, NEW gen \in Generations, DeleteBackendAccount(u, gen)
      PROVE  BackendTypeOK'
  BY <1>4 DEF DeleteBackendAccount, BackendTypeOK, backendVars
<1>5. CASE UNCHANGED backendVars
  BY <1>5 DEF backendVars, BackendTypeOK
<1> QED
  BY <1>1, <1>2, <1>3, <1>4, <1>5

\* The one scope a comparison reports as a full mismatch does not contain the
\* password, whatever snapshot was compared.
LEMMA CompareResultTruthful ==
    ASSUME NEW hasAccount \in BOOLEAN, NEW snapshot \in SUBSET Scopes, NEW pwd
    PROVE  /\ CompareResult(hasAccount, snapshot, pwd) \in BackendResults
           /\ Truthful(CompareResult(hasAccount, snapshot, pwd), pwd)
<1> DEFINE result == CompareResult(hasAccount, snapshot, pwd)
           matching == {s \in snapshot : pwd \in Creds[s]}
<1>1. CASE ~hasAccount \/ snapshot = {} \/ matching # {}
  BY <1>1 DEF CompareResult, Result, BackendResults, ResultKinds, Truthful
<1>2. CASE hasAccount /\ snapshot # {} /\ matching = {}
  <2> DEFINE chosen == CHOOSE s \in snapshot : TRUE
  <2>1. chosen \in snapshot
    BY <1>2
  <2>2. chosen \in Scopes /\ pwd \notin Creds[chosen]
    BY <1>2, <2>1
  <2>3. \/ result = Result("CREDENTIAL_MISMATCH", chosen)
        \/ result = Result("CREDENTIAL_MISMATCH", None)
    BY <1>2 DEF CompareResult
  <2> HIDE DEF chosen
  <2> QED
    BY <2>2, <2>3 DEF Result, BackendResults, ResultKinds, Truthful
<1> QED
  BY <1>1, <1>2

\* Both snapshots a verification may compare consist of scopes.
LEMMA SnapshotsAreScopes ==
    ASSUME BackendTypeOK, NEW u \in Users, NEW ver
    PROVE  /\ FailOpenSnapshot(u) \in SUBSET Scopes
           /\ ExpectedSnapshot(u, ver) \in SUBSET Scopes
  BY DEF BackendTypeOK, FailOpenSnapshot, ExpectedSnapshot
=============================================================================
