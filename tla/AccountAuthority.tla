-------------------------- MODULE AccountAuthority --------------------------
(***************************************************************************)
(* What the control plane promises the login path: which scope of a        *)
(* username is externally active, and how the verifier backend follows it. *)
(* Records, acknowledgements, edges, certificates and epochs are left out; *)
(* ActivationStateMachine implements this specification, and AuthDataPlane *)
(* is checked over it.  The backend itself is not abstracted: the login    *)
(* path calls it directly.                                                 *)
(***************************************************************************)
EXTENDS InMemoryBackend

VARIABLES
    current,    \* scope the authoritative directory presents, or None
    lastGen,    \* last account generation the directory has recorded
    removing    \* users whose deletion has left the backend only

authorityVars == <<backendVars, current, lastGen, removing>>

AuthorityTypeOK ==
    /\ BackendTypeOK
    /\ current \in [Users -> Scopes \cup {None}]
    /\ lastGen \in [Users -> Generations \cup {0}]
    /\ removing \in SUBSET Users

AuthorityInit ==
    /\ BackendInit
    /\ current = [u \in Users |-> None]
    /\ lastGen = [u \in Users |-> 0]
    /\ removing = {}

\* A successor of what the directory presents: a later version of the same
\* identity, or, with nothing presented, a later generation.
Succeeds(s) ==
    LET now == current[UserOf(s)] IN
    IF now = None THEN s.gen > lastGen[UserOf(s)]
                  ELSE SameIdentity(s, now) /\ s.ver > now.ver

-----------------------------------------------------------------------------
\* A verifier is stored before anything can activate it.
Offer(s) ==
    /\ UserOf(s) \notin removing
    /\ Succeeds(s)
    /\ PrepareVersion(s)
    /\ UNCHANGED <<current, lastGen, removing>>

\* Backend first: the new version joins the accepted window of the current one.
AdvanceBackend(s) ==
    /\ UserOf(s) \notin removing
    /\ Succeeds(s)
    /\ active[UserOf(s)] \in {None, s, current[UserOf(s)]}
    /\ ActivateVersion(s)
    /\ UNCHANGED <<current, lastGen, removing>>

\* The directory linearization point.
PresentVersion(s) ==
    /\ UserOf(s) \notin removing
    /\ Succeeds(s)
    /\ active[UserOf(s)] = s
    /\ current' = [current EXCEPT ![UserOf(s)] = s]
    /\ lastGen' = [lastGen EXCEPT ![UserOf(s)] = s.gen]
    /\ UNCHANGED <<backendVars, removing>>

\* The window closes on the presented version.
CloseWindow(s) ==
    /\ current[UserOf(s)] = s
    /\ CommitDirectoryVersion(s)
    /\ UNCHANGED <<current, lastGen, removing>>

\* Deletion: backend, then directory.  A username the directory does not
\* present loses its backend version only.
Withdraw(u, gen) ==
    /\ u \notin removing
    /\ current[u] # None => active[u] # None
    /\ DeleteBackendAccount(u, gen)
    /\ removing' = IF current[u] = None THEN removing ELSE removing \cup {u}
    /\ UNCHANGED <<current, lastGen>>

Remove(u) ==
    /\ u \in removing
    /\ current' = [current EXCEPT ![u] = None]
    /\ removing' = removing \ {u}
    /\ UNCHANGED <<backendVars, lastGen>>

AuthorityNext ==
    \/ \E s \in Scopes :
          Offer(s) \/ AdvanceBackend(s) \/ PresentVersion(s) \/ CloseWindow(s)
    \/ \E u \in Users, gen \in Generations : Withdraw(u, gen)
    \/ \E u \in Users : Remove(u)

AuthoritySpec == AuthorityInit /\ [][AuthorityNext]_authorityVars
=============================================================================
