------------------------- MODULE MCActivationEdges -------------------------
(***************************************************************************)
(* Two interchangeable edges, a second username that can only be an alias, *)
(* and one or two versions of one identity: partial acknowledgements,      *)
(* edges outside the certificate policy, crashes and recoveries of one     *)
(* edge while the other serves, lookups and deletions through an alias.    *)
(***************************************************************************)
EXTENDS ActivationStateMachine, TLC

CONSTANTS alice, nick, acct, p1, p2, LastVersion

MCGenerations == {1}
MCVersions == 1 .. LastVersion
MCOwner == [a \in Accounts |-> alice]
MCCreds == [s \in Scopes |-> IF s.ver = 1 THEN {p1} ELSE {p2}]

\* Bound: one crash_edge call in progress at a time, as for the other unlocked
\* calls; calls for two edges touch no common variable but the sets of edges.
OneCrash == Cardinality({e \in Edges : crashing[e] # "NONE"}) <= 1

EdgeSymmetry == Permutations(Edges)

\* The tracker is left out of the state's identity: no step's guard and no other
\* variable depends on it (an advance that raises does so after all the writes).
\* Its type takes its place, which makes TLC evaluate it before it stores a state.
BesidesTracker ==
    <<directoryVars, backendVars, screenVars, recordVars, callVars, TrackerTypeOK>>
=============================================================================
