---------------------------- MODULE MCActivation ----------------------------
(***************************************************************************)
(* Instances of the activation protocol: one account that lives through    *)
(* two versions of its first generation and one of its second, as in the   *)
(* repository's executable model (tests/model/version_safety_model.py).    *)
(* The second version keeps the first one's password, so that rotations    *)
(* with and without a surviving credential occur.  A scope with no         *)
(* credentials cannot be prepared.                                         *)
(***************************************************************************)
EXTENDS ActivationStateMachine

CONSTANTS alice, acct, p1, p2, p3

MCGenerations == {1, 2}
MCVersions == {1, 2}
MCOwner == [a \in Accounts |-> alice]
MCCreds == [s \in Scopes |->
    CASE s.gen = 1 /\ s.ver = 1 -> {p1}
      [] s.gen = 1 /\ s.ver = 2 -> {p1, p2}
      [] s.gen = 2 /\ s.ver = 1 -> {p3}
      [] OTHER -> {}]

\* The tracker is left out of the state's identity: no step's guard and no other
\* variable depends on it (an advance that raises does so after all the writes).
\* Its type takes its place, which makes TLC evaluate it before it stores a state.
BesidesTracker ==
    <<directoryVars, backendVars, screenVars, recordVars, callVars, TrackerTypeOK>>
=============================================================================
