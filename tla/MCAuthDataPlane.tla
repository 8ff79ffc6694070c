-------------------------- MODULE MCAuthDataPlane --------------------------
(***************************************************************************)
(* Instances of the login path: one account with two versions of its first *)
(* generation, of whose two passwords the second version keeps one, and a  *)
(* version of its second generation, whose version number repeats and      *)
(* whose password is the revoked one.                                      *)
(***************************************************************************)
EXTENDS AuthDataPlane

CONSTANTS alice, acct, p1, p2, LastGeneration, LastVersion

MCGenerations == 1 .. LastGeneration
MCVersions == 1 .. LastVersion
MCOwner == [a \in Accounts |-> alice]
MCCreds == [s \in Scopes |->
    CASE s.gen = 1 /\ s.ver = 1 -> {p1, p2} \cap Passwords
      [] s.gen = 1 /\ s.ver = 2 -> {p2}
      [] s.gen = 2 /\ s.ver = 1 -> {p1}
      [] OTHER -> {}]
=============================================================================
