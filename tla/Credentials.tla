---------------------------- MODULE Credentials ----------------------------
(***************************************************************************)
(* The identities every component shares.  A scope is the immutable        *)
(* triple (account ID, account generation, credential-set version) that    *)
(* dataplane/types.py builds in DirectoryView.scope: certificates,         *)
(* representations, verifiers and negative keys are all bound to it.       *)
(*                                                                         *)
(* An account ID belongs to one username (Owner), so an ActivationKey      *)
(* (username, account ID, generation, version) is determined by its scope  *)
(* and the two are one value here.  Creds gives the passwords of the       *)
(* authenticator set a scope is prepared with; it never changes, because   *)
(* a key is immutable once prepared.  Salted tokens and verifiers are      *)
(* injective functions of (scope, password) up to hash collisions, so a    *)
(* token of a scope is represented by its password.                        *)
(***************************************************************************)
EXTENDS Naturals, FiniteSets

CONSTANTS Users, Edges, Accounts, Generations, Versions, Passwords,
          Owner, Creds, None

\* DirectoryView.scope / ActivationKey
Scopes == [acct : Accounts, gen : Generations, ver : Versions]

ASSUME IdentityAssumption ==
    /\ Generations \subseteq Nat \ {0}
    /\ Versions \subseteq Nat \ {0}
    /\ Owner \in [Accounts -> Users]
    /\ Creds \in [Scopes -> SUBSET Passwords]
    /\ None \notin Scopes
    /\ None \notin Users

SameIdentity(s, t) == s.acct = t.acct /\ s.gen = t.gen

UserOf(s) == Owner[s.acct]
=============================================================================
