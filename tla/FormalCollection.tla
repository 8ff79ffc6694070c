-------------------------- MODULE FormalCollection --------------------------
(***************************************************************************)
(* experiments/runners/failure_timing_bench.py, the formal collection of   *)
(* evidence: collect calls compete for one host, which an advisory lock on *)
(* an anchor file and a marker file keep exclusive; a signed nonce allows  *)
(* one collection; the seeds are measured one after the other, each in a   *)
(* child process; the artifact is published once and its verification is   *)
(* registered once.  A call may fail at every step and die at every step;  *)
(* its child outlives it.                                                  *)
(*                                                                         *)
(* All calls carry contracts for the same host, hence the same anchor and  *)
(* marker.  An artifact is the nonce it was collected under and its call.  *)
(***************************************************************************)
EXTENDS Naturals, FiniteSets

CONSTANTS
    Calls, Outputs, Nonces,
    Seeds,    \* the number of seeds of the profile
    Absent, Partial,   \* contents of a file that is not there or not complete
    None

Artifacts == [nonce : Nonces, call : Calls]

ASSUME CollectionConstants ==
    /\ Seeds \in Nat \ {0}
    /\ None \notin Calls
    /\ Absent \notin Artifacts \cup Calls \cup {Partial}
    /\ Partial \notin Artifacts \cup Calls

VARIABLES
    call,        \* the progress of each call, and what it was asked for
    anchor,      \* the call that holds the advisory lock
    marker,      \* the call that created the marker file
    used,        \* nonces with a file in the collection registry
    output,      \* raw output files
    children,    \* calls whose seed child is running
    registry,    \* the verification registry, by nonce
    registering, \* artifacts whose registry file is being written
    measured,    \* history: the calls that started a seed child, by nonce
    accepted     \* history: artifacts whose verification was registered

collectionVars == <<call, anchor, marker, used, output, children,
                    registry, registering, measured, accepted>>
fileVars == <<used, output, registry, registering, accepted>>

CollectionInit ==
    /\ call \in [Calls -> [at : {"new"}, output : Outputs, nonce : Nonces, seeds : {0}]]
    /\ anchor = None
    /\ marker = None
    /\ used = {}
    /\ output = [o \in Outputs |-> Absent]
    /\ children = {}
    /\ registry = [n \in Nonces |-> Absent]
    /\ registering = {}
    /\ measured = [n \in Nonces |-> {}]
    /\ accepted = {}

At(c, place) == call[c].at = place
Goes(c, place) == call' = [call EXCEPT ![c].at = place]

-----------------------------------------------------------------------------
(* collect_raw.                                                            *)

\* _preflight_formal_raw_output and _require_formal_authorization.
Preflight(c) ==
    /\ At(c, "new")
    /\ \/ output[call[c].output] = Absent /\ Goes(c, "authorized")
       \/ Goes(c, "done")
    /\ UNCHANGED <<anchor, marker, children, measured, fileVars>>

\* _acquire_advisory_anchor does not wait for a busy lock.
AcquireAnchor(c) ==
    /\ At(c, "authorized")
    /\ \/ anchor = None /\ anchor' = c /\ Goes(c, "anchored")
       \/ UNCHANGED anchor /\ Goes(c, "done")
    /\ UNCHANGED <<marker, children, measured, fileVars>>

\* Mutant: a marker that is already there is taken over.
CreateMarkerAnyway(c) ==
    /\ At(c, "anchored")
    /\ \/ marker' = c /\ Goes(c, "marking")
       \/ UNCHANGED marker /\ Goes(c, "unlocking")
    /\ UNCHANGED <<anchor, children, measured, fileVars>>

\* The marker file is created exclusively.
CreateMarker(c) ==
    /\ At(c, "anchored")
    /\ \/ marker = None /\ marker' = c /\ Goes(c, "marking")
       \/ UNCHANGED marker /\ Goes(c, "unlocking")
    /\ UNCHANGED <<anchor, children, measured, fileVars>>

\* If it cannot be written it stays, and only the anchor is released.
WriteMarker(c) ==
    /\ At(c, "marking")
    /\ Goes(c, "locked") \/ Goes(c, "unlocking")
    /\ UNCHANGED <<anchor, marker, children, measured, fileVars>>

\* Mutant: the registry file of the nonce is not created exclusively.
ConsumeNonceAgain(c) ==
    /\ At(c, "locked")
    /\ \/ used' = used \cup {call[c].nonce} /\ (Goes(c, "measuring") \/ Goes(c, "releasing"))
       \/ UNCHANGED used /\ Goes(c, "releasing")
    /\ UNCHANGED <<anchor, marker, output, children, registry, registering, measured, accepted>>

\* _consume_nonce, after the check of the signed time window.
ConsumeNonce(c) ==
    /\ At(c, "locked")
    /\ \/ /\ call[c].nonce \notin used
          /\ used' = used \cup {call[c].nonce}
          /\ Goes(c, "measuring") \/ Goes(c, "releasing")
       \/ UNCHANGED used /\ Goes(c, "releasing")
    /\ UNCHANGED <<anchor, marker, output, children, registry, registering, measured, accepted>>

\* _launch_seed_child, until the child runs.
StartSeed(c) ==
    /\ At(c, "measuring") /\ call[c].seeds < Seeds
    /\ children' = children \cup {c}
    /\ measured' = [measured EXCEPT ![call[c].nonce] = @ \cup {c}]
    /\ Goes(c, "waiting")
    /\ UNCHANGED <<anchor, marker, fileVars>>

\* The child has ended, or was terminated; nothing is tried again.
EndSeed(c) ==
    /\ At(c, "waiting")
    /\ children' = children \ {c}
    /\ \/ call' = [call EXCEPT ![c].at = "measuring", ![c].seeds = @ + 1]
       \/ Goes(c, "releasing")
    /\ UNCHANGED <<anchor, marker, measured, fileVars>>

\* _write_json_exclusive creates the output, unless something failed before.
CreateOutput(c) ==
    /\ At(c, "measuring") /\ call[c].seeds = Seeds
    /\ LET o == call[c].output
       IN  \/ output[o] = Absent /\ output' = [output EXCEPT ![o] = Partial] /\ Goes(c, "publishing")
           \/ UNCHANGED output /\ Goes(c, "releasing")
    /\ UNCHANGED <<anchor, marker, used, children, registry, registering, measured, accepted>>

WriteOutput(c) ==
    /\ At(c, "publishing")
    /\ output' \in {output, [output EXCEPT ![call[c].output] =
                                [nonce |-> call[c].nonce, call |-> c]]}
    /\ Goes(c, "releasing")
    /\ UNCHANGED <<anchor, marker, used, children, registry, registering, measured, accepted>>

\* Anything else that fails under the lock ends in its release.
FailUnderLock(c) ==
    /\ At(c, "measuring")
    /\ Goes(c, "releasing")
    /\ UNCHANGED <<anchor, marker, children, measured, fileVars>>

\* _ExclusiveHostLock.release: a marker that is not the call's own, or cannot be
\* removed, stays; the anchor is released after it in any case.
RemoveMarker(c) ==
    /\ At(c, "releasing")
    /\ marker' \in {marker, None} /\ (marker # c => UNCHANGED marker)
    /\ Goes(c, "unlocking")
    /\ UNCHANGED <<anchor, children, measured, fileVars>>

ReleaseAnchor(c) ==
    /\ At(c, "unlocking")
    /\ anchor' = None
    /\ Goes(c, "done")
    /\ UNCHANGED <<marker, children, measured, fileVars>>

-----------------------------------------------------------------------------
(* Death and disposition.                                                  *)

\* The system drops the advisory lock of a call that dies, not its files, and
\* not its child.
CallDies(c) ==
    /\ ~At(c, "new") /\ ~At(c, "done")
    /\ Goes(c, "done")
    /\ anchor' = IF anchor = c THEN None ELSE anchor
    /\ UNCHANGED <<marker, children, measured, fileVars>>

OrphanEnds(c) ==
    /\ At(c, "done") /\ c \in children
    /\ children' = children \ {c}
    /\ UNCHANGED <<call, anchor, marker, measured, fileVars>>

\* The auditor removes what a call left behind, when call and child are gone.
DisposeOfMarker ==
    /\ marker # None /\ At(marker, "done") /\ marker \notin children
    /\ marker' = None
    /\ UNCHANGED <<call, anchor, children, measured, fileVars>>

DisposeOfOutput(o) ==
    /\ output[o] = Partial
    /\ \A c \in Calls : call[c].output = o => ~At(c, "publishing")
    /\ output' = [output EXCEPT ![o] = Absent]
    /\ UNCHANGED <<call, anchor, marker, used, children, registry, registering, measured, accepted>>

-----------------------------------------------------------------------------
(* _register_verification_nonce, at the end of validate_raw.               *)

Registering(artifacts) ==
    /\ registering' = artifacts
    /\ UNCHANGED <<call, anchor, marker, used, output, children, measured>>

OpenRegistration(a) ==
    /\ registry[a.nonce] = Absent
    /\ registry' = [registry EXCEPT ![a.nonce] = Partial]
    /\ Registering(registering \cup {a})
    /\ UNCHANGED accepted

WriteRegistration(a) ==
    /\ a \in registering
    /\ registry' = [registry EXCEPT ![a.nonce] = a.call]
    /\ accepted' = accepted \cup {a}
    /\ Registering(registering \ {a})

\* The verification dies or fails while it writes.
LoseRegistration(a) ==
    /\ a \in registering
    /\ registry' \in {registry, [registry EXCEPT ![a.nonce] = a.call]}
    /\ Registering(registering \ {a})
    /\ UNCHANGED accepted

\* A nonce that is registered already must be registered for this artifact.
RepeatRegistration(a) ==
    /\ registry[a.nonce] = a.call
    /\ accepted' = accepted \cup {a}
    /\ Registering(registering)
    /\ UNCHANGED registry

-----------------------------------------------------------------------------
CallStep(c) ==
    \/ Preflight(c) \/ AcquireAnchor(c) \/ CreateMarker(c) \/ WriteMarker(c)
    \/ ConsumeNonce(c) \/ StartSeed(c) \/ EndSeed(c)
    \/ CreateOutput(c) \/ WriteOutput(c) \/ FailUnderLock(c)
    \/ RemoveMarker(c) \/ ReleaseAnchor(c)

Verification(a) ==
    \/ a \in {output[o] : o \in Outputs} /\ (OpenRegistration(a) \/ RepeatRegistration(a))
    \/ WriteRegistration(a) \/ LoseRegistration(a)

CollectionNext ==
    \/ \E c \in Calls : CallStep(c) \/ CallDies(c) \/ OrphanEnds(c)
    \/ DisposeOfMarker \/ \E o \in Outputs : DisposeOfOutput(o)
    \/ \E a \in Artifacts : Verification(a)

CollectionSpec == CollectionInit /\ [][CollectionNext]_collectionVars

-----------------------------------------------------------------------------
\* One seed child measures at a time on the host, children of calls that died
\* included: the anchor alone does not say so, a dead call no longer holds it.
MeasurementsDisjoint == Cardinality(children) <= 1

\* A nonce stands for one measurement, whatever fails or dies: no other call
\* measures under it, every artifact that names it is that call's, and its
\* verifications accept this artifact only.
NonceBindsOneCall ==
    \A n \in Nonces :
        /\ Cardinality(measured[n]) <= 1
        /\ \A a \in Artifacts :
              a.nonce = n /\ (a \in accepted \/ \E o \in Outputs : output[o] = a)
                  => measured[n] = {a.call}
=============================================================================
