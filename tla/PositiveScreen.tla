--------------------------- MODULE PositiveScreen ---------------------------
(***************************************************************************)
(* dataplane/positive.py: the one-sided positive screen.  Each scope has a *)
(* delta and a compacted base representation, each with the epoch of its   *)
(* last complete publication (0 when there is none), and each edge holds   *)
(* at most one certificate per scope.  A scope's router region depends on  *)
(* fields of its only view, so the region level of the maps is left out.   *)
(***************************************************************************)
EXTENDS Credentials

VARIABLES
    base, delta,               \* _base, _delta: scope -> represented passwords
    baseEpoch, deltaEpoch,     \* _base_epoch, _delta_epoch
    certificates,              \* _certificates: (edge, scope) -> certificate
    issued,                    \* certificates handed to callers so far
    nextRepresentationEpoch    \* _next_representation_epoch

screenVars == <<base, delta, baseEpoch, deltaEpoch, certificates, issued,
                nextRepresentationEpoch>>

Sources == {"POSITIVE_DELTA", "COMPACTED_BASE"}

\* RepresentationCertificate; its signature covers every field.
Certificates == [edge : Edges, scope : Scopes, watermark : Nat, epoch : Nat,
                 source : Sources]

ScreenTypeOK ==
    /\ base \in [Scopes -> SUBSET Passwords]
    /\ delta \in [Scopes -> SUBSET Passwords]
    /\ baseEpoch \in [Scopes -> Nat]
    /\ deltaEpoch \in [Scopes -> Nat]
    /\ certificates \in [Edges \X Scopes -> Certificates \cup {None}]
    /\ issued \in SUBSET Certificates
    /\ nextRepresentationEpoch \in Nat \ {0}

ScreenInit ==
    /\ base = [s \in Scopes |-> {}]
    /\ delta = [s \in Scopes |-> {}]
    /\ baseEpoch = [s \in Scopes |-> 0]
    /\ deltaEpoch = [s \in Scopes |-> 0]
    /\ certificates = [es \in Edges \X Scopes |-> None]
    /\ issued = {}
    /\ nextRepresentationEpoch = 1

-----------------------------------------------------------------------------
PublishDeltaTokens(s) ==
    /\ delta' = [delta EXCEPT ![s] = Creds[s]]
    /\ deltaEpoch' = [deltaEpoch EXCEPT ![s] = nextRepresentationEpoch]
    /\ nextRepresentationEpoch' = nextRepresentationEpoch + 1
    /\ UNCHANGED <<base, baseEpoch, certificates, issued>>

\* Mutant: the base is republished without the delta it should absorb.
CompactForgettingDelta(s) ==
    /\ deltaEpoch[s] # 0
    /\ baseEpoch' = [baseEpoch EXCEPT ![s] = nextRepresentationEpoch]
    /\ nextRepresentationEpoch' = nextRepresentationEpoch + 1
    /\ UNCHANGED <<base, delta, deltaEpoch, certificates, issued>>

\* compact raises before a delta is ready; the base accumulates the delta.
CompactTokens(s) ==
    /\ deltaEpoch[s] # 0
    /\ base' = [base EXCEPT ![s] = base[s] \cup delta[s]]
    /\ baseEpoch' = [baseEpoch EXCEPT ![s] = nextRepresentationEpoch]
    /\ nextRepresentationEpoch' = nextRepresentationEpoch + 1
    /\ UNCHANGED <<delta, deltaEpoch, certificates, issued>>

RetireDelta(s) ==
    /\ baseEpoch[s] # 0
    /\ delta' = [delta EXCEPT ![s] = {}]
    /\ deltaEpoch' = [deltaEpoch EXCEPT ![s] = 0]
    /\ UNCHANGED <<base, baseEpoch, certificates, issued, nextRepresentationEpoch>>

RepresentationEpoch(s, source) ==
    IF source = "POSITIVE_DELTA" THEN deltaEpoch[s] ELSE baseEpoch[s]

Certificate(e, s, watermark, source) ==
    [edge |-> e, scope |-> s, watermark |-> watermark,
     epoch |-> RepresentationEpoch(s, source), source |-> source]

\* issue_certificate raises when the representation is missing.
MayIssue(s, source) == RepresentationEpoch(s, source) # 0

IssueCertificate(e, s, watermark, source) ==
    /\ MayIssue(s, source)
    /\ LET cert == Certificate(e, s, watermark, source) IN
       /\ certificates' = [certificates EXCEPT ![<<e, s>>] = cert]
       /\ issued' = issued \cup {cert}
    /\ UNCHANGED <<base, delta, baseEpoch, deltaEpoch, nextRepresentationEpoch>>

\* install_certificate: only a correctly signed certificate passes, so it is
\* one that was issued, arriving at any later time and any number of times.
InstallCertificate(cert) ==
    /\ cert \in issued
    /\ certificates' = [certificates EXCEPT ![<<cert.edge, cert.scope>>] = cert]
    /\ UNCHANGED <<base, delta, baseEpoch, deltaEpoch, issued, nextRepresentationEpoch>>

ClearEdgeCertificates(e) ==
    /\ certificates' = [es \in Edges \X Scopes |->
                            IF es[1] = e THEN None ELSE certificates[es]]
    /\ UNCHANGED <<base, delta, baseEpoch, deltaEpoch, issued, nextRepresentationEpoch>>

-----------------------------------------------------------------------------
\* _certificate_valid: the signature is recomputed over the directory epoch of
\* the view, so the watermark has to equal it, not merely reach it.
CertificateValid(e, s, viewEpoch) ==
    LET cert == certificates[<<e, s>>] IN
    /\ cert # None
    /\ cert.edge = e
    /\ cert.scope = s
    /\ cert.watermark = viewEpoch
    /\ RepresentationEpoch(s, cert.source) = cert.epoch
    /\ cert.epoch # 0

Represented(s) == base[s] \cup delta[s]

\* query for a PRESENT view.
ScreenQuery(e, s, viewEpoch, pwd) ==
    IF ~CertificateValid(e, s, viewEpoch) THEN "FAIL_OPEN"
    ELSE IF pwd \in Represented(s) THEN "POSITIVE" ELSE "NEGATIVE"
=============================================================================
