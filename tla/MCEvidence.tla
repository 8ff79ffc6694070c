----------------------------- MODULE MCEvidence -----------------------------
(***************************************************************************)
(* The processes that produce evidence: the edge and its transport, the    *)
(* edge and its backend, and the formal collection.  They share nothing    *)
(* that matters here, so a behaviour explores one of them.  The producer   *)
(* of messages makes one request of each kind: delayed, doubled, swapped   *)
(* and plain.                                                              *)
(***************************************************************************)
EXTENDS EdgeTransport, RemoteBackend, FormalCollection

CONSTANTS c1, c2, c3, o1, o2, n1, n2

VARIABLE part
evidenceVars == <<part, transportVars, callVars, collectionVars>>

MCProductions ==
    {[delayed |-> TRUE, deliveries |-> <<1>>], [delayed |-> FALSE, deliveries |-> <<1, 1>>],
     [delayed |-> FALSE, deliveries |-> <<2, 1>>], [delayed |-> FALSE, deliveries |-> <<2>>]}

EvidenceInit ==
    /\ part \in {"transport", "calls", "collection"}
    /\ TransportInit /\ CallInit /\ CollectionInit
    /\ part # "collection" => \A c \in Calls : call[c].output = o1 /\ call[c].nonce = n1

EvidenceNext ==
    \/ part = "transport" /\ TransportNext /\ UNCHANGED <<part, callVars, collectionVars>>
    \/ part = "calls" /\ CallNext /\ UNCHANGED <<part, transportVars, collectionVars>>
    \/ part = "collection" /\ CollectionNext /\ UNCHANGED <<part, transportVars, callVars>>

FairEvidenceSpec ==
    EvidenceInit /\ [][EvidenceNext]_evidenceVars
    /\ WF_transportVars(part = "transport" /\ ProxyStep)
=============================================================================
