------------------------- MODULE ServiceFault_proofs -------------------------
(***************************************************************************)
(* Proofs about the processes of the service-fault experiment: that an     *)
(* acknowledged expiry outlives the edge process and that what was         *)
(* reported as applied is in its file, and that a login over loopback      *)
(* connections is right; for any ports, sequence numbers, requests to the  *)
(* producer and numbers of sessions.                                       *)
(***************************************************************************)
EXTENDS EdgeTransport, RemoteBackend, SequenceTheorems, TLAPS

-----------------------------------------------------------------------------
(* The edge's state file.                                                  *)

Deliveries == [seq : Sequences, named : BOOLEAN, awaited : BOOLEAN]

EdgeTypeOK ==
    /\ file \in [intact : BOOLEAN, ready : BOOLEAN, seq : Nat]
    /\ edge \in [up : BOOLEAN, session : Nat, port : Nat, ready : BOOLEAN, seq : Nat,
                 applied : BOOLEAN]
    /\ revoked \in BOOLEAN
    /\ reported \in Nat

\* What the proxy puts on the wire has a sequence number, so that no delivery is
\* taken for an expiry; a thread that delivers has something left to deliver.
ProxyTypeOK ==
    /\ wire \subseteq Deliveries
    /\ production \in [phase : {"idle", "delay", "deliver"}, queue : Seq(Sequences),
                       time : {"early", "due", "late"}, released : BOOLEAN]
    /\ production.phase # "idle" => production.queue # <<>>
    /\ \A d \in wire : d.awaited => /\ production.phase = "deliver"
                                    /\ \A e \in wire : e.awaited => e = d

\* The edge's lock: what is being saved is in memory already.
SavingOK ==
    saving # {} =>
        /\ edge.up
        /\ \/ saving = {Expiry} /\ ~edge.ready
           \/ \E d \in wire : saving = {d} /\ d.seq <= edge.seq

\* A running edge knows what was reported, and a corrupt file owes nothing.
ReportedIsKnown ==
    /\ edge.up => reported <= edge.seq
    /\ ~file.intact => reported = 0

TransportInvariant ==
    /\ EdgeTypeOK /\ ProxyTypeOK /\ SavingOK /\ ReportedIsKnown
    /\ ExpiryIsHonoured /\ ReportedIsDurable

-----------------------------------------------------------------------------
LEMMA TransportInvariantInit == TransportInit => TransportInvariant
<1> SUFFICES ASSUME TransportInit PROVE TransportInvariant
    OBVIOUS
<1>1. file = [intact |-> TRUE, ready |-> TRUE, seq |-> 0] /\ revoked = FALSE /\ reported = 0
    BY DEF TransportInit
<1>2. edge = [up |-> TRUE, session |-> 1, port |-> 1, ready |-> TRUE, seq |-> 0,
              applied |-> FALSE]
    BY <1>1 DEF TransportInit, StartedEdge, Loaded
<1>3. wire = {} /\ saving = {} /\ production = NoProduction
    BY DEF TransportInit
<1>4. EdgeTypeOK
    BY <1>1, <1>2 DEF EdgeTypeOK
<1>5. ProxyTypeOK
    BY <1>3, EmptySeq DEF ProxyTypeOK, NoProduction
<1>6. SavingOK /\ ReportedIsKnown /\ ExpiryIsHonoured /\ ReportedIsDurable
    BY <1>1, <1>2, <1>3 DEF SavingOK, ReportedIsKnown, ExpiryIsHonoured, ReportedIsDurable
<1> QED
    BY <1>4, <1>5, <1>6 DEF TransportInvariant

LEMMA TailOfLonger ==
    ASSUME NEW S, NEW s \in Seq(S), s # <<>>, Len(s) # 1
    PROVE  Tail(s) \in Seq(S) /\ Tail(s) # <<>>
<1>1. Len(s) \in Nat \ {0}
    BY EmptySeq
<1>2. Tail(s) \in Seq(S) /\ Len(Tail(s)) = Len(s) - 1
    BY HeadTailProperties
<1>3. Len(Tail(s)) # 0
    BY <1>1, <1>2
<1>4. Len(<<>>) = 0
    BY EmptySeq
<1> QED
    BY <1>2, <1>3, <1>4

\* A thread of the proxy either ends or goes on with what is left to deliver,
\* whether a response arrives or the connection fails.
LEMMA AnsweredDelivery ==
    ASSUME ProxyTypeOK, NEW d \in wire, Respond(d) \/ Drop(d)
    PROVE  ProxyTypeOK'
<1>1. wire' = wire \ {d}
    BY DEF Respond, Drop
<1>2. CASE production' = NoProduction
    <2>1. d.awaited \/ production.phase = "idle" \/ \A e \in wire : ~e.awaited
        BY <1>2 DEF ProxyTypeOK, Respond, Drop, NoProduction
    <2>2. \A e \in wire' : ~e.awaited
        BY <1>1, <2>1 DEF ProxyTypeOK
    <2> QED
        BY <1>1, <1>2, <2>2, EmptySeq DEF ProxyTypeOK, NoProduction
<1>3. CASE production' = production
    BY <1>1, <1>3 DEF ProxyTypeOK
<1>4. CASE d.awaited /\ Len(production.queue) # 1
           /\ production' = [production EXCEPT !.queue = Tail(@)]
    <2>1. production.phase = "deliver" /\ production.queue \in Seq(Sequences)
          /\ production.queue # <<>>
        BY <1>4 DEF ProxyTypeOK
    <2>2. Len(production.queue) # 1
        BY <1>4
    <2>3. Tail(production.queue) \in Seq(Sequences) /\ Tail(production.queue) # <<>>
        BY <2>1, <2>2, TailOfLonger
    <2>4. production'.phase = "deliver" /\ production'.queue # <<>>
        BY <1>4, <2>1, <2>3 DEF ProxyTypeOK
    <2>5. production' \in [phase : {"idle", "delay", "deliver"}, queue : Seq(Sequences),
                           time : {"early", "due", "late"}, released : BOOLEAN]
        BY <1>4, <2>3 DEF ProxyTypeOK
    <2> QED
        BY <1>1, <2>4, <2>5 DEF ProxyTypeOK
<1> QED
    BY <1>2, <1>3, <1>4 DEF Respond, Drop

-----------------------------------------------------------------------------
\* A lease expires, and the edge's thread works.
LEMMA EdgeStepKeeps ==
    ASSUME TransportInvariant, ExpireLease \/ EdgeStep
    PROVE  TransportInvariant'
<1> USE DEF TransportInvariant
<1>1. CASE ExpireLease
    <2>1. ProxyTypeOK'
        BY <1>1 DEF ExpireLease, ProxyTypeOK
    <2>2. EdgeTypeOK'
        BY <1>1 DEF ExpireLease, EdgeTypeOK
    <2>3. SavingOK' /\ ReportedIsKnown' /\ ExpiryIsHonoured' /\ ReportedIsDurable'
        BY <1>1 DEF ExpireLease, EdgeTypeOK, SavingOK, ReportedIsKnown, ExpiryIsHonoured,
               ReportedIsDurable
    <2> QED
        BY <2>1, <2>2, <2>3
<1>2. ASSUME NEW d \in wire, Apply(d) PROVE TransportInvariant'
    <2>1. d.seq \in Nat
        BY TransportConstants DEF ProxyTypeOK, Deliveries, Sequences
    <2>2. ProxyTypeOK'
        BY <1>2 DEF Apply, ProxyTypeOK
    <2>3. EdgeTypeOK'
        BY <1>2, <2>1 DEF Apply, EdgeTypeOK
    <2>4. SavingOK' /\ ReportedIsKnown' /\ ExpiryIsHonoured' /\ ReportedIsDurable'
        BY <1>2, <2>1 DEF Apply, EdgeTypeOK, SavingOK, ReportedIsKnown, ExpiryIsHonoured,
               ReportedIsDurable
    <2> QED
        BY <2>2, <2>3, <2>4
<1>3. ASSUME NEW d \in wire, Ignore(d) PROVE TransportInvariant'
    <2>1. ProxyTypeOK'
        BY <1>3, AnsweredDelivery DEF Ignore
    <2>2. EdgeTypeOK' /\ SavingOK' /\ ReportedIsKnown' /\ ExpiryIsHonoured' /\ ReportedIsDurable'
        BY <1>3 DEF Ignore, EdgeTypeOK, SavingOK, ReportedIsKnown, ExpiryIsHonoured,
               ReportedIsDurable
    <2> QED
        BY <2>1, <2>2
<1>4. ASSUME NEW d \in wire, SaveRecovery(d) PROVE TransportInvariant'
    <2>1. d.seq \in Nat /\ d.seq > 0
        BY TransportConstants DEF ProxyTypeOK, Deliveries, Sequences
    <2>2. d # Expiry
        BY <2>1 DEF Expiry
    <2>3. edge.up /\ d.seq <= edge.seq
        BY <1>4, <2>2 DEF SaveRecovery, SavingOK
    <2>4. ProxyTypeOK'
        BY <1>4, AnsweredDelivery DEF SaveRecovery
    <2>5. EdgeTypeOK'
        BY <1>4, <2>1 DEF SaveRecovery, Saved, EdgeTypeOK
    <2>6. reported' <= edge.seq
        BY <1>4, <2>1, <2>3 DEF SaveRecovery, ReportedIsKnown, EdgeTypeOK
    <2>7. SavingOK' /\ ReportedIsKnown' /\ ExpiryIsHonoured' /\ ReportedIsDurable'
        BY <1>4, <2>6 DEF SaveRecovery, Saved, EdgeTypeOK, SavingOK, ReportedIsKnown, ExpiryIsHonoured,
               ReportedIsDurable
    <2> QED
        BY <2>4, <2>5, <2>7
<1>5. CASE SaveExpiry
    <2>1. \A d \in wire : d # Expiry
        BY TransportConstants DEF ProxyTypeOK, Deliveries, Sequences, Expiry
    <2>2. edge.up /\ ~edge.ready
        BY <1>5, <2>1 DEF SaveExpiry, SavingOK
    <2>3. ProxyTypeOK'
        BY <1>5 DEF SaveExpiry, ProxyTypeOK
    <2>4. EdgeTypeOK'
        BY <1>5 DEF SaveExpiry, Saved, EdgeTypeOK
    <2>5. SavingOK' /\ ReportedIsKnown' /\ ExpiryIsHonoured' /\ ReportedIsDurable'
        BY <1>5, <2>2 DEF SaveExpiry, Saved, EdgeTypeOK, SavingOK, ReportedIsKnown, ExpiryIsHonoured,
               ReportedIsDurable
    <2> QED
        BY <2>3, <2>4, <2>5
<1>6. CASE SaveFails
    <2>1. ProxyTypeOK'
        <3>1. CASE UNCHANGED <<wire, production>>
            BY <3>1 DEF ProxyTypeOK
        <3>2. CASE \E d \in wire : Drop(d)
            BY <3>2, AnsweredDelivery
        <3> QED
            BY <1>6, <3>1, <3>2 DEF SaveFails
    <2>2. EdgeTypeOK' /\ SavingOK' /\ ReportedIsKnown' /\ ExpiryIsHonoured' /\ ReportedIsDurable'
        BY <1>6 DEF SaveFails, EdgeTypeOK, SavingOK, ReportedIsKnown, ExpiryIsHonoured,
               ReportedIsDurable
    <2> QED
        BY <2>1, <2>2
<1> QED
    BY <1>1, <1>2, <1>3, <1>4, <1>5, <1>6 DEF EdgeStep

-----------------------------------------------------------------------------
\* The proxy leaves the file and the edge alone.
LEMMA ProxyLeavesEdge ==
    ASSUME EdgeTypeOK, ReportedIsKnown, ExpiryIsHonoured, ReportedIsDurable,
           UNCHANGED <<file, edge, revoked, reported>>
    PROVE  EdgeTypeOK' /\ ReportedIsKnown' /\ ExpiryIsHonoured' /\ ReportedIsDurable'
BY DEF EdgeTypeOK, ReportedIsKnown, ExpiryIsHonoured, ReportedIsDurable

LEMMA ProxyStepKeeps ==
    ASSUME TransportInvariant,
           ProxyStep \/ (\E p \in Productions : Produce(p)) \/ Release \/ UpdateProxy
    PROVE  TransportInvariant'
<1> USE DEF TransportInvariant
<1>1. UNCHANGED <<file, edge, revoked, reported>>
    BY DEF ProxyStep, DelayPasses, EndDelay, Deliver, DeliveryTimesOut, Produce, Release,
           UpdateProxy
<1>2. EdgeTypeOK' /\ ReportedIsKnown' /\ ExpiryIsHonoured' /\ ReportedIsDurable'
    BY <1>1, ProxyLeavesEdge
<1> SUFFICES ProxyTypeOK' /\ SavingOK'
    BY <1>2
<1>3. ASSUME NEW p \in Productions, Produce(p) PROVE ProxyTypeOK' /\ SavingOK'
    <2>1. p.deliveries \in Seq(Sequences) /\ p.deliveries # <<>>
        BY <1>3, TransportConstants DEF Produce
    <2>2. production' \in [phase : {"idle", "delay", "deliver"}, queue : Seq(Sequences),
                           time : {"early", "due", "late"}, released : BOOLEAN]
          /\ production'.queue # <<>>
        BY <1>3, <2>1 DEF Produce, NoProduction
    <2>3. \A d \in wire : ~d.awaited
        BY <1>3 DEF Produce, ProxyTypeOK
    <2> QED
        BY <1>3, <2>2, <2>3 DEF Produce, ProxyTypeOK, SavingOK
<1>4. CASE Release \/ DelayPasses
    BY <1>4 DEF Release, DelayPasses, ProxyTypeOK, SavingOK
<1>5. CASE EndDelay
    <2>1. \A d \in wire : ~d.awaited
        BY <1>5 DEF EndDelay, ProxyTypeOK
    <2>2. SavingOK'
        BY <1>5 DEF EndDelay, SavingOK
    <2>3. CASE production' = NoProduction
        BY <1>5, <2>1, <2>2, <2>3, EmptySeq DEF EndDelay, NoProduction, ProxyTypeOK
    <2>4. CASE production' = [production EXCEPT !.phase = "deliver"]
        BY <1>5, <2>1, <2>2, <2>4 DEF EndDelay, ProxyTypeOK
    <2> QED
        BY <1>5, <2>3, <2>4 DEF EndDelay
<1>6. CASE Deliver
    <2>1. Head(production.queue) \in Sequences
        BY <1>6, HeadTailProperties DEF Deliver, ProxyTypeOK
    <2>2. \A d \in wire : ~d.awaited
        BY <1>6 DEF Deliver, Awaiting
    <2>3. SavingOK'
        BY <1>6 DEF Deliver, SavingOK
    <2>4. CASE edge.up /\ edge.port = proxyEdge.port
        <3> DEFINE sent == [seq |-> Head(production.queue),
                            named |-> edge.session = proxyEdge.session, awaited |-> TRUE]
        <3>1. wire' = wire \cup {sent} /\ UNCHANGED production
              /\ production.phase = "deliver"
            BY <1>6, <2>4 DEF Deliver
        <3>2. sent \in Deliveries
            BY <2>1 DEF Deliveries
        <3> HIDE DEF sent
        <3> QED
            BY <2>2, <2>3, <3>1, <3>2 DEF ProxyTypeOK
    <2>5. CASE ~(edge.up /\ edge.port = proxyEdge.port)
        <3>1. UNCHANGED wire /\ production' = NoProduction
            BY <1>6, <2>5 DEF Deliver
        <3> QED
            BY <2>2, <2>3, <3>1, EmptySeq DEF NoProduction, ProxyTypeOK
    <2> QED
        BY <2>4, <2>5
<1>7. ASSUME NEW d \in wire, DeliveryTimesOut(d) PROVE ProxyTypeOK' /\ SavingOK'
    <2> DEFINE late == [d EXCEPT !.awaited = FALSE, !.named = FALSE]
    <2>1. late \in Deliveries /\ late.seq = d.seq /\ ~late.awaited
        BY DEF ProxyTypeOK, Deliveries
    <2>2. wire' = (wire \ {d}) \cup {late} /\ production' = NoProduction /\ d.awaited
        BY <1>7 DEF DeliveryTimesOut
    <2>3. \A e \in wire' : ~e.awaited
        BY <2>1, <2>2 DEF ProxyTypeOK
    <2>4. ProxyTypeOK'
        BY <2>1, <2>2, <2>3, EmptySeq DEF ProxyTypeOK, NoProduction
    <2>5. SavingOK'
        <3>1. saving' = IF saving = {d} THEN {late} ELSE saving
            BY <1>7 DEF DeliveryTimesOut
        <3>2. edge' = edge
            BY <1>1
        <3>3. CASE saving = {d}
            <4>1. d # Expiry
                BY TransportConstants DEF ProxyTypeOK, Deliveries, Sequences, Expiry
            <4>2. edge.up /\ late.seq <= edge.seq
                BY <3>3, <2>1, <4>1 DEF SavingOK
            <4> QED
                BY <3>1, <3>2, <3>3, <4>2, <2>2 DEF SavingOK
        <3>4. CASE saving # {d}
            BY <3>1, <3>2, <3>4, <2>2 DEF SavingOK
        <3> QED
            BY <3>3, <3>4
    <2> QED
        BY <2>4, <2>5
<1>8. CASE UpdateProxy
    BY <1>8 DEF UpdateProxy, ProxyTypeOK, SavingOK
<1> QED
    BY <1>3, <1>4, <1>5, <1>6, <1>7, <1>8 DEF ProxyStep

\* A crash, a corruption of the file and a restart.
LEMMA ProcessStepKeeps ==
    ASSUME TransportInvariant, EdgeDies \/ CorruptFile \/ EdgeStarts
    PROVE  TransportInvariant'
<1> USE DEF TransportInvariant
<1>1. CASE EdgeDies
    <2>1. ProxyTypeOK'
        BY <1>1, EmptySeq DEF EdgeDies, ProxyTypeOK, NoProduction, Awaiting
    <2>2. EdgeTypeOK' /\ SavingOK' /\ ReportedIsKnown' /\ ExpiryIsHonoured' /\ ReportedIsDurable'
        BY <1>1 DEF EdgeDies, EdgeTypeOK, SavingOK, ReportedIsKnown, ExpiryIsHonoured,
               ReportedIsDurable
    <2> QED
        BY <2>1, <2>2
<1>2. CASE CorruptFile
    <2>1. ProxyTypeOK'
        BY <1>2 DEF CorruptFile, ProxyTypeOK
    <2>2. EdgeTypeOK' /\ SavingOK' /\ ReportedIsKnown' /\ ExpiryIsHonoured' /\ ReportedIsDurable'
        BY <1>2 DEF CorruptFile, EdgeTypeOK, SavingOK, ReportedIsKnown, ExpiryIsHonoured,
               ReportedIsDurable
    <2> QED
        BY <2>1, <2>2
<1>3. CASE EdgeStarts
    <2>1. PICK p \in Ports : edge' = StartedEdge(edge.session + 1, p)
        BY <1>3 DEF EdgeStarts
    <2>2. Loaded.ready \in BOOLEAN /\ Loaded.seq \in Nat
        BY DEF Loaded, EdgeTypeOK
    <2>3. EdgeTypeOK'
        BY <1>3, <2>1, <2>2, TransportConstants DEF EdgeStarts, StartedEdge, EdgeTypeOK
    <2>4. edge'.ready = Loaded.ready /\ edge'.seq = Loaded.seq
        BY <2>1 DEF StartedEdge
    <2>5. reported <= Loaded.seq
        BY DEF Loaded, ReportedIsKnown, ReportedIsDurable, EdgeTypeOK
    <2>6. revoked => ~Loaded.ready
        BY DEF Loaded, ExpiryIsHonoured
    <2>7. ProxyTypeOK'
        BY <1>3 DEF EdgeStarts, ProxyTypeOK
    <2>8. SavingOK' /\ ReportedIsKnown' /\ ExpiryIsHonoured' /\ ReportedIsDurable'
        BY <1>3, <2>4, <2>5, <2>6 DEF EdgeStarts, EdgeTypeOK, SavingOK, ReportedIsKnown, ExpiryIsHonoured,
               ReportedIsDurable
    <2> QED
        BY <2>3, <2>7, <2>8
<1> QED
    BY <1>1, <1>2, <1>3

LEMMA TransportInvariantStep ==
    TransportInvariant /\ [TransportNext]_transportVars => TransportInvariant'
<1> SUFFICES ASSUME TransportInvariant, [TransportNext]_transportVars
             PROVE  TransportInvariant'
    OBVIOUS
<1>1. CASE UNCHANGED transportVars
    BY <1>1 DEF transportVars, TransportInvariant, ProxyTypeOK, Awaiting, EdgeTypeOK, SavingOK, ReportedIsKnown, ExpiryIsHonoured,
               ReportedIsDurable
<1> QED
    BY <1>1, EdgeStepKeeps, ProxyStepKeeps, ProcessStepKeeps DEF TransportNext

-----------------------------------------------------------------------------
\* An acknowledged expiry, and the loss of the state file, outlive the edge
\* process, whatever is delivered, lost or repeated and whoever dies when.
THEOREM ExpiryOutlivesProcess == TransportSpec => []ExpiryIsHonoured
<1>1. TransportInvariant => ExpiryIsHonoured
    BY DEF TransportInvariant
<1> QED
    BY <1>1, TransportInvariantInit, TransportInvariantStep, PTL DEF TransportSpec

\* A sequence number an edge reported as applied is in its state file until the
\* file is lost.
THEOREM ReportedSurvives == TransportSpec => []ReportedIsDurable
<1>1. TransportInvariant => ReportedIsDurable
    BY DEF TransportInvariant
<1> QED
    BY <1>1, TransportInvariantInit, TransportInvariantStep, PTL DEF TransportSpec

-----------------------------------------------------------------------------
(* The remote login.                                                       *)

Kinds == {"MATCH", "MISMATCH", "CACHED"} \cup Uncertain
Phases == {"idle", "verify", "injected", "answered", "finalize", "done"}
Identities == [session : Nat, port : BackendPorts \cup {0}]

CallTypeOK ==
    /\ server \in [up : BOOLEAN, session : Nat, port : BackendPorts \cup {0},
                   injected : SUBSET Uncertain, sleeping : BOOLEAN]
    /\ client \in [certain : BOOLEAN, cached : SUBSET Credentials, callee : Identities]
    /\ login \in [phase : Phases, credential : Credentials, certain : BOOLEAN,
                  callee : Identities, kind : Kinds, named : BOOLEAN]

\* What an answer says: a definite kind is the truth about the login's password,
\* told by the process the edge meant.
AnswerRight(answer) ==
    answer.kind \in {"MATCH", "MISMATCH"} =>
        answer.named /\ answer.kind = Truth(answer.credential)

\* Only the invalid password is remembered, and only a match is finalized.
LoginStateRight ==
    /\ client.cached \subseteq {"INVALID"}
    /\ login.phase = "answered" => login.kind # "CACHED" /\ AnswerRight(login)
    /\ login.phase = "finalize" => login.credential = "VALID"
    /\ login.phase = "done" => /\ AnswerRight(login)
                               /\ login.kind = "CACHED" => login.credential = "INVALID"

CallInvariant == CallTypeOK /\ LoginStateRight

LEMMA CallInvariantInit == CallInit => CallInvariant
<1> SUFFICES ASSUME CallInit PROVE CallInvariant
    OBVIOUS
<1>1. server = [up |-> TRUE, session |-> 1, port |-> 1, injected |-> {}, sleeping |-> FALSE]
    BY DEF CallInit, StartedServer
<1>2. client = [certain |-> TRUE, cached |-> {}, callee |-> [session |-> 1, port |-> 1]]
    BY DEF CallInit
<1>3. login = NoLogin
    BY DEF CallInit
<1>4. CallTypeOK
    BY <1>1, <1>2, <1>3, RemoteBackendConstants
       DEF CallTypeOK, NoLogin, NoProcess, Identities, Kinds, Phases, Credentials
<1>5. LoginStateRight
    BY <1>2, <1>3 DEF LoginStateRight, NoLogin
<1> QED
    BY <1>4, <1>5 DEF CallInvariant

LEMMA TruthKind == ASSUME NEW c \in Credentials PROVE Truth(c) \in {"MATCH", "MISMATCH"}
BY DEF Truth, Credentials

-----------------------------------------------------------------------------
\* A failed call leaves an uncertain answer.
LEMMA FailureIsRight ==
    ASSUME CallInvariant, login' = Failed, client' = client
    PROVE  /\ login' \in [phase : Phases, credential : Credentials, certain : BOOLEAN,
                          callee : Identities, kind : Kinds, named : BOOLEAN]
           /\ LoginStateRight'
<1>1. login' = [login EXCEPT !.phase = "answered", !.kind = "TRANSIENT_FAILURE",
                             !.callee = NoProcess, !.named = FALSE]
    BY DEF Failed
<1>2. NoProcess \in Identities
    BY DEF NoProcess, Identities
<1>3. login' \in [phase : Phases, credential : Credentials, certain : BOOLEAN,
                  callee : Identities, kind : Kinds, named : BOOLEAN]
    <2>1. /\ login \in [phase : Phases, credential : Credentials, certain : BOOLEAN,
                        callee : Identities, kind : Kinds, named : BOOLEAN]
          /\ "answered" \in Phases /\ "TRANSIENT_FAILURE" \in Kinds
        BY DEF CallInvariant, CallTypeOK, Phases, Kinds, Uncertain
    <2> QED
        BY <1>1, <1>2, <2>1
<1>4. login'.phase = "answered" /\ login'.kind = "TRANSIENT_FAILURE"
    BY <1>1 DEF CallInvariant, CallTypeOK
<1>5. LoginStateRight'
    BY <1>4 DEF CallInvariant, LoginStateRight, AnswerRight
<1> QED
    BY <1>3, <1>5

\* A comparison tells the truth, or what was injected, and only to the edge that
\* meant this process.
LEMMA CompareIsRight ==
    ASSUME CallInvariant, Compare, client' = client
    PROVE  CallInvariant'
<1> DEFINE kind == IF server.injected = {} THEN Truth(login.credential)
                   ELSE CHOOSE k \in server.injected : TRUE
<1>1. kind \in Kinds \ {"CACHED"}
      /\ (kind \in {"MATCH", "MISMATCH"} => kind = Truth(login.credential))
    <2>1. CASE server.injected = {}
        BY <2>1, TruthKind DEF CallInvariant, CallTypeOK, Kinds
    <2>2. CASE server.injected # {}
        <3>1. kind \in server.injected
            BY <2>2
        <3>2. kind \in Uncertain
            BY <3>1 DEF CallInvariant, CallTypeOK
        <3> QED
            BY <3>2 DEF Kinds, Uncertain
    <2> QED
        BY <2>1, <2>2
<1>2. login' = Received(kind) /\ server' = [server EXCEPT !.injected = {}]
    BY DEF Compare
<1> HIDE DEF kind
<1>3. server' \in [up : BOOLEAN, session : Nat, port : BackendPorts \cup {0},
                   injected : SUBSET Uncertain, sleeping : BOOLEAN]
    BY <1>2 DEF CallInvariant, CallTypeOK
<1>4. CASE server.session = login.callee.session
    <2>1. login' = [login EXCEPT !.phase = "answered", !.kind = kind, !.callee = NoProcess,
                                 !.named = TRUE]
        BY <1>2, <1>4 DEF Received
    <2>2. NoProcess \in Identities
        BY DEF NoProcess, Identities
    <2>3. login' \in [phase : Phases, credential : Credentials, certain : BOOLEAN,
                      callee : Identities, kind : Kinds, named : BOOLEAN]
        BY <1>1, <2>1, <2>2 DEF CallInvariant, CallTypeOK, Phases
    <2>4. /\ login'.phase = "answered" /\ login'.kind = kind /\ login'.named
          /\ login'.credential = login.credential
        BY <2>1 DEF CallInvariant, CallTypeOK
    <2>5. LoginStateRight'
        BY <1>1, <2>4 DEF CallInvariant, LoginStateRight, AnswerRight
    <2> QED
        BY <1>3, <2>3, <2>5 DEF CallInvariant, CallTypeOK
<1>5. CASE server.session # login.callee.session
    <2>1. login' = Failed
        BY <1>2, <1>5 DEF Received
    <2> QED
        BY <1>3, <2>1, FailureIsRight DEF CallInvariant, CallTypeOK
<1> QED
    BY <1>4, <1>5

\* What Answered makes of a login.
LEMMA AnsweredLogin ==
    ASSUME NEW c \in Credentials, NEW kind \in Kinds, NEW named \in BOOLEAN,
           Answered(c, kind, named)
    PROVE  /\ login' \in [phase : Phases, credential : Credentials, certain : BOOLEAN,
                          callee : Identities, kind : Kinds, named : BOOLEAN]
           /\ login'.phase = "done" /\ login'.credential = c
           /\ login'.kind = kind /\ login'.named = named
BY DEF Answered, NoLogin, NoProcess, Identities, Phases, Kinds, Credentials

-----------------------------------------------------------------------------
LEMMA LoginStepKeeps ==
    ASSUME CallInvariant,
           \/ \E c \in Credentials : LoginBegins(c)
           \/ BeginFinalize \/ Finalize \/ LoginEnds \/ LoginCollected
    PROVE  CallInvariant'
<1> USE DEF CallInvariant
<1>1. ASSUME NEW c \in Credentials, LoginBegins(c) PROVE CallInvariant'
    <2>1. CASE client.certain /\ c \in client.cached
        <3>1. Answered(c, "CACHED", FALSE) /\ UNCHANGED <<server, client>> /\ c = "INVALID"
            BY <1>1, <2>1 DEF LoginBegins, LoginStateRight
        <3>2. "CACHED" \in Kinds /\ FALSE \in BOOLEAN
            BY DEF Kinds
        <3>3. CallTypeOK' /\ login'.phase = "done" /\ login'.credential = "INVALID"
              /\ login'.kind = "CACHED"
            BY <3>1, <3>2, AnsweredLogin DEF CallTypeOK
        <3> QED
            BY <3>1, <3>3 DEF LoginStateRight, AnswerRight
    <2>2. CASE ~(client.certain /\ c \in client.cached)
        <3>1. login' = [NoLogin EXCEPT !.phase = "verify", !.credential = c,
                            !.certain = client.certain, !.callee = client.callee]
              /\ UNCHANGED <<server, client>>
            BY <1>1, <2>2 DEF LoginBegins
        <3>2. CallTypeOK'
            BY <3>1 DEF CallTypeOK, NoLogin, Phases, Kinds
        <3>3. login'.phase = "verify"
            BY <3>1 DEF NoLogin
        <3> QED
            BY <3>1, <3>2, <3>3 DEF LoginStateRight
    <2> QED
        BY <2>1, <2>2
<1>2. CASE BeginFinalize
    <2>1. login' = [login EXCEPT !.phase = "finalize", !.callee = client.callee]
          /\ UNCHANGED <<server, client>> /\ login.phase = "answered" /\ login.kind = "MATCH"
        BY <1>2 DEF BeginFinalize
    <2>2. CallTypeOK'
        BY <2>1 DEF CallTypeOK, Phases
    <2>3. login'.phase = "finalize" /\ login'.credential = login.credential
        BY <2>1 DEF CallTypeOK
    <2>4. login.credential = "VALID"
        BY <2>1 DEF LoginStateRight, AnswerRight, Truth
    <2> QED
        BY <2>1, <2>2, <2>3, <2>4 DEF LoginStateRight
<1>3. CASE Finalize
    <2>1. login.credential = "VALID" /\ UNCHANGED <<server, client>>
        BY <1>3 DEF Finalize, LoginStateRight
    <2>2. CASE server.session = login.callee.session
        <3>1. Answered("VALID", "MATCH", TRUE)
            BY <1>3, <2>1, <2>2 DEF Finalize
        <3>2. "VALID" \in Credentials /\ "MATCH" \in Kinds /\ TRUE \in BOOLEAN
            BY DEF Kinds, Credentials
        <3>3. CallTypeOK' /\ login'.phase = "done" /\ login'.credential = "VALID"
              /\ login'.kind = "MATCH" /\ login'.named
            BY <2>1, <3>1, <3>2, AnsweredLogin DEF CallTypeOK
        <3> QED
            BY <2>1, <3>3 DEF LoginStateRight, AnswerRight, Truth
    <2>3. CASE server.session # login.callee.session
        <3>1. login' = Failed
            BY <1>3, <2>3 DEF Finalize
        <3> QED
            BY <2>1, <3>1, FailureIsRight DEF CallTypeOK
    <2> QED
        BY <2>2, <2>3
<1>4. CASE LoginEnds
    <2>1. login.credential \in Credentials /\ login.kind \in Kinds /\ login.named \in BOOLEAN
        BY DEF CallTypeOK
    <2>2. /\ login.phase = "answered" /\ login.kind # "CACHED" /\ AnswerRight(login)
          /\ Answered(login.credential, login.kind, login.named) /\ server' = server
        BY <1>4 DEF LoginEnds, LoginStateRight
    <2>3. client' \in [certain : BOOLEAN, cached : SUBSET Credentials, callee : Identities]
          /\ client'.cached \subseteq client.cached \cup
                (IF login.kind = "MISMATCH" THEN {login.credential} ELSE {})
        BY <1>4, <2>1 DEF LoginEnds, CachesMismatch, CallTypeOK
    <2>4. login.kind = "MISMATCH" => login.credential = "INVALID"
        BY <2>1, <2>2 DEF AnswerRight, Truth, Credentials
    <2>5. CallTypeOK'
        BY <2>1, <2>2, <2>3, AnsweredLogin DEF CallTypeOK
    <2>6. LoginStateRight'
        BY <2>1, <2>2, <2>3, <2>4, AnsweredLogin DEF LoginStateRight, AnswerRight
    <2> QED
        BY <2>5, <2>6
<1>5. CASE LoginCollected
    <2>1. login' = NoLogin /\ UNCHANGED <<server, client>>
        BY <1>5 DEF LoginCollected
    <2> QED
        BY <2>1 DEF CallTypeOK, LoginStateRight, NoLogin, NoProcess, Identities, Phases, Kinds,
                    Credentials
<1> QED
    BY <1>1, <1>2, <1>3, <1>4, <1>5

LEMMA BackendStepKeeps ==
    ASSUME CallInvariant,
           \/ \E fault \in BackendFaults : Verify(fault)
           \/ VerifyInjected \/ SleeperWakes \/ CallFails
    PROVE  CallInvariant'
<1> USE DEF CallInvariant
<1> DEFINE ServerType == [up : BOOLEAN, session : Nat, port : BackendPorts \cup {0},
                          injected : SUBSET Uncertain, sleeping : BOOLEAN]
<1>1. ASSUME NEW fault \in BackendFaults, Verify(fault) PROVE CallInvariant'
    <2>1. client' = client
        BY <1>1 DEF Verify
    <2>2. CASE fault = "normal" /\ Compare
        BY <2>1, <2>2, CompareIsRight
    <2>3. CASE /\ login' = Failed
               /\ \/ server' = server \/ server' = [server EXCEPT !.up = FALSE]
                  \/ server' = [server EXCEPT !.sleeping = TRUE]
        <3>1. server' \in ServerType
            BY <2>3 DEF CallTypeOK
        <3> QED
            BY <2>1, <2>3, <3>1, FailureIsRight DEF CallTypeOK
    <2>4. CASE /\ fault \in DOMAIN Injected
               /\ login' = [login EXCEPT !.phase = "injected"]
               /\ server' = [server EXCEPT !.injected = {Injected[fault]}]
        <3>1. Injected[fault] \in Uncertain
            BY <2>4 DEF Injected, Uncertain
        <3>2. CallTypeOK'
            BY <2>1, <2>4, <3>1 DEF CallTypeOK, Phases
        <3>3. login'.phase = "injected"
            BY <2>4 DEF CallTypeOK
        <3> QED
            BY <2>1, <3>2, <3>3 DEF LoginStateRight
    <2> QED
        BY <1>1, <2>2, <2>3, <2>4 DEF Verify
<1>2. CASE VerifyInjected
    BY <1>2, CompareIsRight DEF VerifyInjected
<1>3. CASE SleeperWakes
    BY <1>3 DEF SleeperWakes, CallTypeOK, LoginStateRight
<1>4. CASE CallFails
    <2>1. login' = Failed /\ client' = client
        BY <1>4 DEF CallFails
    <2>2. server' \in ServerType
        BY <1>4 DEF CallFails, CallTypeOK
    <2> QED
        BY <2>1, <2>2, FailureIsRight DEF CallTypeOK
<1> QED
    BY <1>1, <1>2, <1>3, <1>4

\* The edge forgets, changes its certainty or is replaced; processes come and go.
LEMMA SurroundingStepKeeps ==
    ASSUME CallInvariant,
           CertaintyChanges \/ ForgetMismatch \/ ClientRestarts \/ UpdateClient \/ ServerStarts
    PROVE  CallInvariant'
<1> USE DEF CallInvariant
<1>1. ServerIdentity \in Identities
    BY DEF ServerIdentity, Identities, CallTypeOK
<1>2. CASE CertaintyChanges \/ ForgetMismatch
    <2>1. /\ UNCHANGED <<server, login>> /\ client'.callee = client.callee
          /\ client' \in [certain : BOOLEAN, cached : SUBSET Credentials, callee : Identities]
          /\ client'.cached \subseteq client.cached
        BY <1>2 DEF CertaintyChanges, ForgetMismatch, CallTypeOK
    <2>2. CallTypeOK'
        BY <2>1 DEF CallTypeOK
    <2>3. LoginStateRight'
        BY <2>1 DEF LoginStateRight, AnswerRight
    <2> QED
        BY <2>2, <2>3
<1>3. CASE ClientRestarts
    <2>1. /\ client' \in [certain : BOOLEAN, cached : {{}}, callee : {ServerIdentity}]
          /\ login' = NoLogin /\ server' = server
        BY <1>3 DEF ClientRestarts
    <2>2. CallTypeOK'
        BY <1>1, <2>1 DEF CallTypeOK, NoLogin, NoProcess, Identities, Phases, Kinds, Credentials
    <2>3. LoginStateRight'
        BY <2>1 DEF LoginStateRight, NoLogin
    <2> QED
        BY <2>2, <2>3
<1>4. CASE UpdateClient
    BY <1>1, <1>4 DEF UpdateClient, CallTypeOK, LoginStateRight, AnswerRight
<1>5. CASE ServerStarts
    <2>1. PICK p \in BackendPorts : server' = StartedServer(server.session + 1, p)
        BY <1>5 DEF ServerStarts
    <2>2. UNCHANGED <<client, login>>
        BY <1>5 DEF ServerStarts
    <2> QED
        BY <2>1, <2>2 DEF StartedServer, CallTypeOK, LoginStateRight, AnswerRight
<1> QED
    BY <1>2, <1>3, <1>4, <1>5

LEMMA CallInvariantStep == CallInvariant /\ [CallNext]_callVars => CallInvariant'
<1> SUFFICES ASSUME CallInvariant, [CallNext]_callVars PROVE CallInvariant'
    OBVIOUS
<1>1. CASE UNCHANGED callVars
    BY <1>1 DEF callVars, CallInvariant, CallTypeOK, LoginStateRight, AnswerRight
<1> QED
    BY <1>1, LoginStepKeeps, BackendStepKeeps, SurroundingStepKeeps DEF CallNext

\* Whatever fails, and whoever answers on an old port, a valid credential is
\* accepted or meets an uncertain backend, an invalid one is never accepted, and a
\* definite answer comes from the backend process the edge was told of.
THEOREM RemoteLoginRight == CallSpec => []LoginIsRight
<1>1. CallInvariant => LoginIsRight
    BY DEF CallInvariant, CallTypeOK, LoginStateRight, LoginIsRight, AnswerRight, Truth,
           Credentials, Kinds, Uncertain
<1> QED
    BY <1>1, CallInvariantInit, CallInvariantStep, PTL DEF CallSpec
==============================================================================
