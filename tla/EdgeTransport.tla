--------------------------- MODULE EdgeTransport ---------------------------
(***************************************************************************)
(* experiments/runners/service_fault_evidence.py, the recovery path: an    *)
(* edge process with a state file, and the transport proxy that delivers   *)
(* recovery messages to it over loopback connections.  Leases expire;      *)
(* messages are delayed, lost, doubled or swapped; the edge is killed and  *)
(* restarted, its file corrupted.  The coordinator may ask for these in    *)
(* any order here; its own script is one such order.                       *)
(*                                                                         *)
(* A process identity is a session and a port; a new session may get an    *)
(* old port.  A message is its sequence number.  The readiness an edge     *)
(* writes and the certainty of its replica change together under its lock. *)
(***************************************************************************)
EXTENDS Naturals, Sequences

CONSTANTS
    Ports,
    MaxSequence,   \* bound: sequence numbers the producer uses
    MaxSession,    \* bound: sessions of each restarted process
    Productions    \* what a producer may ask for: [delayed, deliveries]

Sequences == 1 .. MaxSequence
\* What an edge thread holds the lock for: a delivery, or an expiry.
Expiry == [seq |-> 0, named |-> FALSE, awaited |-> FALSE]

ASSUME TransportConstants ==
    /\ MaxSequence \in Nat /\ MaxSession \in Nat \ {0}
    /\ Ports \subseteq Nat /\ 1 \in Ports
    /\ Productions \subseteq [delayed : BOOLEAN, deliveries : Seq(Sequences)]

VARIABLES
    file,          \* edge-state.json
    edge,          \* _EdgeApplication
    saving,        \* the change an edge thread has not persisted yet, if any
    wire,          \* deliveries sent to the edge and not handled yet
    production,    \* the request a proxy thread works on
    proxyEdge,     \* the edge the proxy was told of
    revoked,       \* no recovery was saved since an acknowledged expiry or a corruption
    reported       \* the highest sequence reported as applied since a corruption

transportVars == <<file, edge, saving, wire, production, proxyEdge, revoked, reported>>

NoProduction == [phase |-> "idle", queue |-> <<>>, time |-> "early", released |-> FALSE]

-----------------------------------------------------------------------------
(* Edge state.                                                             *)

\* Mutant: a state file that does not match its identity is used as it is.
LoadedOfAnyFile == [ready |-> file.ready, seq |-> file.seq]

\* _load_edge_state: what a starting edge makes of the file.
Loaded == IF file.intact
          THEN [ready |-> file.ready, seq |-> file.seq]
          ELSE [ready |-> FALSE, seq |-> 0]

\* _EdgeApplication.__init__ in a new process.
StartedEdge(session, port) ==
    [up |-> TRUE, session |-> session, port |-> port,
     ready |-> Loaded.ready, seq |-> Loaded.seq,
     applied |-> FALSE]   \* a message was applied since start and expiry

TransportInit ==
    /\ file = [intact |-> TRUE, ready |-> TRUE, seq |-> 0]
    /\ edge = StartedEdge(1, 1)
    /\ proxyEdge = [session |-> 1, port |-> 1]
    /\ saving = {}
    /\ wire = {}
    /\ production = NoProduction
    /\ revoked = FALSE
    /\ reported = 0

\* lease_expire: the edge is uncertain before the file says so.
ExpireLease ==
    /\ edge.up /\ saving = {}
    /\ edge' = [edge EXCEPT !.ready = FALSE, !.applied = FALSE]
    /\ saving' = {Expiry}
    /\ UNCHANGED <<file, wire, production, proxyEdge, revoked, reported>>

\* _apply_message, up to _persist, of a message that is newer.
Apply(d) ==
    /\ edge.up /\ saving = {}
    /\ d \in wire
    /\ d.seq > edge.seq
    /\ edge' = [edge EXCEPT !.seq = d.seq, !.ready = TRUE, !.applied = TRUE]
    /\ saving' = {d}
    /\ UNCHANGED <<file, wire, production, proxyEdge, revoked, reported>>

\* The response of a delivery reaches the proxy's thread if it still waits; it
\* is refused when the edge is not the one the proxy was told of.
Respond(d) ==
    /\ wire' = wire \ {d}
    /\ production' = IF ~d.awaited THEN production
                     ELSE IF ~d.named \/ Len(production.queue) = 1 THEN NoProduction
                     ELSE [production EXCEPT !.queue = Tail(@)]

\* The edge's thread fails and its connection closes.
Drop(d) ==
    /\ wire' = wire \ {d}
    /\ production' = IF d.awaited THEN NoProduction ELSE production

\* _apply_message of a message that is not newer: DUPLICATE or STALE.
Ignore(d) ==
    /\ edge.up /\ saving = {}
    /\ d \in wire
    /\ d.seq <= edge.seq
    /\ Respond(d)
    /\ UNCHANGED <<file, edge, saving, proxyEdge, revoked, reported>>

\* Mutant: the sequence is not written with the rest of the state.
SavedWithoutSequence == [intact |-> TRUE, ready |-> edge.ready, seq |-> file.seq]

\* _persist replaces the file as a whole.
Saved == [intact |-> TRUE, ready |-> edge.ready, seq |-> edge.seq]

SaveExpiry ==
    /\ saving = {Expiry}
    /\ file' = Saved
    /\ saving' = {}
    /\ revoked' = TRUE
    /\ UNCHANGED <<edge, wire, production, proxyEdge, reported>>

SaveRecovery(d) ==
    /\ saving = {d}
    /\ file' = Saved
    /\ saving' = {}
    /\ revoked' = FALSE
    /\ reported' = IF d.seq > reported THEN d.seq ELSE reported
    /\ Respond(d)
    /\ UNCHANGED <<edge, proxyEdge>>

\* _persist raises: what was changed in memory stays changed.
SaveFails ==
    /\ saving' = {}
    /\ \/ saving = {Expiry} /\ UNCHANGED <<wire, production>>
       \/ \E d \in wire : saving = {d} /\ Drop(d)
    /\ UNCHANGED <<file, edge, proxyEdge, revoked, reported>>

-----------------------------------------------------------------------------
(* The proxy.                                                              *)

\* produce; nothing is delivered of a lost message.
Produce(p) ==
    /\ production.phase = "idle"
    /\ p.deliveries # <<>>
    /\ production' = [NoProduction EXCEPT !.phase = IF p.delayed THEN "delay" ELSE "deliver",
                                          !.queue = p.deliveries]
    /\ UNCHANGED <<file, edge, saving, wire, proxyEdge, revoked, reported>>

\* delay_release: the login the delay was meant to outlast has completed.
Release ==
    /\ production.phase = "delay" /\ ~production.released
    /\ production' = [production EXCEPT !.released = TRUE]
    /\ UNCHANGED <<file, edge, saving, wire, proxyEdge, revoked, reported>>

\* not_before_ns, then hard_deadline_ns.
DelayPasses ==
    /\ production.phase = "delay" /\ production.time # "late"
    /\ production' = [production EXCEPT !.time = IF @ = "early" THEN "due" ELSE "late"]
    /\ UNCHANGED <<file, edge, saving, wire, proxyEdge, revoked, reported>>

\* Mutant: the wait for the release has no deadline.
EndDelayReleased ==
    /\ production.phase = "delay"
    /\ production.time # "early" /\ production.released
    /\ production' = [production EXCEPT !.phase = "deliver"]
    /\ UNCHANGED <<file, edge, saving, wire, proxyEdge, revoked, reported>>

\* The producer's wait ends with the release or, without it, at the deadline.
EndDelay ==
    /\ production.phase = "delay"
    /\ \/ /\ production.time # "early" /\ production.released
          /\ production' = [production EXCEPT !.phase = "deliver"]
       \/ /\ production.time = "late" /\ ~production.released
          /\ production' = NoProduction
    /\ UNCHANGED <<file, edge, saving, wire, proxyEdge, revoked, reported>>

Awaiting == \E d \in wire : d.awaited

\* _deliver: connect to the edge, or fail.
Deliver ==
    /\ production.phase = "deliver" /\ ~Awaiting
    /\ IF edge.up /\ edge.port = proxyEdge.port
       THEN /\ wire' = wire \cup {[seq |-> Head(production.queue),
                                   named |-> edge.session = proxyEdge.session,
                                   awaited |-> TRUE]}
            /\ UNCHANGED production
       ELSE production' = NoProduction /\ UNCHANGED wire
    /\ UNCHANGED <<file, edge, saving, proxyEdge, revoked, reported>>

\* The proxy stops waiting; the edge may still handle the delivery.
DeliveryTimesOut(d) ==
    /\ d \in wire /\ d.awaited
    /\ LET late == [d EXCEPT !.awaited = FALSE, !.named = FALSE]
       IN  /\ wire' = (wire \ {d}) \cup {late}
           /\ saving' = IF saving = {d} THEN {late} ELSE saving
    /\ production' = NoProduction
    /\ UNCHANGED <<file, edge, proxyEdge, revoked, reported>>

-----------------------------------------------------------------------------
(* Processes.                                                              *)

\* The edge is killed or dies: its threads and their connections go with it.
EdgeDies ==
    /\ edge.up
    /\ edge' = [edge EXCEPT !.up = FALSE]
    /\ saving' = {}
    /\ wire' = {}
    /\ production' = IF Awaiting THEN NoProduction ELSE production
    /\ UNCHANGED <<file, proxyEdge, revoked, reported>>

\* The coordinator overwrites the state file of a stopped edge.
CorruptFile ==
    /\ ~edge.up
    /\ file' = [file EXCEPT !.intact = FALSE]
    /\ revoked' = TRUE
    /\ reported' = 0
    /\ UNCHANGED <<edge, saving, wire, production, proxyEdge>>

EdgeStarts ==
    /\ ~edge.up /\ edge.session < MaxSession
    /\ \E p \in Ports :
          edge' = StartedEdge(edge.session + 1, p)
    /\ UNCHANGED <<file, saving, wire, production, proxyEdge, revoked, reported>>

\* set_edge.
UpdateProxy ==
    /\ edge.up
    /\ proxyEdge' = [session |-> edge.session, port |-> edge.port]
    /\ UNCHANGED <<file, edge, saving, wire, production, revoked, reported>>

-----------------------------------------------------------------------------
EdgeStep == \/ \E d \in wire : Apply(d) \/ Ignore(d) \/ SaveRecovery(d)
            \/ SaveExpiry \/ SaveFails
ProxyStep == DelayPasses \/ EndDelay \/ Deliver \/ \E d \in wire : DeliveryTimesOut(d)

TransportNext ==
    \/ ExpireLease \/ EdgeStep \/ ProxyStep
    \/ (\E p \in Productions : Produce(p)) \/ Release
    \/ EdgeDies \/ CorruptFile \/ EdgeStarts \/ UpdateProxy

TransportSpec == TransportInit /\ [][TransportNext]_transportVars

\* The proxy's threads run and time passes for them.
FairTransportSpec == TransportSpec /\ WF_transportVars(ProxyStep)

-----------------------------------------------------------------------------
\* An acknowledged expiry, and the loss of the state file, outlive the process:
\* until a recovery was saved the file does not make a new edge ready, and an
\* edge is ready only by a message applied in its own lifetime.
ExpiryIsHonoured ==
    revoked => /\ ~(file.intact /\ file.ready)
               /\ edge.up /\ edge.ready => edge.applied

\* What was reported as applied is in the file, whatever dies when, so that a
\* repetition is recognised after any restart.
ReportedIsDurable == file.intact => reported <= file.seq

\* Whatever a producer asked for ends, although its release may never come and
\* the edge may not answer.
ProductionEnds == production.phase # "idle" ~> production.phase = "idle"
=============================================================================
