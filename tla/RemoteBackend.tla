--------------------------- MODULE RemoteBackend ---------------------------
(***************************************************************************)
(* experiments/runners/service_fault_evidence.py, the login path: an edge  *)
(* process that asks a backend process over loopback connections.  The     *)
(* backend crashes, drops, garbles or delays what it is asked, fails by    *)
(* injection, and is restarted; the edge is told of the new process or     *)
(* not.  The coordinator asks for one login at a time.                     *)
(*                                                                         *)
(* A process identity is a session and a port; a new session may get an    *)
(* old port.  The login is the data plane's (AuthDataPlane) for one        *)
(* account that does not change, both of whose probe passwords pass the    *)
(* screen; the certainty of the edge changes as EdgeTransport says, and is *)
(* free here.                                                              *)
(***************************************************************************)
EXTENDS Naturals

CONSTANTS
    BackendPorts,
    MaxBackendSession   \* bound: sessions of the backend

ASSUME RemoteBackendConstants ==
    MaxBackendSession \in Nat \ {0} /\ 1 \in BackendPorts

Credentials == {"VALID", "INVALID"}
Uncertain == {"TRANSIENT_FAILURE", "PARTIAL_AUTHENTICATOR_FAILURE"}
Injected == [typed_transient_failure |-> "TRANSIENT_FAILURE",
             typed_partial_failure |-> "PARTIAL_AUTHENTICATOR_FAILURE"]
BackendFaults == {"normal", "crash", "drop", "malformed", "timeout"} \cup DOMAIN Injected

VARIABLES
    server,   \* _BackendApplication
    client,   \* _EdgeApplication: certainty, negative cache, the backend it was told of
    login     \* the login an edge thread works on, and its answer

callVars == <<server, client, login>>

NoProcess == [session |-> 0, port |-> 0]
NoLogin == [phase |-> "idle", credential |-> "VALID", certain |-> FALSE,
            callee |-> NoProcess, kind |-> "MATCH", named |-> FALSE]

StartedServer(session, port) ==
    [up |-> TRUE, session |-> session, port |-> port,
     injected |-> {},        \* inject_once
     sleeping |-> FALSE]     \* a thread that nobody waits for will still compare

ServerIdentity == [session |-> server.session, port |-> server.port]

CallInit ==
    /\ server = StartedServer(1, 1)
    /\ client = [certain |-> TRUE, cached |-> {}, callee |-> [session |-> 1, port |-> 1]]
    /\ login = NoLogin

-----------------------------------------------------------------------------
Answered(c, kind, named) ==
    login' = [NoLogin EXCEPT !.phase = "done", !.credential = c, !.kind = kind, !.named = named]

\* begin_observation, then authenticate up to the backend.
LoginBegins(c) ==
    /\ login.phase = "idle"
    /\ IF client.certain /\ c \in client.cached
       THEN Answered(c, "CACHED", FALSE)
       ELSE login' = [NoLogin EXCEPT !.phase = "verify", !.credential = c,
                         !.certain = client.certain, !.callee = client.callee]
    /\ UNCHANGED <<server, client>>

\* The call reaches whoever listens on the port the edge was told of.
Reached == server.up /\ server.port = login.callee.port

Truth(c) == IF c = "VALID" THEN "MATCH" ELSE "MISMATCH"

\* Mutant: a response is not compared with the identity the edge was told of.
ReceivedFromAnyone(kind) ==
    [login EXCEPT !.phase = "answered", !.kind = kind, !.callee = NoProcess,
                  !.named = server.session = login.callee.session]

\* Every failure of a call is a transient failure of the backend.
Failed == [login EXCEPT !.phase = "answered", !.kind = "TRANSIENT_FAILURE",
                        !.callee = NoProcess, !.named = FALSE]

\* A response of another process than the one the edge was told of is a failure.
Received(kind) ==
    IF server.session = login.callee.session
    THEN [login EXCEPT !.phase = "answered", !.kind = kind, !.callee = NoProcess, !.named = TRUE]
    ELSE Failed

\* InMemoryBackend.verify takes an injected failure if there is one.
Compare ==
    /\ login' = Received(IF server.injected = {} THEN Truth(login.credential)
                         ELSE CHOOSE kind \in server.injected : TRUE)
    /\ server' = [server EXCEPT !.injected = {}]

\* verify on the backend, with the fault the coordinator chose.
Verify(fault) ==
    /\ login.phase = "verify" /\ Reached
    /\ \/ fault = "normal" /\ Compare
       \/ fault \in {"drop", "malformed"} /\ login' = Failed /\ UNCHANGED server
       \/ fault = "crash" /\ login' = Failed /\ server' = [server EXCEPT !.up = FALSE]
       \/ fault = "timeout" /\ login' = Failed /\ server' = [server EXCEPT !.sleeping = TRUE]
       \/ /\ fault \in DOMAIN Injected
          /\ login' = [login EXCEPT !.phase = "injected"]
          /\ server' = [server EXCEPT !.injected = {Injected[fault]}]
    /\ UNCHANGED client

VerifyInjected ==
    /\ login.phase = "injected" /\ Reached
    /\ Compare
    /\ UNCHANGED client

\* A thread the edge no longer waits for compares, and takes what was injected.
SleeperWakes ==
    /\ server.up /\ server.sleeping
    /\ server' = [server EXCEPT !.sleeping = FALSE, !.injected = {}]
    /\ UNCHANGED <<login, client>>

\* No connection, or the edge stops waiting for a thread that will answer late.
CallFails ==
    /\ login.phase \in {"verify", "injected", "finalize"}
    /\ login' = Failed
    /\ \/ login.phase # "injected" /\ UNCHANGED server
       \/ login.phase # "finalize" /\ Reached /\ server' = [server EXCEPT !.sleeping = TRUE]
    /\ UNCHANGED client

\* A match is finalized in a second call, to the process the edge knows by then.
BeginFinalize ==
    /\ login.phase = "answered" /\ login.kind = "MATCH"
    /\ login' = [login EXCEPT !.phase = "finalize", !.callee = client.callee]
    /\ UNCHANGED <<server, client>>

Finalize ==
    /\ login.phase = "finalize" /\ Reached
    /\ IF server.session = login.callee.session
       THEN Answered(login.credential, "MATCH", TRUE)
       ELSE login' = Failed
    /\ UNCHANGED <<server, client>>

CachesMismatch == login.certain /\ login.kind = "MISMATCH"

LoginEnds ==
    /\ login.phase = "answered" /\ login.kind # "MATCH"
    /\ Answered(login.credential, login.kind, login.named)
    /\ client' = IF CachesMismatch
                 THEN [client EXCEPT !.cached = @ \cup {login.credential}] ELSE client
    /\ UNCHANGED server

\* The coordinator reads the answer.
LoginCollected ==
    /\ login.phase = "done"
    /\ login' = NoLogin
    /\ UNCHANGED <<server, client>>

-----------------------------------------------------------------------------
\* The edge: its lease expires or is recovered, a cached mismatch times out, the
\* process is replaced.
CertaintyChanges ==
    /\ client' = [client EXCEPT !.certain = ~@]
    /\ UNCHANGED <<server, login>>

ForgetMismatch ==
    /\ client.cached # {}
    /\ client' = [client EXCEPT !.cached = {}]
    /\ UNCHANGED <<server, login>>

ClientRestarts ==
    /\ client' \in [certain : BOOLEAN, cached : {{}}, callee : {ServerIdentity}]
    /\ login' = NoLogin
    /\ UNCHANGED server

\* set_backend.
UpdateClient ==
    /\ client' = [client EXCEPT !.callee = ServerIdentity]
    /\ UNCHANGED <<server, login>>

ServerStarts ==
    /\ ~server.up /\ server.session < MaxBackendSession
    /\ \E p \in BackendPorts : server' = StartedServer(server.session + 1, p)
    /\ UNCHANGED <<client, login>>

CallNext ==
    \/ \E c \in Credentials : LoginBegins(c)
    \/ \E fault \in BackendFaults : Verify(fault)
    \/ VerifyInjected \/ SleeperWakes \/ CallFails
    \/ BeginFinalize \/ Finalize \/ LoginEnds \/ LoginCollected
    \/ CertaintyChanges \/ ForgetMismatch \/ ClientRestarts \/ UpdateClient \/ ServerStarts

CallSpec == CallInit /\ [][CallNext]_callVars

-----------------------------------------------------------------------------
\* Whatever fails, and whoever answers on an old port: a valid credential is
\* accepted or meets an uncertain backend, an invalid one is never accepted, and
\* a definite answer comes from the backend process the edge was told of.
LoginIsRight ==
    login.phase = "done" =>
        /\ login.credential = "VALID" => login.kind \in {"MATCH"} \cup Uncertain
        /\ login.credential = "INVALID" => login.kind # "MATCH"
        /\ login.kind \in {"MATCH", "MISMATCH"} => login.named
=============================================================================
