---------------------------- MODULE AuthDataPlane ----------------------------
(***************************************************************************)
(* dataplane/engine.py, AuthDataPlane.authenticate: concurrent logins over *)
(* the verifier backend, the negative cache and the singleflight table,    *)
(* while the control plane rotates and deletes the account.  The control   *)
(* plane is AccountAuthority.  Of the edge's directory replica and screen  *)
(* the logins use what ActivationStateMachine guarantees (PresentIsCurrent *)
(* and ScreenComplete): a view is the authoritative one or not PRESENT, a  *)
(* screen is complete or uncertified, and which of the two is not under    *)
(* the login's control.  The name a login uses is the account's own; an    *)
(* alias is FailOpenReachesAccount's subject there.                        *)
(***************************************************************************)
EXTENDS AccountAuthority, Singleflight

\* The kinds inject_once is used with: a transient failure, one authenticator
\* compared only, and any other kind, reported with no authenticator compared.
CONSTANT InjectedKinds

VARIABLES
    stage,       \* where authenticate(r) stands
    call,        \* r's local state while it is underway, else None
    decision,    \* r's AuthDecision, or None
    negatives,   \* keys with a live entry in the negative cache
    continuous,  \* ghost: requests whose password has been valid throughout
    allowed,     \* ghost: requests whose password some version has accepted
    excuse       \* ghost: why r may be refused although its password is valid

requestVars == <<stage, call, decision>>

ghostVars == <<continuous, allowed, excuse>>

dataPlaneVars == <<authorityVars, flightVars, requestVars, negatives, ghostVars>>

Stages == {"IDLE", "UNCERTAIN", "LOOKED", "MISSED", "FORWARDED", "LEADING", "VERIFIED",
           "WAITING", "COMPARED", "DONE"}

\* The locals of authenticate: the credentials, the scope of the directory view
\* (None unless PRESENT), the screen's disposition, the leader of the flight
\* the call waits for and its comparison result.
Calls == [user : Users, pwd : Passwords, view : Scopes \cup {None},
          screened : {"POSITIVE", "FAIL_OPEN"}, following : Requests \cup {None},
          result : BackendResults \cup {None}]

ASSUME DataPlaneAssumption ==
    /\ Requests \subseteq Nat
    /\ IsFiniteSet(Requests)
    /\ InjectedKinds \subseteq {"TRANSIENT_FAILURE", "PARTIAL_AUTHENTICATOR_FAILURE",
                             "CREDENTIAL_MISMATCH"}
    /\ None \notin BackendResults \cup Calls

Routes == {"BACKEND_MATCH", "BACKEND_DENY", "POSITIVE_SCREEN_REJECT",
           "NEGATIVE_CACHE_REJECT", "FAIL_OPEN_BACKEND"}

\* The outcome of a decision: the kind of its backend result after policy, or
\* NONE when the login was rejected without asking the backend.
Outcomes == ResultKinds \cup {"MATCH_BUT_POLICY_DENY", "NONE"}

Decisions == [route : Routes, outcome : Outcomes]

Excuses == {"NONE", "UNAVAILABLE", "REFUSED"}

LoginTypeOK ==
    /\ flights \in [NegativeKeys -> Requests \cup {None}]
    /\ flightResult \in [Requests -> BackendResults \cup {None}]
    /\ stage \in [Requests -> Stages]
    /\ call \in [Requests -> Calls \cup {None}]
    /\ \A r \in Requests : call[r] = None <=> stage[r] \in {"IDLE", "DONE"}

DataPlaneTypeOK ==
    /\ AuthorityTypeOK
    /\ LoginTypeOK
    /\ flightWaiters \in [Requests -> Nat]
    /\ totalWaiters \in Nat
    /\ decision \in [Requests -> Decisions \cup {None}]
    /\ negatives \in SUBSET NegativeKeys
    /\ continuous \in SUBSET Requests
    /\ allowed \in SUBSET Requests
    /\ excuse \in [Requests -> Excuses]

DataPlaneInit ==
    /\ AuthorityInit
    /\ FlightInit
    /\ stage = [r \in Requests |-> "IDLE"]
    /\ call = [r \in Requests |-> None]
    /\ decision = [r \in Requests |-> None]
    /\ negatives = {}
    /\ continuous = {}
    /\ allowed = {}
    /\ excuse = [r \in Requests |-> "NONE"]

-----------------------------------------------------------------------------
(* What the ghosts record.                                                 *)

\* The password belongs to the externally active version, which is not being
\* deleted.
Valid(l) == /\ current[l.user] # None
            /\ l.user \notin removing
            /\ l.pwd \in Creds[current[l.user]]

\* Some version that is externally active or in the backend's window has it.
Allowed(l) ==
    \E s \in FailOpenSnapshot(l.user) \cup ({current[l.user]} \ {None}) : l.pwd \in Creds[s]

Accepted(r) == decision[r].outcome = "MATCH"

Underway(r) == stage[r] \notin {"IDLE", "DONE"}

-----------------------------------------------------------------------------
(* Helpers.                                                                *)

\* Mutant: the key is not bound to the credential-set version.
KeyOfIdentity(r) == [scope |-> [call[r].view EXCEPT !.ver = 1], pwd |-> call[r].pwd]

\* Mutant: the key is not bound to the token of the password.
KeyOfScope(r) == [scope |-> call[r].view, pwd |-> CHOOSE p \in Passwords : TRUE]

KeyOf(r) == [scope |-> call[r].view, pwd |-> call[r].pwd]

TransientFailure == Result("TRANSIENT_FAILURE", None)

\* What a verify call may return for a snapshot: the comparison, or an injected
\* fault once there is a version to compare with.
VerifyOutcomes(l, snapshot) ==
    {CompareResult(active[l.user] # None, snapshot, l.pwd)} \cup
    (IF snapshot = {} THEN {} ELSE {Result(kind, None) : kind \in InjectedKinds})

\* The excuse an outcome gives, relative to the comparison that was possible.
ExcuseOf(outcome, l, snapshot) ==
    IF outcome = CompareResult(active[l.user] # None, snapshot, l.pwd) THEN "NONE"
    ELSE IF outcome.kind = "CREDENTIAL_MISMATCH" THEN "REFUSED" ELSE "UNAVAILABLE"

\* Mutant: the generation of the checked account is not compared.
IsExactMismatchOfAnyGeneration(outcome, scope) ==
    /\ outcome.kind = "CREDENTIAL_MISMATCH"
    /\ outcome.scope # None
    /\ outcome.scope.acct = scope.acct
    /\ outcome.scope.ver = scope.ver

\* is_exact_mismatch_for: every authenticator of exactly this scope was
\* compared and none matched.
IsExactMismatchFor(outcome, scope) ==
    /\ outcome.kind = "CREDENTIAL_MISMATCH"
    /\ outcome.scope = scope

UncertaintyKinds == {"NO_ACCOUNT", "TRANSIENT_FAILURE", "VERSION_MISMATCH",
                     "PARTIAL_AUTHENTICATOR_FAILURE"}

\* Mutant: only an uncertain screen makes the route fail-open.
RouteOfScreen(disposition, kind) ==
    IF disposition = "FAIL_OPEN" THEN "FAIL_OPEN_BACKEND"
    ELSE IF kind = "MATCH" THEN "BACKEND_MATCH" ELSE "BACKEND_DENY"

\* The route of a forwarded login.
RouteOf(disposition, kind) ==
    IF disposition = "FAIL_OPEN" \/ kind \in UncertaintyKinds THEN "FAIL_OPEN_BACKEND"
    ELSE IF kind = "MATCH" THEN "BACKEND_MATCH" ELSE "BACKEND_DENY"

Decision(route, outcome) == [route |-> route, outcome |-> outcome]

\* authenticate returns d and its locals are gone.
Settle(r, d) ==
    /\ decision' = [decision EXCEPT ![r] = d]
    /\ stage' = [stage EXCEPT ![r] = "DONE"]
    /\ call' = [call EXCEPT ![r] = None]

\* finalize_match: a match may be turned down by account policy, which is read
\* per request and changes at any time.
Finalized(kind, policyDenies) ==
    IF kind = "MATCH" /\ policyDenies THEN "MATCH_BUT_POLICY_DENY" ELSE kind

\* A verification over the backend's whole window settles the login fail-open.
SettleFailOpen(r, policyDenies) ==
    LET snapshot == FailOpenSnapshot(call[r].user) IN
    /\ \E outcome \in VerifyOutcomes(call[r], snapshot) :
          /\ Settle(r, Decision("FAIL_OPEN_BACKEND", Finalized(outcome.kind, policyDenies)))
          /\ excuse' = [excuse EXCEPT ![r] = ExcuseOf(outcome, call[r], snapshot)]
    /\ UNCHANGED <<authorityVars, flightVars, negatives, continuous, allowed>>

-----------------------------------------------------------------------------
(* authenticate(r), one shared access per step.                            *)

\* directory.lookup: PRESENT with the authoritative scope, or not PRESENT.
\* Logins are numbered in the order of their lookups.
LookUp(r, user, pwd, certain) ==
    LET l == [user |-> user, pwd |-> pwd,
              view |-> IF certain THEN current[user] ELSE None,
              screened |-> "FAIL_OPEN", following |-> None, result |-> None]
    IN
    /\ stage[r] = "IDLE"
    /\ \A q \in Requests : q < r => stage[q] # "IDLE"
    /\ certain => current[user] # None
    /\ call' = [call EXCEPT ![r] = l]
    /\ stage' = [stage EXCEPT ![r] = IF certain THEN "LOOKED" ELSE "UNCERTAIN"]
    /\ continuous' = IF Valid(l) THEN continuous \cup {r} ELSE continuous
    /\ allowed' = IF Allowed(l) THEN allowed \cup {r} ELSE allowed
    /\ UNCHANGED <<authorityVars, flightVars, decision, negatives, excuse>>

\* A view that is not PRESENT: the backend decides.
VerifyFailOpen(r, policyDenies) ==
    /\ stage[r] = "UNCERTAIN"
    /\ SettleFailOpen(r, policyDenies)

LookUpNegative(r) ==
    /\ stage[r] = "LOOKED"
    /\ IF KeyOf(r) \in negatives
       THEN Settle(r, Decision("NEGATIVE_CACHE_REJECT", "NONE"))
       ELSE /\ stage' = [stage EXCEPT ![r] = "MISSED"]
            /\ UNCHANGED <<call, decision>>
    /\ UNCHANGED <<authorityVars, flightVars, negatives, ghostVars>>

\* positive_screen.query: rejects only on a certified, complete representation.
Screen(r, certified) ==
    /\ stage[r] = "MISSED"
    /\ IF certified /\ call[r].pwd \notin Creds[call[r].view]
       THEN Settle(r, Decision("POSITIVE_SCREEN_REJECT", "NONE"))
       ELSE /\ stage' = [stage EXCEPT ![r] = "FORWARDED"]
            /\ call' = [call EXCEPT ![r].screened =
                            IF certified THEN "POSITIVE" ELSE "FAIL_OPEN"]
            /\ UNCHANGED decision
    /\ UNCHANGED <<authorityVars, flightVars, negatives, ghostVars>>

\* The call proceeds with its comparison result.
Compared(r, result, why) ==
    /\ stage' = [stage EXCEPT ![r] = "COMPARED"]
    /\ call' = [call EXCEPT ![r].result = result]
    /\ excuse' = [excuse EXCEPT ![r] = why]

\* Entering singleflight.execute.
Join(r) ==
    LET k == KeyOf(r) IN
    /\ stage[r] = "FORWARDED"
    /\ \/ /\ Lead(r, k)
          /\ stage' = [stage EXCEPT ![r] = "LEADING"]
          /\ UNCHANGED <<call, excuse>>
       \/ /\ Wait(k)
          /\ stage' = [stage EXCEPT ![r] = "WAITING"]
          /\ call' = [call EXCEPT ![r].following = flights[k]]
          /\ UNCHANGED excuse
       \/ /\ Overloaded(k)
          /\ Compared(r, TransientFailure, "UNAVAILABLE")
          /\ UNCHANGED flightVars
    /\ UNCHANGED <<authorityVars, decision, negatives, continuous, allowed>>

\* The leader's verify_fn under the version of its view; an exception in it
\* becomes a transient failure.
Verify(r) ==
    LET snapshot == ExpectedSnapshot(call[r].user, call[r].view.ver) IN
    /\ stage[r] = "LEADING"
    /\ \E outcome \in VerifyOutcomes(call[r], snapshot) \cup {TransientFailure} :
          /\ call' = [call EXCEPT ![r].result = outcome]
          /\ excuse' = [excuse EXCEPT ![r] = ExcuseOf(outcome, call[r], snapshot)]
    /\ stage' = [stage EXCEPT ![r] = "VERIFIED"]
    /\ UNCHANGED <<authorityVars, flightVars, decision, negatives, continuous, allowed>>

CompleteFlight(r) ==
    /\ stage[r] = "VERIFIED"
    /\ Complete(r, KeyOf(r), call[r].result)
    /\ stage' = [stage EXCEPT ![r] = "COMPARED"]
    /\ UNCHANGED <<authorityVars, call, decision, negatives, ghostVars>>

\* A waiter takes its leader's result, whatever became of the account since.
TakeResult(r) ==
    LET leader == call[r].following IN
    /\ stage[r] = "WAITING"
    /\ flightResult[leader] # None
    /\ Leave(leader)
    /\ Compared(r, flightResult[leader], excuse[leader])
    /\ UNCHANGED <<authorityVars, decision, negatives, continuous, allowed>>

TimeOut(r) ==
    LET leader == call[r].following IN
    /\ stage[r] = "WAITING"
    /\ flightResult[leader] = None
    /\ Leave(leader)
    /\ Compared(r, TransientFailure, "UNAVAILABLE")
    /\ UNCHANGED <<authorityVars, decision, negatives, continuous, allowed>>

\* Mutant: a version mismatch is taken for the final answer.
RetryNever(r, policyDenies) ==
    /\ stage[r] = "COMPARED"
    /\ call[r].result.kind = "VERSION_MISMATCH"
    /\ Settle(r, Decision("FAIL_OPEN_BACKEND", "VERSION_MISMATCH"))
    /\ UNCHANGED <<authorityVars, flightVars, negatives, ghostVars>>

\* A version mismatch is no verdict: the backend is asked again and nothing is
\* cached.
Retry(r, policyDenies) ==
    /\ stage[r] = "COMPARED"
    /\ call[r].result.kind = "VERSION_MISMATCH"
    /\ SettleFailOpen(r, policyDenies)

\* Any other result is final; an exact mismatch is offered to the cache, which
\* may decline it.
Decide(r, admitted, policyDenies) ==
    LET result == call[r].result
        outcome == Finalized(result.kind, policyDenies)
    IN
    /\ stage[r] = "COMPARED"
    /\ result.kind # "VERSION_MISMATCH"
    /\ admitted => IsExactMismatchFor(result, call[r].view)
    /\ negatives' = IF admitted THEN negatives \cup {KeyOf(r)} ELSE negatives
    /\ Settle(r, Decision(RouteOf(call[r].screened, outcome), outcome))
    /\ UNCHANGED <<authorityVars, flightVars, ghostVars>>

-----------------------------------------------------------------------------
\* A cache entry expires, is evicted, or becomes unreachable under a rotated key.
Forget(k) ==
    /\ k \in negatives
    /\ negatives' = negatives \ {k}
    /\ UNCHANGED <<authorityVars, flightVars, requestVars, ghostVars>>

\* The control plane moves under the logins; the ghosts watch it.
Govern ==
    /\ AuthorityNext
    /\ UNCHANGED <<flightVars, requestVars, negatives, excuse>>
    /\ continuous' = {r \in continuous : ~Underway(r) \/ Valid(call[r])'}
    /\ allowed' = allowed \cup {r \in Requests : Underway(r) /\ Allowed(call[r])'}

\* The steps a login thread takes by itself.
Proceed(r) ==
    \/ \E policyDenies \in BOOLEAN : VerifyFailOpen(r, policyDenies) \/ Retry(r, policyDenies)
    \/ LookUpNegative(r)
    \/ \E certified \in BOOLEAN : Screen(r, certified)
    \/ Join(r)
    \/ Verify(r)
    \/ CompleteFlight(r)
    \/ TakeResult(r)
    \/ \E admitted, policyDenies \in BOOLEAN : Decide(r, admitted, policyDenies)

DataPlaneNext ==
    \/ Govern
    \/ \E r \in Requests, user \in Users, pwd \in Passwords, certain \in BOOLEAN :
          LookUp(r, user, pwd, certain)
    \/ \E r \in Requests : Proceed(r) \/ TimeOut(r)
    \/ \E k \in negatives : Forget(k)

\* Each login runs on a thread of its own that is scheduled again and again; no
\* waiter is relied on to time out.
DataPlaneSpec ==
    /\ DataPlaneInit
    /\ [][DataPlaneNext]_dataPlaneVars
    /\ \A r \in Requests : WF_dataPlaneVars(Proceed(r))

-----------------------------------------------------------------------------
(* Properties.                                                             *)

\* A negative entry never condemns a credential of its scope, whichever account
\* generation or version the backend has moved to between the view, the
\* comparison and the insertion (engine.py, is_exact_mismatch_for).
NegativeCacheSound ==
    \A k \in negatives : k.pwd \notin Creds[k.scope]

\* The reasons for it, inductive when taken together.  A request that got
\* past its lookup has a scope to be keyed under.
ViewPresent ==
    \A r \in Requests :
        stage[r] \notin {"IDLE", "UNCERTAIN", "DONE"} => call[r].view # None

\* A comparison result is there when it is due, and is the truth about the
\* login's own password, its own comparison or its leader's.
ResultsTruthful ==
    \A r \in Requests :
        /\ stage[r] \in {"VERIFIED", "COMPARED"} => call[r].result # None
        /\ Underway(r) /\ call[r].result # None => Truthful(call[r].result, call[r].pwd)

\* A flight in the table has a leader at work on its key, and a leader sets the
\* event only as it leaves.
FlightsLed ==
    /\ \A k \in NegativeKeys, r \in Requests :
          flights[k] = r <=> stage[r] \in {"LEADING", "VERIFIED"} /\ KeyOf(r) = k
    /\ \A r \in Requests :
          flightResult[r] # None => stage[r] \in {"COMPARED", "DONE"}

\* A waiter follows a leader at work on the waiter's key or, once the event is
\* set, holds a flight whose result is the truth about its password.
Follows(w) ==
    LET leader == call[w].following IN
    /\ leader # None
    /\ IF flightResult[leader] = None
       THEN stage[leader] \in {"LEADING", "VERIFIED"} /\ KeyOf(leader) = KeyOf(w)
       ELSE Truthful(flightResult[leader], call[w].pwd)

WaitersFollow ==
    \A w \in Requests : stage[w] = "WAITING" => Follows(w)

\* What a login holds, awaits or leads belongs to its own key, so that no answer
\* crosses over to another password or version (engine.py, authenticate with
\* singleflight.py, execute).
LoginInvariant ==
    /\ LoginTypeOK
    /\ ViewPresent
    /\ ResultsTruthful
    /\ FlightsLed
    /\ WaitersFollow

\* A login whose password stays valid from its directory lookup to its decision
\* is accepted, through rotations that keep the password, activation windows,
\* cached negatives and shared results, unless the verifier was unavailable or
\* the policy refused.
ContinuouslyValidAccepted ==
    \A r \in Requests :
        stage[r] = "DONE" /\ r \in continuous /\ excuse[r] = "NONE"
            => Accepted(r) \/ decision[r].outcome = "MATCH_BUT_POLICY_DENY"

\* Unavailability is no denial: when the verifier failed, a waiter timed out or
\* a cap turned the login away, a valid password is not answered with a
\* definite route.
UnavailableIsNotDenied ==
    \A r \in Requests :
        stage[r] = "DONE" /\ r \in continuous /\ excuse[r] # "REFUSED"
            => \/ Accepted(r)
               \/ decision[r].outcome = "MATCH_BUT_POLICY_DENY"
               \/ decision[r].route = "FAIL_OPEN_BACKEND"

\* An accepted password was accepted by some live version while the login was
\* underway, also for a waiter whose leader compared it before it arrived.
AcceptedWasAllowed ==
    \A r \in Requests : stage[r] = "DONE" /\ Accepted(r) => r \in allowed

\* The waiter counts and caps are exact, whatever timed out.
Waiting == {w \in Requests : stage[w] = "WAITING"}

Followers(leader) == {w \in Waiting : call[w].following = leader}

WaitersCounted ==
    /\ \A r \in Requests :
          /\ flightWaiters[r] = Cardinality(Followers(r))
          /\ flightWaiters[r] <= MaxWaitersPerKey
    /\ totalWaiters = Cardinality(Waiting)
    /\ totalWaiters <= MaxWaitersGlobal

\* The table holds exactly the flights whose leader is still at work, and every
\* place a waiter took is given back exactly once.
FlightsAccounted == FlightsLed /\ WaitersCounted

\* Every login is answered, even if no waiter ever times out.
EveryLoginAnswered ==
    \A r \in Requests : Underway(r) ~> stage[r] = "DONE"
=============================================================================
