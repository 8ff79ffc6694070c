------------------------ MODULE AuthDataPlane_proofs ------------------------
(***************************************************************************)
(* Proofs about the login path for every value of its constants: any       *)
(* number of requests, passwords, versions and waiter caps.                *)
(***************************************************************************)
EXTENDS AuthDataPlane, InMemoryBackend_proofs, FiniteSetTheorems

(* The control plane.                                                      *)

\* Every step of the authority keeps its types.
LEMMA AuthorityKeepsTypes ==
    ASSUME AuthorityTypeOK, AuthorityNext
    PROVE  AuthorityTypeOK'
<1>1. ASSUME NEW s \in Scopes, Offer(s)
      PROVE  AuthorityTypeOK'
  BY <1>1, BackendKeepsTypes DEF Offer, AuthorityTypeOK
<1>2. ASSUME NEW s \in Scopes, AdvanceBackend(s)
      PROVE  AuthorityTypeOK'
  BY <1>2, BackendKeepsTypes DEF AdvanceBackend, AuthorityTypeOK
<1>3. ASSUME NEW s \in Scopes, PresentVersion(s)
      PROVE  AuthorityTypeOK'
  BY <1>3, BackendKeepsTypes, ScopeFields DEF PresentVersion, AuthorityTypeOK
<1>4. ASSUME NEW s \in Scopes, CloseWindow(s)
      PROVE  AuthorityTypeOK'
  BY <1>4, BackendKeepsTypes DEF CloseWindow, AuthorityTypeOK
<1>5. ASSUME NEW u \in Users, NEW gen \in Generations, Withdraw(u, gen)
      PROVE  AuthorityTypeOK'
  BY <1>5, BackendKeepsTypes DEF Withdraw, AuthorityTypeOK
<1>6. ASSUME NEW u \in Users, Remove(u)
      PROVE  AuthorityTypeOK'
  BY <1>6, BackendKeepsTypes DEF Remove, AuthorityTypeOK
<1> QED
  BY <1>1, <1>2, <1>3, <1>4, <1>5, <1>6 DEF AuthorityNext

-----------------------------------------------------------------------------
(* Comparison results.                                                     *)

\* Whatever a verification returns is a typed result, is there, and is the
\* truth about the password it compared.
LEMMA OutcomesTruthful ==
    ASSUME NEW l, NEW snapshot \in SUBSET Scopes,
           NEW outcome \in VerifyOutcomes(l, snapshot) \cup {TransientFailure}
    PROVE  /\ outcome \in BackendResults
           /\ outcome # None
           /\ Truthful(outcome, l.pwd)
<1> DEFINE known == active[l.user] # None
<1>1. known \in BOOLEAN
  OBVIOUS
<1>2. CASE outcome = CompareResult(known, snapshot, l.pwd)
  <2> HIDE DEF known
  <2> QED
    BY <1>1, <1>2, CompareResultTruthful, DataPlaneAssumption DEF DataPlaneAssumption
<1>3. CASE \E kind \in InjectedKinds : outcome = Result(kind, None)
  BY <1>3, DataPlaneAssumption
  DEF DataPlaneAssumption, Result, BackendResults, ResultKinds, Truthful
<1>4. CASE outcome = TransientFailure
  BY <1>4, DataPlaneAssumption
  DEF DataPlaneAssumption, TransientFailure, Result, BackendResults, ResultKinds, Truthful
<1> QED
  BY <1>2, <1>3, <1>4 DEF VerifyOutcomes

\* A request past its lookup is keyed under a negative key.
LEMMA KeyType ==
    ASSUME LoginInvariant, NEW r \in Requests,
           stage[r] \notin {"IDLE", "UNCERTAIN", "DONE"}
    PROVE  /\ KeyOf(r) \in NegativeKeys
           /\ call[r] \in Calls
           /\ call[r].view \in Scopes
  BY DEF LoginInvariant, LoginTypeOK, ViewPresent, Calls, KeyOf, NegativeKeys

-----------------------------------------------------------------------------
(* The login invariant, step by step.                                      *)

\* A login that moves from a stage in which it leads no flight to one in which
\* it neither leads nor waits keeps the invariant, whatever it moves with: what
\* other logins rely on is in the flights it does not touch.
LEMMA MoveKeepsInvariant ==
    ASSUME LoginInvariant, NEW r \in Requests,
           NEW to \in {"UNCERTAIN", "LOOKED", "MISSED", "FORWARDED", "COMPARED", "DONE"},
           NEW l \in Calls \cup {None},
           stage[r] \notin {"LEADING", "VERIFIED", "DONE"},
           stage[r] = "COMPARED" => to = "DONE",
           l = None <=> to = "DONE",
           to \notin {"UNCERTAIN", "DONE"} => l.view # None,
           to = "COMPARED" => l.result # None,
           l # None /\ l.result # None => Truthful(l.result, l.pwd),
           stage' = [stage EXCEPT ![r] = to],
           call' = [call EXCEPT ![r] = l],
           UNCHANGED <<flights, flightResult>>
    PROVE  LoginInvariant'
<1> USE DEF LoginInvariant
<1>1. LoginTypeOK'
  BY DEF LoginTypeOK, Stages
<1>2. ViewPresent'
  BY DEF LoginTypeOK, ViewPresent
<1>3. ResultsTruthful'
  BY DEF LoginTypeOK, ResultsTruthful, Underway, Truthful
<1>4. FlightsLed'
  BY DEF LoginTypeOK, FlightsLed, KeyOf
<1>5. WaitersFollow'
  <2> SUFFICES ASSUME NEW w \in Requests, stage'[w] = "WAITING"
               PROVE  Follows(w)'
    BY DEF WaitersFollow
  <2>1. w # r /\ stage[w] = "WAITING" /\ call'[w] = call[w]
    BY DEF LoginTypeOK
  <2>2. PICK leader \in Requests : leader = call[w].following
    BY <2>1 DEF LoginTypeOK, Calls, WaitersFollow, Follows
  <2>3. CASE flightResult[leader] = None
    <3>1. stage[leader] \in {"LEADING", "VERIFIED"} /\ KeyOf(leader) = KeyOf(w)
      BY <2>1, <2>2, <2>3 DEF WaitersFollow, Follows
    <3>2. stage'[leader] = stage[leader] /\ KeyOf(leader)' = KeyOf(leader)
          /\ KeyOf(w)' = KeyOf(w)
      BY <2>1, <3>1 DEF LoginTypeOK, KeyOf
    <3> QED
      BY <2>1, <2>2, <2>3, <3>1, <3>2, FlightAssumption DEF FlightAssumption, Follows
  <2>4. CASE flightResult[leader] # None
    BY <2>1, <2>2, <2>4, FlightAssumption DEF FlightAssumption, WaitersFollow, Follows, Truthful
  <2> QED
    BY <2>3, <2>4
<1> QED
  BY <1>1, <1>2, <1>3, <1>4, <1>5

\* Settling a login that leads no flight.
LEMMA SettleKeepsInvariant ==
    ASSUME LoginInvariant, NEW r \in Requests, NEW d,
           stage[r] \notin {"LEADING", "VERIFIED", "DONE"},
           Settle(r, d), UNCHANGED <<flights, flightResult>>
    PROVE  LoginInvariant'
  BY MoveKeepsInvariant DEF Settle

\* A login that leads no flight and proceeds with a comparison result which is
\* the truth about its password.
LEMMA ComparedKeepsInvariant ==
    ASSUME LoginInvariant, NEW r \in Requests, NEW why,
           stage[r] \in {"FORWARDED", "WAITING"},
           NEW result \in BackendResults, Truthful(result, call[r].pwd),
           Compared(r, result, why), UNCHANGED <<flights, flightResult>>
    PROVE  LoginInvariant'
<1> DEFINE l == [call[r] EXCEPT !.result = result]
<1>1. call[r] \in Calls /\ call[r].view # None
  BY KeyType, IdentityAssumption DEF IdentityAssumption
<1>2. l \in Calls /\ l # None /\ l.view # None
  BY <1>1, DataPlaneAssumption DEF Calls, DataPlaneAssumption
<1>3. l.result = result /\ l.pwd = call[r].pwd /\ result # None
  BY <1>1, DataPlaneAssumption DEF Calls, DataPlaneAssumption
<1>4. call' = [call EXCEPT ![r] = l]
  BY DEF Compared
<1> HIDE DEF l
<1> QED
  BY <1>2, <1>3, <1>4, MoveKeepsInvariant DEF Compared

\* A new leader takes the free key it is keyed under.
LEMMA LeadKeepsInvariant ==
    ASSUME LoginInvariant, NEW r \in Requests, stage[r] = "FORWARDED",
           Lead(r, KeyOf(r)),
           stage' = [stage EXCEPT ![r] = "LEADING"], UNCHANGED call
    PROVE  LoginInvariant'
<1> USE DEF LoginInvariant
<1>1. KeyOf(r) \in NegativeKeys /\ call[r] # None
  BY KeyType, DataPlaneAssumption DEF DataPlaneAssumption
<1>2. LoginTypeOK'
  BY <1>1 DEF LoginTypeOK, Stages, Lead
<1>3. ViewPresent'
  BY DEF LoginTypeOK, ViewPresent
<1>4. ResultsTruthful'
  BY DEF LoginTypeOK, ResultsTruthful, Underway, Truthful
<1>5. FlightsLed'
  <2>1. \A q \in Requests : KeyOf(q)' = KeyOf(q)
    BY DEF KeyOf
  <2>2. \A k \in NegativeKeys, q \in Requests :
           flights'[k] = q <=> stage'[q] \in {"LEADING", "VERIFIED"} /\ KeyOf(q) = k
    <3> TAKE k \in NegativeKeys, q \in Requests
    <3>1. CASE k = KeyOf(r)
      BY <1>1, <3>1, FlightAssumption DEF FlightAssumption, LoginTypeOK, FlightsLed, Lead
    <3>2. CASE k # KeyOf(r)
      BY <1>1, <3>2 DEF LoginTypeOK, FlightsLed, Lead
    <3> QED
      BY <3>1, <3>2
  <2> QED
    BY <2>1, <2>2 DEF LoginTypeOK, FlightsLed, Lead
<1>6. WaitersFollow'
  <2> SUFFICES ASSUME NEW w \in Requests, stage'[w] = "WAITING"
               PROVE  Follows(w)'
    BY DEF WaitersFollow
  <2>1. stage[w] = "WAITING" /\ Follows(w)
    BY DEF LoginTypeOK, WaitersFollow
  <2>2. call[w].following \in Requests
    BY <2>1 DEF LoginTypeOK, Calls, Follows
  <2> QED
    BY <2>1, <2>2 DEF LoginTypeOK, Follows, KeyOf, Lead, Truthful
<1> QED
  BY <1>2, <1>3, <1>4, <1>5, <1>6

\* A new waiter follows the leader of its own key.
LEMMA WaitKeepsInvariant ==
    ASSUME LoginInvariant, NEW r \in Requests, stage[r] = "FORWARDED",
           Wait(KeyOf(r)),
           stage' = [stage EXCEPT ![r] = "WAITING"],
           call' = [call EXCEPT ![r].following = flights[KeyOf(r)]]
    PROVE  LoginInvariant'
<1> USE DEF LoginInvariant
<1>1. KeyOf(r) \in NegativeKeys /\ call[r] \in Calls
  BY KeyType
<1>a. PICK leader \in Requests : leader = flights[KeyOf(r)]
  BY <1>1 DEF LoginTypeOK, Wait
<1> DEFINE l == [call[r] EXCEPT !.following = leader]
<1>2. /\ leader # None
      /\ stage[leader] \in {"LEADING", "VERIFIED"}
      /\ KeyOf(leader) = KeyOf(r)
  BY <1>1, <1>a, FlightAssumption DEF FlightAssumption, LoginTypeOK, FlightsLed, Wait
<1>3. flightResult[leader] = None
  BY <1>2 DEF FlightsLed
<1>4. l \in Calls /\ l # None
  BY <1>1, <1>2, DataPlaneAssumption DEF Calls, DataPlaneAssumption
<1>5. /\ l.view = call[r].view /\ l.pwd = call[r].pwd
      /\ l.result = call[r].result /\ l.following = leader
  BY <1>1 DEF Calls
<1>6. call' = [call EXCEPT ![r] = l] /\ UNCHANGED <<flights, flightResult>>
  BY <1>a DEF Wait
<1> HIDE DEF l
<1>7. LoginTypeOK'
  BY <1>4, <1>6 DEF LoginTypeOK, Stages
<1>8. ViewPresent'
  BY <1>5, <1>6 DEF LoginTypeOK, ViewPresent
<1>9. ResultsTruthful'
  BY <1>5, <1>6 DEF LoginTypeOK, ResultsTruthful, Underway, Truthful
<1>10. \A q \in Requests : KeyOf(q)' = KeyOf(q)
  BY <1>5, <1>6 DEF LoginTypeOK, KeyOf
<1>11. FlightsLed'
  BY <1>6, <1>10 DEF LoginTypeOK, FlightsLed
<1>12. WaitersFollow'
  <2> SUFFICES ASSUME NEW w \in Requests, stage'[w] = "WAITING"
               PROVE  Follows(w)'
    BY DEF WaitersFollow
  <2>1. CASE w = r
    <3>1. call'[r] = l /\ stage'[leader] = stage[leader]
      BY <1>2, <1>6 DEF LoginTypeOK
    <3>2. call'[r].following = leader
      BY <1>5, <3>1
    <3>3. KeyOf(leader)' = KeyOf(r)'
      BY <1>2, <1>10
    <3> QED
      BY <1>2, <1>3, <1>6, <2>1, <3>1, <3>2, <3>3 DEF Follows
  <2>2. CASE w # r
    <3>1. stage[w] = "WAITING" /\ Follows(w) /\ call'[w] = call[w]
      BY <1>6, <2>2 DEF LoginTypeOK, WaitersFollow
    <3>2. call[w].following \in Requests
      BY <3>1 DEF LoginTypeOK, Calls, Follows
    <3> QED
      BY <1>6, <1>10, <3>1, <3>2 DEF LoginTypeOK, Follows, Truthful
  <2> QED
    BY <2>1, <2>2
<1> QED
  BY <1>7, <1>8, <1>9, <1>11, <1>12

\* A leader that has compared still leads its flight.
LEMMA VerifyKeepsInvariant ==
    ASSUME LoginInvariant, NEW r \in Requests, stage[r] = "LEADING",
           NEW outcome \in BackendResults, Truthful(outcome, call[r].pwd),
           stage' = [stage EXCEPT ![r] = "VERIFIED"],
           call' = [call EXCEPT ![r].result = outcome],
           UNCHANGED <<flights, flightResult>>
    PROVE  LoginInvariant'
<1> USE DEF LoginInvariant
<1> DEFINE l == [call[r] EXCEPT !.result = outcome]
<1>1. call[r] \in Calls /\ outcome # None
  BY KeyType, DataPlaneAssumption DEF DataPlaneAssumption
<1>2. l \in Calls /\ l # None
  BY <1>1, DataPlaneAssumption DEF Calls, DataPlaneAssumption
<1>3. /\ l.view = call[r].view /\ l.pwd = call[r].pwd
      /\ l.result = outcome /\ l.following = call[r].following
  BY <1>1 DEF Calls
<1>4. call' = [call EXCEPT ![r] = l]
  OBVIOUS
<1> HIDE DEF l
<1>5. LoginTypeOK'
  BY <1>2, <1>4 DEF LoginTypeOK, Stages
<1>6. ViewPresent'
  BY <1>3, <1>4 DEF LoginTypeOK, ViewPresent
<1>7. ResultsTruthful'
  BY <1>1, <1>3, <1>4 DEF LoginTypeOK, ResultsTruthful, Underway, Truthful
<1>8. \A q \in Requests : KeyOf(q)' = KeyOf(q)
  BY <1>3, <1>4 DEF LoginTypeOK, KeyOf
<1>9. FlightsLed'
  BY <1>8 DEF LoginTypeOK, FlightsLed
<1>10. WaitersFollow'
  <2> SUFFICES ASSUME NEW w \in Requests, stage'[w] = "WAITING"
               PROVE  Follows(w)'
    BY DEF WaitersFollow
  <2>1. stage[w] = "WAITING" /\ Follows(w) /\ call'[w] = call[w]
    BY <1>4 DEF LoginTypeOK, WaitersFollow
  <2>2. call[w].following \in Requests
    BY <2>1 DEF LoginTypeOK, Calls, Follows
  <2> QED
    BY <1>8, <2>1, <2>2 DEF LoginTypeOK, Follows, Truthful
<1> QED
  BY <1>5, <1>6, <1>7, <1>9, <1>10

\* Completion removes the flight and leaves its result, true for every waiter's
\* password because their keys are equal.
LEMMA CompleteKeepsInvariant ==
    ASSUME LoginInvariant, NEW r \in Requests, CompleteFlight(r)
    PROVE  LoginInvariant'
<1> USE DEF LoginInvariant
<1> DEFINE result == call[r].result
<1>1. /\ stage[r] = "VERIFIED" /\ UNCHANGED call
      /\ stage' = [stage EXCEPT ![r] = "COMPARED"]
      /\ flightResult' = [flightResult EXCEPT ![r] = result]
      /\ flights' = [flights EXCEPT ![KeyOf(r)] = IF @ = r THEN None ELSE @]
  BY DEF CompleteFlight, Complete
<1>2. KeyOf(r) \in NegativeKeys /\ call[r] \in Calls
  BY <1>1, KeyType
<1>3. result # None /\ result \in BackendResults /\ Truthful(result, call[r].pwd)
  BY <1>1, <1>2 DEF ResultsTruthful, Underway, Calls
<1>4. flights[KeyOf(r)] = r /\ flightResult[r] = None
  BY <1>1, <1>2 DEF FlightsLed
<1>5. \A q \in Requests : KeyOf(q)' = KeyOf(q)
  BY <1>1 DEF KeyOf
<1> HIDE DEF result
<1>6. LoginTypeOK'
  BY <1>1, <1>2, <1>3, DataPlaneAssumption DEF LoginTypeOK, Stages, DataPlaneAssumption
<1>7. ViewPresent'
  BY <1>1 DEF LoginTypeOK, ViewPresent
<1>8. ResultsTruthful'
  BY <1>1, <1>3 DEF LoginTypeOK, ResultsTruthful, Underway, Truthful, result
<1>9. FlightsLed'
  <2>1. \A k \in NegativeKeys, q \in Requests :
           flights'[k] = q <=> stage'[q] \in {"LEADING", "VERIFIED"} /\ KeyOf(q) = k
    <3> TAKE k \in NegativeKeys, q \in Requests
    <3>1. CASE k = KeyOf(r)
      BY <1>1, <1>2, <1>4, <3>1, FlightAssumption DEF FlightAssumption, LoginTypeOK, FlightsLed
    <3>2. CASE k # KeyOf(r)
      BY <1>1, <1>2, <1>4, <3>2 DEF LoginTypeOK, FlightsLed
    <3> QED
      BY <3>1, <3>2
  <2>2. \A q \in Requests : flightResult'[q] # None => stage'[q] \in {"COMPARED", "DONE"}
    BY <1>1 DEF LoginTypeOK, FlightsLed
  <2> QED
    BY <1>5, <2>1, <2>2 DEF FlightsLed
<1>10. WaitersFollow'
  <2> SUFFICES ASSUME NEW w \in Requests, stage'[w] = "WAITING"
               PROVE  Follows(w)'
    BY DEF WaitersFollow
  <2>1. w # r /\ stage[w] = "WAITING" /\ Follows(w) /\ call'[w] = call[w]
    BY <1>1 DEF LoginTypeOK, WaitersFollow
  <2>2. call[w].following \in Requests /\ call[w].following # None
    BY <2>1 DEF LoginTypeOK, Calls, Follows
  <2>3. CASE call[w].following = r
    <3>1. call[w].pwd = call[r].pwd
      BY <1>4, <2>1, <2>3 DEF Follows, KeyOf
    <3> QED
      BY <1>1, <1>3, <2>1, <2>2, <2>3, <3>1 DEF LoginTypeOK, Follows, Truthful
  <2>4. CASE call[w].following # r
    BY <1>1, <1>5, <2>1, <2>2, <2>4 DEF LoginTypeOK, Follows, Truthful
  <2> QED
    BY <2>3, <2>4
<1> QED
  BY <1>6, <1>7, <1>8, <1>9, <1>10

-----------------------------------------------------------------------------
(* Every step of the data plane keeps the login invariant.                 *)

\* A verification over the backend's whole window settles the login.
LEMMA SettleFailOpenKeepsInvariant ==
    ASSUME LoginInvariant, NEW r \in Requests, NEW policyDenies,
           stage[r] \in {"UNCERTAIN", "COMPARED"}, SettleFailOpen(r, policyDenies)
    PROVE  LoginInvariant'
<1>1. PICK d : Settle(r, d)
  BY DEF SettleFailOpen
<1> QED
  BY <1>1, SettleKeepsInvariant DEF SettleFailOpen, flightVars

LEMMA LookUpKeepsInvariant ==
    ASSUME AuthorityTypeOK, LoginInvariant, NEW r \in Requests, NEW user \in Users,
           NEW pwd \in Passwords, NEW certain \in BOOLEAN, LookUp(r, user, pwd, certain)
    PROVE  LoginInvariant'
<1> DEFINE l == [user |-> user, pwd |-> pwd,
                 view |-> IF certain THEN current[user] ELSE None,
                 screened |-> "FAIL_OPEN", following |-> None, result |-> None]
           to == IF certain THEN "LOOKED" ELSE "UNCERTAIN"
<1>1. l \in Calls /\ l # None
  BY DataPlaneAssumption DEF AuthorityTypeOK, Calls, DataPlaneAssumption
<1>2. to # "UNCERTAIN" => l.view # None
  BY DEF LookUp
<1>3. /\ stage[r] = "IDLE" /\ UNCHANGED <<flights, flightResult>>
      /\ stage' = [stage EXCEPT ![r] = to]
      /\ call' = [call EXCEPT ![r] = l]
  BY DEF LookUp, flightVars
<1>4. to \in {"UNCERTAIN", "LOOKED"} /\ l.result = None
  OBVIOUS
<1> HIDE DEF l, to
<1> QED
  BY <1>1, <1>2, <1>3, <1>4, MoveKeepsInvariant

LEMMA LookUpNegativeKeepsInvariant ==
    ASSUME LoginInvariant, NEW r \in Requests, LookUpNegative(r)
    PROVE  LoginInvariant'
<1>1. stage[r] = "LOOKED" /\ UNCHANGED <<flights, flightResult>>
  BY DEF LookUpNegative, flightVars
<1>2. CASE KeyOf(r) \in negatives
  BY <1>1, <1>2, SettleKeepsInvariant DEF LookUpNegative
<1>3. CASE KeyOf(r) \notin negatives
  <2>1. call[r] \in Calls /\ call[r].view # None /\ call[r] # None
    BY <1>1, KeyType, IdentityAssumption, DataPlaneAssumption
    DEF IdentityAssumption, DataPlaneAssumption
  <2>2. call[r].result # None => Truthful(call[r].result, call[r].pwd)
    BY <1>1 DEF LoginInvariant, ResultsTruthful, Underway
  <2>3. stage' = [stage EXCEPT ![r] = "MISSED"] /\ call' = [call EXCEPT ![r] = call[r]]
    BY <1>3 DEF LookUpNegative, LoginInvariant, LoginTypeOK
  <2> QED
    BY <1>1, <2>1, <2>2, <2>3, MoveKeepsInvariant
<1> QED
  BY <1>2, <1>3

LEMMA ScreenKeepsInvariant ==
    ASSUME LoginInvariant, NEW r \in Requests, NEW certified \in BOOLEAN, Screen(r, certified)
    PROVE  LoginInvariant'
<1>1. stage[r] = "MISSED" /\ UNCHANGED <<flights, flightResult>>
  BY DEF Screen, flightVars
<1>2. CASE certified /\ call[r].pwd \notin Creds[call[r].view]
  BY <1>1, <1>2, SettleKeepsInvariant DEF Screen
<1>3. CASE ~(certified /\ call[r].pwd \notin Creds[call[r].view])
  <2> DEFINE l == [call[r] EXCEPT !.screened = IF certified THEN "POSITIVE" ELSE "FAIL_OPEN"]
  <2>1. call[r] \in Calls /\ call[r].view # None
    BY <1>1, KeyType, IdentityAssumption DEF IdentityAssumption
  <2>2. call[r].result # None => Truthful(call[r].result, call[r].pwd)
    BY <1>1 DEF LoginInvariant, ResultsTruthful, Underway
  <2>3. l \in Calls /\ l # None
    BY <2>1, DataPlaneAssumption DEF Calls, DataPlaneAssumption
  <2>4. l.view = call[r].view /\ l.pwd = call[r].pwd /\ l.result = call[r].result
    BY <2>1 DEF Calls
  <2>5. stage' = [stage EXCEPT ![r] = "FORWARDED"] /\ call' = [call EXCEPT ![r] = l]
    BY <1>3 DEF Screen
  <2> HIDE DEF l
  <2> QED
    BY <1>1, <2>1, <2>2, <2>3, <2>4, <2>5, MoveKeepsInvariant
<1> QED
  BY <1>2, <1>3

\* The result every follower without a leader's answer proceeds with.
LEMMA TransientIsTruthful ==
    \A pwd : TransientFailure \in BackendResults /\ Truthful(TransientFailure, pwd)
  BY DEF TransientFailure, Result, BackendResults, ResultKinds, Truthful

LEMMA JoinKeepsInvariant ==
    ASSUME LoginInvariant, NEW r \in Requests, Join(r)
    PROVE  LoginInvariant'
<1>1. stage[r] = "FORWARDED"
  BY DEF Join
<1>2. CASE Lead(r, KeyOf(r)) /\ stage' = [stage EXCEPT ![r] = "LEADING"] /\ UNCHANGED call
  BY <1>1, <1>2, LeadKeepsInvariant
<1>3. CASE /\ Wait(KeyOf(r)) /\ stage' = [stage EXCEPT ![r] = "WAITING"]
           /\ call' = [call EXCEPT ![r].following = flights[KeyOf(r)]]
  BY <1>1, <1>3, WaitKeepsInvariant
<1>4. CASE Compared(r, TransientFailure, "UNAVAILABLE") /\ UNCHANGED flightVars
  BY <1>1, <1>4, ComparedKeepsInvariant, TransientIsTruthful DEF flightVars
<1> QED
  BY <1>2, <1>3, <1>4 DEF Join

LEMMA VerifyActionKeepsInvariant ==
    ASSUME AuthorityTypeOK, LoginInvariant, NEW r \in Requests, Verify(r)
    PROVE  LoginInvariant'
<1> DEFINE snapshot == ExpectedSnapshot(call[r].user, call[r].view.ver)
<1>1. stage[r] = "LEADING" /\ UNCHANGED <<flights, flightResult>>
  BY DEF Verify, flightVars
<1>2. PICK outcome \in VerifyOutcomes(call[r], snapshot) \cup {TransientFailure} :
          call' = [call EXCEPT ![r].result = outcome]
  BY DEF Verify
<1>3. snapshot \in SUBSET Scopes
  BY <1>1, KeyType, SnapshotsAreScopes DEF AuthorityTypeOK, Calls
<1> HIDE DEF snapshot
<1>4. outcome \in BackendResults /\ Truthful(outcome, call[r].pwd)
  BY <1>2, <1>3, OutcomesTruthful
<1>5. stage' = [stage EXCEPT ![r] = "VERIFIED"]
  BY DEF Verify
<1> QED
  BY <1>1, <1>2, <1>4, <1>5, VerifyKeepsInvariant

LEMMA TakeResultKeepsInvariant ==
    ASSUME LoginInvariant, NEW r \in Requests, TakeResult(r)
    PROVE  LoginInvariant'
<1> DEFINE leader == call[r].following
<1>1. /\ stage[r] = "WAITING" /\ flightResult[leader] # None
      /\ UNCHANGED <<flights, flightResult>>
      /\ Compared(r, flightResult[leader], excuse[leader])
  BY DEF TakeResult, Leave
<1>2. leader \in Requests /\ Truthful(flightResult[leader], call[r].pwd)
  BY <1>1, KeyType DEF LoginInvariant, WaitersFollow, Follows, Calls
<1>3. flightResult[leader] \in BackendResults
  BY <1>1, <1>2 DEF LoginInvariant, LoginTypeOK
<1> HIDE DEF leader
<1> QED
  BY <1>1, <1>2, <1>3, ComparedKeepsInvariant

LEMMA TimeOutKeepsInvariant ==
    ASSUME LoginInvariant, NEW r \in Requests, TimeOut(r)
    PROVE  LoginInvariant'
  BY ComparedKeepsInvariant, TransientIsTruthful DEF TimeOut, Leave

\* A step that leaves the logins and the flights alone.
LEMMA StandingKeepsInvariant ==
    ASSUME LoginInvariant, UNCHANGED <<flights, flightResult, stage, call>>
    PROVE  LoginInvariant'
<1> USE DEF LoginInvariant
<1>1. \A q \in Requests : KeyOf(q)' = KeyOf(q)
  BY DEF KeyOf
<1>2. LoginTypeOK'
  BY DEF LoginTypeOK
<1>3. ViewPresent' /\ ResultsTruthful'
  BY DEF ViewPresent, ResultsTruthful, Underway, Truthful
<1>4. FlightsLed'
  BY <1>1 DEF FlightsLed
<1>5. WaitersFollow'
  <2> SUFFICES ASSUME NEW w \in Requests, stage'[w] = "WAITING"
               PROVE  Follows(w)'
    BY DEF WaitersFollow
  <2>1. stage[w] = "WAITING" /\ Follows(w)
    BY DEF WaitersFollow
  <2>2. call[w].following \in Requests
    BY <2>1, KeyType DEF Calls, Follows
  <2> QED
    BY <1>1, <2>1, <2>2 DEF Follows, Truthful
<1> QED
  BY <1>2, <1>3, <1>4, <1>5

LEMMA InvariantKept ==
    ASSUME AuthorityTypeOK, LoginInvariant, [DataPlaneNext]_dataPlaneVars
    PROVE  LoginInvariant'
<1>1. CASE Govern
  BY <1>1, StandingKeepsInvariant DEF Govern, flightVars, requestVars
<1>2. ASSUME NEW r \in Requests, NEW user \in Users, NEW pwd \in Passwords,
             NEW certain \in BOOLEAN, LookUp(r, user, pwd, certain)
      PROVE  LoginInvariant'
  BY <1>2, LookUpKeepsInvariant
<1>3. ASSUME NEW r \in Requests, NEW policyDenies \in BOOLEAN,
             VerifyFailOpen(r, policyDenies) \/ Retry(r, policyDenies)
      PROVE  LoginInvariant'
  BY <1>3, SettleFailOpenKeepsInvariant DEF VerifyFailOpen, Retry
<1>4. ASSUME NEW r \in Requests, LookUpNegative(r)
      PROVE  LoginInvariant'
  BY <1>4, LookUpNegativeKeepsInvariant
<1>5. ASSUME NEW r \in Requests, NEW certified \in BOOLEAN, Screen(r, certified)
      PROVE  LoginInvariant'
  BY <1>5, ScreenKeepsInvariant
<1>6. ASSUME NEW r \in Requests, Join(r)
      PROVE  LoginInvariant'
  BY <1>6, JoinKeepsInvariant
<1>7. ASSUME NEW r \in Requests, Verify(r)
      PROVE  LoginInvariant'
  BY <1>7, VerifyActionKeepsInvariant
<1>8. ASSUME NEW r \in Requests, CompleteFlight(r)
      PROVE  LoginInvariant'
  BY <1>8, CompleteKeepsInvariant
<1>9. ASSUME NEW r \in Requests, TakeResult(r) \/ TimeOut(r)
      PROVE  LoginInvariant'
  BY <1>9, TakeResultKeepsInvariant, TimeOutKeepsInvariant
<1>10. ASSUME NEW r \in Requests, NEW admitted \in BOOLEAN, NEW policyDenies \in BOOLEAN,
              Decide(r, admitted, policyDenies)
       PROVE  LoginInvariant'
  BY <1>10, SettleKeepsInvariant DEF Decide, flightVars
<1>11. ASSUME NEW k \in negatives, Forget(k)
       PROVE  LoginInvariant'
  BY <1>11, StandingKeepsInvariant DEF Forget, flightVars, requestVars
<1>12. CASE UNCHANGED dataPlaneVars
  BY <1>12, StandingKeepsInvariant DEF dataPlaneVars, flightVars, requestVars
<1> QED
  BY <1>1, <1>2, <1>3, <1>4, <1>5, <1>6, <1>7, <1>8, <1>9, <1>10, <1>11, <1>12
  DEF DataPlaneNext, Proceed

LEMMA InvariantInitially ==
    ASSUME DataPlaneInit
    PROVE  AuthorityTypeOK /\ LoginInvariant
<1>1. AuthorityTypeOK
  BY DEF DataPlaneInit, AuthorityInit, BackendInit, AuthorityTypeOK, BackendTypeOK
<1>2. LoginTypeOK
  BY DEF DataPlaneInit, FlightInit, LoginTypeOK, Stages
<1>3. ViewPresent /\ ResultsTruthful /\ WaitersFollow
  BY DEF DataPlaneInit, ViewPresent, ResultsTruthful, WaitersFollow, Underway
<1>4. FlightsLed
  BY FlightAssumption DEF FlightAssumption, DataPlaneInit, FlightInit, FlightsLed
<1> QED
  BY <1>1, <1>2, <1>3, <1>4 DEF LoginInvariant

\* The authority moves by its own steps only, whatever the logins do.
LEMMA AuthorityTypesKept ==
    ASSUME AuthorityTypeOK, [DataPlaneNext]_dataPlaneVars
    PROVE  AuthorityTypeOK'
<1>1. CASE AuthorityNext
  BY <1>1, AuthorityKeepsTypes
<1>2. CASE UNCHANGED authorityVars
  BY <1>2 DEF authorityVars, backendVars, AuthorityTypeOK, BackendTypeOK
<1>3. ASSUME NEW r \in Requests, Proceed(r) \/ TimeOut(r)
      PROVE  UNCHANGED authorityVars
  BY <1>3 DEF Proceed, VerifyFailOpen, Retry, SettleFailOpen, LookUpNegative, Screen, Join,
              Verify, CompleteFlight, TakeResult, TimeOut, Decide
<1>4. AuthorityNext \/ UNCHANGED authorityVars
  BY <1>3 DEF DataPlaneNext, dataPlaneVars, Govern, LookUp, Forget
<1> QED
  BY <1>1, <1>2, <1>4

\* The control of a login (engine.py, authenticate; singleflight.py, execute): a
\* result a login holds, through its own comparison or the flight it waited for,
\* is the truth about its own password, and each flight has a leader at work.
THEOREM LoginControl == DataPlaneSpec => [](AuthorityTypeOK /\ LoginInvariant)
<1>1. /\ AuthorityTypeOK /\ LoginInvariant /\ [DataPlaneNext]_dataPlaneVars
      => AuthorityTypeOK' /\ LoginInvariant'
  BY AuthorityTypesKept, InvariantKept
<1> QED
  BY <1>1, InvariantInitially, PTL DEF DataPlaneSpec

-----------------------------------------------------------------------------
(* Soundness of the negative cache.                                        *)

\* Only a decision adds an entry, and only on an exact mismatch of its scope.
LEMMA NegativesKeptSound ==
    ASSUME LoginInvariant, NegativeCacheSound, [DataPlaneNext]_dataPlaneVars
    PROVE  NegativeCacheSound'
<1>1. CASE negatives' \subseteq negatives
  BY <1>1 DEF NegativeCacheSound
<1>2. ASSUME NEW r \in Requests, NEW admitted \in BOOLEAN, NEW policyDenies \in BOOLEAN,
             Decide(r, admitted, policyDenies)
      PROVE  NegativeCacheSound'
  <2>1. CASE admitted
    <3>1. call[r].pwd \notin Creds[call[r].view]
      <4>1. /\ call[r].result # None /\ Truthful(call[r].result, call[r].pwd)
            /\ call[r].view # None
        BY <1>2 DEF Decide, LoginInvariant, ResultsTruthful, ViewPresent, Underway
      <4> QED
        BY <1>2, <2>1, <4>1 DEF Decide, IsExactMismatchFor, Truthful
    <3>2. negatives' = negatives \cup {KeyOf(r)}
      BY <1>2, <2>1 DEF Decide
    <3> QED
      BY <3>1, <3>2 DEF NegativeCacheSound, KeyOf
  <2>2. CASE ~admitted
    BY <1>1, <1>2, <2>2 DEF Decide
  <2> QED
    BY <2>1, <2>2
<1>3. ASSUME NEW r \in Requests, Proceed(r) \/ TimeOut(r)
      PROVE  \/ negatives' = negatives
             \/ \E admitted, policyDenies \in BOOLEAN : Decide(r, admitted, policyDenies)
  BY <1>3 DEF Proceed, VerifyFailOpen, Retry, SettleFailOpen, LookUpNegative, Screen, Join,
              Verify, CompleteFlight, TakeResult, TimeOut
<1>4. \/ negatives' \subseteq negatives
      \/ \E r \in Requests, admitted, policyDenies \in BOOLEAN :
            Decide(r, admitted, policyDenies)
  BY <1>3 DEF DataPlaneNext, dataPlaneVars, Govern, LookUp, Forget
<1> QED
  BY <1>1, <1>2, <1>4

\* The negative cache is sound (engine.py, is_exact_mismatch_for): an entry never
\* condemns a credential of its scope, whatever moved between the view, the
\* comparison, the completion of the flight and the insertion.
THEOREM NegativeSoundness == DataPlaneSpec => []NegativeCacheSound
<1>1. DataPlaneInit => NegativeCacheSound
  BY DEF DataPlaneInit, NegativeCacheSound
<1>2. LoginInvariant /\ NegativeCacheSound /\ [DataPlaneNext]_dataPlaneVars
         => NegativeCacheSound'
  BY NegativesKeptSound
<1> QED
  BY <1>1, <1>2, LoginControl, PTL DEF DataPlaneSpec

-----------------------------------------------------------------------------
(* The waiter counts.                                                      *)

CountersTypeOK ==
    /\ flightWaiters \in [Requests -> Nat]
    /\ totalWaiters \in Nat

\* What the counts are of is finite.
LEMMA WaitersFinite ==
    /\ IsFiniteSet(Waiting)
    /\ Cardinality(Waiting) \in Nat
    /\ \A leader : /\ IsFiniteSet(Followers(leader))
                   /\ Cardinality(Followers(leader)) \in Nat
<1>1. IsFiniteSet(Waiting)
  BY DataPlaneAssumption, FS_Subset DEF DataPlaneAssumption, Waiting
<1>2. ASSUME NEW leader
      PROVE  IsFiniteSet(Followers(leader))
  BY <1>1, FS_Subset DEF Followers
<1> QED
  BY <1>1, <1>2, FS_CardinalityType

\* A step in which nobody begins or ends to wait and no waiter changes flights.
LEMMA StandingKeepsCounts ==
    ASSUME CountersTypeOK, WaitersCounted,
           \A q \in Requests : stage'[q] = "WAITING" <=> stage[q] = "WAITING",
           \A q \in Requests : stage[q] = "WAITING" => call'[q] = call[q],
           UNCHANGED <<flightWaiters, totalWaiters>>
    PROVE  CountersTypeOK' /\ WaitersCounted'
<1>1. Waiting' = Waiting
  BY DEF Waiting
<1>2. \A leader : {w \in Waiting' : call'[w].following = leader} = Followers(leader)
  BY <1>1 DEF Waiting, Followers
<1> QED
  BY <1>1, <1>2 DEF CountersTypeOK, WaitersCounted, Followers

\* A login that begins to wait raises the two counts of which it is a part.
LEMMA WaitKeepsCounts ==
    ASSUME CountersTypeOK, WaitersCounted, LoginInvariant,
           NEW r \in Requests, stage[r] = "FORWARDED", Wait(KeyOf(r)),
           stage' = [stage EXCEPT ![r] = "WAITING"],
           call' = [call EXCEPT ![r].following = flights[KeyOf(r)]]
    PROVE  CountersTypeOK' /\ WaitersCounted'
<1>1. KeyOf(r) \in NegativeKeys /\ call[r] \in Calls
  BY KeyType
<1>2. PICK leader \in Requests : leader = flights[KeyOf(r)]
  BY <1>1 DEF LoginInvariant, LoginTypeOK, Wait
<1>3. call'[r].following = leader /\ \A q \in Requests \ {r} : call'[q] = call[q]
  BY <1>1, <1>2 DEF LoginInvariant, LoginTypeOK, Calls
<1>4. Waiting' = Waiting \cup {r} /\ r \notin Waiting
  BY DEF LoginInvariant, LoginTypeOK, Waiting
<1>5. {w \in Waiting' : call'[w].following = leader} = Followers(leader) \cup {r}
  BY <1>3, <1>4 DEF Waiting, Followers
<1>6. \A other : other # leader =>
         {w \in Waiting' : call'[w].following = other} = Followers(other)
  BY <1>3, <1>4 DEF Waiting, Followers
<1>7. r \notin Followers(leader)
  BY <1>4 DEF Followers
<1>8. /\ Cardinality(Waiting \cup {r}) = Cardinality(Waiting) + 1
      /\ Cardinality(Followers(leader) \cup {r}) = Cardinality(Followers(leader)) + 1
  BY <1>4, <1>7, WaitersFinite, FS_AddElement
<1>9. /\ flightWaiters[leader] < MaxWaitersPerKey /\ totalWaiters < MaxWaitersGlobal
      /\ flightWaiters' = [flightWaiters EXCEPT ![leader] = @ + 1]
      /\ totalWaiters' = totalWaiters + 1
  BY <1>2, FlightAssumption DEF FlightAssumption, CountersTypeOK, Wait, Overloaded
<1>10. CountersTypeOK'
  BY <1>9 DEF CountersTypeOK
<1>11. totalWaiters' = Cardinality(Waiting') /\ totalWaiters' <= MaxWaitersGlobal
  BY <1>4, <1>8, <1>9, FlightAssumption DEF FlightAssumption, CountersTypeOK, WaitersCounted
<1>12. ASSUME NEW q \in Requests
       PROVE  /\ flightWaiters'[q] = Cardinality({w \in Waiting' : call'[w].following = q})
              /\ flightWaiters'[q] <= MaxWaitersPerKey
  <2>1. CASE q = leader
    <3>1. Cardinality({w \in Waiting' : call'[w].following = q}) = flightWaiters'[q]
      <4>1. flightWaiters[q] = Cardinality(Followers(leader)) /\ flightWaiters[q] \in Nat
        BY <2>1 DEF CountersTypeOK, WaitersCounted
      <4>2. flightWaiters'[q] = flightWaiters[q] + 1
        BY <1>9, <2>1 DEF CountersTypeOK
      <4>3. {w \in Waiting' : call'[w].following = q} = Followers(leader) \cup {r}
        BY <1>5, <2>1
      <4> QED
        BY <1>8, <4>1, <4>2, <4>3
    <3>2. flightWaiters'[q] <= MaxWaitersPerKey
      BY <1>9, <2>1, FlightAssumption DEF FlightAssumption, CountersTypeOK, WaitersCounted
    <3> QED
      BY <3>1, <3>2
  <2>2. CASE q # leader
    BY <1>6, <1>9, <2>2 DEF CountersTypeOK, WaitersCounted
  <2> QED
    BY <2>1, <2>2
<1> QED
  BY <1>10, <1>11, <1>12 DEF WaitersCounted, Followers

\* A login that ceases to wait, with a result or without, lowers both.
LEMMA LeaveKeepsCounts ==
    ASSUME CountersTypeOK, WaitersCounted, LoginInvariant,
           NEW r \in Requests, stage[r] = "WAITING", Leave(call[r].following),
           NEW result, NEW why, Compared(r, result, why)
    PROVE  CountersTypeOK' /\ WaitersCounted'
<1>1. PICK leader \in Requests : leader = call[r].following
  BY KeyType DEF LoginInvariant, WaitersFollow, Follows, Calls
<1>2. \A q \in Requests \ {r} : call'[q] = call[q]
  BY DEF LoginInvariant, LoginTypeOK, Compared
<1>3. Waiting' = Waiting \ {r} /\ r \in Waiting
  BY DEF LoginInvariant, LoginTypeOK, Waiting, Compared
<1>4. {w \in Waiting' : call'[w].following = leader} = Followers(leader) \ {r}
  BY <1>2, <1>3 DEF Waiting, Followers
<1>5. \A other : other # leader =>
         {w \in Waiting' : call'[w].following = other} = Followers(other)
  BY <1>1, <1>2, <1>3 DEF Waiting, Followers
<1>6. r \in Followers(leader)
  BY <1>1, <1>3 DEF Followers
<1>7. /\ Cardinality(Waiting \ {r}) = Cardinality(Waiting) - 1
      /\ Cardinality(Followers(leader) \ {r}) = Cardinality(Followers(leader)) - 1
  BY <1>3, <1>6, WaitersFinite, FS_RemoveElement
<1>8. Cardinality(Waiting) # 0 /\ Cardinality(Followers(leader)) # 0
  BY <1>3, <1>6, WaitersFinite, FS_EmptySet
<1>9. /\ flightWaiters' = [flightWaiters EXCEPT ![leader] = @ - 1]
      /\ totalWaiters' = totalWaiters - 1
  BY <1>1 DEF Leave
<1>10. CountersTypeOK'
  BY <1>8, <1>9 DEF CountersTypeOK, WaitersCounted
<1>11. totalWaiters' = Cardinality(Waiting') /\ totalWaiters' <= MaxWaitersGlobal
  BY <1>3, <1>7, <1>9, FlightAssumption DEF FlightAssumption, CountersTypeOK, WaitersCounted
<1>12. ASSUME NEW q \in Requests
       PROVE  /\ flightWaiters'[q] = Cardinality({w \in Waiting' : call'[w].following = q})
              /\ flightWaiters'[q] <= MaxWaitersPerKey
  <2>1. CASE q = leader
    <3>1. Cardinality({w \in Waiting' : call'[w].following = q}) = flightWaiters'[q]
      <4>1. flightWaiters[q] = Cardinality(Followers(leader)) /\ flightWaiters[q] \in Nat
        BY <2>1 DEF CountersTypeOK, WaitersCounted
      <4>2. flightWaiters'[q] = flightWaiters[q] - 1
        BY <1>9, <2>1 DEF CountersTypeOK
      <4>3. {w \in Waiting' : call'[w].following = q} = Followers(leader) \ {r}
        BY <1>4, <2>1
      <4> QED
        BY <1>7, <4>1, <4>2, <4>3
    <3>2. flightWaiters'[q] <= MaxWaitersPerKey
      BY <1>9, <2>1, FlightAssumption DEF FlightAssumption, CountersTypeOK, WaitersCounted
    <3> QED
      BY <3>1, <3>2
  <2>2. CASE q # leader
    BY <1>5, <1>9, <2>2 DEF CountersTypeOK, WaitersCounted
  <2> QED
    BY <2>1, <2>2
<1> QED
  BY <1>10, <1>11, <1>12 DEF WaitersCounted, Followers

\* A login that settles or proceeds without having waited leaves the counts alone.
LEMMA MoveKeepsCounts ==
    ASSUME CountersTypeOK, WaitersCounted, LoginInvariant,
           NEW r \in Requests, stage[r] # "WAITING",
           NEW to, to # "WAITING", stage' = [stage EXCEPT ![r] = to],
           NEW l, call' = [call EXCEPT ![r] = l],
           UNCHANGED <<flightWaiters, totalWaiters>>
    PROVE  CountersTypeOK' /\ WaitersCounted'
<1>1. \A q \in Requests : stage'[q] = "WAITING" <=> stage[q] = "WAITING"
  BY DEF LoginInvariant, LoginTypeOK
<1>2. \A q \in Requests : stage[q] = "WAITING" => call'[q] = call[q]
  BY DEF LoginInvariant, LoginTypeOK
<1> QED
  BY <1>1, <1>2, StandingKeepsCounts

LEMMA CountsKept ==
    ASSUME CountersTypeOK, WaitersCounted, LoginInvariant, [DataPlaneNext]_dataPlaneVars
    PROVE  CountersTypeOK' /\ WaitersCounted'
<1> DEFINE Counts == CountersTypeOK /\ WaitersCounted
<1>1. CASE UNCHANGED <<stage, call, flightWaiters, totalWaiters>>
  BY <1>1, StandingKeepsCounts
<1>2. CASE Govern \/ UNCHANGED dataPlaneVars \/ \E k \in negatives : Forget(k)
  BY <1>1, <1>2 DEF Govern, Forget, dataPlaneVars, flightVars, requestVars
<1>3. ASSUME NEW r \in Requests, NEW user \in Users, NEW pwd \in Passwords,
             NEW certain \in BOOLEAN, LookUp(r, user, pwd, certain)
      PROVE  Counts'
  <2>1. stage[r] # "WAITING" /\ UNCHANGED <<flightWaiters, totalWaiters>>
    BY <1>3 DEF LookUp, flightVars
  <2>2. PICK l : call' = [call EXCEPT ![r] = l]
    BY <1>3 DEF LookUp
  <2>3. PICK to : to # "WAITING" /\ stage' = [stage EXCEPT ![r] = to]
    BY <1>3 DEF LookUp
  <2> QED
    BY <2>1, <2>2, <2>3, MoveKeepsCounts
<1>4. ASSUME NEW r \in Requests, NEW d, Settle(r, d), stage[r] # "WAITING",
             UNCHANGED <<flightWaiters, totalWaiters>>
      PROVE  Counts'
  BY <1>4, MoveKeepsCounts DEF Settle
<1>5. ASSUME NEW r \in Requests, NEW policyDenies \in BOOLEAN,
             VerifyFailOpen(r, policyDenies) \/ Retry(r, policyDenies)
      PROVE  Counts'
  <2>1. /\ stage[r] # "WAITING" /\ UNCHANGED <<flightWaiters, totalWaiters>>
        /\ \E d : Settle(r, d)
    BY <1>5 DEF VerifyFailOpen, Retry, SettleFailOpen, flightVars
  <2> QED
    BY <1>4, <2>1
<1>6. ASSUME NEW r \in Requests, LookUpNegative(r)
      PROVE  Counts'
  <2>1. stage[r] # "WAITING" /\ UNCHANGED <<flightWaiters, totalWaiters>>
    BY <1>6 DEF LookUpNegative, flightVars
  <2>2. CASE KeyOf(r) \in negatives
    BY <1>4, <1>6, <2>1, <2>2 DEF LookUpNegative
  <2>3. CASE KeyOf(r) \notin negatives
    BY <1>6, <2>1, <2>3, StandingKeepsCounts DEF LookUpNegative, LoginInvariant, LoginTypeOK
  <2> QED
    BY <2>2, <2>3
<1>7. ASSUME NEW r \in Requests, NEW certified \in BOOLEAN, Screen(r, certified)
      PROVE  Counts'
  <2>1. stage[r] # "WAITING" /\ UNCHANGED <<flightWaiters, totalWaiters>>
    BY <1>7 DEF Screen, flightVars
  <2>2. CASE certified /\ call[r].pwd \notin Creds[call[r].view]
    BY <1>4, <1>7, <2>1, <2>2 DEF Screen
  <2>3. CASE ~(certified /\ call[r].pwd \notin Creds[call[r].view])
    BY <1>7, <2>1, <2>3, MoveKeepsCounts DEF Screen
  <2> QED
    BY <2>2, <2>3
<1>8. ASSUME NEW r \in Requests, Join(r)
      PROVE  Counts'
  <2>1. stage[r] = "FORWARDED"
    BY <1>8 DEF Join
  <2>2. CASE /\ Lead(r, KeyOf(r)) /\ stage' = [stage EXCEPT ![r] = "LEADING"]
             /\ UNCHANGED call
    BY <2>1, <2>2, StandingKeepsCounts DEF Lead, LoginInvariant, LoginTypeOK
  <2>3. CASE /\ Wait(KeyOf(r)) /\ stage' = [stage EXCEPT ![r] = "WAITING"]
             /\ call' = [call EXCEPT ![r].following = flights[KeyOf(r)]]
    BY <2>1, <2>3, WaitKeepsCounts
  <2>4. CASE Compared(r, TransientFailure, "UNAVAILABLE") /\ UNCHANGED flightVars
    BY <2>1, <2>4, MoveKeepsCounts DEF Compared, flightVars
  <2> QED
    BY <1>8, <2>2, <2>3, <2>4 DEF Join
<1>9. ASSUME NEW r \in Requests, Verify(r)
      PROVE  Counts'
  <2>1. PICK outcome : call' = [call EXCEPT ![r].result = outcome]
    BY <1>9 DEF Verify
  <2> QED
    BY <1>9, <2>1, MoveKeepsCounts DEF Verify, flightVars
<1>10. ASSUME NEW r \in Requests, CompleteFlight(r)
       PROVE  Counts'
  BY <1>10, StandingKeepsCounts DEF CompleteFlight, Complete, LoginInvariant, LoginTypeOK
<1>11. ASSUME NEW r \in Requests, TakeResult(r) \/ TimeOut(r)
       PROVE  Counts'
  BY <1>11, LeaveKeepsCounts DEF TakeResult, TimeOut
<1>12. ASSUME NEW r \in Requests, NEW admitted \in BOOLEAN, NEW policyDenies \in BOOLEAN,
              Decide(r, admitted, policyDenies)
       PROVE  Counts'
  BY <1>4, <1>12 DEF Decide, flightVars
<1> QED
  BY <1>2, <1>3, <1>5, <1>6, <1>7, <1>8, <1>9, <1>10, <1>11, <1>12
  DEF DataPlaneNext, Proceed

\* The counts are naturals, exact and within their caps in every state.
LEMMA CountsHold == DataPlaneSpec => [](CountersTypeOK /\ WaitersCounted)
<1> DEFINE Counts == CountersTypeOK /\ WaitersCounted
<1>1. DataPlaneInit => Counts
  <2> SUFFICES ASSUME DataPlaneInit
               PROVE  Counts
    OBVIOUS
  <2>1. Waiting = {} /\ \A r : Followers(r) = {}
    BY DEF DataPlaneInit, Waiting, Followers
  <2> QED
    BY <2>1, FS_EmptySet, FlightAssumption
    DEF FlightAssumption, DataPlaneInit, FlightInit, CountersTypeOK, WaitersCounted
<1>2. Counts /\ LoginInvariant /\ [DataPlaneNext]_dataPlaneVars => Counts'
  BY CountsKept
<1> QED
  BY <1>1, <1>2, LoginControl, PTL DEF DataPlaneSpec

\* The flight table and its counts (singleflight.py, execute): a flight is in the
\* table exactly while its leader works on it, and the waiter counts are exact
\* and within their caps, through time-outs, failures and late results.
THEOREM FlightAccounting == DataPlaneSpec => []FlightsAccounted
<1>1. WaitersCounted /\ LoginInvariant => FlightsAccounted
  BY DEF LoginInvariant, FlightsAccounted
<1> QED
  BY <1>1, LoginControl, CountsHold, PTL

-----------------------------------------------------------------------------
(* Type correctness of the rest.                                           *)

RecordedTypeOK ==
    /\ decision \in [Requests -> Decisions \cup {None}]
    /\ negatives \in SUBSET NegativeKeys
    /\ continuous \in SUBSET Requests
    /\ allowed \in SUBSET Requests
    /\ excuse \in [Requests -> Excuses]

\* Every decision made is a typed one.
LEMMA DecisionTypes ==
    /\ \A kind \in ResultKinds, policyDenies \in BOOLEAN : Finalized(kind, policyDenies) \in Outcomes
    /\ \A disposition, kind : RouteOf(disposition, kind) \in Routes
    /\ \A route \in Routes, outcome \in Outcomes : Decision(route, outcome) \in Decisions
    /\ \A outcome, l, snapshot : ExcuseOf(outcome, l, snapshot) \in Excuses
  BY DEF Finalized, Outcomes, RouteOf, Routes, Decision, Decisions, ExcuseOf, Excuses

LEMMA SettleFailOpenTypes ==
    ASSUME AuthorityTypeOK, LoginInvariant, RecordedTypeOK,
           NEW r \in Requests, NEW policyDenies \in BOOLEAN,
           stage[r] \in {"UNCERTAIN", "COMPARED"}, SettleFailOpen(r, policyDenies)
    PROVE  RecordedTypeOK'
<1> DEFINE snapshot == FailOpenSnapshot(call[r].user)
<1>1. call[r].user \in Users
  BY DEF LoginInvariant, LoginTypeOK, Calls
<1>2. snapshot \in SUBSET Scopes
  BY <1>1, SnapshotsAreScopes DEF AuthorityTypeOK
<1>3. PICK outcome \in VerifyOutcomes(call[r], snapshot) :
         /\ Settle(r, Decision("FAIL_OPEN_BACKEND", Finalized(outcome.kind, policyDenies)))
         /\ excuse' = [excuse EXCEPT ![r] = ExcuseOf(outcome, call[r], snapshot)]
  BY DEF SettleFailOpen
<1> HIDE DEF snapshot
<1>4. outcome.kind \in ResultKinds
  BY <1>2, OutcomesTruthful DEF BackendResults
<1>5. Decision("FAIL_OPEN_BACKEND", Finalized(outcome.kind, policyDenies)) \in Decisions
  BY <1>4, DecisionTypes DEF Routes
<1>6. ExcuseOf(outcome, call[r], snapshot) \in Excuses
  BY DecisionTypes
<1> QED
  BY <1>3, <1>5, <1>6 DEF SettleFailOpen, Settle, RecordedTypeOK

LEMMA RecordedKept ==
    ASSUME AuthorityTypeOK, LoginInvariant, RecordedTypeOK,
           [DataPlaneNext]_dataPlaneVars
    PROVE  RecordedTypeOK'
<1>1. CASE Govern
  BY <1>1 DEF Govern, requestVars, RecordedTypeOK
<1>2. ASSUME NEW r \in Requests, NEW user \in Users, NEW pwd \in Passwords,
             NEW certain \in BOOLEAN, LookUp(r, user, pwd, certain)
      PROVE  RecordedTypeOK'
  BY <1>2 DEF LookUp, RecordedTypeOK
<1>3. ASSUME NEW r \in Requests, NEW policyDenies \in BOOLEAN,
             VerifyFailOpen(r, policyDenies) \/ Retry(r, policyDenies)
      PROVE  RecordedTypeOK'
  BY <1>3, SettleFailOpenTypes DEF VerifyFailOpen, Retry
<1>4. ASSUME NEW r \in Requests, LookUpNegative(r)
      PROVE  RecordedTypeOK'
  <2>1. Decision("NEGATIVE_CACHE_REJECT", "NONE") \in Decisions
    BY DecisionTypes DEF Routes, Outcomes
  <2> QED
    BY <1>4, <2>1 DEF LookUpNegative, Settle, ghostVars, RecordedTypeOK
<1>5. ASSUME NEW r \in Requests, NEW certified \in BOOLEAN, Screen(r, certified)
      PROVE  RecordedTypeOK'
  <2>1. Decision("POSITIVE_SCREEN_REJECT", "NONE") \in Decisions
    BY DecisionTypes DEF Routes, Outcomes
  <2> QED
    BY <1>5, <2>1 DEF Screen, Settle, ghostVars, RecordedTypeOK
<1>6. ASSUME NEW r \in Requests, Join(r)
      PROVE  RecordedTypeOK'
  BY <1>6 DEF Join, Compared, Excuses, RecordedTypeOK
<1>7. ASSUME NEW r \in Requests, Verify(r)
      PROVE  RecordedTypeOK'
  <2>1. PICK why \in Excuses : excuse' = [excuse EXCEPT ![r] = why]
    BY <1>7, DecisionTypes DEF Verify
  <2> QED
    BY <1>7, <2>1 DEF Verify, RecordedTypeOK
<1>8. ASSUME NEW r \in Requests, CompleteFlight(r)
      PROVE  RecordedTypeOK'
  BY <1>8 DEF CompleteFlight, ghostVars, RecordedTypeOK
<1>9. ASSUME NEW r \in Requests, TakeResult(r)
      PROVE  RecordedTypeOK'
  <2>1. PICK leader \in Requests : leader = call[r].following
    BY <1>9, KeyType DEF TakeResult, LoginInvariant, WaitersFollow, Follows, Calls
  <2> QED
    BY <1>9, <2>1 DEF TakeResult, Compared, RecordedTypeOK
<1>10. ASSUME NEW r \in Requests, TimeOut(r)
       PROVE  RecordedTypeOK'
  BY <1>10 DEF TimeOut, Compared, Excuses, RecordedTypeOK
<1>11. ASSUME NEW r \in Requests, NEW admitted \in BOOLEAN, NEW policyDenies \in BOOLEAN,
              Decide(r, admitted, policyDenies)
       PROVE  RecordedTypeOK'
  <2> DEFINE outcome == Finalized(call[r].result.kind, policyDenies)
  <2>1. stage[r] = "COMPARED"
    BY <1>11 DEF Decide
  <2>2. KeyOf(r) \in NegativeKeys /\ call[r] \in Calls /\ call[r].result # None
    BY <2>1, KeyType DEF LoginInvariant, ResultsTruthful
  <2>3. call[r].result.kind \in ResultKinds
    BY <2>2 DEF Calls, BackendResults
  <2>4. Decision(RouteOf(call[r].screened, outcome), outcome) \in Decisions
    BY <2>3, DecisionTypes
  <2>5. negatives' \in SUBSET NegativeKeys
    BY <1>11, <2>2 DEF Decide, RecordedTypeOK
  <2> QED
    BY <1>11, <2>4, <2>5 DEF Decide, Settle, ghostVars, RecordedTypeOK
<1>12. ASSUME NEW k \in negatives, Forget(k)
       PROVE  RecordedTypeOK'
  BY <1>12 DEF Forget, requestVars, ghostVars, RecordedTypeOK
<1>13. CASE UNCHANGED dataPlaneVars
  BY <1>13 DEF dataPlaneVars, requestVars, ghostVars, RecordedTypeOK
<1> QED
  BY <1>1, <1>2, <1>3, <1>4, <1>5, <1>6, <1>7, <1>8, <1>9, <1>10, <1>11, <1>12, <1>13
  DEF DataPlaneNext, Proceed

\* Type correctness of the login path: among it, that a waiter count is never
\* driven below zero and that a request has locals exactly while it is underway.
THEOREM DataPlaneTypes == DataPlaneSpec => []DataPlaneTypeOK
<1>1. DataPlaneInit => RecordedTypeOK
  BY DEF DataPlaneInit, RecordedTypeOK, Excuses
<1>2. /\ AuthorityTypeOK /\ LoginInvariant /\ RecordedTypeOK /\ [DataPlaneNext]_dataPlaneVars
      => RecordedTypeOK'
  BY RecordedKept
<1>3. AuthorityTypeOK /\ LoginInvariant /\ RecordedTypeOK /\ CountersTypeOK => DataPlaneTypeOK
  BY DEF LoginInvariant, RecordedTypeOK, CountersTypeOK, DataPlaneTypeOK
<1> QED
  BY <1>1, <1>2, <1>3, LoginControl, CountsHold, PTL DEF DataPlaneSpec

-----------------------------------------------------------------------------
(* What a login may say of the time it was underway: a password that was   *)
(* valid all along is not denied, an accepted one was allowed at some      *)
(* moment.                                                                 *)

(* The verifier store follows the directory.                               *)

\* All the store keeps for a username is of one identity, that of its active
\* version, which it accepts.
StoreOwned ==
    /\ \A u \in Users : active[u] # None =>
          /\ UserOf(active[u]) = u
          /\ active[u] \in acceptedHistory
          /\ active[u] \in failOpenVersions[u]
    /\ \A t \in acceptedHistory :
          active[UserOf(t)] # None /\ SameIdentity(t, active[UserOf(t)])

\* What the directory presents is of that identity and, until its deletion begins,
\* accepted.
PresentedAccepted ==
    \A u \in Users : current[u] # None =>
        /\ UserOf(current[u]) = u
        /\ current[u].gen = lastGen[u]
        /\ active[u] # None => SameIdentity(current[u], active[u])
        /\ u \notin removing => active[u] # None /\ current[u] \in FailOpenSnapshot(u)

StoreFollows == StoreOwned /\ PresentedAccepted

LEMMA SameOwner ==
    ASSUME NEW s, NEW t, SameIdentity(s, t)
    PROVE  UserOf(s) = UserOf(t) /\ SameIdentity(t, s) /\ s.gen = t.gen
  BY DEF SameIdentity, UserOf

LEMMA AdvanceFollows ==
    ASSUME AuthorityTypeOK, StoreFollows, NEW s \in Scopes, AdvanceBackend(s)
    PROVE  StoreFollows'
<1> DEFINE u == UserOf(s)
<1> USE DEF StoreFollows, AuthorityTypeOK, BackendTypeOK
<1>1. u \in Users /\ s # None /\ UNCHANGED <<current, lastGen, removing>>
  BY ScopeFields, IdentityAssumption DEF AdvanceBackend, IdentityAssumption
<1>2. CASE UNCHANGED backendVars
  BY <1>1, <1>2 DEF backendVars, StoreOwned, PresentedAccepted, FailOpenSnapshot
<1>3. CASE active[u] # s
  <2>1. /\ active' = [active EXCEPT ![u] = s]
        /\ acceptedHistory' = acceptedHistory \cup ({active[u]} \ {None}) \cup {s}
        /\ \A v \in Users \ {u} : failOpenVersions'[v] = failOpenVersions[v]
        /\ failOpenVersions'[u] = {s} \cup {t \in {active[u]} \ {None} : SameIdentity(t, s)}
    BY <1>1, <1>3 DEF AdvanceBackend, ActivateVersion
  <2>2. active[u] # None => current[u] = active[u] /\ SameIdentity(s, active[u])
    BY <1>1, <1>3 DEF AdvanceBackend, Succeeds
  <2>3. \A t \in acceptedHistory : UserOf(t) = u => SameIdentity(t, s)
    BY <2>2, SameOwner DEF StoreOwned, SameIdentity
  <2>4. active'[u] = s /\ \A v \in Users \ {u} : active'[v] = active[v]
    BY <1>1, <2>1
  <2> HIDE DEF u
  <2>5. ASSUME NEW v \in Users, active'[v] # None
        PROVE  /\ UserOf(active'[v]) = v
               /\ active'[v] \in acceptedHistory' /\ active'[v] \in failOpenVersions'[v]
    BY <2>1, <2>4, <2>5 DEF StoreOwned, u
  <2>6. ASSUME NEW t \in acceptedHistory'
        PROVE  active'[UserOf(t)] # None /\ SameIdentity(t, active'[UserOf(t)])
    <3>1. t \in Scopes /\ UserOf(t) \in Users
      BY <1>1, <2>1, ScopeFields
    <3>2. CASE UserOf(t) = u
      <4>1. SameIdentity(t, s)
        BY <2>1, <2>2, <2>3, <2>6, <3>2, SameOwner DEF SameIdentity
      <4> QED
        BY <1>1, <2>4, <3>2, <4>1
    <3>3. CASE UserOf(t) # u
      <4>1. t \in acceptedHistory
        BY <1>1, <2>1, <2>6, <3>3 DEF StoreOwned, u
      <4> QED
        BY <2>4, <3>1, <3>3, <4>1 DEF StoreOwned
    <3> QED
      BY <3>2, <3>3
  <2>7. ASSUME NEW v \in Users, current[v] # None
        PROVE  /\ active'[v] # None => SameIdentity(current[v], active'[v])
               /\ v \notin removing =>
                    active'[v] # None /\ current[v] \in failOpenVersions'[v] \cap acceptedHistory'
    <3>1. CASE v # u
      BY <2>1, <2>4, <2>7, <3>1 DEF PresentedAccepted, FailOpenSnapshot
    <3>2. CASE v = u
      <4>1. SameIdentity(s, current[u])
        BY <2>7, <3>2 DEF AdvanceBackend, Succeeds, u
      <4>2. u \notin removing => active[u] = current[u]
        BY <1>3, <2>2, <2>7, <3>2 DEF PresentedAccepted
      <4> QED
        BY <1>1, <2>1, <2>4, <2>7, <3>2, <4>1, <4>2, SameOwner DEF SameIdentity
    <3> QED
      BY <3>1, <3>2
  <2> QED
    BY <1>1, <2>5, <2>6, <2>7 DEF StoreOwned, PresentedAccepted, FailOpenSnapshot
<1> QED
  BY <1>2, <1>3 DEF AdvanceBackend, ActivateVersion

LEMMA AuthorityFollows ==
    ASSUME AuthorityTypeOK, StoreFollows, AuthorityNext
    PROVE  StoreFollows'
<1> USE DEF AuthorityTypeOK, BackendTypeOK
<1>1. ASSUME NEW s \in Scopes, Offer(s)
      PROVE  StoreFollows'
  BY <1>1 DEF Offer, PrepareVersion, StoreFollows, StoreOwned, PresentedAccepted, FailOpenSnapshot
<1>2. ASSUME NEW s \in Scopes, PresentVersion(s)
      PROVE  StoreFollows'
  <2>1. UserOf(s) \in Users /\ active[UserOf(s)] = s /\ s # None
    BY <1>2, ScopeFields, IdentityAssumption DEF PresentVersion, IdentityAssumption
  <2>2. StoreOwned'
    BY <1>2 DEF PresentVersion, backendVars, StoreFollows, StoreOwned
  <2>3. s \in FailOpenSnapshot(UserOf(s)) /\ SameIdentity(s, s)
    BY <2>1 DEF StoreFollows, StoreOwned, FailOpenSnapshot, SameIdentity
  <2>4. PresentedAccepted'
    BY <1>2, <2>1, <2>3 DEF PresentVersion, backendVars, StoreFollows, PresentedAccepted,
                            FailOpenSnapshot
  <2> QED
    BY <2>2, <2>4 DEF StoreFollows
<1>3. ASSUME NEW s \in Scopes, CloseWindow(s)
      PROVE  StoreFollows'
  <2> DEFINE u == UserOf(s)
  <2>1. /\ u \in Users /\ current[u] = s /\ active[u] = s /\ s # None
        /\ UNCHANGED <<active, current, lastGen, removing>>
        /\ failOpenVersions' = [failOpenVersions EXCEPT ![u] = {s}]
        /\ acceptedHistory' = acceptedHistory \ {t \in Scopes : SameIdentity(t, s) /\ t # s}
    BY <1>3, ScopeFields, IdentityAssumption
    DEF CloseWindow, CommitDirectoryVersion, IdentityAssumption
  <2>2. ASSUME NEW v \in Users, v # u, NEW t, UserOf(t) = v, t \in acceptedHistory
        PROVE  t \in acceptedHistory'
    BY <2>1, <2>2, SameOwner
  <2>3. s \in acceptedHistory'
    BY <2>1 DEF StoreFollows, StoreOwned
  <2> HIDE DEF u
  <2>4. \A v \in Users : active[v] # None => active[v] \in acceptedHistory' /\ active[v] \in failOpenVersions'[v]
    BY <2>1, <2>2, <2>3 DEF StoreFollows, StoreOwned
  <2>5. StoreOwned'
    BY <2>1, <2>4 DEF StoreFollows, StoreOwned
  <2>6. ASSUME NEW v \in Users, current[v] # None, v \notin removing
        PROVE  current[v] \in failOpenVersions'[v] \cap acceptedHistory'
    BY <2>1, <2>2, <2>3, <2>6 DEF StoreFollows, PresentedAccepted, FailOpenSnapshot
  <2> QED
    BY <2>1, <2>5, <2>6 DEF StoreFollows, PresentedAccepted, FailOpenSnapshot
<1>4. ASSUME NEW u \in Users, NEW gen \in Generations, Withdraw(u, gen)
      PROVE  StoreFollows'
  <2>1. UNCHANGED <<current, lastGen>>
    BY <1>4 DEF Withdraw
  <2>2. CASE active[u] = None
    BY <1>4, <2>1, <2>2 DEF Withdraw, DeleteBackendAccount, backendVars, StoreFollows, StoreOwned,
                            PresentedAccepted, FailOpenSnapshot
  <2>3. CASE active[u] # None
    <3>1. /\ active' = [active EXCEPT ![u] = None]
          /\ failOpenVersions' = [failOpenVersions EXCEPT ![u] = {}]
          /\ acceptedHistory' = acceptedHistory \ {t \in Scopes : SameIdentity(t, active[u])}
      BY <1>4, <2>3 DEF Withdraw, DeleteBackendAccount
    <3>2. UserOf(active[u]) = u
      BY <2>3 DEF StoreFollows, StoreOwned
    <3>3. ASSUME NEW t \in acceptedHistory
          PROVE  t \in acceptedHistory' <=> UserOf(t) # u
      BY <3>1, <3>2, SameOwner DEF StoreFollows, StoreOwned
    <3>4. acceptedHistory' \subseteq acceptedHistory
      BY <3>1
    <3>5. current[u] # None => u \in removing'
      BY <1>4 DEF Withdraw
    <3>6. removing \subseteq removing'
      BY <1>4 DEF Withdraw
    <3>7. StoreOwned'
      BY <3>1, <3>3, <3>4, ScopeFields DEF StoreFollows, StoreOwned
    <3>8. ASSUME NEW v \in Users, v # u, v \notin removing', current[v] # None
          PROVE  active'[v] # None /\ current[v] \in failOpenVersions'[v] \cap acceptedHistory'
      BY <3>1, <3>3, <3>6, <3>8 DEF StoreFollows, PresentedAccepted, FailOpenSnapshot
    <3>9. \A v \in Users : active'[v] = IF v = u THEN None ELSE active[v]
      BY <3>1
    <3> QED
      BY <2>1, <3>5, <3>7, <3>8, <3>9 DEF StoreFollows, PresentedAccepted, FailOpenSnapshot
  <2> QED
    BY <2>2, <2>3
<1>5. ASSUME NEW u \in Users, Remove(u)
      PROVE  StoreFollows'
  BY <1>5 DEF Remove, backendVars, StoreFollows, StoreOwned, PresentedAccepted, FailOpenSnapshot
<1> QED
  BY <1>1, <1>2, <1>3, <1>4, <1>5, AdvanceFollows DEF AuthorityNext

\* How far one step of the authority moves: generations only grow; the directory
\* presents the identity it presented, a generation never recorded, or nothing;
\* a deletion ends with nothing presented; what is newly accepted is in the window.
AuthorityMoves ==
    /\ \A u \in Users :
          /\ lastGen[u] \in Nat /\ lastGen'[u] \in Nat /\ lastGen[u] <= lastGen'[u]
          /\ \/ current'[u] = None
             \/ /\ current[u] # None /\ SameIdentity(current'[u], current[u])
                /\ u \in removing => u \in removing'
             \/ current[u] = None /\ current'[u].gen > lastGen[u]
    /\ \A t \in acceptedHistory' \ acceptedHistory : t \in FailOpenSnapshot(UserOf(t))'

LEMMA RecordedGenerations ==
    ASSUME AuthorityTypeOK
    PROVE  \A u \in Users : lastGen[u] \in Nat
<1>1. \A gen \in Generations \cup {0} : gen \in Nat
  BY IdentityAssumption DEF IdentityAssumption
<1> QED
  BY <1>1 DEF AuthorityTypeOK

LEMMA AuthorityStepMoves ==
    ASSUME AuthorityTypeOK, StoreFollows, AuthorityNext \/ UNCHANGED authorityVars
    PROVE  AuthorityMoves
<1> USE DEF AuthorityTypeOK, BackendTypeOK
<1>0. \A u \in Users : lastGen[u] \in Nat
  BY RecordedGenerations
<1>1. CASE UNCHANGED <<current, lastGen, removing>> /\ acceptedHistory' \subseteq acceptedHistory
  BY <1>0, <1>1 DEF AuthorityMoves, SameIdentity
<1>2. ASSUME NEW s \in Scopes, Offer(s) \/ CloseWindow(s)
      PROVE  AuthorityMoves
  BY <1>1, <1>2 DEF Offer, PrepareVersion, CloseWindow, CommitDirectoryVersion
<1>3. ASSUME NEW s \in Scopes, AdvanceBackend(s)
      PROVE  AuthorityMoves
  <2>1. UserOf(s) \in Users /\ s # None /\ UNCHANGED <<current, lastGen, removing>>
    BY <1>3, ScopeFields, IdentityAssumption DEF AdvanceBackend, IdentityAssumption
  <2>2. CASE UNCHANGED backendVars
    BY <1>1, <2>1, <2>2 DEF backendVars
  <2>3. CASE active[UserOf(s)] # s
    <3>1. /\ active'[UserOf(s)] = s /\ s \in failOpenVersions'[UserOf(s)]
          /\ s \in acceptedHistory'
          /\ \A t \in acceptedHistory' \ acceptedHistory : t = s
      BY <1>3, <2>1, <2>3 DEF AdvanceBackend, ActivateVersion, StoreFollows, StoreOwned
    <3>2. \A t \in acceptedHistory' \ acceptedHistory : t \in FailOpenSnapshot(UserOf(t))'
      BY <2>1, <3>1 DEF FailOpenSnapshot
    <3> QED
      BY <1>0, <2>1, <3>2 DEF AuthorityMoves, SameIdentity
  <2> QED
    BY <1>3, <2>2, <2>3 DEF AdvanceBackend, ActivateVersion
<1>4. ASSUME NEW s \in Scopes, PresentVersion(s)
      PROVE  AuthorityMoves
  <2>1. /\ UserOf(s) \in Users /\ s.gen \in Nat /\ Succeeds(s)
        /\ current' = [current EXCEPT ![UserOf(s)] = s]
        /\ lastGen' = [lastGen EXCEPT ![UserOf(s)] = s.gen]
        /\ UNCHANGED <<acceptedHistory, removing>>
    BY <1>4, ScopeFields, IdentityAssumption DEF PresentVersion, backendVars, IdentityAssumption, Scopes
  <2>2. lastGen[UserOf(s)] <= s.gen
    BY <1>0, <2>1 DEF Succeeds, SameIdentity, StoreFollows, PresentedAccepted
  <2>3. \/ current[UserOf(s)] # None /\ SameIdentity(s, current[UserOf(s)])
        \/ current[UserOf(s)] = None /\ s.gen > lastGen[UserOf(s)]
    BY <2>1 DEF Succeeds
  <2> QED
    BY <1>0, <2>1, <2>2, <2>3 DEF AuthorityMoves, SameIdentity
<1>5. ASSUME NEW u \in Users, NEW gen \in Generations, Withdraw(u, gen)
      PROVE  AuthorityMoves
  BY <1>0, <1>5 DEF Withdraw, DeleteBackendAccount, backendVars, AuthorityMoves, SameIdentity
<1>6. ASSUME NEW u \in Users, Remove(u)
      PROVE  AuthorityMoves
  BY <1>0, <1>6 DEF Remove, backendVars, AuthorityMoves, SameIdentity
<1>7. CASE UNCHANGED authorityVars
  BY <1>1, <1>7 DEF authorityVars, backendVars
<1> QED
  BY <1>2, <1>3, <1>4, <1>5, <1>6, <1>7 DEF AuthorityNext

-----------------------------------------------------------------------------
(* What stays true of an identity the directory has moved past.            *)

\* The directory presented a generation at least as late and does not present
\* the identity of s: it never will again.
Past(s) ==
    /\ s.gen <= lastGen[UserOf(s)]
    /\ current[UserOf(s)] # None => ~SameIdentity(s, current[UserOf(s)])

\* The same, or the account is being deleted.
Gone(s) ==
    /\ s.gen <= lastGen[UserOf(s)]
    /\ current[UserOf(s)] # None =>
          UserOf(s) \in removing \/ ~SameIdentity(s, current[UserOf(s)])

LEMMA PastStays ==
    ASSUME AuthorityMoves, NEW s \in Scopes
    PROVE  (Past(s) => Past(s)') /\ (Gone(s) => Gone(s)')
<1>1. PICK u \in Users : u = UserOf(s)
  BY ScopeFields
<1>2. s.gen \in Nat
  BY IdentityAssumption DEF IdentityAssumption, Scopes
<1>3. s.gen <= lastGen[u] => s.gen <= lastGen'[u]
  BY <1>2 DEF AuthorityMoves
<1>4. CASE current'[u] = None
  BY <1>1, <1>3, <1>4 DEF Past, Gone
<1>5. CASE current[u] # None /\ SameIdentity(current'[u], current[u])
           /\ (u \in removing => u \in removing')
  BY <1>1, <1>3, <1>5 DEF Past, Gone, SameIdentity
<1>6. CASE current[u] = None /\ current'[u].gen > lastGen[u]
  <2>1. s.gen <= lastGen[u] => s.gen # current'[u].gen
    BY <1>2, <1>6 DEF AuthorityMoves
  <2> QED
    BY <1>1, <1>3, <2>1 DEF Past, Gone, SameIdentity
<1> QED
  BY <1>4, <1>5, <1>6 DEF AuthorityMoves

-----------------------------------------------------------------------------
(* The steps of the data plane, by what they leave alone.                  *)

\* A step of the login r: the authority and the ghosts that watch it stand still,
\* as do the other logins, and r keeps its credentials and its view.
OwnStep(r) ==
    /\ UNCHANGED <<authorityVars, continuous, allowed>>
    /\ Underway(r)
    /\ \A q \in Requests \ {r} :
          /\ stage'[q] = stage[q] /\ call'[q] = call[q]
          /\ decision'[q] = decision[q] /\ excuse'[q] = excuse[q]
    /\ stage'[r] \in Stages \ {"IDLE"}
    /\ stage'[r] # "DONE" =>
          /\ call'[r].user = call[r].user /\ call'[r].pwd = call[r].pwd
          /\ call'[r].view = call[r].view

\* A step of no login at all.
Standing == UNCHANGED <<authorityVars, flightVars, requestVars, ghostVars>>

LEMMA SettleIsOwn ==
    ASSUME LoginInvariant, RecordedTypeOK, NEW r \in Requests, NEW d, NEW why, Settle(r, d),
           Underway(r), UNCHANGED <<authorityVars, continuous, allowed>>,
           excuse' = [excuse EXCEPT ![r] = why]
    PROVE  OwnStep(r)
  BY DEF LoginInvariant, LoginTypeOK, RecordedTypeOK, Settle, OwnStep, Stages

LEMMA MoveIsOwn ==
    ASSUME LoginInvariant, RecordedTypeOK, NEW r \in Requests,
           NEW to \in Stages \ {"IDLE"}, NEW l, NEW why,
           Underway(r), UNCHANGED <<authorityVars, decision, continuous, allowed>>,
           stage' = [stage EXCEPT ![r] = to], call' = [call EXCEPT ![r] = l],
           l.user = call[r].user, l.pwd = call[r].pwd, l.view = call[r].view,
           excuse' = [excuse EXCEPT ![r] = why]
    PROVE  OwnStep(r)
  BY DEF LoginInvariant, LoginTypeOK, RecordedTypeOK, OwnStep

LEMMA ProceedIsOwn ==
    ASSUME LoginInvariant, RecordedTypeOK, NEW r \in Requests, Proceed(r) \/ TimeOut(r)
    PROVE  OwnStep(r)
<1>1. excuse = [excuse EXCEPT ![r] = excuse[r]]
  BY DEF RecordedTypeOK
<1>2. Underway(r) => call[r] \in Calls /\ call = [call EXCEPT ![r] = call[r]]
  BY DEF LoginInvariant, LoginTypeOK, Underway
<1>3. ASSUME NEW policyDenies \in BOOLEAN, VerifyFailOpen(r, policyDenies) \/ Retry(r, policyDenies)
      PROVE  OwnStep(r)
  <2>1. PICK d, why : Settle(r, d) /\ excuse' = [excuse EXCEPT ![r] = why]
    BY <1>3 DEF VerifyFailOpen, Retry, SettleFailOpen
  <2> QED
    BY <1>3, <2>1, SettleIsOwn DEF VerifyFailOpen, Retry, SettleFailOpen, Underway
<1>4. CASE LookUpNegative(r)
  <2>1. Underway(r) /\ UNCHANGED <<authorityVars, excuse, continuous, allowed>>
    BY <1>4 DEF LookUpNegative, Underway, ghostVars
  <2>2. CASE KeyOf(r) \in negatives
    BY <1>1, <1>4, <2>1, <2>2, SettleIsOwn DEF LookUpNegative
  <2>3. CASE KeyOf(r) \notin negatives
    BY <1>1, <1>2, <1>4, <2>1, <2>3, MoveIsOwn DEF LookUpNegative, Stages
  <2> QED
    BY <2>2, <2>3
<1>5. ASSUME NEW certified \in BOOLEAN, Screen(r, certified)
      PROVE  OwnStep(r)
  <2>1. Underway(r) /\ UNCHANGED <<authorityVars, excuse, continuous, allowed>>
    BY <1>5 DEF Screen, Underway, ghostVars
  <2>2. CASE certified /\ call[r].pwd \notin Creds[call[r].view]
    BY <1>1, <1>5, <2>1, <2>2, SettleIsOwn DEF Screen
  <2>3. CASE ~(certified /\ call[r].pwd \notin Creds[call[r].view])
    <3>1. PICK screened : call' = [call EXCEPT ![r] = [call[r] EXCEPT !.screened = screened]]
      BY <1>5, <2>3 DEF Screen
    <3>2. stage' = [stage EXCEPT ![r] = "FORWARDED"] /\ UNCHANGED decision
      BY <1>5, <2>3 DEF Screen
    <3> DEFINE l == [call[r] EXCEPT !.screened = screened]
    <3>3. l.user = call[r].user /\ l.pwd = call[r].pwd /\ l.view = call[r].view
      BY <1>2, <2>1 DEF Calls
    <3> HIDE DEF l
    <3> QED
      BY <1>1, <2>1, <3>1, <3>2, <3>3, MoveIsOwn DEF Stages, l
  <2> QED
    BY <2>2, <2>3
<1>6. ASSUME NEW result, NEW why, Compared(r, result, why), Underway(r),
             UNCHANGED <<authorityVars, decision, continuous, allowed>>
      PROVE  OwnStep(r)
  <2> DEFINE l == [call[r] EXCEPT !.result = result]
  <2>1. l.user = call[r].user /\ l.pwd = call[r].pwd /\ l.view = call[r].view
    BY <1>2, <1>6 DEF Calls
  <2>2. call' = [call EXCEPT ![r] = l]
    BY <1>6 DEF Compared
  <2> HIDE DEF l
  <2> QED
    BY <1>6, <2>1, <2>2, MoveIsOwn DEF Compared, Stages
<1>7. CASE Join(r)
  <2>1. Underway(r) /\ UNCHANGED <<authorityVars, decision, continuous, allowed>>
    BY <1>7 DEF Join, Underway
  <2>2. CASE stage' = [stage EXCEPT ![r] = "LEADING"] /\ UNCHANGED <<call, excuse>>
    BY <1>1, <1>2, <2>1, <2>2, MoveIsOwn DEF Stages
  <2>3. CASE /\ stage' = [stage EXCEPT ![r] = "WAITING"] /\ UNCHANGED excuse
             /\ call' = [call EXCEPT ![r].following = flights[KeyOf(r)]]
    <3> DEFINE l == [call[r] EXCEPT !.following = flights[KeyOf(r)]]
    <3>1. l.user = call[r].user /\ l.pwd = call[r].pwd /\ l.view = call[r].view
      BY <1>2, <2>1 DEF Calls
    <3>2. call' = [call EXCEPT ![r] = l]
      BY <2>3
    <3> HIDE DEF l
    <3> QED
      BY <1>1, <2>1, <2>3, <3>1, <3>2, MoveIsOwn DEF Stages
  <2>4. CASE Compared(r, TransientFailure, "UNAVAILABLE")
    BY <1>6, <2>1, <2>4
  <2> QED
    BY <1>7, <2>2, <2>3, <2>4 DEF Join
<1>8. CASE Verify(r)
  <2>1. PICK outcome, why : /\ call' = [call EXCEPT ![r].result = outcome]
                            /\ excuse' = [excuse EXCEPT ![r] = why]
    BY <1>8 DEF Verify
  <2> DEFINE l == [call[r] EXCEPT !.result = outcome]
  <2>2. /\ stage' = [stage EXCEPT ![r] = "VERIFIED"] /\ Underway(r)
        /\ UNCHANGED <<authorityVars, decision, continuous, allowed>>
    BY <1>8 DEF Verify, Underway
  <2>3. l.user = call[r].user /\ l.pwd = call[r].pwd /\ l.view = call[r].view
    BY <1>2, <2>2 DEF Calls
  <2>4. call' = [call EXCEPT ![r] = l]
    BY <2>1
  <2> HIDE DEF l
  <2> QED
    BY <2>1, <2>2, <2>3, <2>4, MoveIsOwn DEF Stages
<1>9. CASE CompleteFlight(r)
  BY <1>1, <1>2, <1>9, MoveIsOwn DEF CompleteFlight, Underway, ghostVars, Stages
<1>10. CASE TakeResult(r)
  BY <1>6, <1>10 DEF TakeResult, Underway
<1>11. CASE TimeOut(r)
  BY <1>6, <1>11 DEF TimeOut, Underway
<1>12. ASSUME NEW admitted \in BOOLEAN, NEW policyDenies \in BOOLEAN,
              Decide(r, admitted, policyDenies)
       PROVE  OwnStep(r)
  BY <1>1, <1>12, SettleIsOwn DEF Decide, Underway, ghostVars
<1> QED
  BY <1>3, <1>4, <1>5, <1>7, <1>8, <1>9, <1>10, <1>11, <1>12 DEF Proceed

\* Every step is one of the control plane, a lookup, a login's own, or of none.
LEMMA StepKinds ==
    ASSUME LoginInvariant, RecordedTypeOK, [DataPlaneNext]_dataPlaneVars
    PROVE  \/ Govern
           \/ \E r \in Requests, user \in Users, pwd \in Passwords, certain \in BOOLEAN :
                 LookUp(r, user, pwd, certain)
           \/ \E r \in Requests : OwnStep(r) /\ (Proceed(r) \/ TimeOut(r))
           \/ Standing
  BY ProceedIsOwn DEF DataPlaneNext, Forget, Standing, dataPlaneVars

-----------------------------------------------------------------------------
(* What the ghosts know of the logins underway.                            *)

\* A login is among the allowed when a live version accepts its password, when the
\* version of its view does, or when an accepted version of another identity does:
\* that one was accepted after the lookup.
AllowedKnown ==
    \A r \in Requests : Underway(r) =>
        /\ Allowed(call[r]) => r \in allowed
        /\ call[r].view # None =>
              /\ UserOf(call[r].view) = call[r].user
              /\ call[r].view.gen <= lastGen[call[r].user]
              /\ call[r].pwd \in Creds[call[r].view] => r \in allowed
              /\ \A t \in acceptedHistory :
                    /\ UserOf(t) = call[r].user
                    /\ ~SameIdentity(t, call[r].view)
                    /\ call[r].pwd \in Creds[t]
                    => r \in allowed

\* A password that is valid all along belongs to the version of the view, and the
\* directory still presents that version's identity.
ValidThroughout ==
    \A r \in continuous :
        /\ stage[r] # "IDLE"
        /\ Underway(r) =>
              /\ Valid(call[r])
              /\ call[r].view # None =>
                    /\ call[r].pwd \in Creds[call[r].view]
                    /\ SameIdentity(current[call[r].user], call[r].view)

LoginsKnown == AllowedKnown /\ ValidThroughout

LEMMA GovernKeepsKnown ==
    ASSUME AuthorityTypeOK, LoginInvariant, RecordedTypeOK, StoreFollows, LoginsKnown, Govern
    PROVE  LoginsKnown'
<1>1. AuthorityMoves
  BY AuthorityStepMoves DEF Govern
<1>2. /\ UNCHANGED <<stage, call>>
      /\ continuous' = {r \in continuous : ~Underway(r) \/ Valid(call[r])'}
      /\ allowed' = allowed \cup {r \in Requests : Underway(r) /\ Allowed(call[r])'}
  BY DEF Govern, requestVars
<1>3. ASSUME NEW r \in Requests, Underway(r)'
      PROVE  Underway(r) /\ call[r] \in Calls /\ call'[r] = call[r]
  BY <1>2, <1>3 DEF LoginInvariant, LoginTypeOK, Underway
<1>4. ASSUME NEW r \in Requests, Underway(r)', Allowed(call[r])'
      PROVE  r \in allowed'
  BY <1>2, <1>3, <1>4
<1>5. ASSUME NEW r \in Requests, Underway(r)', call[r].view # None
      PROVE  /\ UserOf(call[r].view) = call[r].user
             /\ call[r].view.gen <= lastGen'[call[r].user]
             /\ call[r].pwd \in Creds[call[r].view] => r \in allowed'
  <2>1. call[r] \in Calls /\ Underway(r)
    BY <1>3, <1>5
  <2>2. call[r].user \in Users /\ call[r].view \in Scopes /\ call[r].view.gen \in Nat
    BY <1>5, <2>1, IdentityAssumption DEF Calls, Scopes, IdentityAssumption
  <2>3. /\ UserOf(call[r].view) = call[r].user
        /\ call[r].view.gen <= lastGen[call[r].user]
        /\ call[r].pwd \in Creds[call[r].view] => r \in allowed
    BY <1>5, <2>1 DEF LoginsKnown, AllowedKnown
  <2>4. call[r].view.gen <= lastGen'[call[r].user]
    BY <1>1, <2>2, <2>3 DEF AuthorityMoves
  <2> QED
    BY <1>2, <2>3, <2>4
<1>6. ASSUME NEW r \in Requests, Underway(r)', call[r].view # None,
             NEW t \in acceptedHistory', UserOf(t) = call[r].user,
             ~SameIdentity(t, call[r].view), call[r].pwd \in Creds[t]
      PROVE  r \in allowed'
  <2>1. CASE t \in acceptedHistory
    BY <1>2, <1>3, <1>6, <2>1 DEF LoginsKnown, AllowedKnown
  <2>2. CASE t \notin acceptedHistory
    <3>1. t \in FailOpenSnapshot(UserOf(t))'
      BY <1>1, <1>6, <2>2 DEF AuthorityMoves
    <3>2. t \in FailOpenSnapshot(call[r].user)'
      BY <1>2, <1>6, <3>1
    <3>3. Allowed(call[r])'
      BY <1>2, <1>6, <3>2 DEF Allowed
    <3> QED
      BY <1>4, <1>6, <3>3
  <2> QED
    BY <2>1, <2>2
<1>7. AllowedKnown'
  BY <1>2, <1>3, <1>4, <1>5, <1>6 DEF AllowedKnown
<1>8. ASSUME NEW r \in continuous', Underway(r)'
      PROVE  /\ Valid(call[r])'
             /\ call[r].view # None =>
                   /\ call[r].pwd \in Creds[call[r].view]
                   /\ SameIdentity(current'[call[r].user], call[r].view)
  <2>1. r \in Requests /\ r \in continuous
    BY <1>2, <1>8 DEF RecordedTypeOK
  <2>2. Underway(r) /\ call[r] \in Calls /\ call'[r] = call[r] /\ Valid(call[r])'
    BY <1>2, <1>3, <1>8, <2>1
  <2>3. /\ Valid(call[r])
        /\ call[r].view # None =>
              /\ call[r].pwd \in Creds[call[r].view]
              /\ SameIdentity(current[call[r].user], call[r].view)
    BY <2>1, <2>2 DEF LoginsKnown, ValidThroughout
  <2>4. call[r].user \in Users /\ current[call[r].user] # None /\ current'[call[r].user] # None
    BY <2>2, <2>3 DEF Valid, Calls
  <2>5. SameIdentity(current'[call[r].user], current[call[r].user])
    BY <1>1, <2>4 DEF AuthorityMoves
  <2> QED
    BY <2>2, <2>3, <2>5 DEF SameIdentity
<1>9. ValidThroughout'
  BY <1>2, <1>8 DEF LoginsKnown, ValidThroughout
<1> QED
  BY <1>7, <1>9 DEF LoginsKnown

\* What a lookup finds is presented, hence allowed if its password is accepted.
LEMMA LookUpKeepsKnown ==
    ASSUME AuthorityTypeOK, LoginInvariant, RecordedTypeOK, StoreFollows, LoginsKnown,
           NEW r \in Requests, NEW user \in Users, NEW pwd \in Passwords,
           NEW certain \in BOOLEAN, LookUp(r, user, pwd, certain)
    PROVE  LoginsKnown'
<1> DEFINE l == [user |-> user, pwd |-> pwd,
                 view |-> IF certain THEN current[user] ELSE None,
                 screened |-> "FAIL_OPEN", following |-> None, result |-> None]
<1>1. l.user = user /\ l.pwd = pwd /\ l.view \in {None, current[user]}
  OBVIOUS
<1>2. /\ stage[r] = "IDLE" /\ call' = [call EXCEPT ![r] = l]
      /\ \A q \in Requests \ {r} : stage'[q] = stage[q]
      /\ stage'[r] # "IDLE" /\ UNCHANGED authorityVars
      /\ continuous' = IF Valid(l) THEN continuous \cup {r} ELSE continuous
      /\ allowed' = IF Allowed(l) THEN allowed \cup {r} ELSE allowed
  BY DEF LookUp, LoginInvariant, LoginTypeOK
<1>3. call'[r] = l /\ \A q \in Requests \ {r} : call'[q] = call[q]
  BY <1>2 DEF LoginInvariant, LoginTypeOK
<1>4. UNCHANGED <<current, lastGen, removing, active, acceptedHistory, failOpenVersions>>
  BY <1>2 DEF authorityVars, backendVars
<1> HIDE DEF l
<1>5. l.view # None => UserOf(l.view) = user /\ l.view.gen <= lastGen[user]
  BY <1>1, RecordedGenerations DEF StoreFollows, PresentedAccepted
<1>6. l.view # None /\ pwd \in Creds[l.view] => Allowed(l)
  BY <1>1 DEF Allowed
<1>7. l.view # None => \A t \in acceptedHistory : UserOf(t) = user => SameIdentity(t, l.view)
  BY <1>1, SameOwner DEF StoreFollows, StoreOwned, PresentedAccepted, SameIdentity
<1>8. Allowed(l)' <=> Allowed(l)
  BY <1>4 DEF Allowed, FailOpenSnapshot, l
<1>9. \A q \in Requests \ {r} : (Allowed(call[q])' <=> Allowed(call[q])) /\ (Valid(call[q])' <=> Valid(call[q]))
  BY <1>3, <1>4 DEF Allowed, FailOpenSnapshot, Valid
<1>10. AllowedKnown'
  <2>1. ASSUME NEW q \in Requests \ {r}, Underway(q)'
        PROVE  Underway(q) /\ call'[q] = call[q]
    BY <1>2, <1>3, <2>1 DEF Underway
  <2>2. Allowed(call[r])' <=> Allowed(l)
    BY <1>3, <1>4 DEF Allowed, FailOpenSnapshot
  <2> QED
    BY <1>1, <1>2, <1>3, <1>4, <1>5, <1>6, <1>7, <1>9, <2>1, <2>2 DEF LoginsKnown, AllowedKnown
<1>11. ValidThroughout'
  <2>1. ASSUME NEW q \in continuous', q # r
        PROVE  /\ q \in continuous /\ q \in Requests /\ stage'[q] = stage[q] /\ call'[q] = call[q]
               /\ (Underway(q)' <=> Underway(q))
    BY <1>2, <1>3, <2>1 DEF RecordedTypeOK, Underway
  <2>2. r \notin continuous
    BY <1>2 DEF LoginsKnown, ValidThroughout
  <2>3. r \in continuous' => Valid(l)
    BY <1>2, <2>2
  <2>4. Valid(call[r])' <=> Valid(l)
    BY <1>3, <1>4 DEF Valid
  <2>5. Valid(l) /\ l.view # None =>
           pwd \in Creds[l.view] /\ SameIdentity(current[user], l.view)
    BY <1>1 DEF Valid, SameIdentity
  <2> QED
    BY <1>1, <1>2, <1>3, <1>4, <1>9, <2>1, <2>3, <2>4, <2>5 DEF LoginsKnown, ValidThroughout
<1> QED
  BY <1>10, <1>11 DEF LoginsKnown

LEMMA OwnStepKeepsKnown ==
    ASSUME RecordedTypeOK, LoginsKnown, NEW r \in Requests, OwnStep(r)
    PROVE  LoginsKnown'
<1>1. /\ UNCHANGED <<current, lastGen, removing, active, acceptedHistory, failOpenVersions>>
      /\ UNCHANGED <<continuous, allowed>>
  BY DEF OwnStep, authorityVars, backendVars
<1>2. ASSUME NEW q \in Requests, Underway(q)'
      PROVE  /\ Underway(q) /\ call'[q].user = call[q].user
             /\ call'[q].pwd = call[q].pwd /\ call'[q].view = call[q].view
  BY <1>2 DEF OwnStep, Underway
<1>3. ASSUME NEW q \in Requests, Underway(q)'
      PROVE  (Allowed(call[q])' <=> Allowed(call[q])) /\ (Valid(call[q])' <=> Valid(call[q]))
  BY <1>1, <1>2, <1>3 DEF Allowed, FailOpenSnapshot, Valid
<1>4. AllowedKnown'
  BY <1>1, <1>2, <1>3 DEF LoginsKnown, AllowedKnown
<1>5. \A q \in Requests : stage[q] # "IDLE" => stage'[q] # "IDLE"
  BY DEF OwnStep
<1>6. ValidThroughout'
  BY <1>1, <1>2, <1>3, <1>5 DEF LoginsKnown, ValidThroughout, RecordedTypeOK
<1> QED
  BY <1>4, <1>6 DEF LoginsKnown

LEMMA StandingKeepsKnown ==
    ASSUME LoginsKnown, Standing
    PROVE  LoginsKnown'
  BY DEF Standing, authorityVars, backendVars, requestVars, ghostVars, LoginsKnown, AllowedKnown,
         ValidThroughout, Underway, Allowed, FailOpenSnapshot, Valid

-----------------------------------------------------------------------------
(* What an answer to a key means for whoever is keyed under it.            *)

\* Keys a match answers: every login underway with such a key, and every one that
\* may still come, is among the allowed.
MatchKeys ==
    {k \in NegativeKeys :
        /\ k.pwd \in Creds[k.scope] \/ Past(k.scope)
        /\ \A w \in Requests :
              Underway(w) /\ call[w].view # None /\ KeyOf(w) = k => w \in allowed}

\* Keys a mismatch answers: whoever is keyed so is not valid throughout.
MismatchKeys ==
    {k \in NegativeKeys : k.pwd \notin Creds[k.scope] \/ Gone(k.scope)}

\* A key once answered so is so for good.
LEMMA KeysStay ==
    ASSUME AuthorityTypeOK, LoginInvariant, RecordedTypeOK, StoreFollows, LoginsKnown,
           [DataPlaneNext]_dataPlaneVars
    PROVE  MatchKeys \subseteq MatchKeys' /\ MismatchKeys \subseteq MismatchKeys'
<1>1. AuthorityNext \/ UNCHANGED authorityVars
  BY StepKinds DEF Govern, LookUp, OwnStep, Standing
<1>2. AuthorityMoves
  BY <1>1, AuthorityStepMoves
<1>3. ASSUME NEW k \in NegativeKeys
      PROVE  (Past(k.scope) => Past(k.scope)') /\ (Gone(k.scope) => Gone(k.scope)')
  BY <1>2, PastStays DEF NegativeKeys
<1>4. MismatchKeys \subseteq MismatchKeys'
  BY <1>3 DEF MismatchKeys
<1>5. ASSUME NEW k \in MatchKeys, NEW w \in Requests,
             Underway(w)', call'[w].view # None, KeyOf(w)' = k
      PROVE  w \in allowed'
  <2>1. CASE Govern \/ Standing
    BY <1>5, <2>1 DEF Govern, Standing, requestVars, ghostVars, Underway, KeyOf, MatchKeys
  <2>2. ASSUME NEW r \in Requests, OwnStep(r)
        PROVE  w \in allowed'
    <3>1. Underway(w) /\ call'[w].view = call[w].view /\ KeyOf(w) = k
      BY <1>5, <2>2 DEF OwnStep, Underway, KeyOf
    <3> QED
      BY <1>5, <2>2, <3>1 DEF OwnStep, MatchKeys
  <2>3. ASSUME NEW r \in Requests, NEW user \in Users, NEW pwd \in Passwords,
               NEW certain \in BOOLEAN, LookUp(r, user, pwd, certain)
        PROVE  w \in allowed'
    <3>1. CASE w # r
      <4>1. Underway(w) /\ call'[w] = call[w] /\ KeyOf(w) = k
        BY <1>5, <2>3, <3>1 DEF LookUp, LoginInvariant, LoginTypeOK, Underway, KeyOf
      <4> QED
        BY <1>5, <2>3, <4>1 DEF LookUp, MatchKeys
    <3>2. CASE w = r
      <4>1. call'[r].view = (IF certain THEN current[user] ELSE None) /\ call'[r].pwd = pwd
        BY <2>3 DEF LookUp, LoginInvariant, LoginTypeOK
      <4>2. current[user] = k.scope /\ k.pwd = pwd /\ current[user] # None
        BY <1>5, <3>2, <4>1 DEF KeyOf
      <4>3. UserOf(k.scope) = user
        BY <4>2 DEF StoreFollows, PresentedAccepted
      <4>4. ~Past(k.scope)
        BY <4>2, <4>3 DEF Past, SameIdentity
      <4>5. pwd \in Creds[current[user]]
        BY <1>5, <4>2, <4>4 DEF MatchKeys
      <4>6. LoginsKnown'
        BY <2>3, LookUpKeepsKnown
      <4>7. call'[r].pwd \in Creds[call'[r].view]
        BY <1>5, <3>2, <4>1, <4>5
      <4> QED
        BY <1>5, <3>2, <4>6, <4>7 DEF LoginsKnown, AllowedKnown
    <3> QED
      BY <3>1, <3>2
  <2> QED
    BY <2>1, <2>2, <2>3, StepKinds
<1>6. ASSUME NEW k \in MatchKeys
      PROVE  k \in MatchKeys'
  <2>1. k \in NegativeKeys /\ (k.pwd \in Creds[k.scope] \/ Past(k.scope)')
    BY <1>3, <1>6 DEF MatchKeys
  <2> QED
    BY <1>5, <1>6, <2>1 DEF MatchKeys
<1> QED
  BY <1>4, <1>6

\* What a comparison result may be, given the excuse on record, for a login keyed
\* under k.
Fits(result, why, k) ==
    /\ result.kind = "MATCH" => k \in MatchKeys
    /\ \/ result.kind \in {"MATCH", "VERSION_MISMATCH"}
       \/ why = "REFUSED"
       \/ why = "UNAVAILABLE" /\ result.kind \in UncertaintyKinds
       \/ k \in MismatchKeys

LEMMA FitStays ==
    ASSUME MatchKeys \subseteq MatchKeys', MismatchKeys \subseteq MismatchKeys',
           NEW result, NEW why, NEW k, Fits(result, why, k)
    PROVE  Fits(result, why, k)'
  BY DEF Fits

\* Whatever the comparison under the version of the view returns fits its key.
LEMMA VerifyFits ==
    ASSUME AuthorityTypeOK, LoginInvariant, StoreFollows, LoginsKnown,
           NEW r \in Requests, stage[r] = "LEADING", NEW snapshot,
           snapshot = ExpectedSnapshot(call[r].user, call[r].view.ver),
           NEW outcome \in VerifyOutcomes(call[r], snapshot) \cup {TransientFailure}
    PROVE  Fits(outcome, ExcuseOf(outcome, call[r], snapshot), KeyOf(r))
<1> DEFINE u == call[r].user
           view == call[r].view
           pwd == call[r].pwd
           known == active[u] # None
           compared == CompareResult(known, snapshot, pwd)
<1>1. /\ KeyOf(r) \in NegativeKeys /\ view \in Scopes /\ u \in Users /\ view # None
      /\ Underway(r) /\ UserOf(view) = u /\ view.gen <= lastGen[u]
  <2>1. Underway(r)
    BY DEF Underway
  <2> QED
    BY <2>1, KeyType, IdentityAssumption DEF IdentityAssumption, Calls, LoginsKnown, AllowedKnown
<1>2. KeyOf(r).scope = view /\ KeyOf(r).pwd = pwd
  BY DEF KeyOf
<1>3. snapshot = IF active[u] = None THEN {}
                 ELSE IF active[u].ver = view.ver THEN {active[u]}
                      ELSE {t \in acceptedHistory : SameIdentity(t, active[u]) /\ t.ver = view.ver}
  BY DEF ExpectedSnapshot
<1>4. ASSUME NEW s \in Scopes, SameIdentity(s, view), s.ver = view.ver
      PROVE  s = view
  BY <1>1, <1>4 DEF Scopes, SameIdentity
<1>5. ASSUME NEW s \in snapshot
      PROVE  /\ s \in acceptedHistory /\ s \in Scopes /\ s.ver = view.ver /\ UserOf(s) = u
             /\ active[u] # None /\ SameIdentity(s, active[u])
  BY <1>1, <1>3, <1>5, SameOwner
  DEF AuthorityTypeOK, BackendTypeOK, StoreFollows, StoreOwned, SameIdentity
<1>6. ASSUME NEW s \in snapshot, pwd \in Creds[s]
      PROVE  KeyOf(r) \in MatchKeys
  <2>1. CASE SameIdentity(s, view)
    <3>1. pwd \in Creds[view]
      BY <1>4, <1>5, <1>6, <2>1
    <3>2. ASSUME NEW w \in Requests, Underway(w), call[w].view # None, KeyOf(w) = KeyOf(r)
          PROVE  w \in allowed
      BY <3>1, <3>2 DEF KeyOf, LoginsKnown, AllowedKnown
    <3> QED
      BY <1>1, <1>2, <3>1, <3>2 DEF MatchKeys
  <2>2. CASE ~SameIdentity(s, view)
    <3>1. Past(view)
      BY <1>1, <1>5, <2>2 DEF StoreFollows, PresentedAccepted, Past, SameIdentity
    <3>2. ASSUME NEW w \in Requests, Underway(w), call[w].view # None, KeyOf(w) = KeyOf(r)
          PROVE  w \in allowed
      <4>1. call[w].view = view /\ call[w].pwd = pwd
        BY <3>2 DEF KeyOf
      <4>2. call[w].user = u
        BY <1>1, <3>2, <4>1 DEF LoginsKnown, AllowedKnown
      <4> QED
        BY <1>5, <1>6, <2>2, <3>2, <4>1, <4>2 DEF LoginsKnown, AllowedKnown
    <3> QED
      BY <1>1, <1>2, <3>1, <3>2 DEF MatchKeys
  <2> QED
    BY <2>1, <2>2
<1>7. ASSUME KeyOf(r) \notin MismatchKeys
      PROVE  known /\ (snapshot # {} => \E s \in snapshot : pwd \in Creds[s])
  <2>1. pwd \in Creds[view] /\ ~Gone(view)
    BY <1>1, <1>2, <1>7 DEF MismatchKeys
  <2>2. u \notin removing /\ current[u] # None /\ SameIdentity(view, current[u])
    BY <1>1, <2>1 DEF Gone
  <2>3. known /\ SameIdentity(view, active[u])
    BY <1>1, <2>2 DEF StoreFollows, PresentedAccepted, SameIdentity
  <2>4. \A s \in snapshot : s = view
    BY <1>4, <1>5, <2>3 DEF SameIdentity
  <2> QED
    BY <2>1, <2>3, <2>4
<1>8. CASE outcome = compared
  <2>1. compared = IF ~known THEN Result("NO_ACCOUNT", None)
                   ELSE IF snapshot = {} THEN Result("VERSION_MISMATCH", None)
                   ELSE IF {s \in snapshot : pwd \in Creds[s]} # {} THEN Result("MATCH", None)
                   ELSE Result("CREDENTIAL_MISMATCH",
                               IF Cardinality(snapshot) = 1 THEN CHOOSE s \in snapshot : TRUE
                               ELSE None)
    BY DEF CompareResult
  <2>2. compared.kind = "MATCH" => \E s \in snapshot : pwd \in Creds[s]
    BY <2>1 DEF Result
  <2>3. compared.kind \notin {"MATCH", "VERSION_MISMATCH"} =>
           \/ ~known
           \/ snapshot # {} /\ \A s \in snapshot : pwd \notin Creds[s]
    BY <2>1 DEF Result
  <2> HIDE DEF compared, known
  <2> QED
    BY <1>6, <1>7, <1>8, <2>2, <2>3 DEF Fits
<1>9. CASE outcome # compared
  <2>1. outcome.kind \in {"TRANSIENT_FAILURE", "PARTIAL_AUTHENTICATOR_FAILURE",
                          "CREDENTIAL_MISMATCH"}
    <3>1. \/ outcome = TransientFailure
          \/ \E kind \in InjectedKinds : outcome = Result(kind, None)
      BY <1>9 DEF VerifyOutcomes
    <3> QED
      BY <3>1, DataPlaneAssumption DEF DataPlaneAssumption, TransientFailure, Result
  <2>2. ExcuseOf(outcome, call[r], snapshot)
           = IF outcome.kind = "CREDENTIAL_MISMATCH" THEN "REFUSED" ELSE "UNAVAILABLE"
    BY <1>9 DEF ExcuseOf
  <2> QED
    BY <2>1, <2>2 DEF Fits, UncertaintyKinds
<1> QED
  BY <1>8, <1>9

-----------------------------------------------------------------------------
(* The results on their way to a decision.                                 *)

\* A result a login holds, or finds in the flight it waits for, fits its key; and a
\* leader decides on the result it has handed out.
ResultsFit ==
    /\ \A r \in Requests :
          stage[r] \in {"VERIFIED", "COMPARED"} => Fits(call[r].result, excuse[r], KeyOf(r))
    /\ \A w \in Requests :
          LET leader == call[w].following IN
          stage[w] = "WAITING" /\ flightResult[leader] # None
              => Fits(flightResult[leader], excuse[leader], KeyOf(w))
    /\ \A r \in Requests :
          stage[r] = "COMPARED" /\ flightResult[r] # None => flightResult[r] = call[r].result

\* A step that completes no flight keeps the results fitting if what r moves with
\* fits and no excuse changes under a result that others may still take.
LEMMA ResultsStay ==
    ASSUME LoginInvariant, ResultsFit,
           MatchKeys \subseteq MatchKeys', MismatchKeys \subseteq MismatchKeys',
           NEW r \in Requests,
           \A q \in Requests \ {r} :
              stage'[q] = stage[q] /\ call'[q] = call[q] /\ excuse'[q] = excuse[q],
           UNCHANGED flightResult,
           stage'[r] \in {"VERIFIED", "COMPARED"} =>
              Fits(call'[r].result, excuse'[r], KeyOf(r)'),
           stage'[r] = "WAITING" => flightResult[call'[r].following] = None,
           stage'[r] = "COMPARED" => flightResult[r] = None,
           flightResult[r] # None =>
              excuse'[r] = excuse[r] \/ flightResult[r].kind = "VERSION_MISMATCH"
    PROVE  ResultsFit'
<1>1. ASSUME NEW q \in Requests, q # r
      PROVE  KeyOf(q)' = KeyOf(q)
  BY <1>1 DEF KeyOf
<1>2. ASSUME NEW result, NEW why, NEW k, Fits(result, why, k)
      PROVE  Fits(result, why, k)'
  BY <1>2, FitStays
<1>3. ASSUME NEW q \in Requests, stage'[q] \in {"VERIFIED", "COMPARED"}
      PROVE  Fits(call[q].result, excuse[q], KeyOf(q))'
  <2>1. CASE q = r
    BY <1>3, <2>1 DEF Fits
  <2>2. CASE q # r
    <3>1. Fits(call[q].result, excuse[q], KeyOf(q))
      BY <1>3, <2>2 DEF ResultsFit
    <3>2. call'[q].result = call[q].result /\ excuse'[q] = excuse[q] /\ KeyOf(q)' = KeyOf(q)
      BY <1>1, <2>2
    <3> QED
      BY <3>1, <3>2 DEF Fits
  <2> QED
    BY <2>1, <2>2
<1>4. ASSUME NEW w \in Requests, stage'[w] = "WAITING",
             flightResult[call'[w].following] # None
      PROVE  Fits(flightResult[call[w].following], excuse[call[w].following], KeyOf(w))'
  <2>1. w # r /\ stage[w] = "WAITING" /\ call'[w] = call[w] /\ KeyOf(w)' = KeyOf(w)
    BY <1>1, <1>4
  <2>2. PICK leader \in Requests : leader = call[w].following
    BY <2>1, KeyType DEF LoginInvariant, WaitersFollow, Follows, Calls
  <2>3. Fits(flightResult[leader], excuse[leader], KeyOf(w))
    BY <1>4, <2>1, <2>2 DEF ResultsFit
  <2>4. CASE excuse'[leader] = excuse[leader]
    BY <2>1, <2>2, <2>3, <2>4 DEF Fits
  <2>5. CASE excuse'[leader] # excuse[leader]
    <3>1. flightResult[leader].kind = "VERSION_MISMATCH"
      BY <1>4, <2>1, <2>2, <2>5
    <3> QED
      BY <2>1, <2>2, <3>1 DEF Fits
  <2> QED
    BY <2>4, <2>5
<1>5. ASSUME NEW q \in Requests, stage'[q] = "COMPARED", flightResult[q] # None
      PROVE  flightResult[q] = call'[q].result
  BY <1>5 DEF ResultsFit
<1> QED
  BY <1>3, <1>4, <1>5 DEF ResultsFit

\* A step of no login.
LEMMA ResultsStand ==
    ASSUME LoginInvariant, ResultsFit,
           MatchKeys \subseteq MatchKeys', MismatchKeys \subseteq MismatchKeys',
           UNCHANGED <<stage, call, excuse, flightResult>>
    PROVE  ResultsFit'
<1>1. \A q \in Requests : KeyOf(q)' = KeyOf(q)
  BY DEF KeyOf
<1> QED
  BY <1>1 DEF ResultsFit, Fits

\* Completion hands the leader's result to waiters keyed as it is.
LEMMA CompleteKeepsResults ==
    ASSUME LoginInvariant, ResultsFit,
           MatchKeys \subseteq MatchKeys', MismatchKeys \subseteq MismatchKeys',
           NEW r \in Requests, CompleteFlight(r)
    PROVE  ResultsFit'
<1>1. /\ stage[r] = "VERIFIED" /\ UNCHANGED <<call, excuse>>
      /\ stage' = [stage EXCEPT ![r] = "COMPARED"]
      /\ flightResult' = [flightResult EXCEPT ![r] = call[r].result]
      /\ stage'[r] = "COMPARED" /\ flightResult'[r] = call[r].result
      /\ \A q \in Requests \ {r} : stage'[q] = stage[q] /\ flightResult'[q] = flightResult[q]
  BY DEF CompleteFlight, Complete, ghostVars, LoginInvariant, LoginTypeOK
<1>2. \A q \in Requests : KeyOf(q)' = KeyOf(q)
  BY <1>1 DEF KeyOf
<1>3. Fits(call[r].result, excuse[r], KeyOf(r))
  BY <1>1 DEF ResultsFit
<1>4. ASSUME NEW q \in Requests, stage'[q] \in {"VERIFIED", "COMPARED"}
      PROVE  Fits(call[q].result, excuse[q], KeyOf(q))'
  <2>1. Fits(call[q].result, excuse[q], KeyOf(q))
    BY <1>1, <1>3, <1>4 DEF ResultsFit
  <2> QED
    BY <1>1, <1>2, <2>1 DEF Fits
<1>5. ASSUME NEW w \in Requests, stage'[w] = "WAITING", flightResult'[call[w].following] # None
      PROVE  Fits(flightResult[call[w].following], excuse[call[w].following], KeyOf(w))'
  <2>1. stage[w] = "WAITING" /\ Follows(w)
    BY <1>1, <1>5 DEF LoginInvariant, WaitersFollow
  <2>2. PICK leader \in Requests : leader = call[w].following
    BY <2>1, KeyType DEF Follows, Calls
  <2>3. CASE leader = r
    <3>1. flightResult[r] = None
      BY <1>1 DEF LoginInvariant, FlightsLed
    <3>2. KeyOf(w) = KeyOf(r)
      BY <2>1, <2>2, <2>3, <3>1 DEF Follows
    <3> QED
      BY <1>1, <1>2, <1>3, <2>2, <2>3, <3>2 DEF Fits
  <2>4. CASE leader # r
    <3>1. Fits(flightResult[leader], excuse[leader], KeyOf(w))
      BY <1>1, <1>5, <2>1, <2>2, <2>4 DEF ResultsFit
    <3> QED
      BY <1>1, <1>2, <2>2, <2>4, <3>1 DEF Fits
  <2> QED
    BY <2>3, <2>4
<1>6. \A q \in Requests : stage'[q] = "COMPARED" /\ flightResult'[q] # None
                             => flightResult'[q] = call'[q].result
  BY <1>1 DEF ResultsFit
<1> QED
  BY <1>1, <1>4, <1>5, <1>6 DEF ResultsFit

\* What a login proceeds with when it was turned away or timed out.
LEMMA UnavailableFits ==
    \A k : Fits(TransientFailure, "UNAVAILABLE", k)
  BY DEF Fits, TransientFailure, Result, UncertaintyKinds

\* Every step of a login keeps the results fitting.
LEMMA OwnStepKeepsResults ==
    ASSUME AuthorityTypeOK, LoginInvariant, RecordedTypeOK, StoreFollows, LoginsKnown, ResultsFit,
           MatchKeys \subseteq MatchKeys', MismatchKeys \subseteq MismatchKeys',
           NEW r \in Requests, OwnStep(r), Proceed(r) \/ TimeOut(r)
    PROVE  ResultsFit'
<1>1. \A q \in Requests \ {r} :
         stage'[q] = stage[q] /\ call'[q] = call[q] /\ excuse'[q] = excuse[q]
  BY DEF OwnStep
<1>2. flightResult[r] # None => stage[r] \in {"COMPARED", "DONE"}
  BY DEF LoginInvariant, FlightsLed
<1>3. stage'[r] # "DONE" => KeyOf(r)' = KeyOf(r)
  BY DEF OwnStep, KeyOf
<1>4. ASSUME NEW policyDenies \in BOOLEAN, VerifyFailOpen(r, policyDenies) \/ Retry(r, policyDenies)
      PROVE  ResultsFit'
  <2>1. stage'[r] = "DONE" /\ UNCHANGED flightResult
    BY <1>4 DEF VerifyFailOpen, Retry, SettleFailOpen, Settle, flightVars, LoginInvariant, LoginTypeOK
  <2>2. flightResult[r] # None => flightResult[r].kind = "VERSION_MISMATCH"
    BY <1>2, <1>4 DEF VerifyFailOpen, Retry, ResultsFit
  <2> QED
    BY <1>1, <2>1, <2>2, ResultsStay
<1>5. ASSUME stage'[r] \in {"DONE", "MISSED", "FORWARDED", "LEADING"},
             UNCHANGED <<flightResult, excuse>>
      PROVE  ResultsFit'
  BY <1>1, <1>5, ResultsStay
<1>6. CASE LookUpNegative(r)
  BY <1>5, <1>6 DEF LookUpNegative, Settle, flightVars, ghostVars, LoginInvariant, LoginTypeOK
<1>7. ASSUME NEW certified \in BOOLEAN, Screen(r, certified)
      PROVE  ResultsFit'
  BY <1>5, <1>7 DEF Screen, Settle, flightVars, ghostVars, LoginInvariant, LoginTypeOK
<1>8. ASSUME NEW result, NEW why, Compared(r, result, why), UNCHANGED flightResult,
             stage[r] \in {"FORWARDED", "WAITING"}, Fits(result, why, KeyOf(r))
      PROVE  ResultsFit'
  <2>1. flightResult[r] = None
    BY <1>2, <1>8
  <2>2. stage'[r] = "COMPARED" /\ call'[r].result = result /\ excuse'[r] = why
    <3>1. call[r] \in Calls
      BY <1>8, KeyType
    <3> QED
      BY <1>8, <3>1 DEF Compared, LoginInvariant, LoginTypeOK, RecordedTypeOK, Calls
  <2>3. Fits(call'[r].result, excuse'[r], KeyOf(r)')
    BY <1>3, <1>8, <2>2
  <2> QED
    BY <1>1, <1>8, <2>1, <2>2, <2>3, ResultsStay
<1>9. CASE Join(r)
  <2>1. stage[r] = "FORWARDED" /\ KeyOf(r) \in NegativeKeys /\ call[r] \in Calls
    BY <1>9, KeyType DEF Join
  <2>2. CASE /\ Lead(r, KeyOf(r)) /\ stage' = [stage EXCEPT ![r] = "LEADING"]
             /\ UNCHANGED <<call, excuse>>
    BY <1>5, <2>2 DEF Lead, LoginInvariant, LoginTypeOK
  <2>3. CASE /\ Wait(KeyOf(r)) /\ stage' = [stage EXCEPT ![r] = "WAITING"]
             /\ call' = [call EXCEPT ![r].following = flights[KeyOf(r)]]
             /\ UNCHANGED excuse
    <3>1. stage'[r] = "WAITING" /\ call'[r].following = flights[KeyOf(r)]
      BY <2>1, <2>3 DEF LoginInvariant, LoginTypeOK, Calls
    <3>2. flightResult[flights[KeyOf(r)]] = None
      BY <2>1, <2>3 DEF Wait, LoginInvariant, LoginTypeOK, FlightsLed
    <3>3. UNCHANGED <<flightResult, excuse>>
      BY <2>3 DEF Wait
    <3> QED
      BY <1>1, <3>1, <3>2, <3>3, ResultsStay
  <2>4. CASE Compared(r, TransientFailure, "UNAVAILABLE") /\ UNCHANGED flightVars
    BY <1>8, <2>1, <2>4, UnavailableFits DEF flightVars
  <2> QED
    BY <1>9, <2>2, <2>3, <2>4 DEF Join
<1>10. CASE Verify(r)
  <2> DEFINE snapshot == ExpectedSnapshot(call[r].user, call[r].view.ver)
  <2>1. PICK outcome \in VerifyOutcomes(call[r], snapshot) \cup {TransientFailure} :
           /\ call' = [call EXCEPT ![r].result = outcome]
           /\ excuse' = [excuse EXCEPT ![r] = ExcuseOf(outcome, call[r], snapshot)]
    BY <1>10 DEF Verify
  <2>2. stage[r] = "LEADING" /\ stage' = [stage EXCEPT ![r] = "VERIFIED"] /\ UNCHANGED flightResult
    BY <1>10 DEF Verify, flightVars
  <2>3. Fits(outcome, ExcuseOf(outcome, call[r], snapshot), KeyOf(r))
    BY <2>1, <2>2, VerifyFits
  <2> HIDE DEF snapshot
  <2>4. /\ stage'[r] = "VERIFIED" /\ call'[r].result = outcome
        /\ excuse'[r] = ExcuseOf(outcome, call[r], snapshot)
    <3>1. call[r] \in Calls
      BY <2>2, KeyType
    <3> QED
      BY <2>1, <2>2, <3>1 DEF LoginInvariant, LoginTypeOK, RecordedTypeOK, Calls
  <2>5. Fits(call'[r].result, excuse'[r], KeyOf(r)')
    BY <1>3, <2>3, <2>4
  <2> QED
    BY <1>1, <1>2, <2>2, <2>4, <2>5, ResultsStay
<1>11. CASE CompleteFlight(r)
  BY <1>11, CompleteKeepsResults
<1>12. CASE TakeResult(r)
  <2>1. /\ stage[r] = "WAITING" /\ flightResult[call[r].following] # None
        /\ Compared(r, flightResult[call[r].following], excuse[call[r].following])
        /\ UNCHANGED flightResult
    BY <1>12 DEF TakeResult, Leave
  <2>2. Fits(flightResult[call[r].following], excuse[call[r].following], KeyOf(r))
    BY <2>1 DEF ResultsFit
  <2> QED
    BY <1>8, <2>1, <2>2
<1>13. CASE TimeOut(r)
  BY <1>8, <1>13, UnavailableFits DEF TimeOut, Leave
<1>14. ASSUME NEW admitted \in BOOLEAN, NEW policyDenies \in BOOLEAN,
              Decide(r, admitted, policyDenies)
       PROVE  ResultsFit'
  BY <1>5, <1>14 DEF Decide, Settle, flightVars, ghostVars, LoginInvariant, LoginTypeOK
<1> QED
  BY <1>4, <1>6, <1>7, <1>9, <1>10, <1>11, <1>12, <1>13, <1>14 DEF Proceed

-----------------------------------------------------------------------------
(* The decisions.                                                          *)

\* A settled login: an accepted one is among the allowed, and one whose password
\* was valid throughout is accepted, or has an excuse that the route admits.
Justified(r) ==
    /\ Accepted(r) => r \in allowed
    /\ r \in continuous =>
          \/ Accepted(r)
          \/ decision[r].outcome = "MATCH_BUT_POLICY_DENY"
          \/ excuse[r] = "REFUSED"
          \/ excuse[r] = "UNAVAILABLE" /\ decision[r].route = "FAIL_OPEN_BACKEND"

Decided == \A r \in Requests : stage[r] = "DONE" => Justified(r)

\* A verification over the whole window justifies the decision it makes.
LEMMA SettleFailOpenJustifies ==
    ASSUME AuthorityTypeOK, LoginInvariant, RecordedTypeOK, StoreFollows, LoginsKnown,
           NEW r \in Requests, Underway(r), NEW policyDenies \in BOOLEAN,
           SettleFailOpen(r, policyDenies)
    PROVE  Justified(r)'
<1> DEFINE u == call[r].user
           pwd == call[r].pwd
           snapshot == FailOpenSnapshot(u)
           known == active[u] # None
           compared == CompareResult(known, snapshot, pwd)
<1>1. PICK outcome \in VerifyOutcomes(call[r], snapshot) :
         /\ Settle(r, Decision("FAIL_OPEN_BACKEND", Finalized(outcome.kind, policyDenies)))
         /\ excuse' = [excuse EXCEPT ![r] = ExcuseOf(outcome, call[r], snapshot)]
  BY DEF SettleFailOpen
<1>2. /\ decision'[r].route = "FAIL_OPEN_BACKEND"
      /\ decision'[r].outcome = Finalized(outcome.kind, policyDenies)
      /\ excuse'[r] = ExcuseOf(outcome, call[r], snapshot)
      /\ UNCHANGED <<continuous, allowed>>
  BY <1>1 DEF Settle, Decision, RecordedTypeOK, SettleFailOpen
<1>3. u \in Users /\ (Allowed(call[r]) => r \in allowed)
  BY DEF LoginInvariant, LoginTypeOK, Underway, Calls, LoginsKnown, AllowedKnown
<1>4. compared = IF ~known THEN Result("NO_ACCOUNT", None)
                 ELSE IF snapshot = {} THEN Result("VERSION_MISMATCH", None)
                 ELSE IF {s \in snapshot : pwd \in Creds[s]} # {} THEN Result("MATCH", None)
                 ELSE Result("CREDENTIAL_MISMATCH",
                             IF Cardinality(snapshot) = 1 THEN CHOOSE s \in snapshot : TRUE
                             ELSE None)
  BY DEF CompareResult
<1>5. CASE outcome = compared
  <2>1. outcome.kind = "MATCH" => r \in allowed
    <3>1. outcome.kind = "MATCH" => \E s \in snapshot : pwd \in Creds[s]
      BY <1>4, <1>5 DEF Result
    <3> QED
      BY <1>3, <3>1 DEF Allowed
  <2>2. r \in continuous => outcome.kind = "MATCH"
    <3>1. r \in continuous => known /\ \E s \in snapshot : pwd \in Creds[s]
      <4>1. r \in continuous => Valid(call[r])
        BY DEF LoginsKnown, ValidThroughout
      <4> QED
        BY <1>3, <4>1 DEF Valid, StoreFollows, PresentedAccepted
    <3> QED
      BY <1>4, <1>5, <3>1 DEF Result
  <2> QED
    BY <1>2, <2>1, <2>2 DEF Finalized, Justified, Accepted
<1>6. CASE outcome # compared
  <2>1. PICK kind \in InjectedKinds : outcome = Result(kind, None)
    BY <1>1, <1>6 DEF VerifyOutcomes
  <2>2. outcome.kind # "MATCH"
    BY <2>1, DataPlaneAssumption DEF DataPlaneAssumption, Result
  <2>3. excuse'[r] \in {"REFUSED", "UNAVAILABLE"}
    BY <1>2, <1>6 DEF ExcuseOf
  <2> QED
    BY <1>2, <2>2, <2>3 DEF Finalized, Justified, Accepted
<1> QED
  BY <1>5, <1>6

\* A rejection that asked nobody is of a password the version of the view lacks.
LEMMA RejectJustified ==
    ASSUME RecordedTypeOK, LoginsKnown, NEW r \in Requests, Underway(r),
           call[r].view # None, call[r].pwd \notin Creds[call[r].view],
           NEW route, Settle(r, Decision(route, "NONE")), UNCHANGED <<continuous, allowed>>
    PROVE  Justified(r)'
<1>1. r \notin continuous
  BY DEF LoginsKnown, ValidThroughout
<1>2. decision'[r].outcome = "NONE"
  BY DEF Settle, Decision, RecordedTypeOK
<1> QED
  BY <1>1, <1>2 DEF Justified, Accepted

\* A decision on a result that fits.
LEMMA DecideJustified ==
    ASSUME AuthorityTypeOK, LoginInvariant, RecordedTypeOK, LoginsKnown, ResultsFit,
           NEW r \in Requests, NEW admitted \in BOOLEAN, NEW policyDenies \in BOOLEAN,
           Decide(r, admitted, policyDenies)
    PROVE  Justified(r)'
<1> DEFINE kind == call[r].result.kind
           view == call[r].view
<1>1. stage[r] = "COMPARED" /\ Underway(r) /\ kind # "VERSION_MISMATCH"
  BY DEF Decide, Underway
<1>2. KeyOf(r) \in NegativeKeys /\ view \in Scopes /\ view # None
  BY <1>1, KeyType, IdentityAssumption DEF IdentityAssumption
<1>3. Fits(call[r].result, excuse[r], KeyOf(r))
  BY <1>1 DEF ResultsFit
<1>4. /\ decision'[r].route = RouteOf(call[r].screened, Finalized(kind, policyDenies))
      /\ decision'[r].outcome = Finalized(kind, policyDenies)
      /\ UNCHANGED <<excuse, continuous, allowed>>
  BY DEF Decide, Settle, Decision, RecordedTypeOK, ghostVars
<1>5. kind = "MATCH" => r \in allowed
  BY <1>1, <1>2, <1>3 DEF Fits, MatchKeys
<1>6. kind # "MATCH" => Finalized(kind, policyDenies) = kind
  BY DEF Finalized
<1>7. r \in continuous => KeyOf(r) \notin MismatchKeys
  <2> SUFFICES ASSUME r \in continuous
               PROVE  KeyOf(r) \notin MismatchKeys
    OBVIOUS
  <2>1. /\ Valid(call[r]) /\ call[r].pwd \in Creds[view]
        /\ SameIdentity(current[call[r].user], view) /\ UserOf(view) = call[r].user
    BY <1>1, <1>2 DEF LoginsKnown, AllowedKnown, ValidThroughout
  <2>2. ~Gone(view)
    BY <2>1 DEF Gone, Valid, SameIdentity
  <2> QED
    BY <2>1, <2>2 DEF MismatchKeys, KeyOf
<1>8. kind \in UncertaintyKinds => RouteOf(call[r].screened, kind) = "FAIL_OPEN_BACKEND"
  BY DEF RouteOf
<1> HIDE DEF kind
<1>9. CASE kind = "MATCH"
  BY <1>4, <1>5, <1>9 DEF Finalized, Justified, Accepted
<1>10. CASE kind # "MATCH"
  BY <1>1, <1>3, <1>4, <1>6, <1>7, <1>8, <1>10 DEF Fits, Justified, Accepted, kind
<1> QED
  BY <1>9, <1>10

LEMMA OwnStepJustified ==
    ASSUME AuthorityTypeOK, LoginInvariant, RecordedTypeOK, NegativeCacheSound,
           StoreFollows, LoginsKnown, ResultsFit,
           NEW r \in Requests, Proceed(r) \/ TimeOut(r), stage'[r] = "DONE"
    PROVE  Justified(r)'
<1>1. ASSUME NEW policyDenies \in BOOLEAN, VerifyFailOpen(r, policyDenies) \/ Retry(r, policyDenies)
      PROVE  Justified(r)'
  BY <1>1, SettleFailOpenJustifies DEF VerifyFailOpen, Retry, Underway
<1>2. CASE LookUpNegative(r)
  <2>1. /\ stage[r] = "LOOKED" /\ Underway(r) /\ call[r].view # None
        /\ UNCHANGED <<continuous, allowed>>
    BY <1>2 DEF LookUpNegative, Underway, ghostVars, LoginInvariant, ViewPresent
  <2>2. KeyOf(r) \in negatives /\ Settle(r, Decision("NEGATIVE_CACHE_REJECT", "NONE"))
    BY <1>2 DEF LookUpNegative, LoginInvariant, LoginTypeOK
  <2>3. call[r].pwd \notin Creds[call[r].view]
    BY <2>2 DEF NegativeCacheSound, KeyOf
  <2> QED
    BY <2>1, <2>2, <2>3, RejectJustified
<1>3. ASSUME NEW certified \in BOOLEAN, Screen(r, certified)
      PROVE  Justified(r)'
  <2>1. /\ stage[r] = "MISSED" /\ Underway(r) /\ call[r].view # None
        /\ UNCHANGED <<continuous, allowed>>
    BY <1>3 DEF Screen, Underway, ghostVars, LoginInvariant, ViewPresent
  <2>2. /\ call[r].pwd \notin Creds[call[r].view]
        /\ Settle(r, Decision("POSITIVE_SCREEN_REJECT", "NONE"))
    BY <1>3 DEF Screen, LoginInvariant, LoginTypeOK
  <2> QED
    BY <2>1, <2>2, RejectJustified
<1>4. Join(r) \/ Verify(r) \/ CompleteFlight(r) \/ TakeResult(r) \/ TimeOut(r) => FALSE
  BY DEF Join, Verify, CompleteFlight, TakeResult, TimeOut, Compared, LoginInvariant, LoginTypeOK
<1>5. ASSUME NEW admitted \in BOOLEAN, NEW policyDenies \in BOOLEAN,
             Decide(r, admitted, policyDenies)
      PROVE  Justified(r)'
  BY <1>5, DecideJustified
<1> QED
  BY <1>1, <1>2, <1>3, <1>4, <1>5 DEF Proceed

\* A login that has settled stays justified.
LEMMA JustifiedStays ==
    ASSUME NEW r \in Requests, Justified(r), decision'[r] = decision[r], excuse'[r] = excuse[r],
           allowed \subseteq allowed', r \in continuous' => r \in continuous
    PROVE  Justified(r)'
  BY DEF Justified, Accepted

-----------------------------------------------------------------------------
(* The history invariant.                                                  *)

\* What LoginControl, DataPlaneTypes and NegativeSoundness have established.
Established == AuthorityTypeOK /\ LoginInvariant /\ RecordedTypeOK /\ NegativeCacheSound

HistoryInvariant == StoreFollows /\ LoginsKnown /\ ResultsFit /\ Decided

LEMMA HistoryInitially ==
    ASSUME DataPlaneInit
    PROVE  HistoryInvariant
<1>1. StoreFollows
  BY DEF DataPlaneInit, AuthorityInit, BackendInit, StoreFollows, StoreOwned, PresentedAccepted
<1>2. LoginsKnown /\ ResultsFit /\ Decided
  BY DEF DataPlaneInit, LoginsKnown, AllowedKnown, ValidThroughout, ResultsFit, Decided, Underway
<1> QED
  BY <1>1, <1>2 DEF HistoryInvariant

LEMMA HistoryKept ==
    ASSUME Established, HistoryInvariant, [DataPlaneNext]_dataPlaneVars
    PROVE  HistoryInvariant'
<1> USE DEF Established, HistoryInvariant
<1>1. MatchKeys \subseteq MatchKeys' /\ MismatchKeys \subseteq MismatchKeys'
  BY KeysStay
<1>2. ASSUME UNCHANGED authorityVars
      PROVE  StoreFollows'
  BY <1>2 DEF authorityVars, backendVars, StoreFollows, StoreOwned, PresentedAccepted,
              FailOpenSnapshot
<1>3. ASSUME UNCHANGED <<stage, decision, excuse>>, allowed \subseteq allowed',
             continuous' \subseteq continuous
      PROVE  Decided'
  BY <1>3, JustifiedStays DEF Decided
<1>4. CASE Govern
  <2>1. UNCHANGED <<stage, call, decision, excuse, flightResult>>
    BY <1>4 DEF Govern, requestVars, flightVars
  <2>2. allowed \subseteq allowed' /\ continuous' \subseteq continuous
    BY <1>4 DEF Govern
  <2>3. StoreFollows'
    BY <1>4, AuthorityFollows DEF Govern
  <2>4. LoginsKnown'
    BY <1>4, GovernKeepsKnown
  <2>5. ResultsFit'
    BY <1>1, <2>1, ResultsStand
  <2> QED
    BY <1>3, <2>1, <2>2, <2>3, <2>4, <2>5
<1>5. ASSUME NEW r \in Requests, NEW user \in Users, NEW pwd \in Passwords,
             NEW certain \in BOOLEAN, LookUp(r, user, pwd, certain)
      PROVE  HistoryInvariant'
  <2>1. /\ stage[r] = "IDLE" /\ stage'[r] \in {"LOOKED", "UNCERTAIN"}
        /\ \A q \in Requests \ {r} : stage'[q] = stage[q] /\ call'[q] = call[q]
        /\ UNCHANGED <<decision, excuse, flightResult>>
    BY <1>5 DEF LookUp, flightVars, LoginInvariant, LoginTypeOK
  <2>2. /\ allowed \subseteq allowed' /\ continuous' \subseteq continuous \cup {r}
        /\ UNCHANGED authorityVars
    BY <1>5 DEF LookUp
  <2>3. LoginsKnown'
    BY <1>5, LookUpKeepsKnown
  <2>4. ResultsFit'
    BY <1>1, <2>1, ResultsStay
  <2>5. ASSUME NEW q \in Requests, stage'[q] = "DONE"
        PROVE  Justified(q)'
    BY <2>1, <2>2, <2>5, JustifiedStays DEF Decided
  <2> QED
    BY <1>2, <2>2, <2>3, <2>4, <2>5 DEF Decided
<1>6. ASSUME NEW r \in Requests, OwnStep(r), Proceed(r) \/ TimeOut(r)
      PROVE  HistoryInvariant'
  <2>1. UNCHANGED <<authorityVars, continuous, allowed>>
    BY <1>6 DEF OwnStep
  <2>2. LoginsKnown'
    BY <1>6, OwnStepKeepsKnown
  <2>3. ResultsFit'
    BY <1>1, <1>6, OwnStepKeepsResults
  <2>4. ASSUME NEW q \in Requests, stage'[q] = "DONE"
        PROVE  Justified(q)'
    <3>1. CASE q = r
      BY <1>6, <2>4, <3>1, OwnStepJustified
    <3>2. CASE q # r
      BY <1>6, <2>1, <2>4, <3>2, JustifiedStays DEF OwnStep, Decided
    <3> QED
      BY <3>1, <3>2
  <2> QED
    BY <1>2, <2>1, <2>2, <2>3, <2>4 DEF Decided
<1>7. CASE Standing
  <2>1. /\ UNCHANGED <<stage, call, decision, excuse, flightResult, continuous, allowed>>
        /\ UNCHANGED authorityVars
    BY <1>7 DEF Standing, requestVars, flightVars, ghostVars
  <2>2. LoginsKnown'
    BY <1>7, StandingKeepsKnown
  <2>3. ResultsFit'
    BY <1>1, <2>1, ResultsStand
  <2> QED
    BY <1>2, <1>3, <2>1, <2>2, <2>3
<1> QED
  BY <1>4, <1>5, <1>6, <1>7, StepKinds

LEMMA HistoryHolds == DataPlaneSpec => []HistoryInvariant
<1>1. DataPlaneTypeOK => RecordedTypeOK
  BY DEF DataPlaneTypeOK, RecordedTypeOK
<1>2. /\ AuthorityTypeOK /\ LoginInvariant /\ RecordedTypeOK /\ NegativeCacheSound
      => Established
  BY DEF Established
<1>3. DataPlaneInit => HistoryInvariant
  BY HistoryInitially
<1>4. Established /\ HistoryInvariant /\ [DataPlaneNext]_dataPlaneVars => HistoryInvariant'
  BY HistoryKept
<1> QED
  BY <1>1, <1>2, <1>3, <1>4, LoginControl, DataPlaneTypes, NegativeSoundness, PTL DEF DataPlaneSpec

\* A password that stays valid from the lookup to the decision is accepted, through
\* rotations, windows, cached negatives and shared results, unless the verifier was
\* unavailable or the policy refused (engine.py, authenticate).
THEOREM ValidIsAccepted == DataPlaneSpec => []ContinuouslyValidAccepted
<1>1. HistoryInvariant => ContinuouslyValidAccepted
  BY DEF HistoryInvariant, Decided, Justified, ContinuouslyValidAccepted
<1> QED
  BY <1>1, HistoryHolds, PTL

\* A valid password that met an unavailable verifier, a time-out or a full flight is
\* answered with a fail-open route, never with a definite denial (engine.py,
\* authenticate; singleflight.py, execute).
THEOREM UnavailabilityIsNoDenial == DataPlaneSpec => []UnavailableIsNotDenied
<1>1. HistoryInvariant => UnavailableIsNotDenied
  BY DEF HistoryInvariant, Decided, Justified, UnavailableIsNotDenied
<1> QED
  BY <1>1, HistoryHolds, PTL

\* An accepted password was accepted by a live version while its own login was
\* underway, although the comparison may be another login's and older than the
\* lookup (engine.py, authenticate; singleflight.py, execute).
THEOREM AcceptedIsAllowed == DataPlaneSpec => []AcceptedWasAllowed
<1>1. HistoryInvariant => AcceptedWasAllowed
  BY DEF HistoryInvariant, Decided, Justified, AcceptedWasAllowed
<1> QED
  BY <1>1, HistoryHolds, PTL
=============================================================================
