---------------------------- MODULE Singleflight ----------------------------
(***************************************************************************)
(* dataplane/singleflight.py: exact-key coalescing of verifier calls.  The *)
(* leader of a flight owns the _Flight object, so a flight is named by its *)
(* leading request; the flight outlives its entry in the table for the     *)
(* waiters that still hold it.  A request leads at most one flight.        *)
(***************************************************************************)
EXTENDS Credentials

CONSTANTS Requests, MaxWaitersPerKey, MaxWaitersGlobal

ASSUME FlightAssumption ==
    /\ MaxWaitersPerKey \in Nat
    /\ MaxWaitersGlobal \in Nat
    /\ None \notin Requests

VARIABLES
    flights,         \* _flights: negative key -> leader of its flight, or None
    flightResult,    \* _Flight.result by leader, None until the event is set
    flightWaiters,   \* _Flight.waiters by leader
    totalWaiters     \* _total_waiters

flightVars == <<flights, flightResult, flightWaiters, totalWaiters>>

\* NegativeKeyDeriver.derive: the keyed digest of a scope and a token of it.
NegativeKeys == [scope : Scopes, pwd : Passwords]

FlightInit ==
    /\ flights = [k \in NegativeKeys |-> None]
    /\ flightResult = [r \in Requests |-> None]
    /\ flightWaiters = [r \in Requests |-> 0]
    /\ totalWaiters = 0

\* The first request of a key leads a new flight.
Lead(r, k) ==
    /\ flights[k] = None
    /\ flights' = [flights EXCEPT ![k] = r]
    /\ UNCHANGED <<flightResult, flightWaiters, totalWaiters>>

\* Either waiter cap turns a follower away.
Overloaded(k) ==
    /\ flights[k] # None
    /\ \/ flightWaiters[flights[k]] >= MaxWaitersPerKey
       \/ totalWaiters >= MaxWaitersGlobal

\* Mutant: a waiter is counted in total but not for its flight.
WaitUncounted(k) ==
    /\ flights[k] # None
    /\ ~Overloaded(k)
    /\ totalWaiters' = totalWaiters + 1
    /\ UNCHANGED <<flights, flightResult, flightWaiters>>

Wait(k) ==
    /\ flights[k] # None
    /\ ~Overloaded(k)
    /\ flightWaiters' = [flightWaiters EXCEPT ![flights[k]] = @ + 1]
    /\ totalWaiters' = totalWaiters + 1
    /\ UNCHANGED <<flights, flightResult>>

\* Mutant: the flight stays in the table after its event is set.
CompleteWithoutRemoval(r, k, result) ==
    /\ flightResult' = [flightResult EXCEPT ![r] = result]
    /\ UNCHANGED <<flights, flightWaiters, totalWaiters>>

\* Mutant: the flight is dropped from the table without its result.
CompleteWithoutEvent(r, k, result) ==
    /\ flights' = [flights EXCEPT ![k] = None]
    /\ UNCHANGED <<flightResult, flightWaiters, totalWaiters>>

\* The leader stores the result, drops its own flight from the table and sets
\* the event.
Complete(r, k, result) ==
    /\ flightResult' = [flightResult EXCEPT ![r] = result]
    /\ flights' = [flights EXCEPT ![k] = IF @ = r THEN None ELSE @]
    /\ UNCHANGED <<flightWaiters, totalWaiters>>

\* A waiter that wakes, with a result or on timeout, gives its place back.
Leave(leader) ==
    /\ flightWaiters' = [flightWaiters EXCEPT ![leader] = @ - 1]
    /\ totalWaiters' = totalWaiters - 1
    /\ UNCHANGED <<flights, flightResult>>
=============================================================================
