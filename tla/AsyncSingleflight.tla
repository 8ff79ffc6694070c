-------------------------- MODULE AsyncSingleflight --------------------------
(***************************************************************************)
(* service/singleflight.py: coalescing of backend jobs with the same       *)
(* negative key.  A flight is the list of requests that wait for the       *)
(* job of its leader; the leader itself is known to its worker only.       *)
(***************************************************************************)
EXTENDS Naturals, Sequences, SequencesExt

CONSTANTS Requests, NegativeKeys, MaxWaitersPerKey, MaxWaitersGlobal

ASSUME WaiterCaps == MaxWaitersPerKey \in Nat /\ MaxWaitersGlobal \in Nat

VARIABLES
    flights,       \* _flights: negative key -> waiters, for keys in flight
    waiters        \* _waiters: how many requests wait in all flights

flightVars == <<flights, waiters>>

FlightsTypeOK ==
    /\ DOMAIN flights \subseteq NegativeKeys
    /\ \A k \in DOMAIN flights : flights[k] \in Seq(Requests)
    /\ waiters \in Nat

FlightsInit ==
    /\ flights = [k \in {} |-> <<>>]
    /\ waiters = 0

\* join_or_lead: "leader".
Lead(k) ==
    /\ k \notin DOMAIN flights
    /\ flights' = [j \in DOMAIN flights \cup {k} |-> IF j = k THEN <<>> ELSE flights[j]]
    /\ UNCHANGED waiters

\* Mutant: only the waiters of all keys together are limited.
OverloadedGlobally(k) == waiters >= MaxWaitersGlobal

Overloaded(k) ==
    \/ Len(flights[k]) >= MaxWaitersPerKey
    \/ waiters >= MaxWaitersGlobal

\* join_or_lead: "joined".
Join(k, r) ==
    /\ k \in DOMAIN flights
    /\ ~Overloaded(k)
    /\ flights' = [flights EXCEPT ![k] = Append(@, r)]
    /\ waiters' = waiters + 1

\* join_or_lead: "rejected".
Reject(k) ==
    /\ k \in DOMAIN flights
    /\ Overloaded(k)
    /\ UNCHANGED flightVars

\* finish: the flight leaves the table and its waiters are returned.
WaitersOf(k) == IF k \in DOMAIN flights THEN flights[k] ELSE <<>>
Finish(k) ==
    /\ flights' = [j \in DOMAIN flights \ {k} |-> flights[j]]
    /\ waiters' = waiters - Len(WaitersOf(k))

\* cancel_all: every flight leaves the table.
AllWaiters == UNION {ToSet(flights[k]) : k \in DOMAIN flights}
CancelAll ==
    /\ flights' = [k \in {} |-> <<>>]
    /\ waiters' = 0

Waiting(k) == ToSet(WaitersOf(k))
=============================================================================
