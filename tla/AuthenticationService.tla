------------------------ MODULE AuthenticationService ------------------------
(***************************************************************************)
(* service/runtime.py: the bounded in-process authentication service.      *)
(* Submitters, frontend workers, backend workers, the timer thread and the *)
(* thread that shuts the service down are processes; each step accesses    *)
(* one shared object (the service lock, a queue, the flight table, the     *)
(* padding heap).  What a process still has to complete is its list todo.  *)
(*                                                                         *)
(* A request stands for its whole context.  Latencies, class counters and  *)
(* observation windows are left out.  The negative cache may miss at any   *)
(* time; the positive filter is a fixed set of keys.                       *)
(***************************************************************************)
EXTENDS AsyncSingleflight, PaddingScheduler

CONSTANTS
    Frontends, Backends,           \* worker threads
    FrontendCapacity, BackendCapacity,
    MaxConnections,
    IdOf,                          \* request -> request_id
    KeyOf,                         \* request -> negative key, or NoKey
    NoKey,                         \* the account is unknown
    RightKeys,                     \* keys of credentials the verifier matches
    ScreenPositive,                \* keys the positive filter passes
    Stop,                          \* _STOP
    Workloads                      \* [requests, shutdown: what callers do; padded, frontends]

Workers == Frontends \cup Backends
Processes == Requests \cup Workers \cup {"shutdown"}

Routes == {"NEGATIVE_CACHE_REJECT", "POSITIVE_SCREEN_REJECT", "BACKEND_MATCH",
           "BACKEND_MISMATCH", "UNKNOWN_BACKEND_REJECT", "BACKEND_FAILURE",
           "FRONTEND_QUEUE_DROP", "BACKEND_QUEUE_DROP", "SINGLEFLIGHT_OVERFLOW",
           "CONNECTION_DROP", "SHUTDOWN_CANCELLED"}
CounterNames == {"offered", "connections", "immediate", "accepted_terminal", "terminal",
                 "shutdown_cancellations"}
Completions == [request : Requests, route : Routes, direct : BOOLEAN]

ASSUME ServiceConstants ==
    /\ IsFiniteSet(Requests) /\ IsFiniteSet(Frontends) /\ IsFiniteSet(Backends)
    /\ Frontends \cap Backends = {} /\ Requests \cap Workers = {}
    /\ "shutdown" \notin Requests \cup Workers
    /\ FrontendCapacity \in Nat \ {0} /\ BackendCapacity \in Nat \ {0}
    /\ MaxConnections \in Nat \ {0}
    /\ NoKey \notin NegativeKeys /\ KeyOf \in [Requests -> NegativeKeys \cup {NoKey}]
    /\ RightKeys \subseteq ScreenPositive /\ ScreenPositive \subseteq NegativeKeys
    /\ Releases = Completions /\ Stop \notin Requests
    /\ Workloads \subseteq [requests : SUBSET Requests, shutdown : BOOLEAN,
                              padded : BOOLEAN, frontends : SUBSET Frontends]

VARIABLES
    accepting,     \* _accepting
    pending,       \* _pending, as the set of contexts in it
    frontQ, backQ, \* _frontend_queue, _backend_queue
    activeFront, activeBack,       \* _active_frontend_workers, _active_backend_workers
    leaders,       \* contexts whose flight_leader is set
    cached,        \* keys in the negative cache
    counters,      \* the conservation counters of the phase
    terminals,     \* request -> routes of its terminal records, in order
    pc,            \* process -> where it is
    holds,         \* worker -> the request it works on
    verdict,       \* backend worker -> kind of the verifier's result
    todo,          \* process -> completions it has yet to perform
    padded,        \* failure_padding_seconds > 0
    closing        \* the locals of shutdown

serviceVars == <<accepting, pending, frontQ, backQ, activeFront, activeBack, leaders,
                 cached, counters, terminals, pc, holds, verdict, todo, padded,
                 closing, flightVars, paddingVars>>

ServiceTypeOK ==
    /\ accepting \in BOOLEAN
    /\ pending \subseteq Requests /\ leaders \subseteq Requests
    /\ cached \subseteq NegativeKeys
    /\ frontQ \in Seq(Requests \cup {Stop}) /\ backQ \in Seq(Requests \cup {Stop})
    /\ activeFront \in Nat /\ activeBack \in Nat
    /\ counters \in [CounterNames -> Nat]
    /\ terminals \in [Requests -> Seq(Routes)]
    /\ pc \in [Processes -> STRING]
    /\ holds \in [Workers -> Requests \cup {Stop}]
    /\ verdict \in [Backends -> Routes]
    /\ todo \in [Processes -> Seq(Completions)]
    /\ padded \in BOOLEAN
    /\ closing \in [time : {"early", "reserve", "over"}, paddingEmpty : BOOLEAN,
                    drained : BOOLEAN, frontStopped : BOOLEAN, backStopped : BOOLEAN,
                    paddingStopped : BOOLEAN, stops : Nat,
                    report : {"none", "clean", "unclean"}]
    /\ FlightsTypeOK /\ PaddingTypeOK

ServiceInit ==
    /\ accepting = TRUE
    /\ pending = {} /\ leaders = {} /\ cached = {}
    /\ frontQ = <<>> /\ backQ = <<>>
    /\ activeFront = 0 /\ activeBack = 0
    /\ counters = [c \in CounterNames |-> 0]
    /\ terminals = [r \in Requests |-> <<>>]
    /\ \E load \in Workloads :
          /\ padded = load.padded
          /\ pc = [p \in Processes |->
                     IF p \in Workers
                     THEN IF p \in load.frontends \cup Backends THEN "idle" ELSE "absent"
                     ELSE IF p \in Requests THEN IF p \in load.requests THEN "new" ELSE "absent"
                     ELSE IF load.shutdown THEN "off" ELSE "never"]
    /\ holds = [w \in Workers |-> Stop]
    /\ verdict = [w \in Backends |-> "BACKEND_FAILURE"]
    /\ todo = [p \in Processes |-> <<>>]
    /\ closing = [time |-> "early", paddingEmpty |-> FALSE, drained |-> FALSE,
                  frontStopped |-> FALSE, backStopped |-> FALSE,
                  paddingStopped |-> FALSE, stops |-> 0, report |-> "none"]
    /\ FlightsInit /\ PaddingInit

\* What each kind of step leaves alone.
admissionVars == <<accepting, padded, pending, counters, terminals>>
queueVars == <<frontQ, backQ, activeFront, activeBack>>
workVars == <<leaders, cached, holds, verdict, flightVars>>

At(p, place) == pc[p] = place /\ todo[p] = <<>>
Goto(p, place) == pc' = [pc EXCEPT ![p] = place]
Owes(p, completions) == todo' = [todo EXCEPT ![p] = completions]

\* _defer_completion pads every response but an acceptance.
Reply(r, route) ==
    [request |-> r, route |-> route, direct |-> route = "BACKEND_MATCH" \/ ~padded]
Replies(rs, route) == [i \in DOMAIN rs |-> Reply(rs[i], route)]

\* Terminal records made by shutdown are never padded.
Cancelled(r) == [request |-> r, route |-> "SHUTDOWN_CANCELLED", direct |-> TRUE]
Cancellations(rs) == [i \in DOMAIN rs |-> Cancelled(rs[i])]

-----------------------------------------------------------------------------
(* Admission and completion.                                               *)

\* _record_immediate_terminal_locked: refused, never admitted.
Refuse(r, route) ==
    /\ terminals' = [terminals EXCEPT ![r] = Append(@, route)]
    /\ counters' = [counters EXCEPT !["offered"] = @ + 1, !["immediate"] = @ + 1,
                                    !["terminal"] = @ + 1]
    /\ Goto(r, "done")
    /\ UNCHANGED pending

\* Mutant: a request is admitted although one with its identity is pending.
AdmitDuplicate(r) ==
    /\ accepting /\ Cardinality(pending) < MaxConnections
    /\ pending' = {q \in pending : IdOf[q] # IdOf[r]} \cup {r}
    /\ counters' = [counters EXCEPT !["offered"] = @ + 1, !["connections"] = @ + 1]
    /\ Goto(r, "enqueue")
    /\ UNCHANGED terminals

Duplicate(r) == \E q \in pending : IdOf[q] = IdOf[r]

Admit(r) ==
    /\ accepting /\ ~Duplicate(r) /\ Cardinality(pending) < MaxConnections
    /\ pending' = pending \cup {r}
    /\ counters' = [counters EXCEPT !["offered"] = @ + 1, !["connections"] = @ + 1]
    /\ Goto(r, "enqueue")
    /\ UNCHANGED terminals

\* submit, up to the release of the service lock.
Submit(r) ==
    /\ At(r, "new")
    /\ \/ ~accepting /\ Refuse(r, "SHUTDOWN_CANCELLED")
       \/ accepting /\ Duplicate(r) /\ Refuse(r, "BACKEND_FAILURE")
       \/ /\ accepting /\ ~Duplicate(r)
          /\ Cardinality(pending) >= MaxConnections
          /\ Refuse(r, "CONNECTION_DROP")
       \/ Admit(r)
    /\ UNCHANGED <<accepting, padded, todo, queueVars, workVars, closing, paddingVars>>

\* submit, after it: put_nowait on the frontend queue.
Enqueue(r) ==
    /\ At(r, "enqueue")
    /\ Goto(r, "done")
    /\ IF Len(frontQ) < FrontendCapacity
       THEN frontQ' = Append(frontQ, r) /\ UNCHANGED todo
       ELSE Owes(r, <<Reply(r, "FRONTEND_QUEUE_DROP")>>) /\ UNCHANGED frontQ
    /\ UNCHANGED <<admissionVars, backQ, activeFront, activeBack, workVars, closing,
                   paddingVars>>

\* Mutant: a completion is recorded whether or not the request is pending.
RecordAgain(x) ==
    /\ pending' = pending \ {x.request}
    /\ terminals' = [terminals EXCEPT ![x.request] = Append(@, x.route)]
    /\ counters' = [counters EXCEPT !["accepted_terminal"] = @ + 1, !["terminal"] = @ + 1]

\* _record_completion: only a pending context gets its terminal record.
Record(x) ==
    IF x.request \in pending
    THEN /\ pending' = pending \ {x.request}
         /\ terminals' = [terminals EXCEPT ![x.request] = Append(@, x.route)]
         /\ counters' = [counters EXCEPT
                !["accepted_terminal"] = @ + 1, !["terminal"] = @ + 1,
                !["shutdown_cancellations"] =
                    @ + IF x.route = "SHUTDOWN_CANCELLED" THEN 1 ELSE 0]
    ELSE UNCHANGED <<pending, terminals, counters>>

completionFrame == <<accepting, padded, pc, queueVars, workVars, closing>>

\* _defer_completion of the first completion a process owes: hand it to the
\* padding scheduler ...
CompleteLater(p) ==
    /\ todo[p] # <<>> /\ ~Head(todo[p]).direct
    /\ Schedule(Head(todo[p]))
    /\ Owes(p, Tail(todo[p]))
    /\ UNCHANGED <<pending, terminals, counters, completionFrame>>

\* Mutant: a completion the scheduler refuses is dropped.
CompleteNever(p) ==
    /\ todo[p] # <<>> /\ ~Head(todo[p]).direct
    /\ ~Room
    /\ Owes(p, Tail(todo[p]))
    /\ UNCHANGED <<pending, terminals, counters, completionFrame, paddingVars>>

\* ... or, when the scheduler refuses it, record it without delay ...
CompleteUnpadded(p) ==
    /\ todo[p] # <<>> /\ ~Head(todo[p]).direct
    /\ ~Room
    /\ Owes(p, [todo[p] EXCEPT ![1].direct = TRUE])
    /\ UNCHANGED <<pending, terminals, counters, completionFrame, paddingVars>>

\* ... and record at once what needs no padding.
CompleteNow(p) ==
    /\ todo[p] # <<>> /\ Head(todo[p]).direct
    /\ Record(Head(todo[p]))
    /\ Owes(p, Tail(todo[p]))
    /\ UNCHANGED <<completionFrame, paddingVars>>

\* The callback of the timer thread.
TimerCallback ==
    /\ released # NoRelease
    /\ Record(released)
    /\ Called
    /\ UNCHANGED <<todo, completionFrame>>

TimerStep ==
    \/ (PopDue \/ TimerStops) /\ UNCHANGED <<pending, terminals, counters, todo, completionFrame>>
    \/ TimerCallback

-----------------------------------------------------------------------------
(* Frontend workers.                                                       *)

frontendFrame == <<admissionVars, closing, paddingVars>>

\* get: the item is in no queue and its worker is not yet counted as active.
FrontGet(w) ==
    /\ At(w, "idle") /\ frontQ # <<>>
    /\ frontQ' = Tail(frontQ)
    /\ Goto(w, IF Head(frontQ) = Stop THEN "stopped" ELSE "got")
    /\ holds' = [holds EXCEPT ![w] = Head(frontQ)]
    /\ UNCHANGED <<frontendFrame, todo, backQ, activeFront, activeBack, leaders, cached,
                   verdict, flightVars>>

FrontBegin(w) ==
    /\ At(w, "got")
    /\ activeFront' = activeFront + 1
    /\ Goto(w, "screen")
    /\ UNCHANGED <<frontendFrame, todo, frontQ, backQ, activeBack, workVars>>

\* _process_frontend: reject from the cache or the filter, or pass on.
FrontScreen(w) ==
    LET r == holds[w]
        k == KeyOf[r] IN
    /\ At(w, "screen")
    /\ \/ /\ k \in cached
          /\ Owes(w, <<Reply(r, "NEGATIVE_CACHE_REJECT")>>) /\ Goto(w, "end")
       \/ /\ k \in NegativeKeys \ ScreenPositive
          /\ Owes(w, <<Reply(r, "POSITIVE_SCREEN_REJECT")>>) /\ Goto(w, "end")
       \/ k \in ScreenPositive /\ Goto(w, "join") /\ UNCHANGED todo
       \/ k = NoKey /\ Goto(w, "put") /\ UNCHANGED todo
    /\ UNCHANGED <<frontendFrame, queueVars, workVars>>

\* The screening raises: the worker answers and survives.
FrontRaises(w) ==
    /\ At(w, "screen")
    /\ Owes(w, <<Reply(holds[w], "BACKEND_FAILURE")>>)
    /\ Goto(w, "end")
    /\ UNCHANGED <<frontendFrame, queueVars, workVars>>

FrontJoin(w) ==
    LET r == holds[w]
        k == KeyOf[r] IN
    /\ At(w, "join")
    /\ \/ Lead(k) /\ leaders' = leaders \cup {r} /\ Goto(w, "put") /\ UNCHANGED todo
       \/ Join(k, r) /\ Goto(w, "end") /\ UNCHANGED <<leaders, todo>>
       \/ /\ Reject(k)
          /\ Owes(w, <<Reply(r, "SINGLEFLIGHT_OVERFLOW")>>) /\ Goto(w, "end")
          /\ UNCHANGED leaders
    /\ UNCHANGED <<frontendFrame, queueVars, cached, holds, verdict>>

FrontPut(w) ==
    /\ At(w, "put")
    /\ IF Len(backQ) < BackendCapacity
       THEN backQ' = Append(backQ, holds[w]) /\ Goto(w, "end")
       ELSE UNCHANGED backQ /\ Goto(w, "drop")
    /\ UNCHANGED <<frontendFrame, todo, frontQ, activeFront, activeBack, workVars>>

\* _finish_flight, by the leader of a flight only.
FinishFlight(r) ==
    IF r \in leaders THEN Finish(KeyOf[r]) /\ leaders' = leaders \ {r}
    ELSE UNCHANGED <<flightVars, leaders>>
FlightOf(r) == IF r \in leaders THEN WaitersOf(KeyOf[r]) ELSE <<>>

\* Mutant: only the leader is told that the backend queue is full.
FrontDropLeaderOnly(w) ==
    /\ At(w, "drop")
    /\ FinishFlight(holds[w])
    /\ Owes(w, <<Reply(holds[w], "BACKEND_QUEUE_DROP")>>)
    /\ Goto(w, "end")
    /\ UNCHANGED <<frontendFrame, queueVars, cached, holds, verdict>>

\* The backend queue was full: the flight ends with it.
FrontDrop(w) ==
    /\ At(w, "drop")
    /\ FinishFlight(holds[w])
    /\ Owes(w, Replies(<<holds[w]>> \o FlightOf(holds[w]), "BACKEND_QUEUE_DROP"))
    /\ Goto(w, "end")
    /\ UNCHANGED <<frontendFrame, queueVars, cached, holds, verdict>>

FrontEnd(w) ==
    /\ At(w, "end")
    /\ activeFront' = activeFront - 1
    /\ holds' = [holds EXCEPT ![w] = Stop]
    /\ Goto(w, "idle")
    /\ UNCHANGED <<frontendFrame, todo, frontQ, backQ, activeBack, leaders, cached, verdict,
                   flightVars>>

FrontStep(w) ==
    \/ FrontGet(w) \/ FrontBegin(w) \/ FrontScreen(w) \/ FrontRaises(w) \/ FrontJoin(w)
    \/ FrontPut(w) \/ FrontDrop(w) \/ FrontEnd(w)

-----------------------------------------------------------------------------
(* Backend workers.                                                        *)

BackGet(w) ==
    /\ At(w, "idle") /\ backQ # <<>>
    /\ backQ' = Tail(backQ)
    /\ Goto(w, IF Head(backQ) = Stop THEN "stopped" ELSE "got")
    /\ holds' = [holds EXCEPT ![w] = Head(backQ)]
    /\ UNCHANGED <<frontendFrame, todo, frontQ, activeFront, activeBack, leaders, cached,
                   verdict, flightVars>>

BackBegin(w) ==
    /\ At(w, "got")
    /\ activeBack' = activeBack + 1
    /\ Goto(w, "verify")
    /\ UNCHANGED <<frontendFrame, todo, frontQ, backQ, activeFront, workVars>>

Truth(r) == CASE KeyOf[r] = NoKey -> "UNKNOWN_BACKEND_REJECT"
              [] KeyOf[r] \in RightKeys -> "BACKEND_MATCH"
              [] OTHER -> "BACKEND_MISMATCH"

\* Mutant: a failed verification is remembered like a mismatch.
BackVerifyCachingFailure(w) ==
    /\ At(w, "verify")
    /\ \E result \in {Truth(holds[w]), "BACKEND_FAILURE"} :
          /\ verdict' = [verdict EXCEPT ![w] = result]
          /\ Goto(w, IF result \in {"BACKEND_MISMATCH", "BACKEND_FAILURE"} /\ KeyOf[holds[w]] # NoKey
                     THEN "insert" ELSE "finish")
    /\ UNCHANGED <<frontendFrame, todo, queueVars, leaders, cached, holds, flightVars>>

\* The verifier answers, fails in a typed way, or raises.
BackVerify(w) ==
    /\ At(w, "verify")
    /\ \E result \in {Truth(holds[w]), "BACKEND_FAILURE"} :
          /\ verdict' = [verdict EXCEPT ![w] = result]
          /\ Goto(w, IF result = "BACKEND_MISMATCH" THEN "insert" ELSE "finish")
    /\ UNCHANGED <<frontendFrame, todo, queueVars, leaders, cached, holds, flightVars>>

\* The verifier does not return.
BackHangs(w) ==
    /\ At(w, "verify")
    /\ Goto(w, "hung")
    /\ UNCHANGED <<frontendFrame, todo, queueVars, workVars>>

\* The cache may refuse the insertion.
BackInsert(w) ==
    /\ At(w, "insert")
    /\ cached' \in {cached, cached \cup {KeyOf[holds[w]]}}
    /\ Goto(w, "finish")
    /\ UNCHANGED <<frontendFrame, todo, queueVars, leaders, holds, verdict, flightVars>>

\* The flight ends, then its leader and its waiters get the result.
BackFinish(w) ==
    /\ At(w, "finish")
    /\ FinishFlight(holds[w])
    /\ Owes(w, Replies(<<holds[w]>> \o FlightOf(holds[w]), verdict[w]))
    /\ Goto(w, "end")
    /\ UNCHANGED <<frontendFrame, queueVars, cached, holds, verdict>>

BackEnd(w) ==
    /\ At(w, "end")
    /\ activeBack' = activeBack - 1
    /\ holds' = [holds EXCEPT ![w] = Stop]
    /\ verdict' = [verdict EXCEPT ![w] = "BACKEND_FAILURE"]
    /\ Goto(w, "idle")
    /\ UNCHANGED <<frontendFrame, todo, frontQ, backQ, activeFront, leaders, cached,
                   flightVars>>

BackStep(w) ==
    \/ BackGet(w) \/ BackBegin(w) \/ BackVerify(w) \/ BackInsert(w) \/ BackFinish(w)
    \/ BackEnd(w)

-----------------------------------------------------------------------------
(* shutdown, run by one thread.  Time passes the reserve before the        *)
(* deadline, then the deadline.                                            *)

closingFrame == <<pending, counters, terminals, activeFront, activeBack, cached, holds, verdict>>
Closing(update) == closing' = update
Started == {w \in Frontends : pc[w] # "absent"}
Stopped(W) == \A w \in W : pc[w] = "stopped"

TimePasses ==
    /\ ~accepting /\ closing.time # "over"
    /\ Closing([closing EXCEPT !.time = IF @ = "early" THEN "reserve" ELSE "over"])
    /\ UNCHANGED <<admissionVars, queueVars, workVars, pc, todo, paddingVars>>

BeginShutdown ==
    /\ At("shutdown", "off")
    /\ accepting' = FALSE
    /\ Goto("shutdown", "read padding")
    /\ UNCHANGED <<padded, pending, counters, terminals, queueVars, workVars, todo, closing,
                   paddingVars>>

\* queue_snapshot reads the padding scheduler before it takes the lock.
ReadPadding ==
    /\ At("shutdown", "read padding")
    /\ Closing([closing EXCEPT !.paddingEmpty = (due = {})])
    /\ Goto("shutdown", "read rest")
    /\ UNCHANGED <<admissionVars, queueVars, workVars, todo, paddingVars>>

\* Mutant: pending requests are not looked at.
QueuesIdle == closing.paddingEmpty /\ frontQ = <<>> /\ backQ = <<>>
              /\ activeFront = 0 /\ activeBack = 0

Idle == /\ closing.paddingEmpty /\ frontQ = <<>> /\ backQ = <<>> /\ pending = {}
        /\ activeFront = 0 /\ activeBack = 0

\* _wait_idle_until the reserve.
ReadRest ==
    /\ At("shutdown", "read rest")
    /\ IF Idle THEN /\ Closing([closing EXCEPT !.drained = TRUE, !.paddingEmpty = FALSE,
                                               !.stops = Cardinality(Started)])
                    /\ Goto("shutdown", "stop frontends")
       ELSE /\ Closing([closing EXCEPT !.paddingEmpty = FALSE])
            /\ Goto("shutdown", IF closing.time = "early" THEN "read padding"
                                ELSE "cancel padding")
    /\ UNCHANGED <<admissionVars, queueVars, workVars, todo, paddingVars>>

\* Not drained: forget what is being padded, then empty the frontend queue.
DropPadding ==
    /\ At("shutdown", "cancel padding")
    /\ CancelPending
    /\ Goto("shutdown", "cancel frontend queue")
    /\ UNCHANGED <<admissionVars, queueVars, workVars, todo, closing>>

\* A stop in a queue stands for no request.
ContextOf(item) == IF item = Stop THEN <<>> ELSE <<item>>

CancelFrontendQueue ==
    /\ At("shutdown", "cancel frontend queue")
    /\ IF frontQ = <<>>
       THEN /\ Closing([closing EXCEPT !.stops = Cardinality(Started)])
            /\ Goto("shutdown", "stop frontends")
            /\ UNCHANGED <<frontQ, todo>>
       ELSE /\ frontQ' = Tail(frontQ)
            /\ Owes("shutdown", Cancellations(ContextOf(Head(frontQ))))
            /\ UNCHANGED <<closing, pc>>
    /\ UNCHANGED <<admissionVars, backQ, activeFront, activeBack, workVars, paddingVars>>

\* After the frontends: their remaining jobs are cancelled unless all is well.
AfterFrontends(stopped) ==
    /\ Closing([closing EXCEPT !.frontStopped = stopped,
                  !.stops = Cardinality(Backends)])
    /\ Goto("shutdown", IF closing.drained /\ stopped THEN "stop backends"
                        ELSE "cancel backend queue")

\* _enqueue_stops: one stop per worker while there is time; put waits for room.
StopFrontends ==
    /\ At("shutdown", "stop frontends")
    /\ \/ /\ closing.stops = 0
          /\ Goto("shutdown", "join frontends") /\ UNCHANGED <<closing, frontQ>>
       \/ /\ closing.stops > 0 /\ closing.time # "over" /\ Len(frontQ) < FrontendCapacity
          /\ frontQ' = Append(frontQ, Stop)
          /\ Closing([closing EXCEPT !.stops = @ - 1]) /\ UNCHANGED pc
       \/ /\ closing.stops > 0 /\ closing.time = "over"
          /\ AfterFrontends(FALSE) /\ UNCHANGED frontQ
    /\ UNCHANGED <<closingFrame, accepting, padded, backQ, leaders, flightVars, todo, paddingVars>>

JoinFrontends ==
    /\ At("shutdown", "join frontends")
    /\ Stopped(Started) \/ closing.time = "over"
    /\ AfterFrontends(Stopped(Started))
    /\ UNCHANGED <<admissionVars, queueVars, workVars, todo, paddingVars>>

\* Each cancelled job takes the waiters of its flight with it.
CancelBackendQueue ==
    /\ At("shutdown", "cancel backend queue")
    /\ IF backQ = <<>>
       THEN /\ Goto("shutdown", "stop backends")
            /\ UNCHANGED <<backQ, todo, leaders, flightVars>>
       ELSE LET r == Head(backQ) IN
            /\ backQ' = Tail(backQ)
            /\ FinishFlight(r)
            /\ Owes("shutdown", Cancellations(ContextOf(r) \o FlightOf(r)))
            /\ UNCHANGED pc
    /\ UNCHANGED <<closingFrame, accepting, padded, closing, frontQ, paddingVars>>

AfterBackends(stopped) ==
    /\ Closing([closing EXCEPT !.backStopped = stopped])
    /\ Goto("shutdown", IF closing.drained THEN "drain padding" ELSE "cancel padding again")

StopBackends ==
    /\ At("shutdown", "stop backends")
    /\ \/ /\ closing.stops = 0
          /\ Goto("shutdown", "join backends") /\ UNCHANGED <<closing, backQ>>
       \/ /\ closing.stops > 0 /\ closing.time # "over" /\ Len(backQ) < BackendCapacity
          /\ backQ' = Append(backQ, Stop)
          /\ Closing([closing EXCEPT !.stops = @ - 1]) /\ UNCHANGED pc
       \/ /\ closing.stops > 0 /\ closing.time = "over"
          /\ AfterBackends(FALSE) /\ UNCHANGED backQ
    /\ UNCHANGED <<closingFrame, accepting, padded, frontQ, leaders, flightVars, todo, paddingVars>>

\* Mutant: the join has no deadline.
JoinBackendsForever ==
    /\ At("shutdown", "join backends")
    /\ Stopped(Backends)
    /\ AfterBackends(TRUE)
    /\ UNCHANGED <<admissionVars, queueVars, workVars, todo, paddingVars>>

JoinBackends ==
    /\ At("shutdown", "join backends")
    /\ Stopped(Backends) \/ closing.time = "over"
    /\ AfterBackends(Stopped(Backends))
    /\ UNCHANGED <<admissionVars, queueVars, workVars, todo, paddingVars>>

DropPaddingAgain ==
    /\ At("shutdown", "cancel padding again")
    /\ CancelPending
    /\ Goto("shutdown", "drain padding")
    /\ UNCHANGED <<admissionVars, queueVars, workVars, todo, closing>>

\* PaddingScheduler.shutdown waits for the heap only when draining.
StopTimer ==
    /\ At("shutdown", "drain padding")
    /\ closing.drained => due = {} \/ closing.time = "over"
    /\ StopPadding(closing.drained)
    /\ Goto("shutdown", "join timer")
    /\ UNCHANGED <<admissionVars, queueVars, workVars, todo, closing>>

\* Mutant: what was cancelled instead of drained is forgotten.
ThreadsStopped == closing.frontStopped /\ closing.backStopped

AllStopped == closing.drained /\ closing.frontStopped /\ closing.backStopped

JoinTimer ==
    /\ At("shutdown", "join timer")
    /\ timerThread = "stopped" \/ closing.time = "over"
    /\ Closing([closing EXCEPT !.paddingStopped = (timerThread = "stopped")])
    /\ Goto("shutdown", IF AllStopped THEN "report" ELSE "cancel flights")
    /\ UNCHANGED <<admissionVars, queueVars, workVars, todo, paddingVars>>

CancelFlights ==
    /\ At("shutdown", "cancel flights")
    /\ CancelAll
    /\ Owes("shutdown", Cancellations(SetToSeq(AllWaiters)))
    /\ Goto("shutdown", "cancel pending")
    /\ UNCHANGED <<admissionVars, queueVars, leaders, cached, holds, verdict, closing, paddingVars>>

\* _cancel_remaining_pending: a snapshot of what is pending, then each record.
CancelPendingRequests ==
    /\ At("shutdown", "cancel pending")
    /\ Owes("shutdown", Cancellations(SetToSeq(pending)))
    /\ Goto("shutdown", "report")
    /\ UNCHANGED <<admissionVars, queueVars, workVars, closing, paddingVars>>

Report ==
    /\ At("shutdown", "report")
    /\ Closing([closing EXCEPT !.report =
         IF AllStopped /\ closing.paddingStopped /\ pending = {} THEN "clean" ELSE "unclean"])
    /\ Goto("shutdown", "done")
    /\ UNCHANGED <<admissionVars, queueVars, workVars, todo, paddingVars>>

ShutdownStep ==
    \/ ReadPadding \/ ReadRest \/ DropPadding \/ CancelFrontendQueue \/ StopFrontends
    \/ JoinFrontends \/ CancelBackendQueue \/ StopBackends \/ JoinBackends
    \/ DropPaddingAgain \/ StopTimer \/ JoinTimer \/ CancelFlights
    \/ CancelPendingRequests \/ Report

-----------------------------------------------------------------------------
Complete(p) == CompleteLater(p) \/ CompleteUnpadded(p) \/ CompleteNow(p)

ServiceNext ==
    \/ \E r \in Requests : Submit(r) \/ Enqueue(r)
    \/ \E w \in Frontends : FrontStep(w)
    \/ \E w \in Backends : BackStep(w) \/ BackHangs(w)
    \/ \E p \in Processes : Complete(p)
    \/ TimerStep
    \/ BeginShutdown \/ ShutdownStep \/ TimePasses

\* Threads run, time passes, and shutdown goes on once it was called; that it
\* is called, and that a request is submitted, is up to the caller.
ServiceFairness ==
    /\ \A r \in Requests : WF_serviceVars(Enqueue(r))
    /\ \A w \in Frontends : WF_serviceVars(FrontStep(w))
    /\ \A w \in Backends : WF_serviceVars(BackStep(w))
    /\ \A p \in Processes : WF_serviceVars(Complete(p))
    /\ WF_serviceVars(TimerStep)
    /\ WF_serviceVars(ShutdownStep)
    /\ WF_serviceVars(TimePasses)

ServiceSpec == ServiceInit /\ [][ServiceNext]_serviceVars
FairServiceSpec == ServiceSpec /\ ServiceFairness

-----------------------------------------------------------------------------
(* Properties.                                                             *)

\* Every submission has exactly one terminal record, or none while it is
\* pending: retried, coalesced, padded, dropped and cancelled completions of
\* one request never record twice, and a refused duplicate of a pending
\* request does not complete the original.
OneTerminalEach ==
    \A r \in Requests :
        Len(terminals[r]) = IF pc[r] \in {"new", "absent"} \/ r \in pending THEN 0 ELSE 1

\* The checks of phase_snapshot.
Conservation ==
    /\ counters["offered"] = counters["terminal"] + Cardinality(pending)
    /\ counters["offered"] = counters["connections"] + counters["immediate"]
    /\ counters["connections"] = counters["accepted_terminal"] + Cardinality(pending)
    /\ counters["terminal"] = counters["accepted_terminal"] + counters["immediate"]

\* Until shutdown gives up on draining, every pending request is in somebody's
\* hands: a queue, a worker, the waiters of a flight whose leader is, the
\* padding heap or the timer thread.
Underway(r) ==
    \/ pc[r] = "enqueue"
    \/ r \in ToSet(frontQ)
    \/ \E w \in Frontends : holds[w] = r /\ pc[w] \in {"got", "screen", "join", "put", "drop"}
    \/ r \in ToSet(backQ)
    \/ \E w \in Backends : holds[w] = r /\ pc[w] \in {"got", "verify", "hung", "insert", "finish"}
    \/ \E p \in Processes : \E i \in DOMAIN todo[p] : todo[p][i].request = r
    \/ \E x \in due \cup ({released} \ {NoRelease}) : x.request = r
GivingUp == ~closing.drained /\ pc["shutdown"] \notin {"off", "never", "read padding", "read rest",
                                                       "cancel padding"}
NoRequestLost ==
    ~GivingUp => \A r \in pending :
        \/ Underway(r)
        \/ /\ KeyOf[r] \in DOMAIN flights /\ r \in Waiting(KeyOf[r])
           /\ \E q \in leaders : KeyOf[q] = KeyOf[r] /\ Underway(q)

\* Once shutdown found the service idle it stays so: nothing is pending.
DrainedStaysIdle == closing.drained => pending = {}

\* A report says clean only if no admitted request was cancelled and every
\* thread has ended; and whatever it says, no request is left pending.
ReportIsTruthful ==
    /\ closing.report # "none" => pending = {}
    /\ closing.report = "clean" =>
         /\ Stopped(Started \cup Backends) /\ timerThread = "stopped"
         /\ counters["shutdown_cancellations"] = 0

\* A request whose credential is right is never turned down by what the
\* service remembers or screens, nor accepted with a wrong one on another's
\* verdict.
AnswersAreRight ==
    \A r \in Requests : \A i \in DOMAIN terminals[r] :
        LET route == terminals[r][i] IN
        /\ route \in {"NEGATIVE_CACHE_REJECT", "POSITIVE_SCREEN_REJECT"} =>
             KeyOf[r] \in NegativeKeys \ RightKeys
        /\ route \in {"BACKEND_MATCH", "BACKEND_MISMATCH", "UNKNOWN_BACKEND_REJECT"} =>
             route = Truth(r)

\* Connections, queues, waiters and delayed completions keep their bounds.
BoundsKept ==
    /\ Cardinality(pending) <= MaxConnections
    /\ Len(frontQ) <= FrontendCapacity /\ Len(backQ) <= BackendCapacity
    /\ \A k \in DOMAIN flights : Len(flights[k]) <= MaxWaitersPerKey
    /\ waiters = Cardinality(AllWaiters) /\ waiters <= MaxWaitersGlobal
    /\ Cardinality(due) <= MaxPending

\* Every admitted request gets its terminal record, unless a verifier hangs
\* and the service is not shut down.  A request is submitted once, so in the
\* end none is pending any more.
EveryRequestEnds ==
    <>[](pending = {} \/ (accepting /\ \E w \in Backends : pc[w] = "hung"))

\* Shutdown ends, whatever hangs.
ShutdownEnds == ~accepting ~> closing.report # "none"
=============================================================================
