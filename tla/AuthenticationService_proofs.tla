-------------------- MODULE AuthenticationService_proofs --------------------
(***************************************************************************)
(* Proofs about the authentication service: its ledger of requests and the *)
(* counters that phase_snapshot compares, its shutdown, its answers, its   *)
(* report, its bounds, and in whose hands every pending request is.  For   *)
(* any requests, workers, queues and bounds.                               *)
(***************************************************************************)
EXTENDS AuthenticationService, FiniteSetTheorems, SequenceTheorems, TLAPS

ledger == <<pending, counters, terminals>>

LedgerTypeOK ==
    /\ pending \subseteq Requests
    /\ DOMAIN pc = Processes
    /\ DOMAIN terminals = Requests /\ terminals = [r \in Requests |-> terminals[r]]
    /\ counters \in [CounterNames -> Nat]

\* A request that is not submitted yet is not pending; a submitted one is pending
\* or has one record.
RecordedOnce ==
    \A r \in Requests :
        /\ pc[r] \in {"new", "absent"} => r \notin pending
        /\ IF pc[r] \in {"new", "absent"} \/ r \in pending
           THEN terminals[r] = <<>>
           ELSE \E route : terminals[r] = <<route>>

LedgerInvariant == LedgerTypeOK /\ RecordedOnce /\ Conservation

LEMMA RequestIsNoWorker ==
    ASSUME NEW r \in Requests
    PROVE  r \in Processes /\ r \notin Workers /\ r # "shutdown"
BY ServiceConstants DEF Processes

LEMMA PendingFinite ==
    ASSUME LedgerTypeOK
    PROVE  IsFiniteSet(pending) /\ Cardinality(pending) \in Nat
BY ServiceConstants, FS_Subset, FS_CardinalityType DEF LedgerTypeOK

LEMMA LedgerInit == ServiceInit => LedgerInvariant
<1> SUFFICES ASSUME ServiceInit PROVE LedgerInvariant
    OBVIOUS
<1>1. PICK load \in Workloads :
          pc = [p \in Processes |->
                  IF p \in Workers
                  THEN IF p \in load.frontends \cup Backends THEN "idle" ELSE "absent"
                  ELSE IF p \in Requests THEN IF p \in load.requests THEN "new" ELSE "absent"
                  ELSE IF load.shutdown THEN "off" ELSE "never"]
    BY DEF ServiceInit
<1>2. /\ pending = {} /\ terminals = [r \in Requests |-> <<>>]
      /\ counters = [c \in CounterNames |-> 0]
    BY DEF ServiceInit
<1>3. LedgerTypeOK
    <2>1. DOMAIN pc = Processes
        BY <1>1
    <2>2. counters \in [CounterNames -> Nat]
        BY <1>2
    <2>3. DOMAIN terminals = Requests /\ terminals = [r \in Requests |-> terminals[r]]
        BY <1>2
    <2> QED
        BY <1>2, <2>1, <2>2, <2>3 DEF LedgerTypeOK
<1>4. RecordedOnce
    BY <1>1, <1>2, RequestIsNoWorker DEF RecordedOnce
<1>5. Conservation
    BY <1>2, FS_EmptySet DEF Conservation, CounterNames
<1> QED
    BY <1>3, <1>4, <1>5 DEF LedgerInvariant

-----------------------------------------------------------------------------
(* Steps that leave the ledger alone.                                      *)

\* No request moves.
Elsewhere == DOMAIN pc' = DOMAIN pc /\ \A r \in Requests : pc'[r] = pc[r]

LEMMA GotoElsewhere ==
    ASSUME LedgerTypeOK, NEW p \in Workers \cup {"shutdown"}, NEW place, Goto(p, place)
    PROVE  Elsewhere
BY RequestIsNoWorker DEF Goto, Elsewhere, LedgerTypeOK

LEMMA ElsewhereKeeps ==
    ASSUME LedgerInvariant, UNCHANGED ledger, Elsewhere
    PROVE  LedgerInvariant'
<1> USE DEF LedgerInvariant
<1>1. UNCHANGED <<pending, counters, terminals>>
    BY DEF ledger
<1>2. LedgerTypeOK' /\ RecordedOnce' /\ Conservation'
    BY <1>1 DEF LedgerTypeOK, RecordedOnce, Conservation, Elsewhere
<1> QED
    BY <1>2

LEMMA FrontLeavesLedger ==
    ASSUME LedgerTypeOK, NEW w \in Frontends, FrontStep(w)
    PROVE  UNCHANGED ledger /\ Elsewhere
<1> w \in Workers \cup {"shutdown"}
    BY DEF Workers
<1> UNCHANGED ledger
    BY DEF FrontStep, FrontGet, FrontBegin, FrontScreen, FrontRaises, FrontJoin, FrontPut,
           FrontDrop, FrontEnd, frontendFrame, admissionVars, ledger
<1> Elsewhere
    BY GotoElsewhere
       DEF FrontStep, FrontGet, FrontBegin, FrontScreen, FrontRaises, FrontJoin, FrontPut,
           FrontDrop, FrontEnd
<1> QED
    OBVIOUS

LEMMA BackLeavesLedger ==
    ASSUME LedgerTypeOK, NEW w \in Backends, BackStep(w) \/ BackHangs(w)
    PROVE  UNCHANGED ledger /\ Elsewhere
<1> w \in Workers \cup {"shutdown"}
    BY DEF Workers
<1> UNCHANGED ledger
    BY DEF BackStep, BackHangs, BackGet, BackBegin, BackVerify, BackInsert, BackFinish,
           BackEnd, frontendFrame, admissionVars, ledger
<1> Elsewhere
    BY GotoElsewhere
       DEF BackStep, BackHangs, BackGet, BackBegin, BackVerify, BackInsert, BackFinish, BackEnd
<1> QED
    OBVIOUS

LEMMA ShutdownLeavesLedger ==
    ASSUME LedgerTypeOK, BeginShutdown \/ ShutdownStep \/ TimePasses
    PROVE  UNCHANGED ledger /\ Elsewhere
<1> UNCHANGED ledger
    BY DEF BeginShutdown, ShutdownStep, TimePasses, ReadPadding, ReadRest, DropPadding,
           CancelFrontendQueue, StopFrontends, JoinFrontends, CancelBackendQueue,
           StopBackends, JoinBackends, DropPaddingAgain, StopTimer, JoinTimer,
           CancelFlights, CancelPendingRequests, Report, closingFrame, admissionVars, ledger
<1> Elsewhere
    <2>1. pc' = pc => Elsewhere
        BY DEF Elsewhere
    <2>2. pc' = pc \/ \E place : Goto("shutdown", place)
        BY DEF BeginShutdown, ShutdownStep, TimePasses, ReadPadding, ReadRest, DropPadding,
               CancelFrontendQueue, StopFrontends, JoinFrontends, CancelBackendQueue,
               StopBackends, JoinBackends, DropPaddingAgain, StopTimer, JoinTimer,
               CancelFlights, CancelPendingRequests, Report, AfterFrontends, AfterBackends
    <2> QED
        BY <2>1, <2>2, GotoElsewhere
<1> QED
    OBVIOUS

-----------------------------------------------------------------------------
(* Steps that write the ledger.                                            *)

\* A record takes a pending request out of the ledger's debts, and a request that
\* is not pending is not recorded again.
LEMMA RecordKeeps ==
    ASSUME LedgerInvariant, NEW x, Record(x), pc' = pc
    PROVE  LedgerInvariant'
<1> USE DEF LedgerInvariant
<1>1. CASE x.request \notin pending
    BY <1>1, ElsewhereKeeps DEF Record, Elsewhere, ledger
<1>2. CASE x.request \in pending
    <2> DEFINE q == x.request
    <2>1. /\ pending' = pending \ {q}
          /\ terminals' = [terminals EXCEPT ![q] = Append(@, x.route)]
          /\ counters' = [counters EXCEPT
                 !["accepted_terminal"] = @ + 1, !["terminal"] = @ + 1,
                 !["shutdown_cancellations"] =
                     @ + IF x.route = "SHUTDOWN_CANCELLED" THEN 1 ELSE 0]
        BY <1>2 DEF Record
    <2>2. q \in Requests /\ pc[q] \notin {"new", "absent"} /\ terminals[q] = <<>>
        BY <1>2 DEF LedgerTypeOK, RecordedOnce
    <2> HIDE DEF q
    <2>3. terminals'[q] = <<x.route>>
        BY <2>1, <2>2 DEF LedgerTypeOK
    <2>4. counters' \in [CounterNames -> Nat]
          /\ counters'["offered"] = counters["offered"]
          /\ counters'["connections"] = counters["connections"]
          /\ counters'["immediate"] = counters["immediate"]
          /\ counters'["terminal"] = counters["terminal"] + 1
          /\ counters'["accepted_terminal"] = counters["accepted_terminal"] + 1
        <3>1. PICK late \in Nat :
                 counters' = [counters EXCEPT
                    !["accepted_terminal"] = @ + 1, !["terminal"] = @ + 1,
                    !["shutdown_cancellations"] = @ + late]
            BY <2>1
        <3> QED
            BY <3>1 DEF LedgerTypeOK, CounterNames
    <2>5. Cardinality(pending') = Cardinality(pending) - 1
        BY <1>2, <2>1, PendingFinite, FS_RemoveElement DEF q
    <2>6. LedgerTypeOK'
        BY <2>1, <2>2, <2>4 DEF LedgerTypeOK
    <2>7. RecordedOnce'
        BY <2>1, <2>2, <2>3 DEF RecordedOnce, LedgerTypeOK
    <2>8. Conservation'
        BY <2>4, <2>5, PendingFinite DEF Conservation, LedgerTypeOK, CounterNames
    <2> QED
        BY <2>6, <2>7, <2>8
<1> QED
    BY <1>1, <1>2

LEMMA CompletionKeeps ==
    ASSUME LedgerInvariant, NEW p \in Processes, Complete(p)
    PROVE  LedgerInvariant'
<1>1. CASE CompleteLater(p) \/ CompleteUnpadded(p)
    BY <1>1, ElsewhereKeeps
       DEF CompleteLater, CompleteUnpadded, completionFrame, Elsewhere, ledger
<1>2. CASE CompleteNow(p)
    BY <1>2, RecordKeeps DEF CompleteNow, completionFrame
<1> QED
    BY <1>1, <1>2 DEF Complete

LEMMA TimerKeeps ==
    ASSUME LedgerInvariant, TimerStep
    PROVE  LedgerInvariant'
<1>1. CASE TimerCallback
    BY <1>1, RecordKeeps DEF TimerCallback, completionFrame
<1>2. CASE UNCHANGED <<pending, terminals, counters, todo, completionFrame>>
    BY <1>2, ElsewhereKeeps DEF completionFrame, Elsewhere, ledger
<1> QED
    BY <1>1, <1>2 DEF TimerStep

LEMMA SubmitKeeps ==
    ASSUME LedgerInvariant, NEW r \in Requests, Submit(r)
    PROVE  LedgerInvariant'
<1> USE DEF LedgerInvariant
<1>1. pc[r] = "new" /\ r \notin pending /\ terminals[r] = <<>> /\ r \in Processes
    BY RequestIsNoWorker DEF Submit, At, RecordedOnce
<1>2. ASSUME NEW route, Refuse(r, route) PROVE LedgerInvariant'
    <2>0. counters' = [counters EXCEPT !["offered"] = @ + 1, !["immediate"] = @ + 1,
                                       !["terminal"] = @ + 1]
        BY <1>2 DEF Refuse
    <2>1. /\ terminals' = [terminals EXCEPT ![r] = Append(@, route)]
          /\ pc' = [pc EXCEPT ![r] = "done"] /\ pending' = pending
        BY <1>2 DEF Refuse, Goto
    <2>2. counters' \in [CounterNames -> Nat]
          /\ counters'["offered"] = counters["offered"] + 1
          /\ counters'["connections"] = counters["connections"]
          /\ counters'["immediate"] = counters["immediate"] + 1
          /\ counters'["terminal"] = counters["terminal"] + 1
          /\ counters'["accepted_terminal"] = counters["accepted_terminal"]
        BY <2>0 DEF LedgerTypeOK, CounterNames
    <2>3. LedgerTypeOK'
        BY <2>1, <2>2 DEF LedgerTypeOK
    <2>4. terminals'[r] = <<route>> /\ pc'[r] = "done"
        BY <1>1, <2>1 DEF LedgerTypeOK
    <2>5. RecordedOnce'
        BY <1>1, <2>1, <2>4 DEF RecordedOnce, LedgerTypeOK, Processes
    <2>6. Conservation'
        <3>1. Cardinality(pending') = Cardinality(pending)
            BY <2>1
        <3> QED
            BY <2>2, <3>1, PendingFinite DEF Conservation, LedgerTypeOK, CounterNames
    <2> QED
        BY <2>3, <2>5, <2>6
<1>3. CASE Admit(r)
    <2>1. /\ pending' = pending \cup {r} /\ terminals' = terminals
          /\ counters' = [counters EXCEPT !["offered"] = @ + 1, !["connections"] = @ + 1]
          /\ pc' = [pc EXCEPT ![r] = "enqueue"]
        BY <1>3 DEF Admit, Goto
    <2>2. counters' \in [CounterNames -> Nat]
          /\ counters'["offered"] = counters["offered"] + 1
          /\ counters'["connections"] = counters["connections"] + 1
          /\ counters'["immediate"] = counters["immediate"]
          /\ counters'["terminal"] = counters["terminal"]
          /\ counters'["accepted_terminal"] = counters["accepted_terminal"]
        BY <2>1 DEF LedgerTypeOK, CounterNames
    <2>3. Cardinality(pending') = Cardinality(pending) + 1
        BY <1>1, <2>1, PendingFinite, FS_AddElement
    <2>4. LedgerTypeOK'
        BY <2>1, <2>2 DEF LedgerTypeOK
    <2>5. RecordedOnce'
        BY <1>1, <2>1 DEF RecordedOnce, LedgerTypeOK, Processes
    <2>6. Conservation'
        BY <2>2, <2>3, PendingFinite DEF Conservation, LedgerTypeOK, CounterNames
    <2> QED
        BY <2>4, <2>5, <2>6
<1> QED
    BY <1>2, <1>3 DEF Submit

LEMMA EnqueueKeeps ==
    ASSUME LedgerInvariant, NEW r \in Requests, Enqueue(r)
    PROVE  LedgerInvariant'
<1> USE DEF LedgerInvariant
<1>1. pc[r] = "enqueue" /\ pc' = [pc EXCEPT ![r] = "done"] /\ r \in Processes
    BY RequestIsNoWorker DEF Enqueue, At, Goto
<1>2. UNCHANGED <<pending, counters, terminals>>
    BY DEF Enqueue, admissionVars
<1>3. LedgerTypeOK'
    BY <1>1, <1>2 DEF LedgerTypeOK
<1>4. RecordedOnce'
    BY <1>1, <1>2 DEF RecordedOnce, LedgerTypeOK, Processes
<1>5. Conservation'
    BY <1>2 DEF Conservation
<1> QED
    BY <1>3, <1>4, <1>5

LEMMA LedgerStep == LedgerInvariant /\ [ServiceNext]_serviceVars => LedgerInvariant'
<1> SUFFICES ASSUME LedgerInvariant, [ServiceNext]_serviceVars PROVE LedgerInvariant'
    OBVIOUS
<1>1. CASE UNCHANGED serviceVars
    BY <1>1, ElsewhereKeeps DEF serviceVars, Elsewhere, ledger
<1>2. CASE \E r \in Requests : Submit(r) \/ Enqueue(r)
    BY <1>2, SubmitKeeps, EnqueueKeeps
<1>3. CASE \E w \in Frontends : FrontStep(w)
    BY <1>3, FrontLeavesLedger, ElsewhereKeeps DEF LedgerInvariant
<1>4. CASE \E w \in Backends : BackStep(w) \/ BackHangs(w)
    BY <1>4, BackLeavesLedger, ElsewhereKeeps DEF LedgerInvariant
<1>5. CASE \E p \in Processes : Complete(p)
    BY <1>5, CompletionKeeps
<1>6. CASE TimerStep
    BY <1>6, TimerKeeps
<1>7. CASE BeginShutdown \/ ShutdownStep \/ TimePasses
    BY <1>7, ShutdownLeavesLedger, ElsewhereKeeps DEF LedgerInvariant
<1> QED
    BY <1>1, <1>2, <1>3, <1>4, <1>5, <1>6, <1>7 DEF ServiceNext

\* No submission is ever recorded twice, however its completion was deferred,
\* coalesced, cancelled or raced, and none but a pending one is unrecorded.
THEOREM OneTerminal == ServiceSpec => []OneTerminalEach
<1>1. LedgerInvariant => OneTerminalEach
    <2>1. Len(<<>>) = 0 /\ \A route : Len(<<route>>) = 1
        OBVIOUS
    <2>2. ASSUME LedgerInvariant, NEW r \in Requests
          PROVE  Len(terminals[r]) = IF pc[r] \in {"new", "absent"} \/ r \in pending
                                     THEN 0 ELSE 1
        <3>1. CASE pc[r] \in {"new", "absent"} \/ r \in pending
            BY <2>1, <2>2, <3>1 DEF LedgerInvariant, RecordedOnce
        <3>2. CASE ~(pc[r] \in {"new", "absent"} \/ r \in pending)
            BY <2>1, <2>2, <3>2 DEF LedgerInvariant, RecordedOnce
        <3> QED
            BY <3>1, <3>2
    <2> QED
        BY <2>2 DEF OneTerminalEach
<1> QED
    BY <1>1, LedgerInit, LedgerStep, PTL DEF ServiceSpec

\* The counters phase_snapshot compares agree after every step of every thread.
THEOREM CountersConserved == ServiceSpec => []Conservation
<1>1. LedgerInvariant => Conservation
    BY DEF LedgerInvariant
<1> QED
    BY <1>1, LedgerInit, LedgerStep, PTL DEF ServiceSpec

-----------------------------------------------------------------------------
(* What shutdown concludes.                                                *)

\* Nobody is admitted from the start of a shutdown on, and only a shutdown draws
\* the conclusion that the service is drained.
ShutdownInvariant ==
    /\ "drained" \in DOMAIN closing
    /\ accepting => pc["shutdown"] \in {"off", "never"}
    /\ closing.drained => ~accepting /\ pending = {}

\* No request is admitted, and neither admission nor shutdown moves.
Quiet == /\ UNCHANGED <<accepting, closing>>
         /\ pc'["shutdown"] = pc["shutdown"]
         /\ pending' \subseteq pending

LEMMA QuietKeeps ==
    ASSUME ShutdownInvariant, Quiet
    PROVE  ShutdownInvariant'
BY DEF ShutdownInvariant, Quiet

LEMMA GotoLeavesShutdown ==
    ASSUME LedgerTypeOK, NEW p \in Requests \cup Workers, NEW place, Goto(p, place)
    PROVE  pc'["shutdown"] = pc["shutdown"]
BY ServiceConstants DEF Goto, LedgerTypeOK, Processes

LEMMA WorkersQuiet ==
    ASSUME LedgerTypeOK,
           \/ \E w \in Frontends : FrontStep(w)
           \/ \E w \in Backends : BackStep(w) \/ BackHangs(w)
    PROVE  Quiet
<1>1. UNCHANGED <<accepting, closing, pending>>
    BY DEF FrontStep, FrontGet, FrontBegin, FrontScreen, FrontRaises, FrontJoin, FrontPut,
           FrontDrop, FrontEnd, BackStep, BackHangs, BackGet, BackBegin, BackVerify,
           BackInsert, BackFinish, BackEnd, frontendFrame, admissionVars
<1>2. \E w \in Requests \cup Workers : \E place : Goto(w, place)
    BY DEF FrontStep, FrontGet, FrontBegin, FrontScreen, FrontRaises, FrontJoin, FrontPut,
           FrontDrop, FrontEnd, BackStep, BackHangs, BackGet, BackBegin, BackVerify,
           BackInsert, BackFinish, BackEnd, Workers
<1> QED
    BY <1>1, <1>2, GotoLeavesShutdown DEF Quiet

LEMMA CompletionsQuiet ==
    ASSUME (\E p \in Processes : Complete(p)) \/ TimerStep
    PROVE  Quiet
<1>1. UNCHANGED <<accepting, closing, pc>>
    BY DEF Complete, CompleteLater, CompleteUnpadded, CompleteNow, TimerStep, TimerCallback,
           completionFrame
<1>2. pending' \subseteq pending
    BY DEF Complete, CompleteLater, CompleteUnpadded, CompleteNow, TimerStep, TimerCallback,
           Record
<1> QED
    BY <1>1, <1>2 DEF Quiet

LEMMA SubmitKeepsShutdown ==
    ASSUME LedgerTypeOK, ShutdownInvariant, NEW r \in Requests, Submit(r) \/ Enqueue(r)
    PROVE  ShutdownInvariant'
<1>1. UNCHANGED <<accepting, closing>>
    BY DEF Submit, Enqueue, admissionVars
<1>2. \E place : Goto(r, place)
    BY DEF Submit, Enqueue, Refuse, Admit
<1>3. pc'["shutdown"] = pc["shutdown"]
    BY <1>2, GotoLeavesShutdown
<1>4. pending' = pending \/ accepting
    BY DEF Submit, Enqueue, Refuse, Admit, admissionVars
<1> QED
    BY <1>1, <1>3, <1>4 DEF ShutdownInvariant

\* A shutdown's step leaves the pending requests alone, and concludes that the
\* service is drained only when there are none.
LEMMA ShutdownKeepsShutdown ==
    ASSUME ShutdownInvariant, ShutdownStep
    PROVE  ShutdownInvariant'
<1>1. ~accepting
    BY DEF ShutdownInvariant, ShutdownStep, ReadPadding, ReadRest, DropPadding,
           CancelFrontendQueue, StopFrontends, JoinFrontends, CancelBackendQueue,
           StopBackends, JoinBackends, DropPaddingAgain, StopTimer, JoinTimer,
           CancelFlights, CancelPendingRequests, Report, At
<1>2. UNCHANGED <<accepting, pending>>
    BY DEF ShutdownStep, ReadPadding, ReadRest, DropPadding,
           CancelFrontendQueue, StopFrontends, JoinFrontends, CancelBackendQueue,
           StopBackends, JoinBackends, DropPaddingAgain, StopTimer, JoinTimer,
           CancelFlights, CancelPendingRequests, Report, closingFrame, admissionVars
<1>3. CASE ReadRest
    BY <1>1, <1>2, <1>3 DEF ReadRest, Idle, Closing, ShutdownInvariant
<1>4. CASE ~ReadRest
    <2>1. "drained" \in DOMAIN closing' /\ closing'.drained = closing.drained
        BY <1>4 DEF ShutdownInvariant, ShutdownStep, ReadPadding, DropPadding,
               CancelFrontendQueue, StopFrontends, JoinFrontends, CancelBackendQueue,
               StopBackends, JoinBackends, DropPaddingAgain, StopTimer, JoinTimer,
               CancelFlights, CancelPendingRequests, Report, AfterFrontends, AfterBackends,
               Closing
    <2> QED
        BY <1>1, <1>2, <2>1 DEF ShutdownInvariant
<1> QED
    BY <1>3, <1>4

LEMMA ShutdownInvariantStep ==
    LedgerInvariant /\ ShutdownInvariant /\ [ServiceNext]_serviceVars => ShutdownInvariant'
<1> SUFFICES ASSUME LedgerTypeOK, ShutdownInvariant, [ServiceNext]_serviceVars
             PROVE  ShutdownInvariant'
    BY DEF LedgerInvariant
<1>1. CASE UNCHANGED serviceVars
    BY <1>1 DEF serviceVars, ShutdownInvariant
<1>2. CASE \E r \in Requests : Submit(r) \/ Enqueue(r)
    BY <1>2, SubmitKeepsShutdown
<1>3. CASE \/ \E w \in Frontends : FrontStep(w)
           \/ \E w \in Backends : BackStep(w) \/ BackHangs(w)
    BY <1>3, WorkersQuiet, QuietKeeps
<1>4. CASE (\E p \in Processes : Complete(p)) \/ TimerStep
    BY <1>4, CompletionsQuiet, QuietKeeps
<1>5. CASE BeginShutdown
    BY <1>5 DEF BeginShutdown, ShutdownInvariant
<1>6. CASE ShutdownStep
    BY <1>6, ShutdownKeepsShutdown
<1>7. CASE TimePasses
    BY <1>7 DEF TimePasses, Closing, admissionVars, ShutdownInvariant
<1> QED
    BY <1>1, <1>2, <1>3, <1>4, <1>5, <1>6, <1>7 DEF ServiceNext

LEMMA ShutdownInvariantInit == ServiceInit => ShutdownInvariant
<1> SUFFICES ASSUME ServiceInit PROVE ShutdownInvariant
    OBVIOUS
<1>1. PICK load \in Workloads :
          pc = [p \in Processes |->
                  IF p \in Workers
                  THEN IF p \in load.frontends \cup Backends THEN "idle" ELSE "absent"
                  ELSE IF p \in Requests THEN IF p \in load.requests THEN "new" ELSE "absent"
                  ELSE IF load.shutdown THEN "off" ELSE "never"]
    BY DEF ServiceInit
<1>2. pc["shutdown"] \in {"off", "never"}
    BY <1>1, ServiceConstants DEF Processes
<1>3. "drained" \in DOMAIN closing /\ ~closing.drained
    BY DEF ServiceInit
<1> QED
    BY <1>2, <1>3 DEF ShutdownInvariant

\* Once shutdown found the service idle it stays idle, although it reads the
\* padding heap, the queues and the pending requests at two instants.
THEOREM DrainedIsIdle == ServiceSpec => []DrainedStaysIdle
<1>1. ShutdownInvariant => DrainedStaysIdle
    BY DEF ShutdownInvariant, DrainedStaysIdle
<1> QED
    BY <1>1, LedgerInit, LedgerStep, ShutdownInvariantInit, ShutdownInvariantStep, PTL
       DEF ServiceSpec

-----------------------------------------------------------------------------
(* What the service answers.                                               *)

\* The routes that are right for a request, and the completions that are.
RightRoutes(r) ==
    {route \in Routes :
        /\ route \in {"NEGATIVE_CACHE_REJECT", "POSITIVE_SCREEN_REJECT"} =>
             KeyOf[r] \in NegativeKeys \ RightKeys
        /\ route \in {"BACKEND_MATCH", "BACKEND_MISMATCH", "UNKNOWN_BACKEND_REJECT"} =>
             route = Truth(r)}
RightCompletions == {x \in Completions : x.route \in RightRoutes(x.request)}
SameKey(k) == {q \in Requests : KeyOf[q] = k}

QueuesOK ==
    /\ frontQ \in Seq(Requests \cup {Stop})
    /\ backQ \in Seq(Requests \cup {Stop})

\* A flight holds requests of its own key, and the cache no right credential.
SharedOK ==
    /\ \A k \in DOMAIN flights : flights[k] \in Seq(SameKey(k))
    /\ cached \subseteq NegativeKeys \ RightKeys

\* A worker that works holds a request, and a verdict right for it.
WorkersOK ==
    /\ DOMAIN pc = Processes
    /\ holds \in [Workers -> Requests \cup {Stop}]
    /\ verdict \in [Backends -> Routes]
    /\ \A w \in Workers : pc[w] \notin {"idle", "stopped", "absent"} => holds[w] \in Requests
    /\ \A w \in Backends :
          /\ pc[w] \in {"insert", "finish"} => verdict[w] \in RightRoutes(holds[w])
          /\ pc[w] = "insert" => verdict[w] = "BACKEND_MISMATCH"

\* Every completion that is owed, delayed or recorded is right.
CompletionsOK ==
    /\ padded \in BOOLEAN
    /\ todo \in [Processes -> Seq(RightCompletions)]
    /\ due \subseteq RightCompletions
    /\ released \in RightCompletions \cup {NoRelease}
    /\ DOMAIN terminals = Requests /\ terminals = [r \in Requests |-> terminals[r]]
    /\ \A r \in Requests : terminals[r] \in Seq(RightRoutes(r))

AnswersInvariant == QueuesOK /\ SharedOK /\ WorkersOK /\ CompletionsOK

LEMMA AnswersInit == ServiceInit => AnswersInvariant
<1> SUFFICES ASSUME ServiceInit PROVE AnswersInvariant
    OBVIOUS
<1>1. QueuesOK
    BY EmptySeq DEF ServiceInit, QueuesOK
<1>2. SharedOK
    BY DEF ServiceInit, FlightsInit, SharedOK
<1>3. WorkersOK
    <2>1. PICK load \in Workloads :
              pc = [p \in Processes |->
                      IF p \in Workers
                      THEN IF p \in load.frontends \cup Backends THEN "idle" ELSE "absent"
                      ELSE IF p \in Requests
                           THEN IF p \in load.requests THEN "new" ELSE "absent"
                           ELSE IF load.shutdown THEN "off" ELSE "never"]
        BY DEF ServiceInit
    <2>2. \A w \in Workers : pc[w] \in {"idle", "absent"}
        BY <2>1 DEF Processes
    <2>3. holds = [w \in Workers |-> Stop] /\ verdict = [w \in Backends |-> "BACKEND_FAILURE"]
        BY DEF ServiceInit
    <2>4. holds \in [Workers -> Requests \cup {Stop}] /\ verdict \in [Backends -> Routes]
        BY <2>3 DEF Routes
    <2>5. DOMAIN pc = Processes
        BY <2>1
    <2> QED
        BY <2>2, <2>4, <2>5 DEF WorkersOK, Workers
<1>4. CompletionsOK
    <2>1. todo = [p \in Processes |-> <<>>] /\ terminals = [r \in Requests |-> <<>>]
          /\ due = {} /\ released = NoRelease
        BY DEF ServiceInit, PaddingInit
    <2>2. padded \in BOOLEAN
        BY ServiceConstants DEF ServiceInit
    <2> QED
        BY <2>1, <2>2, EmptySeq DEF CompletionsOK
<1> QED
    BY <1>1, <1>2, <1>3, <1>4 DEF AnswersInvariant

-----------------------------------------------------------------------------
(* Completions that are right.                                             *)

LEMMA SameTruth ==
    ASSUME NEW r \in Requests, NEW q \in SameKey(KeyOf[r])
    PROVE  q \in Requests /\ RightRoutes(q) = RightRoutes(r)
BY DEF SameKey, RightRoutes, Truth

LEMMA UncertainIsRight ==
    ASSUME NEW r \in Requests,
           NEW route \in {"BACKEND_FAILURE", "FRONTEND_QUEUE_DROP", "BACKEND_QUEUE_DROP",
                          "SINGLEFLIGHT_OVERFLOW", "CONNECTION_DROP", "SHUTDOWN_CANCELLED"}
    PROVE  route \in RightRoutes(r)
BY DEF RightRoutes, Routes

LEMMA ReplyIsRight ==
    ASSUME padded \in BOOLEAN, NEW r \in Requests, NEW route \in RightRoutes(r)
    PROVE  Reply(r, route) \in RightCompletions
BY DEF Reply, RightCompletions, Completions, RightRoutes

LEMMA CancelledIsRight ==
    ASSUME NEW r \in Requests
    PROVE  Cancelled(r) \in RightCompletions
BY UncertainIsRight DEF Cancelled, RightCompletions, Completions, Routes

LEMMA RepliesAreRight ==
    ASSUME padded \in BOOLEAN, NEW r \in Requests, NEW route \in RightRoutes(r),
           NEW rs \in Seq(SameKey(KeyOf[r]))
    PROVE  Replies(rs, route) \in Seq(RightCompletions)
<1>1. DOMAIN rs = 1 .. Len(rs) /\ Len(rs) \in Nat
    BY LenProperties
<1>2. \A i \in 1 .. Len(rs) : rs[i] \in SameKey(KeyOf[r])
    BY ElementOfSeq
<1>3. \A i \in 1 .. Len(rs) : Reply(rs[i], route) \in RightCompletions
    BY <1>2, SameTruth, ReplyIsRight
<1>4. Replies(rs, route) = [i \in 1 .. Len(rs) |-> Reply(rs[i], route)]
    BY <1>1 DEF Replies
<1> QED
    BY <1>1, <1>3, <1>4

LEMMA CancellationsAreRight ==
    ASSUME NEW rs \in Seq(Requests)
    PROVE  Cancellations(rs) \in Seq(RightCompletions)
<1>1. DOMAIN rs = 1 .. Len(rs) /\ Len(rs) \in Nat
    BY LenProperties
<1>2. \A i \in 1 .. Len(rs) : Cancelled(rs[i]) \in RightCompletions
    BY ElementOfSeq, CancelledIsRight
<1>3. Cancellations(rs) = [i \in 1 .. Len(rs) |-> Cancelled(rs[i])]
    BY <1>1 DEF Cancellations
<1> QED
    BY <1>1, <1>2, <1>3

\* The requests a process answers when it ends the flight of r.
LEMMA FlightAnswers ==
    ASSUME SharedOK, NEW r \in Requests
    PROVE  <<r>> \o FlightOf(r) \in Seq(SameKey(KeyOf[r]))
<1>1. <<r>> \in Seq(SameKey(KeyOf[r]))
    BY DEF SameKey
<1>2. FlightOf(r) \in Seq(SameKey(KeyOf[r]))
    BY EmptySeq DEF FlightOf, WaitersOf, SharedOK
<1> QED
    BY <1>1, <1>2, ConcatProperties

LEMMA FinishKeepsShared ==
    ASSUME SharedOK, NEW r, FinishFlight(r), cached' = cached
    PROVE  SharedOK'
BY DEF SharedOK, FinishFlight, Finish, flightVars

LEMMA SetToSeqOfRequests ==
    ASSUME NEW S \in SUBSET Requests
    PROVE  SetToSeq(S) \in Seq(Requests)
<1>1. IsFiniteSet(S)
    BY ServiceConstants, FS_Subset
<1>2. Cardinality(S) \in Nat /\ ExistsBijection(1 .. Cardinality(S), S)
    BY <1>1, FS_CardinalityType
<1>3. \E f \in [1 .. Cardinality(S) -> S] : IsInjective(f)
    BY <1>2 DEF ExistsBijection, Bijection, Injection, IsInjective
<1>4. SetToSeq(S) \in [1 .. Cardinality(S) -> S]
    BY <1>3 DEF SetToSeq
<1> QED
    BY <1>2, <1>4

-----------------------------------------------------------------------------
(* What a step may do to each part.                                        *)

LEMMA OwesRight ==
    ASSUME CompletionsOK, NEW p \in Processes, NEW cs \in Seq(RightCompletions), Owes(p, cs),
           UNCHANGED <<padded, due, released, terminals>>
    PROVE  CompletionsOK'
BY DEF CompletionsOK, Owes

LEMMA OwesNothingNew ==
    ASSUME CompletionsOK, UNCHANGED <<padded, todo, due, released, terminals>>
    PROVE  CompletionsOK'
BY DEF CompletionsOK

LEMMA WorkerGoes ==
    ASSUME WorkersOK, NEW w \in Workers, NEW place, Goto(w, place), UNCHANGED <<holds, verdict>>,
           place \notin {"insert", "finish"},
           place \notin {"idle", "stopped", "absent"} => holds[w] \in Requests
    PROVE  WorkersOK'
BY DEF WorkersOK, Goto, Processes, Workers

LEMMA OtherGoes ==
    ASSUME WorkersOK, UNCHANGED <<holds, verdict>>,
           pc' = pc \/ \E p \in Requests \cup {"shutdown"} : \E place : Goto(p, place)
    PROVE  WorkersOK'
<1>1. DOMAIN pc' = Processes /\ \A w \in Workers : pc'[w] = pc[w]
    <2>1. ASSUME NEW p \in Requests \cup {"shutdown"}, NEW place, Goto(p, place)
          PROVE  DOMAIN pc' = Processes /\ \A w \in Workers : pc'[w] = pc[w]
        <3>1. p \notin Workers
            BY ServiceConstants
        <3>2. DOMAIN pc = Processes /\ pc' = [pc EXCEPT ![p] = place]
            BY <2>1 DEF WorkersOK, Goto
        <3> QED
            BY <3>1, <3>2 DEF Processes
    <2> QED
        BY <2>1 DEF WorkersOK
<1> QED
    BY <1>1 DEF WorkersOK, Workers

LEMMA FrontAnswers ==
    ASSUME AnswersInvariant, NEW w \in Frontends, FrontStep(w)
    PROVE  AnswersInvariant'
<1> USE DEF AnswersInvariant
<1> w \in Workers /\ w \in Processes
    BY DEF Workers, Processes
<1>1. padded \in BOOLEAN
    BY DEF CompletionsOK
<1>2. pc[w] \notin {"idle", "stopped", "absent"} => holds[w] \in Requests
    BY DEF WorkersOK
<1>3. CASE FrontGet(w)
    <2>1. Head(frontQ) \in Requests \cup {Stop} /\ Tail(frontQ) \in Seq(Requests \cup {Stop})
        BY <1>3, HeadTailProperties DEF FrontGet, QueuesOK
    <2>2. QueuesOK'
        BY <1>3, <2>1 DEF FrontGet, QueuesOK
    <2>3. WorkersOK'
        <3>1. /\ holds' = [holds EXCEPT ![w] = Head(frontQ)] /\ verdict' = verdict
              /\ pc' = [pc EXCEPT ![w] = IF Head(frontQ) = Stop THEN "stopped" ELSE "got"]
            BY <1>3 DEF FrontGet, Goto
        <3>2. w \notin Backends
            BY ServiceConstants
        <3> DEFINE h == Head(frontQ)
        <3> HIDE DEF h
        <3> QED
            BY <3>1, <3>2, <2>1 DEF WorkersOK, Workers, h
    <2>4. SharedOK' /\ CompletionsOK'
        BY <1>3, OwesNothingNew
           DEF FrontGet, SharedOK, frontendFrame, admissionVars, paddingVars, flightVars
    <2> QED
        BY <2>2, <2>3, <2>4
<1>4. CASE FrontBegin(w)
    <2>1. WorkersOK'
        BY <1>2, <1>4, WorkerGoes DEF FrontBegin, At, workVars
    <2>2. QueuesOK' /\ SharedOK' /\ CompletionsOK'
        BY <1>4, OwesNothingNew
           DEF FrontBegin, QueuesOK, SharedOK, frontendFrame, admissionVars, paddingVars,
               workVars, flightVars
    <2> QED
        BY <2>1, <2>2
<1>5. CASE FrontScreen(w)
    <2>1. holds[w] \in Requests
        BY <1>2, <1>5 DEF FrontScreen, At
    <2>2. QueuesOK' /\ SharedOK'
        BY <1>5 DEF FrontScreen, QueuesOK, SharedOK, queueVars, workVars, flightVars
    <2>3. WorkersOK'
        BY <1>5, <2>1, WorkerGoes DEF FrontScreen, workVars
    <2>4. UNCHANGED <<padded, due, released, terminals>>
        BY <1>5 DEF FrontScreen, frontendFrame, admissionVars, paddingVars
    <2>5. CASE UNCHANGED todo
        BY <2>2, <2>3, <2>4, <2>5, OwesNothingNew
    <2>6. ASSUME NEW route \in {"NEGATIVE_CACHE_REJECT", "POSITIVE_SCREEN_REJECT"},
                 KeyOf[holds[w]] \in NegativeKeys \ RightKeys,
                 Owes(w, <<Reply(holds[w], route)>>)
          PROVE  CompletionsOK'
        <3>1. route \in RightRoutes(holds[w])
            BY <2>6 DEF RightRoutes, Routes
        <3>2. <<Reply(holds[w], route)>> \in Seq(RightCompletions)
            BY <1>1, <2>1, <3>1, ReplyIsRight
        <3> QED
            BY <2>4, <2>6, <3>2, OwesRight
    <2>7. \/ UNCHANGED todo
          \/ \E route \in {"NEGATIVE_CACHE_REJECT", "POSITIVE_SCREEN_REJECT"} :
                /\ KeyOf[holds[w]] \in NegativeKeys \ RightKeys
                /\ Owes(w, <<Reply(holds[w], route)>>)
        BY <1>5, ServiceConstants DEF FrontScreen, SharedOK
    <2> QED
        BY <2>2, <2>3, <2>5, <2>6, <2>7
<1>6. CASE FrontRaises(w)
    <2>1. holds[w] \in Requests
        BY <1>2, <1>6 DEF FrontRaises, At
    <2>2. QueuesOK' /\ SharedOK'
        BY <1>6 DEF FrontRaises, QueuesOK, SharedOK, queueVars, workVars, flightVars
    <2>3. WorkersOK'
        BY <1>6, <2>1, WorkerGoes DEF FrontRaises, workVars
    <2>4. <<Reply(holds[w], "BACKEND_FAILURE")>> \in Seq(RightCompletions)
        BY <1>1, <2>1, UncertainIsRight, ReplyIsRight
    <2>5. CompletionsOK'
        BY <1>6, <2>4, OwesRight DEF FrontRaises, frontendFrame, admissionVars, paddingVars
    <2> QED
        BY <2>2, <2>3, <2>5
<1>7. CASE FrontJoin(w)
    <2>1. holds[w] \in Requests
        BY <1>2, <1>7 DEF FrontJoin, At
    <2>2. QueuesOK'
        BY <1>7 DEF FrontJoin, QueuesOK, queueVars
    <2>3. WorkersOK'
        BY <1>7, <2>1, WorkerGoes DEF FrontJoin
    <2>4. SharedOK'
        <3> DEFINE k == KeyOf[holds[w]]
        <3>1. cached' = cached
            BY <1>7 DEF FrontJoin
        <3>2. CASE Lead(k)
            BY <3>1, <3>2, EmptySeq DEF Lead, SharedOK
        <3>3. CASE Join(k, holds[w])
            <4>1. holds[w] \in SameKey(k)
                BY <2>1 DEF SameKey
            <4>2. k \in DOMAIN flights /\ flights' = [flights EXCEPT ![k] = Append(@, holds[w])]
                BY <3>3 DEF Join
            <4>3. Append(flights[k], holds[w]) \in Seq(SameKey(k))
                BY <4>1, <4>2, AppendProperties DEF SharedOK
            <4> QED
                BY <3>1, <4>2, <4>3 DEF SharedOK
        <3>4. CASE Reject(k)
            BY <3>1, <3>4 DEF Reject, SharedOK, flightVars
        <3> QED
            BY <1>7, <3>2, <3>3, <3>4 DEF FrontJoin
    <2>5. CompletionsOK'
        <3>1. <<Reply(holds[w], "SINGLEFLIGHT_OVERFLOW")>> \in Seq(RightCompletions)
            BY <1>1, <2>1, UncertainIsRight, ReplyIsRight
        <3>2. UNCHANGED <<padded, due, released, terminals>>
            BY <1>7 DEF FrontJoin, frontendFrame, admissionVars, paddingVars
        <3>3. UNCHANGED todo \/ Owes(w, <<Reply(holds[w], "SINGLEFLIGHT_OVERFLOW")>>)
            BY <1>7 DEF FrontJoin
        <3> QED
            BY <3>1, <3>2, <3>3, OwesRight, OwesNothingNew
    <2> QED
        BY <2>2, <2>3, <2>4, <2>5
<1>8. CASE FrontPut(w)
    <2>1. holds[w] \in Requests
        BY <1>2, <1>8 DEF FrontPut, At
    <2>2. QueuesOK'
        <3>1. Append(backQ, holds[w]) \in Seq(Requests \cup {Stop})
            BY <2>1, AppendProperties DEF QueuesOK
        <3> QED
            BY <1>8, <3>1 DEF FrontPut, QueuesOK
    <2>3. WorkersOK'
        BY <1>8, <2>1, WorkerGoes DEF FrontPut, workVars
    <2>4. SharedOK' /\ CompletionsOK'
        BY <1>8, OwesNothingNew
           DEF FrontPut, SharedOK, frontendFrame, admissionVars, paddingVars, workVars,
               flightVars
    <2> QED
        BY <2>2, <2>3, <2>4
<1>9. CASE FrontDrop(w)
    <2>1. holds[w] \in Requests
        BY <1>2, <1>9 DEF FrontDrop, At
    <2>2. QueuesOK'
        BY <1>9 DEF FrontDrop, QueuesOK, queueVars
    <2>3. WorkersOK'
        BY <1>9, <2>1, WorkerGoes DEF FrontDrop
    <2>4. SharedOK'
        BY <1>9, FinishKeepsShared DEF FrontDrop
    <2>5. Replies(<<holds[w]>> \o FlightOf(holds[w]), "BACKEND_QUEUE_DROP")
              \in Seq(RightCompletions)
        BY <1>1, <2>1, FlightAnswers, UncertainIsRight, RepliesAreRight
    <2>6. CompletionsOK'
        BY <1>9, <2>5, OwesRight DEF FrontDrop, frontendFrame, admissionVars, paddingVars
    <2> QED
        BY <2>2, <2>3, <2>4, <2>6
<1>10. CASE FrontEnd(w)
    <2>1. QueuesOK' /\ SharedOK' /\ CompletionsOK'
        BY <1>10, OwesNothingNew
           DEF FrontEnd, QueuesOK, SharedOK, frontendFrame, admissionVars, paddingVars, flightVars
    <2>2. WorkersOK'
        <3>1. w \notin Backends
            BY ServiceConstants
        <3> QED
            BY <1>10, <3>1 DEF FrontEnd, Goto, WorkersOK, Workers
    <2> QED
        BY <2>1, <2>2
<1> QED
    BY <1>3, <1>4, <1>5, <1>6, <1>7, <1>8, <1>9, <1>10 DEF FrontStep

LEMMA BackAnswers ==
    ASSUME AnswersInvariant, NEW w \in Backends, BackStep(w) \/ BackHangs(w)
    PROVE  AnswersInvariant'
<1> USE DEF AnswersInvariant
<1> w \in Workers /\ w \in Processes
    BY DEF Workers, Processes
<1>1. padded \in BOOLEAN
    BY DEF CompletionsOK
<1>2. pc[w] \notin {"idle", "stopped", "absent"} => holds[w] \in Requests
    BY DEF WorkersOK
<1>3. CASE BackGet(w)
    <2>1. Head(backQ) \in Requests \cup {Stop} /\ Tail(backQ) \in Seq(Requests \cup {Stop})
        BY <1>3, HeadTailProperties DEF BackGet, QueuesOK
    <2>2. QueuesOK'
        BY <1>3, <2>1 DEF BackGet, QueuesOK
    <2>3. WorkersOK'
        <3>1. /\ holds' = [holds EXCEPT ![w] = Head(backQ)] /\ verdict' = verdict
              /\ pc' = [pc EXCEPT ![w] = IF Head(backQ) = Stop THEN "stopped" ELSE "got"]
            BY <1>3 DEF BackGet, Goto
        <3> DEFINE h == Head(backQ)
        <3> HIDE DEF h
        <3> QED
            BY <3>1, <2>1 DEF WorkersOK, Workers, h
    <2>4. SharedOK' /\ CompletionsOK'
        BY <1>3, OwesNothingNew
           DEF BackGet, SharedOK, frontendFrame, admissionVars, paddingVars, flightVars
    <2> QED
        BY <2>2, <2>3, <2>4
<1>4. CASE BackBegin(w) \/ BackHangs(w)
    <2>1. WorkersOK'
        BY <1>2, <1>4, WorkerGoes DEF BackBegin, BackHangs, At, workVars
    <2>2. QueuesOK' /\ SharedOK' /\ CompletionsOK'
        BY <1>4, OwesNothingNew
           DEF BackBegin, BackHangs, QueuesOK, SharedOK, frontendFrame, admissionVars,
               paddingVars, queueVars, workVars, flightVars
    <2> QED
        BY <2>1, <2>2
<1>5. CASE BackVerify(w)
    <2>1. holds[w] \in Requests
        BY <1>2, <1>5 DEF BackVerify, At
    <2>2. PICK result \in {Truth(holds[w]), "BACKEND_FAILURE"} :
              /\ verdict' = [verdict EXCEPT ![w] = result]
              /\ pc' = [pc EXCEPT ![w] = IF result = "BACKEND_MISMATCH" THEN "insert" ELSE "finish"]
        BY <1>5 DEF BackVerify, Goto
    <2>3. result \in RightRoutes(holds[w])
        BY <2>1, <2>2 DEF RightRoutes, Routes, Truth
    <2>4. holds' = holds
        BY <1>5 DEF BackVerify
    <2>5. WorkersOK'
        BY <2>1, <2>2, <2>3, <2>4 DEF WorkersOK, RightRoutes, Truth
    <2>6. QueuesOK' /\ SharedOK' /\ CompletionsOK'
        BY <1>5, OwesNothingNew
           DEF BackVerify, QueuesOK, SharedOK, frontendFrame, admissionVars, paddingVars,
               queueVars, flightVars
    <2> QED
        BY <2>5, <2>6
<1>6. CASE BackInsert(w)
    <2>1. holds[w] \in Requests /\ verdict[w] \in RightRoutes(holds[w])
          /\ verdict[w] = "BACKEND_MISMATCH"
        BY <1>2, <1>6 DEF BackInsert, At, WorkersOK
    <2>2. KeyOf[holds[w]] \in NegativeKeys \ RightKeys
        BY <2>1, ServiceConstants DEF RightRoutes, Truth
    <2>3. SharedOK'
        BY <1>6, <2>2 DEF BackInsert, SharedOK, flightVars
    <2>4. WorkersOK'
        BY <1>6, <2>1 DEF BackInsert, Goto, WorkersOK, RightRoutes, Truth
    <2>5. QueuesOK' /\ CompletionsOK'
        BY <1>6, OwesNothingNew
           DEF BackInsert, QueuesOK, frontendFrame, admissionVars, paddingVars, queueVars
    <2> QED
        BY <2>3, <2>4, <2>5
<1>7. CASE BackFinish(w)
    <2>1. holds[w] \in Requests /\ verdict[w] \in RightRoutes(holds[w])
        BY <1>2, <1>7 DEF BackFinish, At, WorkersOK
    <2>2. QueuesOK'
        BY <1>7 DEF BackFinish, QueuesOK, queueVars
    <2>3. WorkersOK'
        BY <1>7, <2>1, WorkerGoes DEF BackFinish
    <2>4. SharedOK'
        BY <1>7, FinishKeepsShared DEF BackFinish
    <2>5. Replies(<<holds[w]>> \o FlightOf(holds[w]), verdict[w]) \in Seq(RightCompletions)
        BY <1>1, <2>1, FlightAnswers, RepliesAreRight
    <2>6. CompletionsOK'
        BY <1>7, <2>5, OwesRight DEF BackFinish, frontendFrame, admissionVars, paddingVars
    <2> QED
        BY <2>2, <2>3, <2>4, <2>6
<1>8. CASE BackEnd(w)
    <2>1. QueuesOK' /\ SharedOK' /\ CompletionsOK'
        BY <1>8, OwesNothingNew
           DEF BackEnd, QueuesOK, SharedOK, frontendFrame, admissionVars, paddingVars, flightVars
    <2>2. WorkersOK'
        <3>1. /\ holds' = [holds EXCEPT ![w] = Stop] /\ pc' = [pc EXCEPT ![w] = "idle"]
              /\ verdict' = [verdict EXCEPT ![w] = "BACKEND_FAILURE"]
            BY <1>8 DEF BackEnd, Goto
        <3> QED
            BY <3>1 DEF WorkersOK, Routes
    <2> QED
        BY <2>1, <2>2
<1> QED
    BY <1>3, <1>4, <1>5, <1>6, <1>7, <1>8 DEF BackStep

\* A record appends a right route to what is recorded of its request.
LEMMA RecordIsRight ==
    ASSUME CompletionsOK, NEW x \in RightCompletions, Record(x),
           todo' \in [Processes -> Seq(RightCompletions)],
           due' \subseteq RightCompletions,
           released' \in RightCompletions \cup {NoRelease},
           padded' = padded
    PROVE  CompletionsOK'
<1>1. x.request \in Requests /\ x.route \in RightRoutes(x.request)
    BY DEF RightCompletions, Completions
<1>2. CASE terminals' = terminals
    BY <1>2 DEF CompletionsOK
<1>3. CASE terminals' = [terminals EXCEPT ![x.request] = Append(@, x.route)]
    <2>1. Append(terminals[x.request], x.route) \in Seq(RightRoutes(x.request))
        BY <1>1, AppendProperties DEF CompletionsOK
    <2> DEFINE q == x.request
               t == Append(terminals[q], x.route)
    <2>2. q \in Requests /\ t \in Seq(RightRoutes(q)) /\ terminals' = [terminals EXCEPT ![q] = t]
        BY <1>1, <1>3, <2>1
    <2> HIDE DEF q, t
    <2>3. DOMAIN terminals' = Requests /\ terminals' = [r \in Requests |-> terminals'[r]]
        BY <2>2 DEF CompletionsOK
    <2>4. \A r \in Requests : terminals'[r] \in Seq(RightRoutes(r))
        BY <2>2 DEF CompletionsOK
    <2> QED
        BY <2>3, <2>4 DEF CompletionsOK
<1> QED
    BY <1>2, <1>3 DEF Record

LEMMA CompletionAnswers ==
    ASSUME AnswersInvariant, NEW p \in Processes, Complete(p)
    PROVE  AnswersInvariant'
<1> USE DEF AnswersInvariant
<1>1. UNCHANGED completionFrame
    BY DEF Complete, CompleteLater, CompleteUnpadded, CompleteNow
<1>2. QueuesOK' /\ SharedOK' /\ WorkersOK'
    BY <1>1 DEF QueuesOK, SharedOK, WorkersOK, completionFrame, queueVars, workVars, flightVars
<1>3. todo[p] \in Seq(RightCompletions) /\ todo[p] # <<>>
    BY DEF CompletionsOK, Complete, CompleteLater, CompleteUnpadded, CompleteNow
<1>4. Head(todo[p]) \in RightCompletions /\ Tail(todo[p]) \in Seq(RightCompletions)
    BY <1>3, HeadTailProperties
<1>5. CASE CompleteLater(p)
    <2>1. /\ due' = due \cup {Head(todo[p])} /\ todo' = [todo EXCEPT ![p] = Tail(todo[p])]
          /\ UNCHANGED <<padded, released, terminals>>
        BY <1>5 DEF CompleteLater, Schedule, Owes, completionFrame
    <2>2. CompletionsOK'
        BY <1>4, <2>1 DEF CompletionsOK
    <2> QED
        BY <1>2, <2>2
<1>6. CASE CompleteUnpadded(p)
    <2>1. [todo[p] EXCEPT ![1].direct = TRUE] \in Seq(RightCompletions)
        <3> DEFINE first == [Head(todo[p]) EXCEPT !.direct = TRUE]
        <3>1. first \in RightCompletions
            BY <1>4 DEF RightCompletions, Completions
        <3>2. Len(todo[p]) \in Nat \ {0} /\ todo[p][1] = Head(todo[p])
            BY <1>3, EmptySeq
        <3>3. [todo[p] EXCEPT ![1].direct = TRUE] = [todo[p] EXCEPT ![1] = first]
            BY <3>2
        <3> HIDE DEF first
        <3>4. 1 \in 1 .. Len(todo[p])
            BY <3>2
        <3> QED
            BY <1>3, <3>1, <3>3, <3>4, ExceptSeq
    <2>2. CompletionsOK'
        BY <1>6, <2>1, OwesRight DEF CompleteUnpadded, completionFrame, paddingVars
    <2> QED
        BY <1>2, <2>2
<1>7. CASE CompleteNow(p)
    <2>1. /\ todo' = [todo EXCEPT ![p] = Tail(todo[p])]
          /\ UNCHANGED <<padded, due, released>> /\ Record(Head(todo[p]))
        BY <1>7 DEF CompleteNow, Owes, completionFrame, paddingVars
    <2>2. todo' \in [Processes -> Seq(RightCompletions)]
        BY <1>4, <2>1 DEF CompletionsOK
    <2>3. CompletionsOK'
        BY <1>4, <2>1, <2>2, RecordIsRight DEF CompletionsOK
    <2> QED
        BY <1>2, <2>3
<1> QED
    BY <1>5, <1>6, <1>7 DEF Complete

LEMMA TimerAnswers ==
    ASSUME AnswersInvariant, TimerStep
    PROVE  AnswersInvariant'
<1> USE DEF AnswersInvariant
<1>1. UNCHANGED <<todo, completionFrame>>
    BY DEF TimerStep, TimerCallback
<1>2. QueuesOK' /\ SharedOK' /\ WorkersOK'
    BY <1>1 DEF QueuesOK, SharedOK, WorkersOK, completionFrame, queueVars, workVars, flightVars
<1>3. CASE TimerCallback
    <2>1. released \in RightCompletions /\ Record(released) /\ released' = NoRelease
          /\ UNCHANGED <<padded, due, todo>>
        BY <1>3 DEF TimerCallback, Called, CompletionsOK, completionFrame
    <2>2. CompletionsOK'
        BY <2>1, RecordIsRight DEF CompletionsOK
    <2> QED
        BY <1>2, <2>2
<1>4. CASE (PopDue \/ TimerStops) /\ UNCHANGED <<pending, terminals, counters, todo, completionFrame>>
    <2>1. CompletionsOK'
        BY <1>4 DEF PopDue, TimerStops, CompletionsOK, completionFrame
    <2> QED
        BY <1>2, <2>1
<1> QED
    BY <1>3, <1>4 DEF TimerStep

LEMMA SubmitAnswers ==
    ASSUME AnswersInvariant, NEW r \in Requests, Submit(r) \/ Enqueue(r)
    PROVE  AnswersInvariant'
<1> USE DEF AnswersInvariant
<1> r \in Processes
    BY DEF Processes
<1>1. UNCHANGED <<holds, verdict>> /\ \E place : Goto(r, place)
    BY DEF Submit, Enqueue, Refuse, Admit, workVars
<1>2. WorkersOK'
    BY <1>1, OtherGoes
<1>3. SharedOK'
    BY DEF Submit, Enqueue, SharedOK, workVars, flightVars
<1>4. CASE Submit(r)
    <2>1. QueuesOK'
        BY <1>4 DEF Submit, QueuesOK, queueVars
    <2>2. UNCHANGED <<padded, todo, due, released>>
        BY <1>4 DEF Submit, paddingVars
    <2>3. CASE UNCHANGED terminals
        BY <1>2, <1>3, <2>1, <2>2, <2>3, OwesNothingNew
    <2>4. ASSUME NEW route \in {"SHUTDOWN_CANCELLED", "BACKEND_FAILURE", "CONNECTION_DROP"},
                 terminals' = [terminals EXCEPT ![r] = Append(@, route)]
          PROVE  CompletionsOK'
        <3>1. route \in RightRoutes(r)
            BY UncertainIsRight
        <3> DEFINE t == Append(terminals[r], route)
        <3>2. t \in Seq(RightRoutes(r)) /\ terminals' = [terminals EXCEPT ![r] = t]
            BY <2>4, <3>1, AppendProperties DEF CompletionsOK
        <3> HIDE DEF t
        <3> QED
            BY <2>2, <3>2 DEF CompletionsOK
    <2>5. \/ UNCHANGED terminals
          \/ \E route \in {"SHUTDOWN_CANCELLED", "BACKEND_FAILURE", "CONNECTION_DROP"} :
                terminals' = [terminals EXCEPT ![r] = Append(@, route)]
        BY <1>4 DEF Submit, Refuse, Admit
    <2> QED
        BY <1>2, <1>3, <2>1, <2>3, <2>4, <2>5
<1>5. CASE Enqueue(r)
    <2>1. QueuesOK'
        <3>1. Append(frontQ, r) \in Seq(Requests \cup {Stop})
            BY AppendProperties DEF QueuesOK
        <3> QED
            BY <1>5, <3>1 DEF Enqueue, QueuesOK
    <2>2. <<Reply(r, "FRONTEND_QUEUE_DROP")>> \in Seq(RightCompletions)
        BY UncertainIsRight, ReplyIsRight DEF CompletionsOK
    <2>3. UNCHANGED <<padded, due, released, terminals>>
        BY <1>5 DEF Enqueue, admissionVars, paddingVars
    <2>4. UNCHANGED todo \/ Owes(r, <<Reply(r, "FRONTEND_QUEUE_DROP")>>)
        BY <1>5 DEF Enqueue
    <2> QED
        BY <1>2, <1>3, <2>1, <2>2, <2>3, <2>4, OwesRight, OwesNothingNew
<1> QED
    BY <1>4, <1>5

-----------------------------------------------------------------------------
(* Shutdown.                                                               *)

LEMMA ContextsOfQueue ==
    ASSUME NEW q \in Seq(Requests \cup {Stop}), q # <<>>
    PROVE  ContextOf(Head(q)) \in Seq(Requests) /\ Tail(q) \in Seq(Requests \cup {Stop})
<1>1. Head(q) \in Requests \cup {Stop} /\ Tail(q) \in Seq(Requests \cup {Stop})
    BY HeadTailProperties
<1>2. CASE Head(q) = Stop
    BY <1>1, <1>2, EmptySeq DEF ContextOf
<1>3. CASE Head(q) # Stop
    BY <1>1, <1>3 DEF ContextOf
<1> QED
    BY <1>1, <1>2, <1>3

LEMMA WaitersAreRequests ==
    ASSUME SharedOK
    PROVE  /\ \A k \in DOMAIN flights : flights[k] \in Seq(Requests)
           /\ \A r : FlightOf(r) \in Seq(Requests)
           /\ AllWaiters \in SUBSET Requests
<1>1. \A k \in DOMAIN flights : flights[k] \in Seq(Requests)
    <2> TAKE k \in DOMAIN flights
    <2>1. flights[k] \in Seq(SameKey(k)) /\ SameKey(k) \subseteq Requests
        BY DEF SharedOK, SameKey
    <2> QED
        BY <2>1
<1>2. \A r : FlightOf(r) \in Seq(Requests)
    BY <1>1, EmptySeq DEF FlightOf, WaitersOf
<1>3. \A k \in DOMAIN flights : ToSet(flights[k]) \subseteq Requests
    <2> TAKE k \in DOMAIN flights
    <2>1. DOMAIN flights[k] = 1 .. Len(flights[k])
          /\ \A i \in 1 .. Len(flights[k]) : flights[k][i] \in Requests
        BY <1>1, LenProperties, ElementOfSeq
    <2> QED
        BY <2>1 DEF ToSet
<1>4. AllWaiters \in SUBSET Requests
    BY <1>3 DEF AllWaiters
<1> QED
    BY <1>1, <1>2, <1>4

\* The steps of a shutdown that cancel requests ...
LEMMA CancellingAnswers ==
    ASSUME AnswersInvariant, LedgerTypeOK,
           CancelFrontendQueue \/ CancelBackendQueue \/ CancelFlights \/ CancelPendingRequests
    PROVE  AnswersInvariant'
<1> USE DEF AnswersInvariant
<1> "shutdown" \in Processes
    BY DEF Processes
<1>1. UNCHANGED <<holds, verdict>>
    BY DEF CancelFrontendQueue, CancelBackendQueue, CancelFlights, CancelPendingRequests,
           workVars, closingFrame
<1>2. pc' = pc \/ \E place : Goto("shutdown", place)
    BY DEF CancelFrontendQueue, CancelBackendQueue, CancelFlights, CancelPendingRequests
<1>3. WorkersOK'
    BY <1>1, <1>2, OtherGoes
<1>4. UNCHANGED <<padded, released, terminals>> /\ due' = due
    BY DEF CancelFrontendQueue, CancelBackendQueue, CancelFlights, CancelPendingRequests,
           admissionVars, closingFrame, paddingVars
<1>5. CASE CancelFrontendQueue
    <2>1. SharedOK'
        BY <1>5 DEF CancelFrontendQueue, SharedOK, workVars, flightVars
    <2>2. CASE frontQ = <<>>
        BY <1>3, <1>4, <1>5, <2>1, <2>2, OwesNothingNew DEF CancelFrontendQueue, QueuesOK
    <2>3. CASE frontQ # <<>>
        <3>1. frontQ' = Tail(frontQ) /\ backQ' = backQ
              /\ Owes("shutdown", Cancellations(ContextOf(Head(frontQ))))
            BY <1>5, <2>3 DEF CancelFrontendQueue
        <3>2. Cancellations(ContextOf(Head(frontQ))) \in Seq(RightCompletions)
              /\ Tail(frontQ) \in Seq(Requests \cup {Stop})
            BY <2>3, ContextsOfQueue, CancellationsAreRight DEF QueuesOK
        <3>3. QueuesOK'
            BY <3>1, <3>2 DEF QueuesOK
        <3>4. CompletionsOK'
            BY <1>4, <3>1, <3>2, OwesRight
        <3> QED
            BY <1>3, <2>1, <3>3, <3>4
    <2> QED
        BY <2>2, <2>3
<1>6. CASE CancelBackendQueue
    <2>1. CASE backQ = <<>>
        BY <1>3, <1>4, <1>6, <2>1, OwesNothingNew
           DEF CancelBackendQueue, QueuesOK, SharedOK, closingFrame, flightVars
    <2>2. CASE backQ # <<>>
        <3> DEFINE item == Head(backQ)
                   answered == ContextOf(item) \o FlightOf(item)
        <3>1. backQ' = Tail(backQ) /\ frontQ' = frontQ /\ cached' = cached
              /\ FinishFlight(item) /\ Owes("shutdown", Cancellations(answered))
            BY <1>6, <2>2 DEF CancelBackendQueue, closingFrame
        <3>2. ContextOf(item) \in Seq(Requests) /\ Tail(backQ) \in Seq(Requests \cup {Stop})
            BY <2>2, ContextsOfQueue DEF QueuesOK
        <3>3. answered \in Seq(Requests)
            BY <3>2, WaitersAreRequests, ConcatProperties
        <3>4. Cancellations(answered) \in Seq(RightCompletions)
            BY <3>3, CancellationsAreRight
        <3> HIDE DEF item, answered
        <3>5. QueuesOK' /\ SharedOK'
            BY <3>1, <3>2, FinishKeepsShared DEF QueuesOK
        <3>6. CompletionsOK'
            BY <1>4, <3>1, <3>4, OwesRight
        <3> QED
            BY <1>3, <3>5, <3>6
    <2> QED
        BY <2>1, <2>2
<1>7. CASE CancelFlights
    <2>1. QueuesOK' /\ SharedOK'
        BY <1>7 DEF CancelFlights, CancelAll, QueuesOK, SharedOK, queueVars
    <2>2. Cancellations(SetToSeq(AllWaiters)) \in Seq(RightCompletions)
        BY WaitersAreRequests, SetToSeqOfRequests, CancellationsAreRight
    <2>3. CompletionsOK'
        BY <1>4, <1>7, <2>2, OwesRight DEF CancelFlights
    <2> QED
        BY <1>3, <2>1, <2>3
<1>8. CASE CancelPendingRequests
    <2>1. QueuesOK' /\ SharedOK'
        BY <1>8 DEF CancelPendingRequests, QueuesOK, SharedOK, queueVars, workVars, flightVars
    <2>2. Cancellations(SetToSeq(pending)) \in Seq(RightCompletions)
        BY SetToSeqOfRequests, CancellationsAreRight DEF LedgerTypeOK
    <2>3. CompletionsOK'
        BY <1>4, <1>8, <2>2, OwesRight DEF CancelPendingRequests
    <2> QED
        BY <1>3, <2>1, <2>3
<1> QED
    BY <1>5, <1>6, <1>7, <1>8

\* ... and those that wait, signal or stop the padding, which forgets delayed
\* completions at most.
LEMMA ClosingAnswers ==
    ASSUME AnswersInvariant,
           \/ BeginShutdown \/ TimePasses \/ ReadPadding \/ ReadRest \/ DropPadding
           \/ StopFrontends \/ JoinFrontends \/ StopBackends \/ JoinBackends
           \/ DropPaddingAgain \/ StopTimer \/ JoinTimer \/ Report
    PROVE  AnswersInvariant'
<1> USE DEF AnswersInvariant
<1>1. UNCHANGED <<holds, verdict, flights, cached, padded, todo, terminals, released>>
    BY DEF BeginShutdown, TimePasses, ReadPadding, ReadRest, DropPadding, StopFrontends,
           JoinFrontends, StopBackends, JoinBackends, DropPaddingAgain, StopTimer, JoinTimer,
           Report, CancelPending, StopPadding, admissionVars, workVars, flightVars,
           closingFrame, paddingVars
<1>2. pc' = pc \/ \E place : Goto("shutdown", place)
    BY DEF BeginShutdown, TimePasses, ReadPadding, ReadRest, DropPadding, StopFrontends,
           JoinFrontends, StopBackends, JoinBackends, DropPaddingAgain, StopTimer, JoinTimer,
           Report, AfterFrontends, AfterBackends
<1>3. WorkersOK' /\ SharedOK'
    BY <1>1, <1>2, OtherGoes DEF SharedOK
<1>4. due' \subseteq due
    BY DEF BeginShutdown, TimePasses, ReadPadding, ReadRest, DropPadding, StopFrontends,
           JoinFrontends, StopBackends, JoinBackends, DropPaddingAgain, StopTimer, JoinTimer,
           Report, CancelPending, StopPadding, paddingVars
<1>5. CompletionsOK'
    BY <1>1, <1>4 DEF CompletionsOK
<1>6. /\ frontQ' = frontQ \/ frontQ' = Append(frontQ, Stop)
      /\ backQ' = backQ \/ backQ' = Append(backQ, Stop)
    BY DEF BeginShutdown, TimePasses, ReadPadding, ReadRest, DropPadding, StopFrontends,
           JoinFrontends, StopBackends, JoinBackends, DropPaddingAgain, StopTimer, JoinTimer,
           Report, queueVars
<1>7. QueuesOK'
    <2>1. /\ frontQ \in Seq(Requests \cup {Stop})
          /\ backQ \in Seq(Requests \cup {Stop})
        BY DEF QueuesOK
    <2>2. Append(frontQ, Stop) \in Seq(Requests \cup {Stop})
        BY <2>1, AppendProperties
    <2>3. Append(backQ, Stop) \in Seq(Requests \cup {Stop})
        BY <2>1, AppendProperties
    <2>4. /\ frontQ' \in Seq(Requests \cup {Stop})
          /\ backQ' \in Seq(Requests \cup {Stop})
        BY <1>6, <2>1, <2>2, <2>3
    <2> QED
        BY <2>4 DEF QueuesOK
<1> QED
    BY <1>3, <1>5, <1>7

LEMMA AnswersStep ==
    LedgerInvariant /\ AnswersInvariant /\ [ServiceNext]_serviceVars => AnswersInvariant'
<1> SUFFICES ASSUME LedgerTypeOK, AnswersInvariant, [ServiceNext]_serviceVars
             PROVE  AnswersInvariant'
    BY DEF LedgerInvariant
<1>1. CASE UNCHANGED serviceVars
    BY <1>1 DEF serviceVars, flightVars, paddingVars, AnswersInvariant, QueuesOK, SharedOK,
                WorkersOK, CompletionsOK
<1>2. CASE \E r \in Requests : Submit(r) \/ Enqueue(r)
    BY <1>2, SubmitAnswers
<1>3. CASE \/ \E w \in Frontends : FrontStep(w)
           \/ \E w \in Backends : BackStep(w) \/ BackHangs(w)
    BY <1>3, FrontAnswers, BackAnswers
<1>4. CASE (\E p \in Processes : Complete(p)) \/ TimerStep
    BY <1>4, CompletionAnswers, TimerAnswers
<1>5. CASE BeginShutdown \/ ShutdownStep \/ TimePasses
    BY <1>5, CancellingAnswers, ClosingAnswers DEF ShutdownStep
<1> QED
    BY <1>1, <1>2, <1>3, <1>4, <1>5 DEF ServiceNext

\* No request is answered with another's verdict: whatever is coalesced, cached,
\* delayed, refused or cancelled, a right credential is rejected neither by the
\* cache nor by the filter, and a definite answer of the verifier is the truth.
THEOREM RightAnswers == ServiceSpec => []AnswersAreRight
<1>1. AnswersInvariant => AnswersAreRight
    <2> SUFFICES ASSUME AnswersInvariant, NEW r \in Requests, NEW i \in DOMAIN terminals[r]
                 PROVE  terminals[r][i] \in RightRoutes(r)
        BY DEF AnswersAreRight, RightRoutes
    <2>1. terminals[r] \in Seq(RightRoutes(r))
        BY DEF AnswersInvariant, CompletionsOK
    <2>2. i \in 1 .. Len(terminals[r])
        BY <2>1, LenProperties
    <2> QED
        BY <2>1, <2>2, ElementOfSeq
<1> QED
    BY <1>1, LedgerInit, LedgerStep, AnswersInit, AnswersStep, PTL DEF ServiceSpec

-----------------------------------------------------------------------------
(* What a shutdown reports.                                                *)

Uncancelled == {x \in Completions : x.route # "SHUTDOWN_CANCELLED"}
Undelayed == {x \in Completions : x.direct}
OwedBy(p) == {todo[p][i].request : i \in DOMAIN todo[p]}

\* A shutdown is here until it found the service idle or gave that up.
Hopeful == {"off", "never", "read padding", "read rest"}

\* Nobody but the shutdown cancels, and what it cancels is not padded.
OnlyShutdownCancels ==
    /\ \A p \in Processes \ {"shutdown"} : todo[p] \in Seq(Uncancelled)
    /\ todo["shutdown"] \in Seq(Undelayed)
    /\ due \subseteq Uncancelled
    /\ released \in Uncancelled \cup {NoRelease}
    /\ \A w \in Backends : verdict[w] # "SHUTDOWN_CANCELLED"

\* Nothing was cancelled while there was hope, nor after a drain.
NoneCancelledYet ==
    /\ pc["shutdown"] \in Hopeful => todo["shutdown"] = <<>>
    /\ pc["shutdown"] \in Hopeful \/ closing.drained =>
          counters["shutdown_cancellations"] = 0

\* When the report is made, what is still pending is on the shutdown's own list.
PendingIsOwed ==
    /\ pc["shutdown"] \in {"report", "done"} => pending \subseteq OwedBy("shutdown")
    /\ pc["shutdown"] = "done" => pending = {}
    /\ closing.report # "none" => pc["shutdown"] = "done"

ClosingTypeOK ==
    closing \in [time : {"early", "reserve", "over"}, paddingEmpty : BOOLEAN,
                 drained : BOOLEAN, frontStopped : BOOLEAN, backStopped : BOOLEAN,
                 paddingStopped : BOOLEAN, stops : Nat,
                 report : {"none", "clean", "unclean"}]

\* What the shutdown noted of the threads stays true.
NotedOK ==
    /\ closing.frontStopped => Stopped(Started)
    /\ closing.backStopped => Stopped(Backends)
    /\ closing.paddingStopped => timerThread = "stopped"
    /\ closing.report = "clean" => AllStopped /\ closing.paddingStopped

ReportInvariant ==
    OnlyShutdownCancels /\ NoneCancelledYet /\ PendingIsOwed /\ ClosingTypeOK /\ NotedOK

\* The invariants this part rests on.
ServiceInvariant == LedgerInvariant /\ ShutdownInvariant /\ AnswersInvariant

LEMMA ReportInit == ServiceInit => ReportInvariant
<1> SUFFICES ASSUME ServiceInit PROVE ReportInvariant
    OBVIOUS
<1>1. PICK load \in Workloads :
          pc = [p \in Processes |->
                  IF p \in Workers
                  THEN IF p \in load.frontends \cup Backends THEN "idle" ELSE "absent"
                  ELSE IF p \in Requests THEN IF p \in load.requests THEN "new" ELSE "absent"
                  ELSE IF load.shutdown THEN "off" ELSE "never"]
    BY DEF ServiceInit
<1>2. pc["shutdown"] \in {"off", "never"}
    BY <1>1, ServiceConstants DEF Processes
<1>3. todo = [p \in Processes |-> <<>>] /\ due = {} /\ released = NoRelease
      /\ verdict = [w \in Backends |-> "BACKEND_FAILURE"]
      /\ counters = [c \in CounterNames |-> 0]
    BY DEF ServiceInit, PaddingInit
<1>4. closing = [time |-> "early", paddingEmpty |-> FALSE, drained |-> FALSE,
                 frontStopped |-> FALSE, backStopped |-> FALSE,
                 paddingStopped |-> FALSE, stops |-> 0, report |-> "none"]
    BY DEF ServiceInit
<1>5. OnlyShutdownCancels
    BY <1>3, EmptySeq DEF OnlyShutdownCancels, Processes
<1>6. NoneCancelledYet
    BY <1>3 DEF NoneCancelledYet, CounterNames, Processes
<1>7. PendingIsOwed /\ ClosingTypeOK /\ NotedOK
    BY <1>2, <1>4 DEF PendingIsOwed, ClosingTypeOK, NotedOK
<1> QED
    BY <1>5, <1>6, <1>7 DEF ReportInvariant

LEMMA RepliesUncancelled ==
    ASSUME padded \in BOOLEAN, NEW rs \in Seq(Requests),
           NEW route \in Routes \ {"SHUTDOWN_CANCELLED"}
    PROVE  Replies(rs, route) \in Seq(Uncancelled)
<1>1. DOMAIN rs = 1 .. Len(rs) /\ Len(rs) \in Nat
    BY LenProperties
<1>2. \A i \in 1 .. Len(rs) : Reply(rs[i], route) \in Uncancelled
    BY ElementOfSeq DEF Reply, Uncancelled, Completions
<1>3. Replies(rs, route) = [i \in 1 .. Len(rs) |-> Reply(rs[i], route)]
    BY <1>1 DEF Replies
<1> QED
    BY <1>1, <1>2, <1>3

LEMMA ReplyUncancelled ==
    ASSUME padded \in BOOLEAN, NEW r \in Requests,
           NEW route \in Routes \ {"SHUTDOWN_CANCELLED"}
    PROVE  <<Reply(r, route)>> \in Seq(Uncancelled)
<1>1. Reply(r, route) \in Uncancelled
    BY DEF Reply, Uncancelled, Completions
<1> QED
    BY <1>1

LEMMA CancellationsUndelayed ==
    ASSUME NEW rs \in Seq(Requests)
    PROVE  Cancellations(rs) \in Seq(Undelayed)
<1>1. DOMAIN rs = 1 .. Len(rs) /\ Len(rs) \in Nat
    BY LenProperties
<1>2. \A i \in 1 .. Len(rs) : Cancelled(rs[i]) \in Undelayed
    BY ElementOfSeq DEF Cancelled, Undelayed, Completions, Routes
<1>3. Cancellations(rs) = [i \in 1 .. Len(rs) |-> Cancelled(rs[i])]
    BY <1>1 DEF Cancellations
<1> QED
    BY <1>1, <1>2, <1>3

\* What another process comes to owe leaves the shutdown's list alone.
LEMMA OthersOwe ==
    ASSUME OnlyShutdownCancels, DOMAIN todo = Processes, NEW p \in Processes \ {"shutdown"},
           todo' = todo \/ \E cs \in Seq(Uncancelled) : Owes(p, cs)
    PROVE  /\ todo'["shutdown"] = todo["shutdown"]
           /\ \A q \in Processes \ {"shutdown"} : todo'[q] \in Seq(Uncancelled)
<1>1. CASE todo' = todo
    BY <1>1 DEF OnlyShutdownCancels
<1>2. ASSUME NEW cs \in Seq(Uncancelled), todo' = [todo EXCEPT ![p] = cs]
      PROVE  /\ todo'["shutdown"] = todo["shutdown"]
             /\ \A q \in Processes \ {"shutdown"} : todo'[q] \in Seq(Uncancelled)
    <2>1. \A q \in Processes : todo'[q] = IF q = p THEN cs ELSE todo[q]
        BY <1>2
    <2>2. "shutdown" \in Processes
        BY DEF Processes
    <2> QED
        BY <2>1, <2>2 DEF OnlyShutdownCancels
<1> QED
    BY <1>1, <1>2 DEF Owes

\* A worker's answers are no cancellations.
LEMMA WorkersCancelNothing ==
    ASSUME ServiceInvariant, OnlyShutdownCancels, NEW w \in Workers,
           \/ w \in Frontends /\ FrontStep(w)
           \/ w \in Backends /\ (BackStep(w) \/ BackHangs(w))
    PROVE  OnlyShutdownCancels'
<1> USE DEF ServiceInvariant, AnswersInvariant
<1> w \in Processes /\ w # "shutdown"
    BY ServiceConstants DEF Processes
<1>1. padded \in BOOLEAN /\ todo \in [Processes -> Seq(RightCompletions)]
    BY DEF CompletionsOK
<1>2. pc[w] \notin {"idle", "stopped", "absent"} => holds[w] \in Requests
    BY DEF WorkersOK
<1>3. UNCHANGED <<due, released>>
    BY DEF FrontStep, FrontGet, FrontBegin, FrontScreen, FrontRaises, FrontJoin, FrontPut,
           FrontDrop, FrontEnd, BackStep, BackHangs, BackGet, BackBegin, BackVerify,
           BackInsert, BackFinish, BackEnd, frontendFrame, paddingVars
<1>4. \A r \in Requests : <<r>> \o FlightOf(r) \in Seq(Requests)
    <2> TAKE r \in Requests
    <2>1. <<r>> \in Seq(Requests) /\ FlightOf(r) \in Seq(Requests)
        BY WaitersAreRequests
    <2> QED
        BY <2>1, ConcatProperties
<1>5. todo' = todo \/ \E cs \in Seq(Uncancelled) : Owes(w, cs)
    <2>1. CASE w \in Frontends /\ FrontScreen(w)
        BY <1>1, <1>2, <2>1, ReplyUncancelled DEF FrontScreen, At, Routes
    <2>2. CASE w \in Frontends /\ FrontRaises(w)
        BY <1>1, <1>2, <2>2, ReplyUncancelled DEF FrontRaises, At, Routes
    <2>3. CASE w \in Frontends /\ FrontJoin(w)
        BY <1>1, <1>2, <2>3, ReplyUncancelled DEF FrontJoin, At, Routes
    <2>4. CASE w \in Frontends /\ FrontDrop(w)
        BY <1>1, <1>2, <1>4, <2>4, RepliesUncancelled DEF FrontDrop, At, Routes
    <2>5. CASE w \in Backends /\ BackFinish(w)
        <3>1. verdict[w] \in Routes \ {"SHUTDOWN_CANCELLED"}
            BY <2>5 DEF OnlyShutdownCancels, WorkersOK
        <3> QED
            BY <1>1, <1>2, <1>4, <2>5, <3>1, RepliesUncancelled DEF BackFinish, At
    <2>6. CASE \/ w \in Frontends
                  /\ (FrontGet(w) \/ FrontBegin(w) \/ FrontPut(w) \/ FrontEnd(w))
               \/ w \in Backends
                  /\ \/ BackGet(w) \/ BackBegin(w) \/ BackVerify(w) \/ BackHangs(w)
                     \/ BackInsert(w) \/ BackEnd(w)
        BY <2>6 DEF FrontGet, FrontBegin, FrontPut, FrontEnd, BackGet, BackBegin, BackVerify,
               BackHangs, BackInsert, BackEnd
    <2> QED
        BY <2>1, <2>2, <2>3, <2>4, <2>5, <2>6 DEF FrontStep, BackStep
<1>6. /\ \A p \in Processes \ {"shutdown"} : todo'[p] \in Seq(Uncancelled)
      /\ todo'["shutdown"] = todo["shutdown"]
    BY <1>1, <1>5, OthersOwe
<1>8. \A v \in Backends : verdict'[v] # "SHUTDOWN_CANCELLED"
    <2>1. CASE verdict' = verdict
        BY <2>1 DEF OnlyShutdownCancels
    <2>2. CASE w \in Backends /\ (BackVerify(w) \/ BackEnd(w))
        BY <2>2 DEF BackVerify, BackEnd, Truth, OnlyShutdownCancels, WorkersOK
    <2>3. CASE w \in Frontends /\ FrontStep(w)
        BY <2>1, <2>3
           DEF FrontStep, FrontGet, FrontBegin, FrontScreen, FrontRaises, FrontJoin, FrontPut,
               FrontDrop, FrontEnd, workVars
    <2>4. CASE w \in Backends
               /\ (BackGet(w) \/ BackBegin(w) \/ BackHangs(w) \/ BackInsert(w) \/ BackFinish(w))
        BY <2>1, <2>4 DEF BackHangs, BackGet, BackBegin, BackInsert, BackFinish, workVars
    <2> QED
        BY <2>2, <2>3, <2>4 DEF BackStep
<1> QED
    BY <1>3, <1>6, <1>8 DEF OnlyShutdownCancels

\* Steps of which shutdown and the counters notice nothing.
LEMMA UnnoticedKeeps ==
    ASSUME NoneCancelledYet, todo'["shutdown"] = todo["shutdown"],
           pc'["shutdown"] = pc["shutdown"], closing' = closing,
           counters'["shutdown_cancellations"] = counters["shutdown_cancellations"]
    PROVE  NoneCancelledYet'
BY DEF NoneCancelledYet

LEMMA NoDebtNoted ==
    ASSUME PendingIsOwed, todo'["shutdown"] = todo["shutdown"],
           pc'["shutdown"] = pc["shutdown"], closing' = closing, pending' \subseteq pending
    PROVE  PendingIsOwed'
BY DEF PendingIsOwed, OwedBy

\* A thread that has stopped, or was never started, stays that way.
LEMMA StoppedStays ==
    ASSUME NotedOK, UNCHANGED closing,
           \A w \in Workers : pc'[w] # pc[w] => pc[w] \notin {"stopped", "absent"},
           \A w \in Workers : pc[w] # "absent" => pc'[w] # "absent",
           timerThread = "stopped" => timerThread' = "stopped"
    PROVE  NotedOK'
BY DEF NotedOK, Stopped, Started, Workers, AllStopped

LEMMA WorkersKeepReport ==
    ASSUME ServiceInvariant, ReportInvariant, NEW w \in Workers,
           \/ w \in Frontends /\ FrontStep(w)
           \/ w \in Backends /\ (BackStep(w) \/ BackHangs(w))
    PROVE  ReportInvariant'
<1> USE DEF ServiceInvariant, ReportInvariant
<1>1. OnlyShutdownCancels'
    BY WorkersCancelNothing
<1>2. Quiet
    BY WorkersQuiet DEF LedgerInvariant
<1>3. UNCHANGED ledger
    BY FrontLeavesLedger, BackLeavesLedger DEF LedgerInvariant
<1>4. todo'["shutdown"] = todo["shutdown"]
    <2>1. w # "shutdown" /\ DOMAIN todo = Processes
        BY ServiceConstants DEF AnswersInvariant, CompletionsOK
    <2>2. todo' = todo \/ \E cs : Owes(w, cs)
        BY DEF FrontStep, FrontGet, FrontBegin, FrontScreen, FrontRaises, FrontJoin, FrontPut,
               FrontDrop, FrontEnd, BackStep, BackHangs, BackGet, BackBegin, BackVerify,
               BackInsert, BackFinish, BackEnd
    <2>3. ASSUME NEW cs, todo' = [todo EXCEPT ![w] = cs]
          PROVE  todo'["shutdown"] = todo["shutdown"]
        BY <2>1, <2>3 DEF Processes
    <2> QED
        BY <2>2, <2>3 DEF Owes
<1>5. NoneCancelledYet' /\ PendingIsOwed' /\ ClosingTypeOK'
    BY <1>2, <1>3, <1>4, UnnoticedKeeps, NoDebtNoted DEF Quiet, ledger, ClosingTypeOK
<1>6. \A v \in Workers : pc'[v] # pc[v] =>
          v = w /\ pc[v] \notin {"stopped", "absent"} /\ pc'[v] # "absent"
    <2>1. DOMAIN pc = Processes
        BY DEF LedgerInvariant, LedgerTypeOK
    <2>2. pc[w] \notin {"stopped", "absent"}
        BY DEF FrontStep, FrontGet, FrontBegin, FrontScreen, FrontRaises, FrontJoin, FrontPut,
               FrontDrop, FrontEnd, BackStep, BackHangs, BackGet, BackBegin, BackVerify,
               BackInsert, BackFinish, BackEnd, At
    <2>3. \E place : place # "absent" /\ Goto(w, place)
        BY DEF FrontStep, FrontGet, FrontBegin, FrontScreen, FrontRaises, FrontJoin, FrontPut,
               FrontDrop, FrontEnd, BackStep, BackHangs, BackGet, BackBegin, BackVerify,
               BackInsert, BackFinish, BackEnd
    <2> QED
        BY <2>1, <2>2, <2>3 DEF Goto
<1>7. timerThread' = timerThread
    BY DEF FrontStep, FrontGet, FrontBegin, FrontScreen, FrontRaises, FrontJoin, FrontPut,
           FrontDrop, FrontEnd, BackStep, BackHangs, BackGet, BackBegin, BackVerify,
           BackInsert, BackFinish, BackEnd, frontendFrame, paddingVars
<1>8. NotedOK'
    BY <1>2, <1>6, <1>7, StoppedStays DEF Quiet
<1> QED
    BY <1>1, <1>5, <1>8

\* A request's own steps: nobody is admitted once a shutdown began.
LEMMA SubmitKeepsReport ==
    ASSUME ServiceInvariant, ReportInvariant, NEW r \in Requests, Submit(r) \/ Enqueue(r)
    PROVE  ReportInvariant'
<1> USE DEF ServiceInvariant, ReportInvariant
<1> r \in Processes /\ r # "shutdown" /\ r \notin Workers
    BY RequestIsNoWorker
<1>1. UNCHANGED <<closing, due, released, timerThread, verdict>>
    BY DEF Submit, Enqueue, admissionVars, workVars, paddingVars
<1>2. pc'["shutdown"] = pc["shutdown"] /\ \A w \in Workers : pc'[w] = pc[w]
    <2>1. \E place : Goto(r, place)
        BY DEF Submit, Enqueue, Refuse, Admit
    <2> QED
        BY <2>1 DEF Goto, LedgerInvariant, LedgerTypeOK
<1>3. todo \in [Processes -> Seq(RightCompletions)] /\ padded \in BOOLEAN
    BY DEF AnswersInvariant, CompletionsOK
<1>4. todo' = todo \/ \E cs \in Seq(Uncancelled) : Owes(r, cs)
    BY <1>3, ReplyUncancelled DEF Submit, Enqueue, Routes
<1>5. OnlyShutdownCancels' /\ todo'["shutdown"] = todo["shutdown"]
    BY <1>1, <1>3, <1>4, OthersOwe DEF OnlyShutdownCancels
<1>6. counters'["shutdown_cancellations"] = counters["shutdown_cancellations"]
    BY DEF Submit, Enqueue, Refuse, Admit, admissionVars, LedgerInvariant, LedgerTypeOK,
           CounterNames
<1>7. pending' = pending \/ accepting
    BY DEF Submit, Enqueue, Refuse, Admit, admissionVars
<1>8. NoneCancelledYet'
    BY <1>1, <1>2, <1>5, <1>6, UnnoticedKeeps
<1>9. PendingIsOwed'
    BY <1>1, <1>2, <1>5, <1>7, NoDebtNoted DEF PendingIsOwed, ShutdownInvariant
<1>10. ClosingTypeOK' /\ NotedOK'
    BY <1>1, <1>2, StoppedStays DEF ClosingTypeOK
<1> QED
    BY <1>5, <1>8, <1>9, <1>10

LEMMA TailRequests ==
    ASSUME NEW T, NEW s \in Seq(T), s # <<>>
    PROVE  {s[i].request : i \in DOMAIN s}
               = {Tail(s)[i].request : i \in DOMAIN Tail(s)} \cup {Head(s).request}
<1>1. /\ Len(s) \in Nat \ {0} /\ DOMAIN s = 1 .. Len(s) /\ Head(s) = s[1]
      /\ Len(Tail(s)) = Len(s) - 1 /\ DOMAIN Tail(s) = 1 .. (Len(s) - 1)
      /\ \A i \in 1 .. (Len(s) - 1) : Tail(s)[i] = s[i + 1]
    BY HeadTailProperties, EmptySeq
<1>2. ASSUME NEW i \in DOMAIN s
      PROVE  s[i] = Head(s) \/ \E j \in DOMAIN Tail(s) : Tail(s)[j] = s[i]
    <2>1. i = 1 \/ (i - 1 \in DOMAIN Tail(s) /\ Tail(s)[i - 1] = s[i])
        BY <1>1
    <2> QED
        BY <1>1, <2>1
<1>3. \A i \in DOMAIN Tail(s) : \E j \in DOMAIN s : Tail(s)[i] = s[j]
    <2> TAKE i \in DOMAIN Tail(s)
    <2>1. i + 1 \in DOMAIN s /\ Tail(s)[i] = s[i + 1]
        BY <1>1
    <2> QED
        BY <2>1
<1>4. 1 \in DOMAIN s /\ Head(s) = s[1]
    BY <1>1
<1> DEFINE t == Tail(s)
           h == Head(s)
<1> HIDE DEF t, h
<1>5. /\ \A i \in DOMAIN s : s[i] = h \/ \E j \in DOMAIN t : t[j] = s[i]
      /\ \A i \in DOMAIN t : \E j \in DOMAIN s : t[i] = s[j]
      /\ 1 \in DOMAIN s /\ h = s[1]
    BY <1>2, <1>3, <1>4 DEF t, h
<1>6. {s[i].request : i \in DOMAIN s} = {t[i].request : i \in DOMAIN t} \cup {h.request}
    BY <1>5
<1> QED
    BY <1>6 DEF t, h

\* One record.
LEMMA RecordCounts ==
    ASSUME LedgerTypeOK, NEW x, Record(x)
    PROVE  /\ pending' = pending \ {x.request}
           /\ \/ counters'["shutdown_cancellations"] = counters["shutdown_cancellations"]
              \/ x.route = "SHUTDOWN_CANCELLED" /\ x.request \in pending
BY DEF Record, LedgerTypeOK, CounterNames

LEMMA CompletionKeepsReport ==
    ASSUME ServiceInvariant, ReportInvariant, NEW p \in Processes, Complete(p)
    PROVE  ReportInvariant'
<1> USE DEF ServiceInvariant, ReportInvariant
<1>1. UNCHANGED <<closing, pc, verdict, timerThread, released>>
    BY DEF Complete, CompleteLater, CompleteUnpadded, CompleteNow, completionFrame, workVars,
           Schedule, paddingVars
<1>2. /\ todo \in [Processes -> Seq(RightCompletions)]
      /\ todo[p] \in Seq(RightCompletions) /\ todo[p] # <<>>
      /\ Head(todo[p]) \in RightCompletions
    BY HeadTailProperties DEF AnswersInvariant, CompletionsOK, Complete, CompleteLater,
           CompleteUnpadded, CompleteNow
<1>3. ClosingTypeOK' /\ NotedOK'
    BY <1>1, StoppedStays DEF ClosingTypeOK
<1>4. CASE p = "shutdown"
    <2>1. /\ todo[p] \in Seq(Undelayed) /\ Head(todo[p]) \in Undelayed
          /\ Tail(todo[p]) \in Seq(Undelayed)
        BY <1>2, <1>4, HeadTailProperties DEF OnlyShutdownCancels
    <2>2. CompleteNow(p)
        BY <2>1 DEF Complete, CompleteLater, CompleteUnpadded, Undelayed
    <2>3. /\ todo' = [todo EXCEPT !["shutdown"] = Tail(todo[p])] /\ due' = due
          /\ Record(Head(todo[p]))
        BY <1>4, <2>2 DEF CompleteNow, Owes, paddingVars
    <2>4. OnlyShutdownCancels'
        BY <1>1, <1>2, <1>4, <2>1, <2>3 DEF OnlyShutdownCancels
    <2>5. pc["shutdown"] \notin Hopeful
        BY <1>2, <1>4 DEF NoneCancelledYet
    <2>6. NoneCancelledYet'
        BY <1>1, <2>3, <2>5, RecordCounts
           DEF NoneCancelledYet, ShutdownInvariant, LedgerInvariant
    <2>7. OwedBy("shutdown") \subseteq OwedBy("shutdown")' \cup {Head(todo[p]).request}
        <3>1. todo'["shutdown"] = Tail(todo[p])
            BY <1>2, <1>4, <2>3
        <3>2. OwedBy(p) = {Tail(todo[p])[i].request : i \in DOMAIN Tail(todo[p])}
                             \cup {Head(todo[p]).request}
            BY <1>2, TailRequests DEF OwedBy
        <3>3. OwedBy("shutdown")' = {Tail(todo[p])[i].request : i \in DOMAIN Tail(todo[p])}
            BY <3>1 DEF OwedBy
        <3> QED
            BY <1>4, <3>2, <3>3
    <2>8. PendingIsOwed'
        BY <1>1, <2>3, <2>7, RecordCounts DEF PendingIsOwed, LedgerInvariant
    <2> QED
        BY <1>3, <2>4, <2>6, <2>8
<1>5. CASE p # "shutdown"
    <2>1. /\ todo[p] \in Seq(Uncancelled) /\ Head(todo[p]) \in Uncancelled
          /\ Tail(todo[p]) \in Seq(Uncancelled)
        BY <1>2, <1>5, HeadTailProperties DEF OnlyShutdownCancels
    <2>2. \E cs \in Seq(Uncancelled) : Owes(p, cs)
        <3>1. CASE CompleteLater(p) \/ CompleteNow(p)
            BY <2>1, <3>1 DEF CompleteLater, CompleteNow
        <3>2. CASE CompleteUnpadded(p)
            <4> DEFINE first == [Head(todo[p]) EXCEPT !.direct = TRUE]
            <4>1. first \in Uncancelled
                BY <2>1 DEF Uncancelled, Completions
            <4>2. Len(todo[p]) \in Nat \ {0} /\ todo[p][1] = Head(todo[p])
                BY <1>2, EmptySeq
            <4>3. [todo[p] EXCEPT ![1].direct = TRUE] = [todo[p] EXCEPT ![1] = first]
                BY <4>2
            <4> HIDE DEF first
            <4>4. 1 \in 1 .. Len(todo[p])
                BY <4>2
            <4>5. [todo[p] EXCEPT ![1].direct = TRUE] \in Seq(Uncancelled)
                BY <2>1, <4>1, <4>3, <4>4, ExceptSeq
            <4> QED
                BY <3>2, <4>5 DEF CompleteUnpadded
        <3> QED
            BY <3>1, <3>2 DEF Complete
    <2>3. due' \subseteq due \cup {Head(todo[p])}
        BY DEF Complete, CompleteLater, CompleteUnpadded, CompleteNow, Schedule, paddingVars
    <2>4. OnlyShutdownCancels' /\ todo'["shutdown"] = todo["shutdown"]
        BY <1>1, <1>2, <1>5, <2>1, <2>2, <2>3, OthersOwe DEF OnlyShutdownCancels
    <2>5. /\ counters'["shutdown_cancellations"] = counters["shutdown_cancellations"]
          /\ pending' \subseteq pending
        BY <2>1, RecordCounts DEF Complete, CompleteLater, CompleteUnpadded, CompleteNow,
               LedgerInvariant, Uncancelled
    <2> QED
        BY <1>1, <1>3, <2>4, <2>5, UnnoticedKeeps, NoDebtNoted
<1> QED
    BY <1>4, <1>5

LEMMA TimerKeepsReport ==
    ASSUME ServiceInvariant, ReportInvariant, TimerStep
    PROVE  ReportInvariant'
<1> USE DEF ServiceInvariant, ReportInvariant
<1>1. UNCHANGED <<closing, pc, verdict, todo>>
    BY DEF TimerStep, TimerCallback, completionFrame, workVars
<1>2. due' \subseteq due /\ (timerThread = "stopped" => timerThread' = "stopped")
    BY DEF TimerStep, TimerCallback, PopDue, TimerStops, Called
<1>3. released' \in Uncancelled \cup {NoRelease}
    BY DEF TimerStep, TimerCallback, PopDue, TimerStops, Called, OnlyShutdownCancels
<1>4. OnlyShutdownCancels'
    BY <1>1, <1>2, <1>3 DEF OnlyShutdownCancels
<1>5. /\ counters'["shutdown_cancellations"] = counters["shutdown_cancellations"]
      /\ pending' \subseteq pending
    BY RecordCounts DEF TimerStep, TimerCallback, OnlyShutdownCancels, Uncancelled,
           LedgerInvariant
<1> QED
    BY <1>1, <1>2, <1>4, <1>5, UnnoticedKeeps, NoDebtNoted, StoppedStays DEF ClosingTypeOK

-----------------------------------------------------------------------------
(* The steps of the shutdown itself.                                       *)

\* The list of the shutdown, after any of its steps.
LEMMA ShutdownOwes ==
    ASSUME ServiceInvariant, OnlyShutdownCancels, BeginShutdown \/ ShutdownStep \/ TimePasses
    PROVE  OnlyShutdownCancels'
<1> USE DEF ServiceInvariant, AnswersInvariant
<1>1. todo \in [Processes -> Seq(RightCompletions)] /\ "shutdown" \in Processes
    BY DEF CompletionsOK, Processes
<1>2. UNCHANGED <<released, verdict>> /\ due' \subseteq due
    BY DEF BeginShutdown, ShutdownStep, TimePasses, ReadPadding, ReadRest, DropPadding,
           CancelFrontendQueue, StopFrontends, JoinFrontends, CancelBackendQueue,
           StopBackends, JoinBackends, DropPaddingAgain, StopTimer, JoinTimer,
           CancelFlights, CancelPendingRequests, Report, CancelPending, StopPadding,
           closingFrame, workVars, paddingVars
<1>3. todo' = todo \/ \E cs \in Seq(Undelayed) : Owes("shutdown", cs)
    <2>1. CASE CancelFrontendQueue
        <3>1. frontQ # <<>> => ContextOf(Head(frontQ)) \in Seq(Requests)
            BY ContextsOfQueue DEF QueuesOK
        <3> QED
            BY <2>1, <3>1, CancellationsUndelayed DEF CancelFrontendQueue
    <2>2. CASE CancelBackendQueue
        <3>1. backQ # <<>> =>
                 ContextOf(Head(backQ)) \o FlightOf(Head(backQ)) \in Seq(Requests)
            BY ContextsOfQueue, WaitersAreRequests, ConcatProperties DEF QueuesOK
        <3> QED
            BY <2>2, <3>1, CancellationsUndelayed DEF CancelBackendQueue
    <2>3. CASE CancelFlights
        BY <2>3, WaitersAreRequests, SetToSeqOfRequests, CancellationsUndelayed
           DEF CancelFlights
    <2>4. CASE CancelPendingRequests
        BY <2>4, SetToSeqOfRequests, CancellationsUndelayed
           DEF CancelPendingRequests, LedgerInvariant, LedgerTypeOK
    <2>5. CASE \/ BeginShutdown \/ TimePasses \/ ReadPadding \/ ReadRest \/ DropPadding
               \/ StopFrontends \/ JoinFrontends \/ StopBackends \/ JoinBackends
               \/ DropPaddingAgain \/ StopTimer \/ JoinTimer \/ Report
        BY <2>5
           DEF BeginShutdown, TimePasses, ReadPadding, ReadRest, DropPadding, StopFrontends,
               JoinFrontends, StopBackends, JoinBackends, DropPaddingAgain, StopTimer,
               JoinTimer, Report
    <2> QED
        BY <2>1, <2>2, <2>3, <2>4, <2>5 DEF ShutdownStep
<1>4. ASSUME NEW cs \in Seq(Undelayed), todo' = [todo EXCEPT !["shutdown"] = cs]
      PROVE  /\ todo'["shutdown"] \in Seq(Undelayed)
             /\ \A p \in Processes \ {"shutdown"} : todo'[p] = todo[p]
    BY <1>1, <1>4
<1> QED
    BY <1>2, <1>3, <1>4 DEF OnlyShutdownCancels, Owes

LEMMA SetToSeqCovers ==
    ASSUME NEW S \in SUBSET Requests
    PROVE  {SetToSeq(S)[i] : i \in DOMAIN SetToSeq(S)} = S
<1>1. IsFiniteSet(S)
    BY ServiceConstants, FS_Subset
<1>2. Cardinality(S) \in Nat /\ ExistsBijection(1 .. Cardinality(S), S)
    BY <1>1, FS_CardinalityType
<1>3. \E f \in [1 .. Cardinality(S) -> S] : IsInjective(f)
    BY <1>2 DEF ExistsBijection, Bijection, Injection, IsInjective
<1>4. SetToSeq(S) \in [1 .. Cardinality(S) -> S] /\ IsInjective(SetToSeq(S))
    BY <1>3 DEF SetToSeq
<1> DEFINE f == SetToSeq(S)
           n == Cardinality(S)
<1> HIDE DEF f
<1>5. f \in Injection(1 .. n, S)
    BY <1>4 DEF Injection, IsInjective, f
<1>6. IsFiniteSet(1 .. n) /\ Cardinality(1 .. n) = n
    BY <1>2, FS_Interval
<1>7. f \in Surjection(1 .. n, S)
    BY <1>1, <1>5, <1>6, FS_Injection
<1> QED
    BY <1>4, <1>7 DEF Surjection, f

LEMMA CancellationsOwe ==
    ASSUME NEW rs \in Seq(Requests)
    PROVE  /\ DOMAIN Cancellations(rs) = DOMAIN rs
           /\ \A i \in DOMAIN rs : Cancellations(rs)[i].request = rs[i]
BY DEF Cancellations, Cancelled

\* A shutdown's own step.
LEMMA ShutdownKeepsReport ==
    ASSUME ServiceInvariant, ReportInvariant, BeginShutdown \/ ShutdownStep \/ TimePasses
    PROVE  ReportInvariant'
<1> USE DEF ServiceInvariant, ReportInvariant
<1> DEFINE here == pc["shutdown"]
<1>1. OnlyShutdownCancels'
    BY ShutdownOwes
<1>2. UNCHANGED ledger /\ Elsewhere
    BY ShutdownLeavesLedger DEF LedgerInvariant
<1>3. /\ DOMAIN pc = Processes /\ "shutdown" \in Processes
      /\ todo \in [Processes -> Seq(RightCompletions)]
    BY DEF LedgerInvariant, LedgerTypeOK, Processes, AnswersInvariant, CompletionsOK
<1>4. timerThread' = timerThread /\ \A w \in Workers : pc'[w] = pc[w]
    <2>1. pc' = pc \/ \E place : Goto("shutdown", place)
        BY DEF BeginShutdown, ShutdownStep, TimePasses, ReadPadding, ReadRest, DropPadding,
               CancelFrontendQueue, StopFrontends, JoinFrontends, CancelBackendQueue,
               StopBackends, JoinBackends, DropPaddingAgain, StopTimer, JoinTimer,
               CancelFlights, CancelPendingRequests, Report, AfterFrontends, AfterBackends
    <2>2. \A w \in Workers : pc'[w] = pc[w]
        <3>1. ASSUME NEW place, pc' = [pc EXCEPT !["shutdown"] = place], NEW w \in Workers
              PROVE  pc'[w] = pc[w]
            BY <3>1, ServiceConstants DEF Workers
        <3> QED
            BY <2>1, <3>1 DEF Goto
    <2>3. timerThread' = timerThread
        BY DEF BeginShutdown, ShutdownStep, TimePasses, ReadPadding, ReadRest, DropPadding,
               CancelFrontendQueue, StopFrontends, JoinFrontends, CancelBackendQueue,
               StopBackends, JoinBackends, DropPaddingAgain, StopTimer, JoinTimer,
               CancelFlights, CancelPendingRequests, Report, CancelPending, StopPadding,
               paddingVars
    <2> QED
        BY <2>2, <2>3
<1> DEFINE frontsStopped == Stopped(Started)
           backsStopped == Stopped(Backends)
<1>5. frontsStopped' = frontsStopped /\ backsStopped' = backsStopped
    BY <1>4 DEF Stopped, Started, Workers
<1>6. frontsStopped \in BOOLEAN /\ backsStopped \in BOOLEAN
    BY DEF Stopped
<1> HIDE DEF frontsStopped, backsStopped
<1>7. NotedOK <=>
          /\ closing.frontStopped => frontsStopped
          /\ closing.backStopped => backsStopped
          /\ closing.paddingStopped => timerThread = "stopped"
          /\ closing.report = "clean" => AllStopped /\ closing.paddingStopped
    BY DEF NotedOK, frontsStopped, backsStopped
<1>8. NotedOK' <=>
          /\ closing'.frontStopped => frontsStopped
          /\ closing'.backStopped => backsStopped
          /\ closing'.paddingStopped => timerThread = "stopped"
          /\ closing'.report = "clean" => AllStopped' /\ closing'.paddingStopped
    BY <1>4, <1>5 DEF NotedOK, frontsStopped, backsStopped
<1>9. ClosingTypeOK'
    <2>1. Cardinality(Started) \in Nat /\ Cardinality(Backends) \in Nat
        BY ServiceConstants, FS_Subset, FS_CardinalityType DEF Started
    <2>2. CASE closing' = closing
        BY <2>2 DEF ClosingTypeOK
    <2>3. CASE TimePasses \/ ReadPadding \/ ReadRest \/ CancelFrontendQueue
        BY <2>1, <2>3 DEF TimePasses, ReadPadding, ReadRest, CancelFrontendQueue, Closing,
                          ClosingTypeOK
    <2>4. CASE StopFrontends \/ JoinFrontends
        <3>1. \/ closing' = [closing EXCEPT !.stops = @ - 1] /\ closing.stops > 0
              \/ closing' = closing
              \/ \E stopped \in BOOLEAN :
                    closing' = [closing EXCEPT !.frontStopped = stopped,
                                               !.stops = Cardinality(Backends)]
            BY <1>6, <2>4
               DEF StopFrontends, JoinFrontends, AfterFrontends, Closing, frontsStopped
        <3>2. closing.stops > 0 => closing.stops - 1 \in Nat
            BY DEF ClosingTypeOK
        <3> QED
            BY <2>1, <3>1, <3>2 DEF ClosingTypeOK
    <2>5. CASE StopBackends \/ JoinBackends
        <3>1. \/ closing' = [closing EXCEPT !.stops = @ - 1] /\ closing.stops > 0
              \/ closing' = closing
              \/ \E stopped \in BOOLEAN :
                    closing' = [closing EXCEPT !.backStopped = stopped]
            BY <1>6, <2>5
               DEF StopBackends, JoinBackends, AfterBackends, Closing, backsStopped
        <3>2. closing.stops > 0 => closing.stops - 1 \in Nat
            BY DEF ClosingTypeOK
        <3> QED
            BY <2>1, <3>1, <3>2 DEF ClosingTypeOK
    <2>6. CASE JoinTimer \/ Report
        BY <2>1, <2>6 DEF JoinTimer, Report, Closing, ClosingTypeOK
    <2> QED
        BY <2>2, <2>3, <2>4, <2>5, <2>6
           DEF BeginShutdown, ShutdownStep, DropPadding, CancelBackendQueue,
               DropPaddingAgain, StopTimer, CancelFlights, CancelPendingRequests
<1>10. CASE TimePasses
    <2>1. UNCHANGED <<pc, todo, counters, pending>> /\ closing.drained = closing'.drained
          /\ closing'.report = closing.report
          /\ closing'.frontStopped = closing.frontStopped
          /\ closing'.backStopped = closing.backStopped
          /\ closing'.paddingStopped = closing.paddingStopped
        BY <1>10 DEF TimePasses, Closing, admissionVars, ClosingTypeOK
    <2>2. NoneCancelledYet' /\ PendingIsOwed' /\ NotedOK'
        BY <1>4, <1>7, <1>8, <2>1 DEF NoneCancelledYet, PendingIsOwed, OwedBy, AllStopped
    <2> QED
        BY <1>1, <1>9, <2>2
<1>11. CASE BeginShutdown \/ ReadPadding \/ ReadRest
    <2>1. pc["shutdown"] \in Hopeful /\ todo' = todo
        BY <1>11 DEF BeginShutdown, ReadPadding, ReadRest, At, Hopeful
    <2>2. pc'["shutdown"] \notin {"report", "done"}
        BY <1>3, <1>11 DEF BeginShutdown, ReadPadding, ReadRest, Goto
    <2>3. closing.report = "none"
        BY <2>1 DEF PendingIsOwed, Hopeful, ClosingTypeOK
    <2>4. /\ closing'.report = closing.report
          /\ closing'.frontStopped = closing.frontStopped
          /\ closing'.backStopped = closing.backStopped
          /\ closing'.paddingStopped = closing.paddingStopped
        BY <1>11 DEF BeginShutdown, ReadPadding, ReadRest, Closing, ClosingTypeOK
    <2>5. NoneCancelledYet'
        BY <1>2, <2>1 DEF NoneCancelledYet, ledger
    <2>6. PendingIsOwed'
        BY <2>2, <2>3, <2>4 DEF PendingIsOwed
    <2>7. NotedOK'
        BY <1>7, <1>8, <2>3, <2>4
    <2> QED
        BY <1>1, <1>9, <2>5, <2>6, <2>7
<1>12. CASE ShutdownStep /\ ~ReadPadding /\ ~ReadRest
    <2>1. pc["shutdown"] \notin Hopeful /\ pc["shutdown"] # "done"
        BY <1>12 DEF ShutdownStep, DropPadding, CancelFrontendQueue, StopFrontends,
               JoinFrontends, CancelBackendQueue, StopBackends, JoinBackends,
               DropPaddingAgain, StopTimer, JoinTimer, CancelFlights,
               CancelPendingRequests, Report, At, Hopeful
    <2>2. pc'["shutdown"] \notin Hopeful
        <3>1. pc' = pc \/ \E place : place \notin Hopeful /\ Goto("shutdown", place)
            BY <1>12 DEF ShutdownStep, DropPadding, CancelFrontendQueue, StopFrontends,
                   JoinFrontends, CancelBackendQueue, StopBackends, JoinBackends,
                   DropPaddingAgain, StopTimer, JoinTimer, CancelFlights,
                   CancelPendingRequests, Report, AfterFrontends, AfterBackends, Hopeful
        <3> QED
            BY <1>3, <2>1, <3>1 DEF Goto
    <2>3. closing'.drained = closing.drained
        BY <1>12 DEF ShutdownStep, DropPadding, CancelFrontendQueue, StopFrontends,
               JoinFrontends, CancelBackendQueue, StopBackends, JoinBackends,
               DropPaddingAgain, StopTimer, JoinTimer, CancelFlights,
               CancelPendingRequests, Report, AfterFrontends, AfterBackends, Closing,
               ClosingTypeOK
    <2>4. NoneCancelledYet'
        BY <1>2, <2>1, <2>2, <2>3 DEF NoneCancelledYet, ledger
    <2>5. closing.report = "none"
        BY <2>1 DEF PendingIsOwed
    <2>6. closing'.report = "none" \/ Report
        BY <1>12, <2>5 DEF ShutdownStep, DropPadding, CancelFrontendQueue, StopFrontends,
               JoinFrontends, CancelBackendQueue, StopBackends, JoinBackends,
               DropPaddingAgain, StopTimer, JoinTimer, CancelFlights,
               CancelPendingRequests, AfterFrontends, AfterBackends, Closing, ClosingTypeOK
    <2>7. CASE Report
        <3>1. pc["shutdown"] = "report" /\ todo["shutdown"] = <<>> /\ pending' = pending
              /\ pc'["shutdown"] = "done"
            BY <1>3, <2>7 DEF Report, At, Goto, admissionVars
        <3>2. OwedBy("shutdown") = {}
            BY <3>1 DEF OwedBy
        <3>3. PendingIsOwed'
            BY <3>1, <3>2 DEF PendingIsOwed
        <3>4. /\ closing' = [closing EXCEPT !.report =
                    IF AllStopped /\ closing.paddingStopped /\ pending = {}
                    THEN "clean" ELSE "unclean"]
            BY <2>7 DEF Report, Closing
        <3>5. NotedOK'
            <4>1. /\ closing'.frontStopped = closing.frontStopped
                  /\ closing'.backStopped = closing.backStopped
                  /\ closing'.paddingStopped = closing.paddingStopped
                  /\ closing'.drained = closing.drained
                  /\ closing'.report = "clean" => AllStopped /\ closing.paddingStopped
                BY <3>4 DEF ClosingTypeOK
            <4> QED
                BY <1>7, <1>8, <4>1 DEF AllStopped
        <3> QED
            BY <1>1, <1>9, <2>4, <3>3, <3>5
    <2>8. CASE ~Report
        <3>0. closing'.report = "none"
            BY <2>6, <2>8
        <3>1. ASSUME JoinTimer /\ AllStopped PROVE PendingIsOwed'
            <4>1. pending' = {} /\ pc'["shutdown"] = "report"
                BY <1>2, <1>3, <3>1
                   DEF JoinTimer, AllStopped, ShutdownInvariant, ledger, Goto
            <4> QED
                BY <3>0, <4>1 DEF PendingIsOwed
        <3>2. ASSUME CancelPendingRequests PROVE PendingIsOwed'
            <4> DEFINE cs == Cancellations(SetToSeq(pending))
            <4>1. pending \in SUBSET Requests
                BY DEF LedgerInvariant, LedgerTypeOK
            <4>2. SetToSeq(pending) \in Seq(Requests)
                  /\ {SetToSeq(pending)[i] : i \in DOMAIN SetToSeq(pending)} = pending
                BY <4>1, SetToSeqOfRequests, SetToSeqCovers
            <4>3. todo'["shutdown"] = cs /\ pending' = pending
                  /\ pc'["shutdown"] = "report"
                BY <1>3, <3>2 DEF CancelPendingRequests, Owes, admissionVars, Goto
            <4>4. /\ DOMAIN cs = DOMAIN SetToSeq(pending)
                  /\ \A i \in DOMAIN cs : cs[i].request = SetToSeq(pending)[i]
                BY <4>2, CancellationsOwe
            <4> HIDE DEF cs
            <4>5. pending' \subseteq OwedBy("shutdown")'
                BY <4>2, <4>3, <4>4 DEF OwedBy
            <4> QED
                BY <3>0, <4>3, <4>5 DEF PendingIsOwed
        <3>3. ASSUME ~(JoinTimer /\ AllStopped), ~CancelPendingRequests PROVE PendingIsOwed'
            <4>1. pc["shutdown"] # "report" \/ pc' = pc
                BY <1>12, <2>8, <3>3
                   DEF ShutdownStep, DropPadding, CancelFrontendQueue, StopFrontends,
                       JoinFrontends, CancelBackendQueue, StopBackends, JoinBackends,
                       DropPaddingAgain, StopTimer, JoinTimer, CancelFlights, At
            <4>2. pc' = pc \/ \E place : place \notin {"report", "done"}
                                         /\ Goto("shutdown", place)
                BY <1>12, <2>8, <3>3
                   DEF ShutdownStep, DropPadding, CancelFrontendQueue, StopFrontends,
                       JoinFrontends, CancelBackendQueue, StopBackends, JoinBackends,
                       DropPaddingAgain, StopTimer, JoinTimer, CancelFlights,
                       AfterFrontends, AfterBackends
            <4>3. pc["shutdown"] # "report"
                BY <1>12, <2>8, <3>3
                   DEF ShutdownStep, DropPadding, CancelFrontendQueue, StopFrontends,
                       JoinFrontends, CancelBackendQueue, StopBackends, JoinBackends,
                       DropPaddingAgain, StopTimer, JoinTimer, CancelFlights, At
            <4>4. pc'["shutdown"] \notin {"report", "done"}
                BY <1>3, <2>1, <4>2, <4>3 DEF Goto
            <4> QED
                BY <3>0, <4>4 DEF PendingIsOwed
        <3>4. PendingIsOwed'
            BY <3>1, <3>2, <3>3
        <3>5. /\ closing'.frontStopped => closing.frontStopped \/ frontsStopped
              /\ closing'.backStopped => closing.backStopped \/ backsStopped
              /\ closing'.paddingStopped => closing.paddingStopped \/ timerThread = "stopped"
            BY <1>12, <2>8 DEF ShutdownStep, DropPadding, CancelFrontendQueue, StopFrontends,
               JoinFrontends, CancelBackendQueue, StopBackends, JoinBackends,
               DropPaddingAgain, StopTimer, JoinTimer, CancelFlights,
               CancelPendingRequests, AfterFrontends, AfterBackends, Closing, ClosingTypeOK,
               frontsStopped, backsStopped
        <3>7. NotedOK'
            BY <1>7, <1>8, <3>0, <3>5
        <3> QED
            BY <1>1, <1>9, <2>4, <3>4, <3>7
    <2> QED
        BY <2>7, <2>8
<1> QED
    BY <1>10, <1>11, <1>12

LEMMA ReportStep ==
    ServiceInvariant /\ ReportInvariant /\ [ServiceNext]_serviceVars => ReportInvariant'
<1> SUFFICES ASSUME ServiceInvariant, ReportInvariant, [ServiceNext]_serviceVars
             PROVE  ReportInvariant'
    OBVIOUS
<1>1. CASE UNCHANGED serviceVars
    BY <1>1 DEF serviceVars, paddingVars, ReportInvariant, OnlyShutdownCancels,
                NoneCancelledYet, PendingIsOwed, OwedBy, ClosingTypeOK, NotedOK, Stopped,
                Started, AllStopped
<1>2. CASE \E r \in Requests : Submit(r) \/ Enqueue(r)
    BY <1>2, SubmitKeepsReport
<1>3. CASE \/ \E w \in Frontends : FrontStep(w)
           \/ \E w \in Backends : BackStep(w) \/ BackHangs(w)
    BY <1>3, WorkersKeepReport DEF Workers
<1>4. CASE (\E p \in Processes : Complete(p)) \/ TimerStep
    BY <1>4, CompletionKeepsReport, TimerKeepsReport
<1>5. CASE BeginShutdown \/ ShutdownStep \/ TimePasses
    BY <1>5, ShutdownKeepsReport
<1> QED
    BY <1>1, <1>2, <1>3, <1>4, <1>5 DEF ServiceNext

LEMMA ServiceInvariance == ServiceSpec => []ServiceInvariant
BY LedgerInit, LedgerStep, ShutdownInvariantInit, ShutdownInvariantStep, AnswersInit,
   AnswersStep, PTL DEF ServiceSpec, ServiceInvariant

\* A report is never better than the truth: with it no request is left pending, and
\* a clean one says that every thread has ended and no admitted request was
\* cancelled, whatever was padded, queued, waiting or hanging when shutdown began.
THEOREM TruthfulReport == ServiceSpec => []ReportIsTruthful
<1>1. ReportInvariant => ReportIsTruthful
    <2> SUFFICES ASSUME ReportInvariant PROVE ReportIsTruthful
        OBVIOUS
    <2>1. closing.report # "none" => pending = {}
        BY DEF ReportInvariant, PendingIsOwed
    <2>2. closing.report = "clean" =>
             /\ Stopped(Started \cup Backends) /\ timerThread = "stopped"
             /\ counters["shutdown_cancellations"] = 0
        BY DEF ReportInvariant, NotedOK, NoneCancelledYet, AllStopped, Stopped
    <2> QED
        BY <2>1, <2>2 DEF ReportIsTruthful
<1> QED
    BY <1>1, ServiceInvariance, ReportInit, ReportStep, PTL DEF ServiceSpec

-----------------------------------------------------------------------------
(* What the queues and the flights hold, as sets.                          *)

LEMMA EmptyToSet == ToSet(<<>>) = {}
BY DEF ToSet

LEMMA AppendToSet ==
    ASSUME NEW T, NEW s \in Seq(T), NEW x \in T
    PROVE  ToSet(Append(s, x)) = ToSet(s) \cup {x}
<1> DEFINE t == Append(s, x)
           n == Len(s)
<1>1. /\ n \in Nat /\ DOMAIN s = 1 .. n /\ DOMAIN t = 1 .. (n + 1)
      /\ t[n + 1] = x /\ \A i \in 1 .. n : t[i] = s[i]
    BY AppendProperties, LenProperties
<1> HIDE DEF t, n
<1>2. \A i \in DOMAIN s : i \in DOMAIN t /\ t[i] = s[i]
    BY <1>1
<1>3. \A i \in DOMAIN t : t[i] = x \/ (i \in DOMAIN s /\ t[i] = s[i])
    BY <1>1
<1>4. \E i \in DOMAIN t : t[i] = x
    BY <1>1
<1> QED
    BY <1>2, <1>3, <1>4 DEF ToSet, t

LEMMA TailToSet ==
    ASSUME NEW T, NEW s \in Seq(T), s # <<>>
    PROVE  ToSet(s) = ToSet(Tail(s)) \cup {Head(s)}
<1> DEFINE t == Tail(s)
           h == Head(s)
           n == Len(s)
<1>1. /\ n \in Nat \ {0} /\ DOMAIN s = 1 .. n /\ DOMAIN t = 1 .. (n - 1)
      /\ h = s[1] /\ \A i \in 1 .. (n - 1) : t[i] = s[i + 1]
    BY HeadTailProperties, LenProperties, EmptySeq
<1> HIDE DEF t, n, h
<1>2. \A i \in DOMAIN t : \E j \in DOMAIN s : t[i] = s[j]
    <2> TAKE i \in DOMAIN t
    <2>1. i + 1 \in DOMAIN s /\ t[i] = s[i + 1]
        BY <1>1
    <2> QED
        BY <2>1
<1>3. \A i \in DOMAIN s : s[i] = h \/ \E j \in DOMAIN t : s[i] = t[j]
    <2> TAKE i \in DOMAIN s
    <2>1. i = 1 \/ (i - 1 \in DOMAIN t /\ t[i - 1] = s[i])
        BY <1>1
    <2> QED
        BY <1>1, <2>1
<1>4. 1 \in DOMAIN s /\ h = s[1]
    BY <1>1
<1> QED
    BY <1>2, <1>3, <1>4 DEF ToSet, t, h

\* A sequence without repetition has as many elements as places.
Distinct(s) == \A i, j \in DOMAIN s : s[i] = s[j] => i = j

LEMMA DistinctCount ==
    ASSUME NEW T, NEW s \in Seq(T), Distinct(s)
    PROVE  IsFiniteSet(ToSet(s)) /\ Cardinality(ToSet(s)) = Len(s)
<1> DEFINE n == Len(s)
           R == ToSet(s)
<1>1. n \in Nat /\ DOMAIN s = 1 .. n /\ s = [i \in 1 .. n |-> s[i]]
    BY LenProperties
<1>2. R = {s[i] : i \in 1 .. n}
    BY <1>1 DEF ToSet
<1> HIDE DEF n, R
<1>3. s \in [1 .. n -> R] /\ \A i, j \in 1 .. n : s[i] = s[j] => i = j
    BY <1>1, <1>2 DEF Distinct
<1>4. \A y \in R : \E i \in 1 .. n : s[i] = y
    BY <1>2
<1>5. s \in Bijection(1 .. n, R)
    BY <1>3, <1>4 DEF Bijection, Injection, Surjection, IsInjective
<1>6. ExistsBijection(1 .. n, R)
    BY <1>5 DEF ExistsBijection
<1>7. IsFiniteSet(1 .. n) /\ Cardinality(1 .. n) = n
    <2>1. 1 \in Int /\ n \in Int /\ n - 1 + 1 = n
        BY <1>1
    <2>2. IsFiniteSet(1 .. n) /\ Cardinality(1 .. n) = IF 1 > n THEN 0 ELSE n - 1 + 1
        BY ONLY <2>1, FS_Interval
    <2> QED
        BY <1>1, <2>1, <2>2
<1> QED
    BY <1>6, <1>7, FS_Bijection DEF n, R

LEMMA DistinctAppend ==
    ASSUME NEW T, NEW s \in Seq(T), NEW x \in T \ ToSet(s), Distinct(s)
    PROVE  Distinct(Append(s, x))
<1> DEFINE t == Append(s, x)
           n == Len(s)
<1>1. /\ n \in Nat /\ DOMAIN s = 1 .. n /\ DOMAIN t = 1 .. (n + 1)
      /\ t[n + 1] = x /\ \A i \in 1 .. n : t[i] = s[i]
    BY AppendProperties, LenProperties
<1>2. \A i \in 1 .. n : s[i] # x
    BY <1>1 DEF ToSet
<1> HIDE DEF t, n
<1> SUFFICES ASSUME NEW i \in DOMAIN t, NEW j \in DOMAIN t, t[i] = t[j] PROVE i = j
    BY DEF Distinct, t
<1> QED
    BY <1>1, <1>2 DEF Distinct

-----------------------------------------------------------------------------
(* A request passes the frontend once.                                     *)

\* Where a frontend worker's request is on its way to a flight.
Screening == {"got", "screen", "join"}

\* The queue holds a request once, ...
QueuedOnce ==
    \A i, j \in DOMAIN frontQ : frontQ[i] = frontQ[j] /\ frontQ[i] # Stop => i = j

\* ... one worker holds it, after the queue, ...
ScreenedOnce ==
    \A w \in Frontends : pc[w] \in Screening =>
        /\ holds[w] \notin ToSet(frontQ)
        /\ \A v \in Frontends : pc[v] \in Screening /\ holds[v] = holds[w] => v = w

\* ... and it waits after that, once, ...
WaitsOnce ==
    /\ \A w \in Frontends : pc[w] \in Screening => holds[w] \notin AllWaiters
    /\ \A r \in Requests : r \in ToSet(frontQ) => r \notin AllWaiters
    /\ \A k \in DOMAIN flights : Distinct(flights[k])

\* ... all of it after its submission.
SubmittedFirst ==
    \A r \in Requests : pc[r] # "done" =>
        /\ r \notin ToSet(frontQ) /\ r \notin AllWaiters
        /\ \A w \in Frontends : pc[w] \in Screening => holds[w] # r

Counted ==
    /\ Cardinality(pending) <= MaxConnections
    /\ Len(frontQ) <= FrontendCapacity /\ Len(backQ) <= BackendCapacity
    /\ \A k \in DOMAIN flights : Len(flights[k]) <= MaxWaitersPerKey
    /\ waiters = Cardinality(AllWaiters) /\ waiters <= MaxWaitersGlobal
    /\ IsFiniteSet(due) /\ Cardinality(due) <= MaxPending

Flow == QueuedOnce /\ ScreenedOnce /\ WaitsOnce /\ SubmittedFirst
BoundsInvariant == Flow /\ Counted

LEMMA BoundsInit == ServiceInit => BoundsInvariant
<1> SUFFICES ASSUME ServiceInit PROVE BoundsInvariant
    OBVIOUS
<1>1. PICK load \in Workloads :
          pc = [p \in Processes |->
                  IF p \in Workers
                  THEN IF p \in load.frontends \cup Backends THEN "idle" ELSE "absent"
                  ELSE IF p \in Requests THEN IF p \in load.requests THEN "new" ELSE "absent"
                  ELSE IF load.shutdown THEN "off" ELSE "never"]
    BY DEF ServiceInit
<1>2. frontQ = <<>> /\ backQ = <<>> /\ flights = [k \in {} |-> <<>>] /\ waiters = 0
      /\ pending = {} /\ due = {}
    BY DEF ServiceInit, FlightsInit, PaddingInit
<1>3. \A w \in Frontends : pc[w] \notin Screening
    BY <1>1 DEF Screening, Processes, Workers
<1>4. AllWaiters = {} /\ DOMAIN flights = {} /\ ToSet(frontQ) = {}
    BY <1>2, EmptyToSet DEF AllWaiters
<1>5. Counted
    BY <1>2, <1>4, FS_EmptySet, ServiceConstants, WaiterCaps, PaddingConstants DEF Counted
<1> QED
    BY <1>2, <1>3, <1>4, <1>5
       DEF BoundsInvariant, Flow, QueuedOnce, ScreenedOnce, WaitsOnce, SubmittedFirst

LEMMA WaitersFinite ==
    ASSUME SharedOK
    PROVE  IsFiniteSet(AllWaiters) /\ Cardinality(AllWaiters) \in Nat
BY WaitersAreRequests, ServiceConstants, FS_Subset, FS_CardinalityType

\* A waiter waits in the flight of its own key.
LEMMA WaitersByKey ==
    ASSUME SharedOK, NEW k \in DOMAIN flights
    PROVE  /\ ToSet(flights[k]) = {r \in AllWaiters : KeyOf[r] = k}
           /\ flights[k] \in Seq(Requests)
<1>1. \A j \in DOMAIN flights : \A r \in ToSet(flights[j]) : KeyOf[r] = j
    <2> TAKE j \in DOMAIN flights
    <2>1. flights[j] \in Seq(SameKey(j))
        BY DEF SharedOK
    <2>2. \A i \in DOMAIN flights[j] : flights[j][i] \in SameKey(j)
        BY <2>1, LenProperties, ElementOfSeq
    <2> QED
        BY <2>2 DEF ToSet, SameKey
<1> QED
    BY <1>1, WaitersAreRequests DEF AllWaiters

\* Steps after which no other request is queued, screened or waiting.
Receding ==
    /\ ToSet(frontQ') \subseteq ToSet(frontQ) \cup {Stop}
    /\ \A r \in Requests : pc'[r] = pc[r]
    /\ \A w \in Frontends : pc'[w] \in Screening => pc[w] \in Screening /\ holds'[w] = holds[w]
    /\ \A k \in DOMAIN flights' :
          flights'[k] = <<>> \/ (k \in DOMAIN flights /\ flights'[k] = flights[k])

LEMMA RecedingKeeps ==
    ASSUME WorkersOK, ScreenedOnce, WaitsOnce, SubmittedFirst, Receding
    PROVE  ScreenedOnce' /\ WaitsOnce' /\ SubmittedFirst'
<1>1. AllWaiters' \subseteq AllWaiters
    BY EmptyToSet DEF AllWaiters, Receding
<1>2. \A w \in Frontends : pc[w] \in Screening => holds[w] \in Requests
    BY DEF WorkersOK, Screening, Workers
<1>3. Stop \notin Requests
    BY ServiceConstants
<1>4. ScreenedOnce'
    BY <1>2, <1>3 DEF ScreenedOnce, Receding
<1>5. WaitsOnce'
    BY <1>1, <1>3 DEF WaitsOnce, Receding, Distinct
<1>6. SubmittedFirst'
    BY <1>1, <1>3 DEF SubmittedFirst, Receding
<1> QED
    BY <1>4, <1>5, <1>6

LEMMA FinishRecedes ==
    ASSUME NEW r, FinishFlight(r)
    PROVE  \A k \in DOMAIN flights' : k \in DOMAIN flights /\ flights'[k] = flights[k]
BY DEF FinishFlight, Finish, flightVars

\* Ending a flight takes its waiters off the count.
LEMMA FinishCounts ==
    ASSUME SharedOK, WaitsOnce, Counted, NEW r, FinishFlight(r)
    PROVE  /\ waiters' = Cardinality(AllWaiters') /\ waiters' <= MaxWaitersGlobal
           /\ \A k \in DOMAIN flights' : Len(flights'[k]) <= MaxWaitersPerKey
<1>1. \A k \in DOMAIN flights' : Len(flights'[k]) <= MaxWaitersPerKey
    BY FinishRecedes DEF Counted
<1>2. CASE r \in leaders /\ KeyOf[r] \in DOMAIN flights
    <2> DEFINE k == KeyOf[r]
               W == ToSet(flights[k])
    <2>1. flights' = [j \in DOMAIN flights \ {k} |-> flights[j]]
          /\ waiters' = waiters - Len(flights[k])
        BY <1>2 DEF FinishFlight, Finish, WaitersOf
    <2>2. flights[k] \in Seq(Requests) /\ W = {q \in AllWaiters : KeyOf[q] = k}
        BY <1>2, WaitersByKey
    <2>3. AllWaiters' = AllWaiters \ W
        <3>1. \A j \in DOMAIN flights : ToSet(flights[j]) = {q \in AllWaiters : KeyOf[q] = j}
            BY WaitersByKey
        <3> HIDE DEF k
        <3> QED
            BY <2>1, <2>2, <3>1 DEF AllWaiters
    <2>4. IsFiniteSet(W) /\ Cardinality(W) = Len(flights[k])
        BY <1>2, <2>2, DistinctCount DEF WaitsOnce
    <2>5. Cardinality(AllWaiters') = Cardinality(AllWaiters) - Len(flights[k])
        <3> HIDE DEF W
        <3>1. AllWaiters \cap W = W
            BY <2>2
        <3>2. IsFiniteSet(AllWaiters)
            BY WaitersFinite
        <3>3. Cardinality(AllWaiters \ W) = Cardinality(AllWaiters) - Cardinality(W)
            BY <3>1, <3>2, FS_Difference
        <3> QED
            BY <2>3, <2>4, <3>3
    <2>6. Len(flights[k]) \in Nat
        BY <2>2, LenProperties
    <2> QED
        BY <1>1, <2>1, <2>5, <2>6, WaitersFinite, WaiterCaps DEF Counted
<1>3. CASE r \in leaders /\ KeyOf[r] \notin DOMAIN flights
    <2>1. flights' = [j \in DOMAIN flights |-> flights[j]] /\ waiters' = waiters - Len(<<>>)
        BY <1>3 DEF FinishFlight, Finish, WaitersOf
    <2>2. AllWaiters' = AllWaiters
        BY <2>1 DEF AllWaiters
    <2>3. waiters' = waiters
        BY <2>1, WaitersFinite DEF Counted
    <2> QED
        BY <1>1, <2>2, <2>3 DEF Counted
<1>4. CASE r \notin leaders
    BY <1>1, <1>4 DEF FinishFlight, flightVars, Counted, AllWaiters
<1> QED
    BY <1>2, <1>3, <1>4

-----------------------------------------------------------------------------
(* The bounds, step by step.                                               *)

LEMMA QueueLengths ==
    ASSUME NEW q \in Seq(Requests \cup {Stop})
    PROVE  /\ Len(q) \in Nat
           /\ \A x \in Requests \cup {Stop} :
                 /\ Append(q, x) \in Seq(Requests \cup {Stop})
                 /\ Len(Append(q, x)) = Len(q) + 1
           /\ q # <<>> => /\ Head(q) \in Requests \cup {Stop}
                          /\ Tail(q) \in Seq(Requests \cup {Stop})
                          /\ Len(Tail(q)) = Len(q) - 1
BY LenProperties, AppendProperties, HeadTailProperties

\* Steps that add nothing to what is counted, but flights may end.
NotMore ==
    /\ pending' = pending
    /\ frontQ' = frontQ \/ (frontQ # <<>> /\ frontQ' = Tail(frontQ))
       \/ (Len(frontQ) < FrontendCapacity /\ \E x \in Requests \cup {Stop} : frontQ' = Append(frontQ, x))
    /\ backQ' = backQ \/ (backQ # <<>> /\ backQ' = Tail(backQ))
       \/ (Len(backQ) < BackendCapacity /\ \E x \in Requests \cup {Stop} : backQ' = Append(backQ, x))
    /\ due' = due \/ due' = {}

LEMMA CountsKept ==
    ASSUME QueuesOK, SharedOK, WaitsOnce, Counted, NotMore,
           \/ UNCHANGED flightVars
           \/ \E r : FinishFlight(r)
           \/ CancelAll
    PROVE  Counted'
<1>1. Cardinality(pending') <= MaxConnections
    BY DEF NotMore, Counted
<1>2. Len(frontQ') <= FrontendCapacity
    <2>1. Len(frontQ) \in Nat /\ FrontendCapacity \in Nat
        BY QueueLengths, ServiceConstants DEF QueuesOK
    <2>2. CASE frontQ' = frontQ
        BY <2>2 DEF Counted
    <2>3. CASE frontQ # <<>> /\ frontQ' = Tail(frontQ)
        BY <2>1, <2>3, QueueLengths DEF QueuesOK, Counted
    <2>4. ASSUME Len(frontQ) < FrontendCapacity, NEW x \in Requests \cup {Stop},
                 frontQ' = Append(frontQ, x)
          PROVE  Len(frontQ') <= FrontendCapacity
        BY <2>1, <2>4, QueueLengths DEF QueuesOK
    <2> QED
        BY <2>2, <2>3, <2>4 DEF NotMore
<1>3. Len(backQ') <= BackendCapacity
    <2>1. Len(backQ) \in Nat /\ BackendCapacity \in Nat
        BY QueueLengths, ServiceConstants DEF QueuesOK
    <2>2. CASE backQ' = backQ
        BY <2>2 DEF Counted
    <2>3. CASE backQ # <<>> /\ backQ' = Tail(backQ)
        BY <2>1, <2>3, QueueLengths DEF QueuesOK, Counted
    <2>4. ASSUME Len(backQ) < BackendCapacity, NEW x \in Requests \cup {Stop},
                 backQ' = Append(backQ, x)
          PROVE  Len(backQ') <= BackendCapacity
        BY <2>1, <2>4, QueueLengths DEF QueuesOK
    <2> QED
        BY <2>2, <2>3, <2>4 DEF NotMore
<1>4. IsFiniteSet(due') /\ Cardinality(due') <= MaxPending
    <2>1. CASE due' = due
        BY <2>1 DEF Counted
    <2>2. CASE due' = {}
        <3>1. IsFiniteSet(due') /\ Cardinality(due') = 0
            BY <2>2, FS_EmptySet
        <3> QED
            BY <3>1, PaddingConstants
    <2> QED
        BY <2>1, <2>2 DEF NotMore
<1>5. /\ waiters' = Cardinality(AllWaiters') /\ waiters' <= MaxWaitersGlobal
      /\ \A k \in DOMAIN flights' : Len(flights'[k]) <= MaxWaitersPerKey
    <2>1. CASE UNCHANGED flightVars
        BY <2>1 DEF flightVars, Counted, AllWaiters
    <2>2. CASE \E r : FinishFlight(r)
        BY <2>2, FinishCounts
    <2>3. CASE CancelAll
        <3>1. AllWaiters' = {} /\ waiters' = 0 /\ DOMAIN flights' = {}
            BY <2>3 DEF CancelAll, AllWaiters
        <3> QED
            BY <3>1, FS_EmptySet, WaiterCaps
    <2> QED
        BY <2>1, <2>2, <2>3
<1> QED
    BY <1>1, <1>2, <1>3, <1>4, <1>5 DEF Counted

\* A request enters.
LEMMA SubmitBounds ==
    ASSUME ServiceInvariant, BoundsInvariant, NEW r \in Requests, Submit(r)
    PROVE  BoundsInvariant'
<1> USE DEF ServiceInvariant, BoundsInvariant, Flow
<1> QueuesOK /\ SharedOK /\ WorkersOK /\ DOMAIN pc = Processes /\ pending \subseteq Requests
    BY DEF AnswersInvariant, LedgerInvariant, LedgerTypeOK
<1> r \in Processes /\ r \notin Workers
    BY RequestIsNoWorker
<1>1. UNCHANGED <<frontQ, backQ, flights, waiters, due, holds>>
    BY DEF Submit, queueVars, workVars, flightVars, paddingVars
<1>2. /\ pc[r] # "done"
      /\ \E place : Goto(r, place)
    BY DEF Submit, At, Refuse, Admit
<1>3. /\ \A q \in Requests : q # r => pc'[q] = pc[q]
      /\ \A w \in Frontends : pc'[w] = pc[w]
    BY <1>2 DEF Goto, Workers, Processes
<1>4. AllWaiters' = AllWaiters
    BY <1>1 DEF AllWaiters
<1>5. QueuedOnce' /\ ScreenedOnce' /\ WaitsOnce'
    BY <1>1, <1>3, <1>4 DEF QueuedOnce, ScreenedOnce, WaitsOnce, Distinct
<1>6. SubmittedFirst'
    BY <1>1, <1>2, <1>3, <1>4 DEF SubmittedFirst
<1>7. Cardinality(pending') <= MaxConnections
    <2>1. CASE pending' = pending
        BY <2>1 DEF Counted
    <2>2. CASE Cardinality(pending) < MaxConnections /\ pending' = pending \cup {r}
        <3>1. IsFiniteSet(pending) /\ Cardinality(pending) \in Nat
            BY PendingFinite DEF LedgerInvariant
        <3>2. Cardinality(pending') = Cardinality(pending)
              \/ Cardinality(pending') = Cardinality(pending) + 1
            BY <2>2, <3>1, FS_AddElement
        <3> QED
            BY <2>2, <3>1, <3>2, ServiceConstants
    <2> QED
        BY <2>1, <2>2 DEF Submit, Refuse, Admit
<1>8. Counted'
    BY <1>1, <1>4, <1>7 DEF Counted
<1> QED
    BY <1>5, <1>6, <1>8

LEMMA EnqueueBounds ==
    ASSUME ServiceInvariant, BoundsInvariant, NEW r \in Requests, Enqueue(r)
    PROVE  BoundsInvariant'
<1> USE DEF ServiceInvariant, BoundsInvariant, Flow
<1> QueuesOK /\ SharedOK /\ WorkersOK /\ DOMAIN pc = Processes
    BY DEF AnswersInvariant, LedgerInvariant, LedgerTypeOK
<1> r \in Processes /\ r \notin Workers
    BY RequestIsNoWorker
<1>1. UNCHANGED <<pending, backQ, flights, waiters, due, holds>> /\ pc[r] # "done"
    BY DEF Enqueue, At, admissionVars, workVars, flightVars, paddingVars
<1>2. /\ \A q \in Requests : q # r => pc'[q] = pc[q]
      /\ pc'[r] = "done"
      /\ \A w \in Frontends : pc'[w] = pc[w]
    BY DEF Enqueue, Goto, Workers
<1>3. /\ r \notin ToSet(frontQ) /\ r \notin AllWaiters
      /\ \A w \in Frontends : pc[w] \in Screening => holds[w] # r
    BY <1>1 DEF SubmittedFirst
<1>4. AllWaiters' = AllWaiters
    BY <1>1 DEF AllWaiters
<1>5. ToSet(frontQ') \subseteq ToSet(frontQ) \cup {r}
    <2>1. ToSet(Append(frontQ, r)) = ToSet(frontQ) \cup {r}
        BY AppendToSet DEF QueuesOK
    <2> QED
        BY <2>1 DEF Enqueue
<1>6. QueuedOnce'
    <2>1. CASE frontQ' = frontQ
        BY <2>1 DEF QueuedOnce
    <2>2. CASE frontQ' = Append(frontQ, r)
        <3>1. /\ Len(frontQ) \in Nat /\ DOMAIN frontQ = 1 .. Len(frontQ)
              /\ DOMAIN frontQ' = 1 .. (Len(frontQ) + 1)
              /\ frontQ'[Len(frontQ) + 1] = r
              /\ \A i \in 1 .. Len(frontQ) : frontQ'[i] = frontQ[i]
            BY <2>2, AppendProperties, LenProperties DEF QueuesOK
        <3>2. \A i \in DOMAIN frontQ : frontQ[i] # r
            BY <1>3 DEF ToSet
        <3> QED
            BY <3>1, <3>2 DEF QueuedOnce
    <2> QED
        BY <2>1, <2>2 DEF Enqueue
<1>7. ScreenedOnce' /\ WaitsOnce'
    BY <1>1, <1>2, <1>3, <1>4, <1>5 DEF ScreenedOnce, WaitsOnce, Distinct
<1>8. SubmittedFirst'
    BY <1>1, <1>2, <1>4, <1>5 DEF SubmittedFirst
<1>9. Counted'
    <2>1. NotMore
        BY <1>1 DEF Enqueue, NotMore
    <2> QED
        BY <1>1, <2>1, CountsKept DEF flightVars
<1> QED
    BY <1>6, <1>7, <1>8, <1>9

\* A frontend takes the head of the queue.
LEMMA GetBounds ==
    ASSUME ServiceInvariant, BoundsInvariant, NEW w \in Frontends, FrontGet(w)
    PROVE  BoundsInvariant'
<1> USE DEF ServiceInvariant, BoundsInvariant, Flow
<1> QueuesOK /\ SharedOK /\ WorkersOK /\ DOMAIN pc = Processes
    BY DEF AnswersInvariant, LedgerInvariant, LedgerTypeOK
<1> w \in Processes /\ w \in Workers /\ w \notin Requests
    BY ServiceConstants DEF Processes, Workers
<1> DEFINE r == Head(frontQ)
<1>1. UNCHANGED <<pending, backQ, flights, waiters, due>>
    BY DEF FrontGet, frontendFrame, admissionVars, flightVars, paddingVars
<1>2. frontQ # <<>> /\ frontQ' = Tail(frontQ) /\ r \in Requests \cup {Stop}
    BY QueueLengths DEF FrontGet, QueuesOK
<1>3. /\ ToSet(frontQ) = ToSet(frontQ') \cup {r}
      /\ Len(frontQ) \in Nat \ {0} /\ DOMAIN frontQ = 1 .. Len(frontQ)
      /\ DOMAIN frontQ' = 1 .. (Len(frontQ) - 1) /\ r = frontQ[1]
      /\ \A i \in 1 .. (Len(frontQ) - 1) : frontQ'[i] = frontQ[i + 1]
    BY <1>2, TailToSet, HeadTailProperties, LenProperties, EmptySeq DEF QueuesOK
<1>4. /\ \A q \in Requests : pc'[q] = pc[q]
      /\ \A v \in Frontends : v # w => pc'[v] = pc[v] /\ holds'[v] = holds[v]
      /\ holds'[w] = r
      /\ pc'[w] = IF r = Stop THEN "stopped" ELSE "got"
    BY DEF FrontGet, Goto, WorkersOK, Workers
<1> HIDE DEF r
<1>5. AllWaiters' = AllWaiters
    BY <1>1 DEF AllWaiters
<1>6. QueuedOnce'
    <2> SUFFICES ASSUME NEW i \in DOMAIN frontQ', NEW j \in DOMAIN frontQ',
                        frontQ'[i] = frontQ'[j], frontQ'[i] # Stop
                 PROVE  i = j
        BY DEF QueuedOnce
    <2>1. i \in Int /\ j \in Int /\ i + 1 \in DOMAIN frontQ /\ j + 1 \in DOMAIN frontQ
          /\ frontQ'[i] = frontQ[i + 1] /\ frontQ'[j] = frontQ[j + 1]
        BY <1>3
    <2>2. i + 1 = j + 1
        BY <2>1 DEF QueuedOnce
    <2> QED
        BY <2>1, <2>2
<1>7. r # Stop => r \notin ToSet(frontQ')
    <2> SUFFICES ASSUME r # Stop, NEW i \in DOMAIN frontQ', frontQ'[i] = r PROVE FALSE
        BY DEF ToSet
    <2>1. i + 1 \in DOMAIN frontQ /\ 1 \in DOMAIN frontQ /\ frontQ[i + 1] = frontQ[1]
          /\ i + 1 # 1 /\ frontQ[1] # Stop
        BY <1>3
    <2> QED
        BY <2>1 DEF QueuedOnce
<1>8. ScreenedOnce'
    BY <1>3, <1>4, <1>7 DEF ScreenedOnce, Screening
<1>9. WaitsOnce'
    BY <1>1, <1>2, <1>3, <1>4, <1>5 DEF WaitsOnce, Screening, Distinct
<1>10. SubmittedFirst'
    BY <1>1, <1>3, <1>4, <1>5, ServiceConstants DEF SubmittedFirst, Screening
<1>11. Counted'
    <2>1. NotMore
        BY <1>1, <1>2 DEF NotMore
    <2> QED
        BY <1>1, <2>1, CountsKept DEF flightVars
<1> QED
    BY <1>6, <1>8, <1>9, <1>10, <1>11

\* A frontend's request joins the waiters of a flight.
LEMMA JoinBounds ==
    ASSUME ServiceInvariant, BoundsInvariant, NEW w \in Frontends, FrontJoin(w),
           Join(KeyOf[holds[w]], holds[w])
    PROVE  BoundsInvariant'
<1> USE DEF ServiceInvariant, BoundsInvariant, Flow
<1> QueuesOK /\ SharedOK /\ WorkersOK /\ DOMAIN pc = Processes
    BY DEF AnswersInvariant, LedgerInvariant, LedgerTypeOK
<1> w \in Processes /\ w \in Workers /\ w \notin Requests
    BY ServiceConstants DEF Processes, Workers
<1> DEFINE r == holds[w]
           k == KeyOf[r]
<1>1. UNCHANGED <<pending, frontQ, backQ, due, holds>>
    BY DEF FrontJoin, frontendFrame, admissionVars, queueVars, paddingVars
<1>2. pc[w] = "join" /\ r \in Requests /\ \E place : place \notin Screening /\ Goto(w, place)
    BY DEF FrontJoin, At, WorkersOK, Screening
<1>3. /\ \A q \in Requests : pc'[q] = pc[q]
      /\ \A v \in Frontends : v # w => pc'[v] = pc[v]
      /\ pc'[w] \notin Screening
    BY <1>2 DEF Goto, Workers
<1>4. /\ k \in DOMAIN flights /\ Len(flights[k]) < MaxWaitersPerKey /\ waiters < MaxWaitersGlobal
      /\ flights' = [flights EXCEPT ![k] = Append(flights[k], r)] /\ waiters' = waiters + 1
    <2>1. flights[k] \in Seq(Requests) /\ k \in DOMAIN flights
        BY WaitersByKey DEF Join
    <2>2. Len(flights[k]) \in Nat /\ waiters \in Nat
        BY <2>1, LenProperties, WaitersFinite DEF Counted
    <2> QED
        BY <2>2, WaiterCaps DEF Join, Overloaded
<1>5. /\ r \notin ToSet(frontQ) /\ r \notin AllWaiters /\ pc[r] = "done"
      /\ \A v \in Frontends : pc[v] \in Screening /\ holds[v] = r => v = w
    BY <1>2 DEF ScreenedOnce, WaitsOnce, SubmittedFirst, Screening
<1>6. flights[k] \in Seq(Requests) /\ r \notin ToSet(flights[k])
    BY <1>4, <1>5, WaitersByKey
<1> HIDE DEF r, k
<1>7. /\ ToSet(flights'[k]) = ToSet(flights[k]) \cup {r}
      /\ Len(flights'[k]) = Len(flights[k]) + 1 /\ Len(flights[k]) \in Nat
      /\ DOMAIN flights' = DOMAIN flights
      /\ \A j \in DOMAIN flights : j # k => flights'[j] = flights[j]
    <2>1. flights'[k] = Append(flights[k], r)
        BY <1>4
    <2> QED
        BY <1>2, <1>4, <1>6, <2>1, AppendToSet, AppendProperties, LenProperties
<1>8. AllWaiters' = AllWaiters \cup {r}
    BY <1>4, <1>7 DEF AllWaiters
<1>9. Distinct(flights'[k])
    <2>1. Distinct(Append(flights[k], r))
        BY <1>2, <1>4, <1>6, DistinctAppend DEF WaitsOnce
    <2> QED
        BY <1>4, <2>1
<1>10. QueuedOnce' /\ ScreenedOnce'
    BY <1>1, <1>3 DEF QueuedOnce, ScreenedOnce
<1>11. WaitsOnce'
    <2>1. \A v \in Frontends : pc'[v] \in Screening => holds'[v] \notin AllWaiters'
        BY <1>1, <1>3, <1>5, <1>8 DEF WaitsOnce
    <2>2. \A q \in Requests : q \in ToSet(frontQ') => q \notin AllWaiters'
        BY <1>1, <1>5, <1>8 DEF WaitsOnce
    <2>3. \A j \in DOMAIN flights' : Distinct(flights'[j])
        BY <1>7, <1>9 DEF WaitsOnce
    <2> QED
        BY <2>1, <2>2, <2>3 DEF WaitsOnce, Distinct
<1>12. SubmittedFirst'
    BY <1>1, <1>3, <1>5, <1>8 DEF SubmittedFirst
<1>13. Counted'
    <2>1. Cardinality(AllWaiters') = Cardinality(AllWaiters) + 1 /\ Cardinality(AllWaiters) \in Nat
        BY <1>5, <1>8, WaitersFinite, FS_AddElement
    <2>2. waiters' = Cardinality(AllWaiters') /\ waiters' <= MaxWaitersGlobal
        BY <1>4, <2>1, WaiterCaps DEF Counted
    <2>3. \A j \in DOMAIN flights' : Len(flights'[j]) <= MaxWaitersPerKey
        BY <1>4, <1>7, WaiterCaps DEF Counted
    <2> QED
        BY <1>1, <2>2, <2>3 DEF Counted
<1> QED
    BY <1>10, <1>11, <1>12, <1>13

\* No other step of a worker adds anything.
LEMMA WorkersRecede ==
    ASSUME ServiceInvariant, BoundsInvariant, NEW w \in Workers,
           \/ w \in Frontends /\ FrontStep(w) /\ ~FrontGet(w)
              /\ ~(FrontJoin(w) /\ Join(KeyOf[holds[w]], holds[w]))
           \/ w \in Backends /\ (BackStep(w) \/ BackHangs(w))
    PROVE  BoundsInvariant'
<1> USE DEF ServiceInvariant, BoundsInvariant, Flow
<1> QueuesOK /\ SharedOK /\ WorkersOK /\ DOMAIN pc = Processes
    BY DEF AnswersInvariant, LedgerInvariant, LedgerTypeOK
<1> w \in Processes /\ w \notin Requests
    BY ServiceConstants DEF Processes
<1>1. UNCHANGED <<pending, frontQ, due>>
    BY DEF FrontStep, FrontBegin, FrontScreen, FrontRaises, FrontJoin, FrontPut,
           FrontDrop, FrontEnd, BackStep, BackHangs, BackGet, BackBegin, BackVerify,
           BackInsert, BackFinish, BackEnd, frontendFrame, admissionVars, queueVars, paddingVars
<1>2. \A q \in Requests : pc'[q] = pc[q]
    BY FrontLeavesLedger, BackLeavesLedger DEF LedgerInvariant, Elsewhere
<1>3. \A v \in Frontends : pc'[v] \in Screening => pc[v] \in Screening /\ holds'[v] = holds[v]
    <2>1. \A v \in Workers \ {w} : pc'[v] = pc[v] /\ holds'[v] = holds[v]
        <3>1. \E place : Goto(w, place)
            BY DEF FrontStep, FrontBegin, FrontScreen, FrontRaises, FrontJoin, FrontPut,
                   FrontDrop, FrontEnd, BackStep, BackHangs, BackGet, BackBegin, BackVerify,
                   BackInsert, BackFinish, BackEnd
        <3>2. holds' = holds \/ \E item : holds' = [holds EXCEPT ![w] = item]
            BY DEF FrontStep, FrontBegin, FrontScreen, FrontRaises, FrontJoin, FrontPut,
                   FrontDrop, FrontEnd, BackStep, BackHangs, BackGet, BackBegin, BackVerify,
                   BackInsert, BackFinish, BackEnd, workVars
        <3> QED
            BY <3>1, <3>2 DEF Goto, WorkersOK
    <2>2. w \in Frontends /\ pc'[w] \in Screening => pc[w] \in Screening /\ holds' = holds
        <3>1. w \in Frontends => w \notin Backends
            BY ServiceConstants
        <3> QED
            BY <3>1
               DEF FrontStep, FrontBegin, FrontScreen, FrontRaises, FrontJoin, FrontPut,
                   FrontDrop, FrontEnd, At, Goto, Screening, workVars
    <2> QED
        BY <2>1, <2>2 DEF Workers
<1>4. \/ UNCHANGED flightVars
      \/ \E k : Lead(k)
      \/ \E r : FinishFlight(r)
    BY DEF FrontStep, FrontBegin, FrontScreen, FrontRaises, FrontJoin, FrontPut,
           FrontDrop, FrontEnd, BackStep, BackHangs, BackGet, BackBegin, BackVerify,
           BackInsert, BackFinish, BackEnd, workVars, Reject
<1>5. \A k \in DOMAIN flights' :
          flights'[k] = <<>> \/ (k \in DOMAIN flights /\ flights'[k] = flights[k])
    BY <1>4, FinishRecedes DEF Lead, flightVars
<1>6. Receding /\ QueuedOnce'
    BY <1>1, <1>2, <1>3, <1>5 DEF Receding, QueuedOnce
<1>7. QueuedOnce' /\ ScreenedOnce' /\ WaitsOnce' /\ SubmittedFirst'
    BY <1>6, RecedingKeeps
<1>8. NotMore
    <2>1. \/ backQ' = backQ
          \/ backQ # <<>> /\ backQ' = Tail(backQ)
          \/ Len(backQ) < BackendCapacity /\ backQ' = Append(backQ, holds[w])
             /\ holds[w] \in Requests
        BY DEF FrontStep, FrontBegin, FrontScreen, FrontRaises, FrontJoin, FrontPut,
               FrontDrop, FrontEnd, BackStep, BackHangs, BackGet, BackBegin, BackVerify,
               BackInsert, BackFinish, BackEnd, queueVars, WorkersOK, At
    <2> QED
        BY <1>1, <2>1 DEF NotMore
<1>9. Counted'
    <2>1. CASE UNCHANGED flightVars \/ \E r : FinishFlight(r)
        BY <1>8, <2>1, CountsKept
    <2>2. ASSUME NEW k, Lead(k) PROVE Counted'
        <3>1. AllWaiters' = AllWaiters /\ waiters' = waiters
            BY <2>2, EmptyToSet DEF Lead, AllWaiters
        <3>2. \A j \in DOMAIN flights' : Len(flights'[j]) <= MaxWaitersPerKey
            BY <2>2, EmptySeq, WaiterCaps DEF Lead, Counted
        <3>3. /\ UNCHANGED <<pending, frontQ, due>>
            BY <1>1
        <3>4. backQ' = backQ
            BY <2>2 DEF FrontStep, FrontBegin, FrontScreen, FrontRaises, FrontJoin, FrontPut,
               FrontDrop, FrontEnd, BackStep, BackHangs, BackGet, BackBegin, BackVerify,
               BackInsert, BackFinish, BackEnd, queueVars, workVars, flightVars, Lead,
               FinishFlight, Finish
        <3> QED
            BY <3>1, <3>2, <3>3, <3>4 DEF Counted
    <2> QED
        BY <1>4, <2>1, <2>2
<1> QED
    BY <1>7, <1>9

\* Completions that are made, delayed or released.
LEMMA CompletionsBounded ==
    ASSUME ServiceInvariant, BoundsInvariant, (\E p \in Processes : Complete(p)) \/ TimerStep
    PROVE  BoundsInvariant'
<1> USE DEF ServiceInvariant, BoundsInvariant, Flow
<1>1. UNCHANGED <<pc, frontQ, backQ, holds, flights, waiters>>
    BY DEF Complete, CompleteLater, CompleteUnpadded, CompleteNow, TimerStep, TimerCallback,
           completionFrame, queueVars, workVars, flightVars
<1>2. AllWaiters' = AllWaiters
    BY <1>1 DEF AllWaiters
<1>3. QueuedOnce' /\ ScreenedOnce' /\ WaitsOnce' /\ SubmittedFirst'
    BY <1>1, <1>2 DEF QueuedOnce, ScreenedOnce, WaitsOnce, SubmittedFirst, Distinct
<1>4. Cardinality(pending') <= MaxConnections
    <2>1. pending' \subseteq pending
        BY CompletionsQuiet DEF Quiet
    <2>2. IsFiniteSet(pending) /\ Cardinality(pending) \in Nat
        BY PendingFinite DEF LedgerInvariant
    <2>3. Cardinality(pending') \in Nat /\ Cardinality(pending') <= Cardinality(pending)
        BY <2>1, <2>2, FS_Subset, FS_CardinalityType
    <2> QED
        BY <2>2, <2>3, ServiceConstants DEF Counted
<1>5. IsFiniteSet(due') /\ Cardinality(due') <= MaxPending
    <2>1. IsFiniteSet(due) /\ Cardinality(due) \in Nat /\ MaxPending \in Nat
        BY FS_CardinalityType, PaddingConstants DEF Counted
    <2>2. CASE due' = due
        BY <2>2 DEF Counted
    <2>3. ASSUME NEW x, Schedule(x) PROVE IsFiniteSet(due') /\ Cardinality(due') <= MaxPending
        <3>1. due' = due \cup {x} /\ Cardinality(due) < MaxPending
            BY <2>3 DEF Schedule, Room
        <3>2. IsFiniteSet(due')
              /\ Cardinality(due') = IF x \in due THEN Cardinality(due) ELSE Cardinality(due) + 1
            BY <2>1, <3>1, FS_AddElement
        <3> QED
            BY <2>1, <3>1, <3>2
    <2>4. CASE PopDue
        <3>1. due' \subseteq due
            BY <2>4 DEF PopDue
        <3>2. IsFiniteSet(due') /\ Cardinality(due') \in Nat /\ Cardinality(due') <= Cardinality(due)
            BY <2>1, <3>1, FS_Subset, FS_CardinalityType
        <3> QED
            BY <2>1, <3>2 DEF Counted
    <2> QED
        BY <2>2, <2>3, <2>4
           DEF Complete, CompleteLater, CompleteUnpadded, CompleteNow, TimerStep, TimerCallback,
               TimerStops, Called, paddingVars
<1>6. Counted'
    BY <1>1, <1>2, <1>4, <1>5 DEF Counted
<1> QED
    BY <1>3, <1>6

\* A shutdown adds stops to the queues, while there is room.
LEMMA ShutdownBounds ==
    ASSUME ServiceInvariant, BoundsInvariant, BeginShutdown \/ ShutdownStep \/ TimePasses
    PROVE  BoundsInvariant'
<1> USE DEF ServiceInvariant, BoundsInvariant, Flow
<1> QueuesOK /\ SharedOK /\ WorkersOK /\ DOMAIN pc = Processes
    BY DEF AnswersInvariant, LedgerInvariant, LedgerTypeOK
<1>1. UNCHANGED <<pending, holds>> /\ (due' = due \/ due' = {})
    BY DEF BeginShutdown, ShutdownStep, TimePasses, ReadPadding, ReadRest, DropPadding,
           CancelFrontendQueue, StopFrontends, JoinFrontends, CancelBackendQueue,
           StopBackends, JoinBackends, DropPaddingAgain, StopTimer, JoinTimer,
           CancelFlights, CancelPendingRequests, Report, CancelPending, StopPadding,
           closingFrame, admissionVars, workVars, paddingVars
<1>2. \A p \in Requests \cup Workers : pc'[p] = pc[p]
    <2>1. pc' = pc \/ \E place : Goto("shutdown", place)
        BY DEF BeginShutdown, ShutdownStep, TimePasses, ReadPadding, ReadRest, DropPadding,
               CancelFrontendQueue, StopFrontends, JoinFrontends, CancelBackendQueue,
               StopBackends, JoinBackends, DropPaddingAgain, StopTimer, JoinTimer,
               CancelFlights, CancelPendingRequests, Report, AfterFrontends, AfterBackends
    <2>2. ASSUME NEW place, pc' = [pc EXCEPT !["shutdown"] = place],
                 NEW p \in Requests \cup Workers
          PROVE  pc'[p] = pc[p]
        BY <2>2, ServiceConstants
    <2> QED
        BY <2>1, <2>2 DEF Goto
<1>3. UNCHANGED flightVars \/ (\E r : FinishFlight(r)) \/ CancelAll
    BY DEF BeginShutdown, ShutdownStep, TimePasses, ReadPadding, ReadRest, DropPadding,
           CancelFrontendQueue, StopFrontends, JoinFrontends, CancelBackendQueue,
           StopBackends, JoinBackends, DropPaddingAgain, StopTimer, JoinTimer,
           CancelFlights, CancelPendingRequests, Report, workVars
<1>4. \/ frontQ' = frontQ
      \/ frontQ # <<>> /\ frontQ' = Tail(frontQ)
      \/ Len(frontQ) < FrontendCapacity /\ frontQ' = Append(frontQ, Stop)
    BY DEF BeginShutdown, ShutdownStep, TimePasses, ReadPadding, ReadRest, DropPadding,
           CancelFrontendQueue, StopFrontends, JoinFrontends, CancelBackendQueue,
           StopBackends, JoinBackends, DropPaddingAgain, StopTimer, JoinTimer,
           CancelFlights, CancelPendingRequests, Report, queueVars
<1>5. \/ backQ' = backQ
      \/ backQ # <<>> /\ backQ' = Tail(backQ)
      \/ Len(backQ) < BackendCapacity /\ backQ' = Append(backQ, Stop)
    BY DEF BeginShutdown, ShutdownStep, TimePasses, ReadPadding, ReadRest, DropPadding,
           CancelFrontendQueue, StopFrontends, JoinFrontends, CancelBackendQueue,
           StopBackends, JoinBackends, DropPaddingAgain, StopTimer, JoinTimer,
           CancelFlights, CancelPendingRequests, Report, queueVars
<1>6. NotMore
    BY <1>1, <1>4, <1>5 DEF NotMore
<1>7. Counted'
    BY <1>3, <1>6, CountsKept
<1>8. QueuedOnce' /\ ToSet(frontQ') \subseteq ToSet(frontQ) \cup {Stop}
    <2>1. CASE frontQ' = frontQ
        BY <2>1 DEF QueuedOnce
    <2>2. CASE frontQ # <<>> /\ frontQ' = Tail(frontQ)
        <3>1. /\ ToSet(frontQ) = ToSet(frontQ') \cup {Head(frontQ)}
              /\ Len(frontQ) \in Nat \ {0} /\ DOMAIN frontQ = 1 .. Len(frontQ)
              /\ DOMAIN frontQ' = 1 .. (Len(frontQ) - 1)
              /\ \A i \in 1 .. (Len(frontQ) - 1) : frontQ'[i] = frontQ[i + 1]
            BY <2>2, TailToSet, HeadTailProperties, LenProperties, EmptySeq DEF QueuesOK
        <3>2. ASSUME NEW i \in DOMAIN frontQ', NEW j \in DOMAIN frontQ',
                     frontQ'[i] = frontQ'[j], frontQ'[i] # Stop
              PROVE  i = j
            <4>1. i \in Int /\ j \in Int /\ i + 1 \in DOMAIN frontQ /\ j + 1 \in DOMAIN frontQ
                  /\ frontQ'[i] = frontQ[i + 1] /\ frontQ'[j] = frontQ[j + 1]
                BY <3>1
            <4>2. i + 1 = j + 1
                BY <3>2, <4>1 DEF QueuedOnce
            <4> QED
                BY <4>1, <4>2
        <3> QED
            BY <3>1, <3>2 DEF QueuedOnce
    <2>3. CASE frontQ' = Append(frontQ, Stop)
        <3>1. /\ Len(frontQ) \in Nat /\ DOMAIN frontQ = 1 .. Len(frontQ)
              /\ DOMAIN frontQ' = 1 .. (Len(frontQ) + 1)
              /\ frontQ'[Len(frontQ) + 1] = Stop
              /\ \A i \in 1 .. Len(frontQ) : frontQ'[i] = frontQ[i]
            BY <2>3, AppendProperties, LenProperties DEF QueuesOK
        <3>2. ToSet(Append(frontQ, Stop)) = ToSet(frontQ) \cup {Stop}
            BY AppendToSet DEF QueuesOK
        <3> QED
            BY <2>3, <3>1, <3>2 DEF QueuedOnce
    <2> QED
        BY <1>4, <2>1, <2>2, <2>3
<1>9. Receding
    <2>1. \A k \in DOMAIN flights' :
              flights'[k] = <<>> \/ (k \in DOMAIN flights /\ flights'[k] = flights[k])
        BY <1>3, FinishRecedes DEF flightVars, CancelAll
    <2> QED
        BY <1>1, <1>2, <1>8, <2>1 DEF Receding, Workers
<1> QED
    BY <1>7, <1>8, <1>9, RecedingKeeps

LEMMA BoundsStep ==
    ServiceInvariant /\ BoundsInvariant /\ [ServiceNext]_serviceVars => BoundsInvariant'
<1> SUFFICES ASSUME ServiceInvariant, BoundsInvariant, [ServiceNext]_serviceVars
             PROVE  BoundsInvariant'
    OBVIOUS
<1>1. CASE UNCHANGED serviceVars
    BY <1>1 DEF serviceVars, flightVars, paddingVars, BoundsInvariant, Flow, QueuedOnce,
                ScreenedOnce, WaitsOnce, SubmittedFirst, Counted, Distinct, AllWaiters
<1>2. CASE \E r \in Requests : Submit(r) \/ Enqueue(r)
    BY <1>2, SubmitBounds, EnqueueBounds
<1>3. CASE \/ \E w \in Frontends : FrontStep(w)
           \/ \E w \in Backends : BackStep(w) \/ BackHangs(w)
    BY <1>3, GetBounds, JoinBounds, WorkersRecede DEF Workers
<1>4. CASE (\E p \in Processes : Complete(p)) \/ TimerStep
    BY <1>4, CompletionsBounded
<1>5. CASE BeginShutdown \/ ShutdownStep \/ TimePasses
    BY <1>5, ShutdownBounds
<1> QED
    BY <1>1, <1>2, <1>3, <1>4, <1>5 DEF ServiceNext

\* Connections, queues, waiters and delayed completions keep their bounds, and the
\* number of waiters that is kept is theirs: no request waits twice, and a flight
\* that ends takes its waiters off the count, whoever ends it.
THEOREM BoundsAreKept == ServiceSpec => []BoundsKept
<1>1. BoundsInvariant => BoundsKept
    BY DEF BoundsInvariant, Counted, BoundsKept
<1> QED
    BY <1>1, ServiceInvariance, BoundsInit, BoundsStep, PTL DEF ServiceSpec

-----------------------------------------------------------------------------
(* In whose hands a pending request is.                                    *)

FrontHeld == {holds[w] : w \in {v \in Frontends :
                            pc[v] \in {"got", "screen", "join", "put", "drop"}}}
BackHeld == {holds[w] : w \in {v \in Backends :
                            pc[v] \in {"got", "verify", "hung", "insert", "finish"}}}
Enqueuing == {r \in Requests : pc[r] = "enqueue"}
Owed == UNION {OwedBy(p) : p \in Processes}
Delayed == {x.request : x \in due \cup ({released} \ {NoRelease})}
Hands == Enqueuing \cup ToSet(frontQ) \cup FrontHeld \cup ToSet(backQ) \cup BackHeld
         \cup Owed \cup Delayed

\* On its way to the backend, or there.
PuttingOn == {holds[w] : w \in {v \in Frontends : pc[v] \in {"put", "drop"}}}
InBackend == PuttingOn \cup ToSet(backQ) \cup BackHeld

\* Shutdown has not dropped anything yet.
Open == pc["shutdown"] \in Hopeful \cup {"cancel padding"}

\* A pending request is in somebody's hands or waits in a flight, ...
InHands == \A r \in pending : r \in Hands \/ r \in AllWaiters

\* ... and a flight has a leader that the backend has or will get or be refused.
Led ==
    /\ leaders \subseteq Requests
    /\ \A k \in DOMAIN flights : \E q \in leaders : KeyOf[q] = k /\ q \in InBackend

Custody == Open => InHands /\ Led

LEMMA HandsAreUnderway ==
    ASSUME NEW r \in Requests
    PROVE  Underway(r) <=> r \in Hands
<1>1. r \in ToSet(frontQ) \/ r \in ToSet(backQ) \/ r \in Enqueuing
      <=> r \in ToSet(frontQ) \/ r \in ToSet(backQ) \/ pc[r] = "enqueue"
    BY DEF Enqueuing
<1>2. r \in FrontHeld
      <=> \E w \in Frontends : holds[w] = r /\ pc[w] \in {"got", "screen", "join", "put", "drop"}
    BY DEF FrontHeld
<1>3. r \in BackHeld
      <=> \E w \in Backends : holds[w] = r
                              /\ pc[w] \in {"got", "verify", "hung", "insert", "finish"}
    BY DEF BackHeld
<1>4. r \in Owed <=> \E p \in Processes : \E i \in DOMAIN todo[p] : todo[p][i].request = r
    BY DEF Owed, OwedBy
<1>5. r \in Delayed <=> \E x \in due \cup ({released} \ {NoRelease}) : x.request = r
    BY DEF Delayed
<1> QED
    BY <1>1, <1>2, <1>3, <1>4, <1>5 DEF Underway, Hands

LEMMA BackendIsHands == InBackend \subseteq Hands
BY DEF InBackend, PuttingOn, Hands, FrontHeld

\* What a process comes to owe when it owed nothing.
LEMMA OwingAdds ==
    ASSUME DOMAIN todo = Processes, NEW p \in Processes, todo[p] = <<>>, NEW cs, Owes(p, cs)
    PROVE  Owed' = Owed \cup {cs[i].request : i \in DOMAIN cs}
<1>1. \A q \in Processes : todo'[q] = IF q = p THEN cs ELSE todo[q]
    BY DEF Owes
<1>2. OwedBy(p) = {} /\ OwedBy(p)' = {cs[i].request : i \in DOMAIN cs}
    BY <1>1 DEF OwedBy
<1>3. \A q \in Processes : q # p => OwedBy(q)' = OwedBy(q)
    BY <1>1 DEF OwedBy
<1> HIDE DEF OwedBy
<1> QED
    BY <1>2, <1>3 DEF Owed

LEMMA ReplyOwes ==
    ASSUME NEW r, NEW route
    PROVE  {<<Reply(r, route)>>[i].request : i \in DOMAIN <<Reply(r, route)>>} = {r}
BY DEF Reply

LEMMA FlightOwed ==
    ASSUME SharedOK, NEW r \in Requests, NEW route
    PROVE  LET cs == Replies(<<r>> \o FlightOf(r), route)
           IN  {cs[i].request : i \in DOMAIN cs} = {r} \cup ToSet(FlightOf(r))
<1> DEFINE f == FlightOf(r)
           s == <<r>> \o f
<1>1. <<r>> \in Seq(Requests) /\ f \in Seq(Requests)
    BY WaitersAreRequests
<1>2. /\ Len(f) \in Nat /\ DOMAIN f = 1 .. Len(f) /\ DOMAIN s = 1 .. (Len(f) + 1)
      /\ s[1] = r /\ \A i \in 1 .. Len(f) : s[i + 1] = f[i]
    BY <1>1, ConcatProperties, LenProperties
<1> HIDE DEF s, f
<1>3. \A i \in DOMAIN s : s[i] = r \/ \E j \in DOMAIN f : s[i] = f[j]
    <2> TAKE i \in DOMAIN s
    <2>1. i = 1 \/ (i - 1 \in 1 .. Len(f) /\ i = (i - 1) + 1)
        BY <1>2
    <2> QED
        BY <1>2, <2>1
<1>4. \A j \in DOMAIN f : \E i \in DOMAIN s : s[i] = f[j]
    <2> TAKE j \in DOMAIN f
    <2>1. j + 1 \in DOMAIN s /\ s[j + 1] = f[j]
        BY <1>2
    <2> QED
        BY <2>1
<1>5. 1 \in DOMAIN s /\ s[1] = r
    BY <1>2
<1>6. {s[i] : i \in DOMAIN s} = {r} \cup {f[j] : j \in DOMAIN f}
    BY <1>3, <1>4, <1>5
<1>7. /\ DOMAIN Replies(s, route) = DOMAIN s
      /\ \A i \in DOMAIN s : Replies(s, route)[i].request = s[i]
    BY DEF Replies, Reply
<1>8. {Replies(s, route)[i].request : i \in DOMAIN Replies(s, route)} = {s[i] : i \in DOMAIN s}
    BY <1>7
<1> QED
    BY <1>6, <1>8 DEF s, f, ToSet

\* A flight that ends frees its waiters, and only them.
LEMMA FinishFrees ==
    ASSUME SharedOK, NEW r, FinishFlight(r)
    PROVE  AllWaiters \subseteq AllWaiters' \cup ToSet(FlightOf(r))
<1>1. CASE r \in leaders
    BY <1>1 DEF FinishFlight, Finish, FlightOf, WaitersOf, AllWaiters
<1>2. CASE r \notin leaders
    BY <1>2 DEF FinishFlight, flightVars, AllWaiters
<1> QED
    BY <1>1, <1>2

LEMMA FinishKeepsLed ==
    ASSUME Led, NEW r, FinishFlight(r), InBackend \subseteq InBackend' \cup {r}
    PROVE  Led'
<1>1. CASE r \in leaders
    BY <1>1 DEF FinishFlight, Finish, Led
<1>2. CASE r \notin leaders
    BY <1>2 DEF FinishFlight, flightVars, Led
<1> QED
    BY <1>1, <1>2

LEMMA CustodyInit == ServiceInit => Custody
<1> SUFFICES ASSUME ServiceInit PROVE Custody
    OBVIOUS
<1>1. pending = {} /\ DOMAIN flights = {} /\ leaders = {}
    BY DEF ServiceInit, FlightsInit
<1> QED
    BY <1>1 DEF Custody, InHands, Led

\* A step that hands nothing away.
LEMMA HandsKept ==
    ASSUME Custody, Open' => Open, pending' \subseteq pending,
           \A r \in pending' : r \in Hands \cup AllWaiters => r \in Hands' \cup AllWaiters',
           Led => Led'
    PROVE  Custody'
BY DEF Custody, InHands

\* The steps of a frontend worker: its request goes from the queue to the worker, and
\* from there to a queue, to a flight or to the worker's answers.
LEMMA FrontCustody ==
    ASSUME ServiceInvariant, Custody, NEW w \in Frontends, FrontStep(w)
    PROVE  Custody'
<1> USE DEF ServiceInvariant
<1> QueuesOK /\ SharedOK /\ WorkersOK /\ DOMAIN pc = Processes /\ DOMAIN todo = Processes
    BY DEF AnswersInvariant, LedgerInvariant, LedgerTypeOK, CompletionsOK
<1> w \in Processes /\ w \in Workers /\ w \notin Requests /\ w \notin Backends
    BY ServiceConstants DEF Processes, Workers
<1> DEFINE h == holds[w]
<1>1. Open' = Open /\ pending' = pending /\ Delayed' = Delayed
    <2>1. pc'["shutdown"] = pc["shutdown"]
        BY WorkersQuiet DEF Quiet, LedgerInvariant
    <2>2. UNCHANGED <<pending, due, released>>
        BY DEF FrontStep, FrontGet, FrontBegin, FrontScreen, FrontRaises, FrontJoin, FrontPut,
               FrontDrop, FrontEnd, frontendFrame, admissionVars, paddingVars
    <2> QED
        BY <2>1, <2>2 DEF Open, Delayed
<1>2. \A q \in Requests : pc'[q] = pc[q]
    BY FrontLeavesLedger DEF LedgerInvariant, Elsewhere
<1>3. Enqueuing' = Enqueuing
    BY <1>2 DEF Enqueuing
<1>4. \A v \in Workers \ {w} : pc'[v] = pc[v] /\ holds'[v] = holds[v]
    <2>1. \E place : Goto(w, place)
        BY DEF FrontStep, FrontGet, FrontBegin, FrontScreen, FrontRaises, FrontJoin, FrontPut,
               FrontDrop, FrontEnd
    <2>2. holds' = holds \/ \E item : holds' = [holds EXCEPT ![w] = item]
        BY DEF FrontStep, FrontGet, FrontBegin, FrontScreen, FrontRaises, FrontJoin, FrontPut,
               FrontDrop, FrontEnd, workVars
    <2> QED
        BY <2>1, <2>2 DEF Goto, WorkersOK
<1>5. /\ BackHeld' = BackHeld
      /\ \A v \in Frontends \ {w} : pc'[v] = pc[v] /\ holds'[v] = holds[v]
    BY <1>4 DEF BackHeld, Workers
<1>6. FrontHeld \subseteq FrontHeld' \cup {h} /\ PuttingOn \subseteq PuttingOn' \cup {h}
    BY <1>5 DEF FrontHeld, PuttingOn
<1>7. pc'[w] \in {"got", "screen", "join", "put", "drop"} => holds'[w] \in FrontHeld'
    BY DEF FrontHeld
<1>8. pc'[w] \in {"put", "drop"} => holds'[w] \in PuttingOn'
    BY DEF PuttingOn
<1>9. /\ pc[w] \notin {"got", "screen", "join", "put", "drop"} => FrontHeld \subseteq FrontHeld'
      /\ pc[w] \notin {"put", "drop"} => PuttingOn \subseteq PuttingOn'
    BY <1>5 DEF FrontHeld, PuttingOn
<1>10. pc[w] \notin {"idle", "stopped", "absent"} => h \in Requests
    BY DEF WorkersOK
<1>11. todo[w] = <<>> /\ (todo' = todo => Owed' = Owed)
    BY DEF FrontStep, FrontGet, FrontBegin, FrontScreen, FrontRaises, FrontJoin, FrontPut,
           FrontDrop, FrontEnd, At, Owed, OwedBy
<1>12. pending \subseteq Requests /\ Stop \notin Requests
    BY ServiceConstants DEF LedgerInvariant, LedgerTypeOK
<1> HIDE DEF h, Hands
<1>13. CASE FrontGet(w)
    <2>1. ToSet(frontQ) = ToSet(frontQ') \cup {Head(frontQ)}
        BY <1>13, TailToSet DEF FrontGet, QueuesOK
    <2>2. Head(frontQ) # Stop => Head(frontQ) \in FrontHeld'
        BY <1>7, <1>13 DEF FrontGet, Goto, WorkersOK
    <2>3. UNCHANGED <<backQ, flights, leaders, todo>>
        BY <1>13 DEF FrontGet, flightVars
    <2>4. pc[w] = "idle"
        BY <1>13 DEF FrontGet, At
    <2>5. \A r \in Requests : r \in Hands => r \in Hands'
        BY <1>1, <1>3, <1>5, <1>9, <1>11, <1>12, <2>1, <2>2, <2>3, <2>4 DEF Hands
    <2>6. AllWaiters' = AllWaiters
        BY <2>3 DEF AllWaiters
    <2>7. Led => Led'
        BY <1>5, <1>9, <2>3, <2>4 DEF Led, InBackend
    <2> QED
        BY <1>1, <1>12, <2>5, <2>6, <2>7, HandsKept
<1>14. CASE FrontBegin(w) \/ (FrontScreen(w) /\ todo' = todo)
    <2>1. UNCHANGED <<frontQ, backQ, flights, leaders, todo, holds>>
        BY <1>14 DEF FrontBegin, FrontScreen, queueVars, workVars, flightVars
    <2>2. pc[w] \in {"got", "screen"}
        BY <1>14 DEF FrontBegin, FrontScreen, At
    <2>3. h \in FrontHeld'
        <3>1. \E place \in {"screen", "join", "put"} : Goto(w, place)
            BY <1>11, <1>14 DEF FrontBegin, FrontScreen, Owes, Reply
        <3> QED
            BY <1>7, <2>1, <3>1 DEF Goto, h
    <2>4. Hands \subseteq Hands' /\ AllWaiters' = AllWaiters
        BY <1>1, <1>3, <1>5, <1>6, <1>11, <2>1, <2>3 DEF Hands, AllWaiters
    <2>5. Led => Led'
        BY <1>5, <1>9, <2>1, <2>2 DEF Led, InBackend
    <2> QED
        BY <1>1, <2>4, <2>5, HandsKept
<1>15. CASE \/ FrontRaises(w) \/ (FrontScreen(w) /\ todo' # todo)
            \/ (FrontJoin(w) /\ Reject(KeyOf[h]))
    <2>1. UNCHANGED <<frontQ, backQ, flights, leaders, holds>>
        BY <1>15 DEF FrontRaises, FrontScreen, FrontJoin, Reject, Lead, Join, queueVars, workVars,
                     flightVars, h
    <2>2. pc[w] \in {"screen", "join"}
        BY <1>15 DEF FrontRaises, FrontScreen, FrontJoin, At
    <2>3. Owed' = Owed \cup {h}
        <3>1. \E route : Owes(w, <<Reply(h, route)>>)
            BY <1>15 DEF FrontRaises, FrontScreen, FrontJoin, Lead, Join, Reject, h
        <3> QED
            BY <1>11, <3>1, OwingAdds, ReplyOwes
    <2>4. Hands \subseteq Hands' /\ AllWaiters' = AllWaiters
        BY <1>1, <1>3, <1>5, <1>6, <2>1, <2>3 DEF Hands, AllWaiters
    <2>5. Led => Led'
        BY <1>5, <1>9, <2>1, <2>2 DEF Led, InBackend
    <2> QED
        BY <1>1, <2>4, <2>5, HandsKept
<1>16. CASE FrontJoin(w) /\ Lead(KeyOf[h])
    <2>1. UNCHANGED <<frontQ, backQ, todo, holds>> /\ leaders' = leaders \cup {h}
          /\ pc[w] = "join" /\ pc'[w] = "put"
        BY <1>16 DEF FrontJoin, Lead, Join, Reject, queueVars, Goto, At, h
    <2>2. h \in FrontHeld' /\ h \in PuttingOn'
        BY <1>7, <1>8, <2>1 DEF h
    <2>3. /\ DOMAIN flights' = DOMAIN flights \cup {KeyOf[h]}
          /\ \A k \in DOMAIN flights : flights'[k] = flights[k]
        BY <1>16 DEF Lead
    <2>4. Hands \subseteq Hands' /\ AllWaiters \subseteq AllWaiters'
        BY <1>1, <1>3, <1>5, <1>6, <1>11, <2>1, <2>2, <2>3 DEF Hands, AllWaiters
    <2>5. Led => Led'
        <3>1. InBackend \cup {h} \subseteq InBackend' /\ h \in Requests
            BY <1>5, <1>9, <1>10, <2>1, <2>2 DEF InBackend
        <3> QED
            BY <2>1, <2>3, <3>1 DEF Led
    <2> QED
        BY <1>1, <2>4, <2>5, HandsKept
<1>17. CASE FrontJoin(w) /\ Join(KeyOf[h], h)
    <2>1. UNCHANGED <<frontQ, backQ, holds, todo, leaders>> /\ pc[w] = "join"
        <3>1. UNCHANGED <<frontQ, backQ, holds>> /\ pc[w] = "join"
            BY <1>17 DEF FrontJoin, queueVars, At
        <3>2. ~Lead(KeyOf[h]) /\ ~Reject(KeyOf[h])
            BY <1>17 DEF Join, Lead, Reject
        <3> QED
            BY <1>17, <3>1, <3>2 DEF FrontJoin, h
    <2>2. KeyOf[h] \in DOMAIN flights /\ DOMAIN flights' = DOMAIN flights
          /\ \A k \in DOMAIN flights : k # KeyOf[h] => flights'[k] = flights[k]
        BY <1>17 DEF Join
    <2>3. ToSet(flights'[KeyOf[h]]) = ToSet(flights[KeyOf[h]]) \cup {h}
        <3>1. flights[KeyOf[h]] \in Seq(Requests) /\ h \in Requests
            BY <1>10, <2>1, <2>2, WaitersByKey
        <3>2. flights'[KeyOf[h]] = Append(flights[KeyOf[h]], h)
            BY <1>17 DEF Join
        <3> QED
            BY <3>1, <3>2, AppendToSet
    <2>4. AllWaiters \cup {h} \subseteq AllWaiters'
        BY <2>2, <2>3 DEF AllWaiters
    <2>5. Hands \subseteq Hands' \cup {h}
        BY <1>1, <1>3, <1>5, <1>6, <1>11, <2>1 DEF Hands
    <2>6. Led => Led'
        BY <1>5, <1>9, <2>1, <2>2 DEF Led, InBackend
    <2> QED
        BY <1>1, <2>4, <2>5, <2>6, HandsKept
<1>18. CASE FrontPut(w)
    <2>1. UNCHANGED <<frontQ, flights, leaders, holds, todo>> /\ h \in Requests
        BY <1>10, <1>18 DEF FrontPut, workVars, flightVars, At
    <2>2. \/ ToSet(backQ') = ToSet(backQ) \cup {h}
          \/ backQ' = backQ /\ h \in FrontHeld' /\ h \in PuttingOn'
        <3>1. \/ backQ' = Append(backQ, h)
              \/ backQ' = backQ /\ Goto(w, "drop")
            BY <1>18 DEF FrontPut, h
        <3>2. ToSet(Append(backQ, h)) = ToSet(backQ) \cup {h}
            <4>1. h \in Requests \cup {Stop} /\ backQ \in Seq(Requests \cup {Stop})
                BY <2>1 DEF QueuesOK
            <4> QED
                BY <4>1, AppendToSet
        <3> QED
            BY <1>7, <1>8, <2>1, <3>1, <3>2 DEF Goto, h
    <2>3. Hands \subseteq Hands' /\ AllWaiters' = AllWaiters
        BY <1>1, <1>3, <1>5, <1>6, <1>11, <2>1, <2>2 DEF Hands, AllWaiters
    <2>4. Led => Led'
        BY <1>5, <1>6, <2>1, <2>2 DEF Led, InBackend
    <2> QED
        BY <1>1, <2>3, <2>4, HandsKept
<1>19. CASE FrontDrop(w)
    <2>1. UNCHANGED <<frontQ, backQ, holds>> /\ h \in Requests /\ FinishFlight(h)
          /\ Owes(w, Replies(<<h>> \o FlightOf(h), "BACKEND_QUEUE_DROP"))
        BY <1>10, <1>19 DEF FrontDrop, queueVars, At, h
    <2>2. Owed' = Owed \cup {h} \cup ToSet(FlightOf(h))
        <3> DEFINE cs == Replies(<<h>> \o FlightOf(h), "BACKEND_QUEUE_DROP")
        <3>1. {cs[i].request : i \in DOMAIN cs} = {h} \cup ToSet(FlightOf(h))
            BY <2>1, FlightOwed
        <3> HIDE DEF cs
        <3>2. Owes(w, cs)
            BY <2>1 DEF cs
        <3> QED
            BY <1>11, <3>1, <3>2, OwingAdds
    <2>3. Hands \subseteq Hands' /\ AllWaiters \subseteq AllWaiters' \cup Hands'
        BY <1>1, <1>3, <1>5, <1>6, <2>1, <2>2, FinishFrees DEF Hands
    <2>4. InBackend \subseteq InBackend' \cup {h}
        BY <1>5, <1>6, <2>1 DEF InBackend
    <2>5. Led => Led'
        BY <2>1, <2>4, FinishKeepsLed
    <2> QED
        BY <1>1, <2>3, <2>5, HandsKept
<1>20. CASE FrontEnd(w)
    <2>1. UNCHANGED <<frontQ, backQ, flights, leaders, todo>> /\ pc[w] = "end"
        BY <1>20 DEF FrontEnd, flightVars, At
    <2>2. Hands \subseteq Hands' /\ AllWaiters' = AllWaiters
        BY <1>1, <1>3, <1>5, <1>9, <1>11, <2>1 DEF Hands, AllWaiters
    <2>3. Led => Led'
        BY <1>5, <1>9, <2>1 DEF Led, InBackend
    <2> QED
        BY <1>1, <2>2, <2>3, HandsKept
<1> QED
    BY <1>13, <1>14, <1>15, <1>16, <1>17, <1>18, <1>19, <1>20
       DEF FrontStep, FrontJoin, h

\* The steps of a backend worker: its request goes from the queue to the worker, and
\* with the waiters of its flight to the worker's answers.
LEMMA BackCustody ==
    ASSUME ServiceInvariant, Custody, NEW w \in Backends, BackStep(w) \/ BackHangs(w)
    PROVE  Custody'
<1> USE DEF ServiceInvariant
<1> QueuesOK /\ SharedOK /\ WorkersOK /\ DOMAIN pc = Processes /\ DOMAIN todo = Processes
    BY DEF AnswersInvariant, LedgerInvariant, LedgerTypeOK, CompletionsOK
<1> w \in Processes /\ w \in Workers /\ w \notin Requests /\ w \notin Frontends
    BY ServiceConstants DEF Processes, Workers
<1> DEFINE h == holds[w]
           places == {"got", "verify", "hung", "insert", "finish"}
<1>1. Open' = Open /\ pending' = pending /\ Delayed' = Delayed /\ frontQ' = frontQ
    <2>1. pc'["shutdown"] = pc["shutdown"]
        BY WorkersQuiet DEF Quiet, LedgerInvariant
    <2>2. UNCHANGED <<pending, due, released, frontQ>>
        BY DEF BackStep, BackHangs, BackGet, BackBegin, BackVerify,
               BackInsert, BackFinish, BackEnd, frontendFrame, admissionVars, queueVars, paddingVars
    <2> QED
        BY <2>1, <2>2 DEF Open, Delayed
<1>2. \A q \in Requests : pc'[q] = pc[q]
    BY BackLeavesLedger DEF LedgerInvariant, Elsewhere
<1>3. Enqueuing' = Enqueuing
    BY <1>2 DEF Enqueuing
<1>4. \A v \in Workers \ {w} : pc'[v] = pc[v] /\ holds'[v] = holds[v]
    <2>1. \E place : Goto(w, place)
        BY DEF BackStep, BackHangs, BackGet, BackBegin, BackVerify,
               BackInsert, BackFinish, BackEnd
    <2>2. holds' = holds \/ \E item : holds' = [holds EXCEPT ![w] = item]
        BY DEF BackStep, BackHangs, BackGet, BackBegin, BackVerify,
               BackInsert, BackFinish, BackEnd, workVars
    <2> QED
        BY <2>1, <2>2 DEF Goto, WorkersOK
<1>5. /\ FrontHeld' = FrontHeld /\ PuttingOn' = PuttingOn
      /\ \A v \in Backends \ {w} : pc'[v] = pc[v] /\ holds'[v] = holds[v]
    BY <1>4 DEF FrontHeld, PuttingOn, Workers
<1>6. BackHeld \subseteq BackHeld' \cup {h}
    BY <1>5 DEF BackHeld
<1>7. pc'[w] \in places => holds'[w] \in BackHeld'
    BY DEF BackHeld
<1>8. pc[w] \notin places => BackHeld \subseteq BackHeld'
    BY <1>5 DEF BackHeld
<1>9. todo[w] = <<>> /\ (todo' = todo => Owed' = Owed)
    BY DEF BackStep, BackHangs, BackGet, BackBegin, BackVerify, BackInsert, BackFinish, BackEnd,
           At, Owed, OwedBy
<1>10. pending \subseteq Requests /\ Stop \notin Requests
    BY ServiceConstants DEF LedgerInvariant, LedgerTypeOK
<1> HIDE DEF h, Hands
<1>11. CASE BackGet(w)
    <2>1. ToSet(backQ) = ToSet(backQ') \cup {Head(backQ)}
        BY <1>11, TailToSet DEF BackGet, QueuesOK
    <2>2. Head(backQ) # Stop => Head(backQ) \in BackHeld'
        BY <1>7, <1>11 DEF BackGet, Goto, WorkersOK
    <2>3. UNCHANGED <<flights, leaders, todo>> /\ pc[w] = "idle"
        BY <1>11 DEF BackGet, flightVars, At
    <2>4. \A r \in Requests : r \in Hands => r \in Hands'
        BY <1>1, <1>3, <1>5, <1>8, <1>9, <1>10, <2>1, <2>2, <2>3 DEF Hands
    <2>5. AllWaiters' = AllWaiters
        BY <2>3 DEF AllWaiters
    <2>6. Led => Led'
        <3>1. \A q \in Requests : q \in InBackend => q \in InBackend'
            BY <1>5, <1>8, <1>10, <2>1, <2>2, <2>3 DEF InBackend
        <3> QED
            BY <2>3, <3>1 DEF Led
    <2> QED
        BY <1>1, <1>10, <2>4, <2>5, <2>6, HandsKept
<1>12. CASE BackBegin(w) \/ BackVerify(w) \/ BackHangs(w) \/ BackInsert(w)
    <2>1. UNCHANGED <<backQ, flights, leaders, todo, holds>>
        BY <1>12 DEF BackBegin, BackVerify, BackHangs, BackInsert, queueVars, workVars, flightVars
    <2>2. h \in BackHeld'
        <3>1. \E place \in places : Goto(w, place)
            BY <1>12 DEF BackBegin, BackVerify, BackHangs, BackInsert
        <3> QED
            BY <1>7, <2>1, <3>1 DEF Goto, h
    <2>3. Hands \subseteq Hands' /\ AllWaiters' = AllWaiters
        BY <1>1, <1>3, <1>5, <1>6, <1>9, <2>1, <2>2 DEF Hands, AllWaiters
    <2>4. Led => Led'
        BY <1>5, <1>6, <2>1, <2>2 DEF Led, InBackend
    <2> QED
        BY <1>1, <2>3, <2>4, HandsKept
<1>13. CASE BackFinish(w)
    <2>1. UNCHANGED <<backQ, holds>> /\ h \in Requests /\ FinishFlight(h)
          /\ Owes(w, Replies(<<h>> \o FlightOf(h), verdict[w]))
        BY <1>13 DEF BackFinish, queueVars, At, h, WorkersOK
    <2>2. Owed' = Owed \cup {h} \cup ToSet(FlightOf(h))
        <3> DEFINE cs == Replies(<<h>> \o FlightOf(h), verdict[w])
        <3>1. {cs[i].request : i \in DOMAIN cs} = {h} \cup ToSet(FlightOf(h))
            BY <2>1, FlightOwed
        <3> HIDE DEF cs
        <3>2. Owes(w, cs)
            BY <2>1 DEF cs
        <3> QED
            BY <1>9, <3>1, <3>2, OwingAdds
    <2>3. Hands \subseteq Hands' /\ AllWaiters \subseteq AllWaiters' \cup Hands'
        BY <1>1, <1>3, <1>5, <1>6, <2>1, <2>2, FinishFrees DEF Hands
    <2>4. InBackend \subseteq InBackend' \cup {h}
        BY <1>5, <1>6, <2>1 DEF InBackend
    <2>5. Led => Led'
        BY <2>1, <2>4, FinishKeepsLed
    <2> QED
        BY <1>1, <2>3, <2>5, HandsKept
<1>14. CASE BackEnd(w)
    <2>1. UNCHANGED <<backQ, flights, leaders, todo>> /\ pc[w] = "end"
        BY <1>14 DEF BackEnd, flightVars, At
    <2>2. Hands \subseteq Hands' /\ AllWaiters' = AllWaiters
        BY <1>1, <1>3, <1>5, <1>8, <1>9, <2>1 DEF Hands, AllWaiters
    <2>3. Led => Led'
        BY <1>5, <1>8, <2>1 DEF Led, InBackend
    <2> QED
        BY <1>1, <2>2, <2>3, HandsKept
<1> QED
    BY <1>11, <1>12, <1>13, <1>14 DEF BackStep

LEMMA SubmitCustody ==
    ASSUME ServiceInvariant, Custody, NEW r \in Requests, Submit(r) \/ Enqueue(r)
    PROVE  Custody'
<1> USE DEF ServiceInvariant
<1> QueuesOK /\ DOMAIN pc = Processes /\ DOMAIN todo = Processes
    BY DEF AnswersInvariant, LedgerInvariant, LedgerTypeOK, CompletionsOK
<1> r \in Processes /\ r \notin Workers /\ r # "shutdown"
    BY RequestIsNoWorker
<1>1. /\ \A p \in Processes \ {r} : pc'[p] = pc[p]
      /\ UNCHANGED <<backQ, flights, leaders, holds, due, released>>
    <2>1. \E place : Goto(r, place)
        BY DEF Submit, Enqueue, Refuse, Admit
    <2>2. UNCHANGED <<backQ, flights, leaders, holds, due, released>>
        BY DEF Submit, Enqueue, queueVars, workVars, flightVars, paddingVars
    <2> QED
        BY <2>1, <2>2 DEF Goto
<1>2. /\ Open' = Open /\ FrontHeld' = FrontHeld /\ BackHeld' = BackHeld
      /\ PuttingOn' = PuttingOn /\ Delayed' = Delayed /\ AllWaiters' = AllWaiters
      /\ ToSet(backQ') = ToSet(backQ) /\ UNCHANGED <<leaders, flights>>
    <2>1. "shutdown" \in Processes /\ Frontends \subseteq Processes /\ Backends \subseteq Processes
          /\ r \notin Frontends /\ r \notin Backends
        BY DEF Processes, Workers
    <2> QED
        BY <1>1, <2>1 DEF Open, FrontHeld, BackHeld, PuttingOn, Delayed, AllWaiters
<1>3. Enqueuing \ {r} \subseteq Enqueuing'
    BY <1>1 DEF Enqueuing, Processes
<1>4. \A q \in pending' : q \in pending \/ q = r
    BY DEF Submit, Enqueue, Refuse, Admit, admissionVars
<1>5. ToSet(frontQ) \subseteq ToSet(frontQ') /\ Owed \subseteq Owed'
    <2>1. CASE Submit(r)
        BY <2>1 DEF Submit, queueVars, Owed, OwedBy
    <2>2. CASE Enqueue(r)
        <3>1. ToSet(Append(frontQ, r)) = ToSet(frontQ) \cup {r}
            BY AppendToSet DEF QueuesOK
        <3>2. ToSet(frontQ) \subseteq ToSet(frontQ')
            BY <2>2, <3>1 DEF Enqueue
        <3>3. Owed \subseteq Owed'
            BY <2>2, OwingAdds DEF Enqueue, At, Owed, OwedBy
        <3> QED
            BY <3>2, <3>3
    <2> QED
        BY <2>1, <2>2
<1>6. r \in pending' /\ r \notin pending => r \in Hands'
    BY DEF Submit, Enqueue, Refuse, Admit, admissionVars, Goto, Hands, Enqueuing
<1>7. r \in pending /\ r \in Enqueuing => r \in Hands'
    <2>1. ASSUME Enqueue(r) PROVE r \in Hands'
        <3>1. CASE frontQ' = Append(frontQ, r)
            <4>1. ToSet(Append(frontQ, r)) = ToSet(frontQ) \cup {r}
                BY AppendToSet DEF QueuesOK
            <4> QED
                BY <3>1, <4>1 DEF Hands
        <3>2. CASE Owes(r, <<Reply(r, "FRONTEND_QUEUE_DROP")>>)
            <4>1. r \in Owed'
                <5>1. todo[r] = <<>>
                    BY <2>1 DEF Enqueue, At
                <5> QED
                    BY <3>2, <5>1, OwingAdds, ReplyOwes
            <4> QED
                BY <4>1 DEF Hands
        <3> QED
            BY <2>1, <3>1, <3>2 DEF Enqueue
    <2> QED
        BY <2>1 DEF Submit, At, Enqueuing
<1>8. \A q \in pending' : (q \in pending => q \in Hands \cup AllWaiters)
                          => q \in Hands' \cup AllWaiters'
    BY <1>2, <1>3, <1>4, <1>5, <1>6, <1>7 DEF Hands
<1>9. Led => Led'
    BY <1>2 DEF Led, InBackend
<1> QED
    BY <1>2, <1>8, <1>9 DEF Custody, InHands

\* A completion is handed to the scheduler, or made; what is made is no longer pending.
LEMMA CompletionCustody ==
    ASSUME ServiceInvariant, Custody, NEW p \in Processes, Complete(p)
    PROVE  Custody'
<1> USE DEF ServiceInvariant
<1> DEFINE x == Head(todo[p])
<1>1. DOMAIN todo = Processes /\ todo[p] \in Seq(RightCompletions) /\ todo[p] # <<>>
    BY DEF AnswersInvariant, CompletionsOK, Complete, CompleteLater, CompleteUnpadded, CompleteNow
<1>2. UNCHANGED <<pc, frontQ, backQ, holds, flights, leaders>>
    BY DEF Complete, CompleteLater, CompleteUnpadded, CompleteNow, completionFrame,
           queueVars, workVars, flightVars
<1>3. /\ Open' = Open /\ FrontHeld' = FrontHeld /\ BackHeld' = BackHeld
      /\ PuttingOn' = PuttingOn /\ AllWaiters' = AllWaiters /\ Enqueuing' = Enqueuing
      /\ Led' = Led
    BY <1>2 DEF Open, FrontHeld, BackHeld, PuttingOn, AllWaiters, Enqueuing, Led, InBackend
<1>4. \A q \in Processes \ {p} : OwedBy(q)' = OwedBy(q)
    <2>1. \E cs : todo' = [todo EXCEPT ![p] = cs]
        BY DEF Complete, CompleteLater, CompleteUnpadded, CompleteNow, Owes
    <2>2. \A q \in Processes \ {p} : todo'[q] = todo[q]
        BY <1>1, <2>1
    <2> QED
        BY <2>2 DEF OwedBy
<1>5. CompleteUnpadded(p) => OwedBy(p) \subseteq OwedBy(p)'
    <2> SUFFICES ASSUME CompleteUnpadded(p) PROVE OwedBy(p) \subseteq OwedBy(p)'
        OBVIOUS
    <2>1. todo'[p] = [todo[p] EXCEPT ![1].direct = TRUE]
        BY <1>1 DEF CompleteUnpadded, Owes
    <2>2. DOMAIN todo[p] = 1 .. Len(todo[p])
          /\ \A i \in DOMAIN todo[p] : todo[p][i] \in RightCompletions
        BY <1>1, LenProperties, ElementOfSeq
    <2>3. DOMAIN todo'[p] = DOMAIN todo[p]
          /\ \A i \in DOMAIN todo[p] : todo'[p][i].request = todo[p][i].request
        BY <2>1, <2>2 DEF RightCompletions, Completions
    <2> QED
        BY <2>3 DEF OwedBy
<1>6. ~CompleteUnpadded(p) => OwedBy(p) \subseteq OwedBy(p)' \cup {x.request}
    <2> SUFFICES ASSUME Owes(p, Tail(todo[p]))
                 PROVE  OwedBy(p) \subseteq OwedBy(p)' \cup {x.request}
        BY DEF Complete, CompleteLater, CompleteNow
    <2>1. OwedBy(p) = {Tail(todo[p])[i].request : i \in DOMAIN Tail(todo[p])} \cup {x.request}
        BY <1>1, TailRequests DEF OwedBy
    <2>2. todo'[p] = Tail(todo[p])
        BY <1>1 DEF Owes
    <2> QED
        BY <2>1, <2>2 DEF OwedBy
<1>7. Owed \subseteq Owed' \cup (IF CompleteUnpadded(p) THEN {} ELSE {x.request})
    <2> HIDE DEF x, OwedBy
    <2> QED
        BY <1>4, <1>5, <1>6 DEF Owed
<1>8. /\ pending' \subseteq pending /\ Delayed \subseteq Delayed'
      /\ CompleteUnpadded(p) \/ x.request \in Delayed' \/ x.request \notin pending'
    <2>1. CASE CompleteLater(p)
        <3>1. due' = due \cup {x} /\ released' = released /\ pending' = pending
            BY <2>1 DEF CompleteLater, Schedule
        <3> HIDE DEF x
        <3> QED
            BY <3>1 DEF Delayed
    <2>2. CASE CompleteUnpadded(p)
        BY <2>2 DEF CompleteUnpadded, paddingVars, Delayed
    <2>3. CASE CompleteNow(p)
        BY <2>3 DEF CompleteNow, Record, paddingVars, Delayed
    <2> QED
        BY <2>1, <2>2, <2>3 DEF Complete
<1>9. \A r \in pending' : r \in Hands => r \in Hands'
    <2> HIDE DEF x
    <2> QED
        BY <1>2, <1>3, <1>7, <1>8 DEF Hands
<1> QED
    BY <1>3, <1>8, <1>9, HandsKept

LEMMA TimerCustody ==
    ASSUME ServiceInvariant, Custody, TimerStep
    PROVE  Custody'
<1>1. UNCHANGED <<pc, frontQ, backQ, holds, flights, leaders, todo>>
    BY DEF TimerStep, TimerCallback, completionFrame, queueVars, workVars, flightVars
<1>2. /\ Open' = Open /\ FrontHeld' = FrontHeld /\ BackHeld' = BackHeld
      /\ PuttingOn' = PuttingOn /\ AllWaiters' = AllWaiters /\ Enqueuing' = Enqueuing
      /\ Led' = Led /\ Owed' = Owed
    BY <1>1 DEF Open, FrontHeld, BackHeld, PuttingOn, AllWaiters, Enqueuing, Led, InBackend,
                Owed, OwedBy
<1>3. pending' \subseteq pending /\ \A r \in pending' : r \in Delayed => r \in Delayed'
    <2>1. CASE PopDue /\ pending' = pending
        <3>1. PICK x \in due : due' = due \ {x} /\ released' = x
            BY <2>1 DEF PopDue
        <3>2. x # NoRelease
            BY PaddingConstants, ServiceConstants
               DEF ServiceInvariant, AnswersInvariant, CompletionsOK, RightCompletions
        <3>3. released = NoRelease
            BY <2>1 DEF PopDue
        <3> QED
            BY <2>1, <3>1, <3>2, <3>3 DEF Delayed
    <2>2. CASE TimerStops /\ pending' = pending
        BY <2>2 DEF TimerStops, Delayed
    <2>3. CASE TimerCallback
        <3>1. released' = NoRelease /\ due' = due /\ pending' \subseteq pending \ {released.request}
            BY <2>3 DEF TimerCallback, Called, Record
        <3> QED
            BY <3>1 DEF Delayed
    <2> QED
        BY <2>1, <2>2, <2>3 DEF TimerStep
<1>4. \A r \in pending' : r \in Hands => r \in Hands'
    BY <1>1, <1>2, <1>3 DEF Hands
<1> QED
    BY <1>2, <1>3, <1>4, HandsKept

\* Until shutdown gives up it only looks.
LEMMA ShutdownCustody ==
    ASSUME ServiceInvariant, Custody, BeginShutdown \/ ShutdownStep \/ TimePasses
    PROVE  Custody'
<1>1. DOMAIN pc = Processes /\ "shutdown" \in Processes
    BY DEF ServiceInvariant, LedgerInvariant, LedgerTypeOK, Processes
<1>2. CASE BeginShutdown \/ ReadPadding \/ ReadRest \/ TimePasses
    <2>1. UNCHANGED <<pending, frontQ, backQ, holds, flights, leaders, todo, due, released>>
        BY <1>2 DEF BeginShutdown, ReadPadding, ReadRest, TimePasses, admissionVars, queueVars,
                    workVars, flightVars, paddingVars
    <2>2. \A p \in Requests \cup Workers : pc'[p] = pc[p]
        <3>1. pc' = pc \/ \E place : Goto("shutdown", place)
            BY <1>2 DEF BeginShutdown, ReadPadding, ReadRest, TimePasses
        <3>2. ASSUME NEW place, pc' = [pc EXCEPT !["shutdown"] = place],
                     NEW p \in Requests \cup Workers
              PROVE  pc'[p] = pc[p]
            BY <3>2, ServiceConstants
        <3> QED
            BY <3>1, <3>2 DEF Goto
    <2>3. Open' => Open
        BY <1>1, <1>2 DEF BeginShutdown, ReadPadding, ReadRest, TimePasses, At, Goto, Open, Hopeful
    <2>4. /\ FrontHeld' = FrontHeld /\ BackHeld' = BackHeld /\ PuttingOn' = PuttingOn
          /\ AllWaiters' = AllWaiters /\ Enqueuing' = Enqueuing /\ Owed' = Owed
          /\ Delayed' = Delayed
        BY <2>1, <2>2 DEF FrontHeld, BackHeld, PuttingOn, AllWaiters, Enqueuing,
                    Owed, OwedBy, Delayed, Workers
    <2>5. Hands' = Hands /\ Led' = Led
        BY <2>1, <2>4 DEF Hands, Led, InBackend
    <2> QED
        BY <2>1, <2>3, <2>4, <2>5, HandsKept
<1>3. CASE ShutdownStep /\ ~ReadPadding /\ ~ReadRest
    <2>1. pc["shutdown"] \notin Hopeful \cup {"cancel padding"} \/ DropPadding
        BY <1>3 DEF ShutdownStep, CancelFrontendQueue, StopFrontends,
               JoinFrontends, CancelBackendQueue, StopBackends, JoinBackends,
               DropPaddingAgain, StopTimer, JoinTimer, CancelFlights,
               CancelPendingRequests, Report, At, Hopeful
    <2>2. (pc' = pc /\ ~DropPadding)
          \/ \E place : place \notin Hopeful \cup {"cancel padding"} /\ Goto("shutdown", place)
        BY <1>3 DEF ShutdownStep, DropPadding, CancelFrontendQueue, StopFrontends,
               JoinFrontends, CancelBackendQueue, StopBackends, JoinBackends,
               DropPaddingAgain, StopTimer, JoinTimer, CancelFlights, Goto,
               CancelPendingRequests, Report, AfterFrontends, AfterBackends, Hopeful, At
    <2>3. ~Open'
        BY <1>1, <2>1, <2>2 DEF Open, Goto
    <2> QED
        BY <2>3 DEF Custody
<1> QED
    BY <1>2, <1>3

LEMMA CustodyStep ==
    ServiceInvariant /\ Custody /\ [ServiceNext]_serviceVars => Custody'
<1> SUFFICES ASSUME ServiceInvariant, Custody, [ServiceNext]_serviceVars
             PROVE  Custody'
    OBVIOUS
<1>1. CASE UNCHANGED serviceVars
    <2>1. UNCHANGED <<pending, pc, frontQ, backQ, holds, flights, leaders, todo, due, released>>
        BY <1>1 DEF serviceVars, flightVars, paddingVars
    <2>2. /\ FrontHeld' = FrontHeld /\ BackHeld' = BackHeld /\ PuttingOn' = PuttingOn
          /\ AllWaiters' = AllWaiters /\ Enqueuing' = Enqueuing /\ Owed' = Owed
          /\ Delayed' = Delayed /\ Open' = Open
        BY <2>1 DEF FrontHeld, BackHeld, PuttingOn, AllWaiters, Enqueuing, Owed, OwedBy, Delayed,
                    Open
    <2>3. Hands' = Hands /\ Led' = Led
        BY <2>1, <2>2 DEF Hands, Led, InBackend
    <2> QED
        BY <2>1, <2>2, <2>3, HandsKept
<1>2. CASE \E r \in Requests : Submit(r) \/ Enqueue(r)
    BY <1>2, SubmitCustody
<1>3. CASE \/ \E w \in Frontends : FrontStep(w)
           \/ \E w \in Backends : BackStep(w) \/ BackHangs(w)
    BY <1>3, FrontCustody, BackCustody
<1>4. CASE (\E p \in Processes : Complete(p)) \/ TimerStep
    BY <1>4, CompletionCustody, TimerCustody
<1>5. CASE BeginShutdown \/ ShutdownStep \/ TimePasses
    BY <1>5, ShutdownCustody
<1> QED
    BY <1>1, <1>2, <1>3, <1>4, <1>5 DEF ServiceNext

\* Until shutdown gives up on draining no admitted request is dropped on the way: it is
\* in a queue, at a worker, owed, delayed, or it waits in a flight whose leader is at
\* the backend or on its way there, however many workers coalesce, refuse and answer.
THEOREM NothingIsLost == ServiceSpec => []NoRequestLost
<1>1. ServiceInvariant /\ Custody => NoRequestLost
    <2> SUFFICES ASSUME ServiceInvariant, Custody, ~GivingUp, NEW r \in pending
                 PROVE  \/ Underway(r)
                        \/ /\ KeyOf[r] \in DOMAIN flights /\ r \in Waiting(KeyOf[r])
                           /\ \E q \in leaders : KeyOf[q] = KeyOf[r] /\ Underway(q)
        BY DEF NoRequestLost
    <2>1. r \in Requests /\ SharedOK
        BY DEF ServiceInvariant, LedgerInvariant, LedgerTypeOK, AnswersInvariant
    <2>2. Open
        BY DEF GivingUp, ServiceInvariant, ShutdownInvariant, Open, Hopeful
    <2>3. CASE r \in Hands
        BY <2>1, <2>3, HandsAreUnderway
    <2>4. CASE r \in AllWaiters
        <3>1. PICK k \in DOMAIN flights : r \in ToSet(flights[k])
            BY <2>4 DEF AllWaiters
        <3>2. KeyOf[r] = k /\ r \in Waiting(k)
            BY <2>1, <3>1, WaitersByKey DEF Waiting, WaitersOf
        <3>3. PICK q \in leaders : KeyOf[q] = k /\ q \in InBackend
            BY <2>2 DEF Custody, Led
        <3>4. Underway(q)
            <4>1. q \in Requests /\ q \in Hands
                BY <2>2, <3>3, BackendIsHands DEF Custody, Led
            <4> QED
                BY <4>1, HandsAreUnderway
        <3> QED
            BY <3>2, <3>3, <3>4
    <2> QED
        BY <2>2, <2>3, <2>4 DEF Custody, InHands
<1> QED
    BY <1>1, ServiceInvariance, CustodyInit, CustodyStep, PTL DEF ServiceSpec
=============================================================================
