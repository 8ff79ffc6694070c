-------------------------- MODULE PaddingScheduler --------------------------
(***************************************************************************)
(* service/padding.py: one timer thread that releases delayed completions. *)
(* The heap is the set of releases that are still due; which one is due    *)
(* next depends on times that are left open here.  A release is taken out  *)
(* of the heap under the condition and its callback runs outside it.       *)
(***************************************************************************)
EXTENDS Naturals, FiniteSets

CONSTANTS Releases, NoRelease, MaxPending

ASSUME PaddingConstants ==
    /\ MaxPending \in Nat \ {0}
    /\ NoRelease \notin Releases

VARIABLES
    due,           \* _heap
    stopping,      \* _stopping
    released,      \* the release whose callback the thread is about to run
    timerThread    \* "running" | "stopped"

paddingVars == <<due, stopping, released, timerThread>>

PaddingTypeOK ==
    /\ due \subseteq Releases
    /\ stopping \in BOOLEAN
    /\ released \in Releases \cup {NoRelease}
    /\ timerThread \in {"running", "stopped"}

PaddingInit ==
    /\ due = {}
    /\ stopping = FALSE
    /\ released = NoRelease
    /\ timerThread = "running"

Room == ~stopping /\ Cardinality(due) < MaxPending

\* schedule, which refuses when there is no room.
Schedule(x) ==
    /\ Room
    /\ due' = due \cup {x}
    /\ UNCHANGED <<stopping, released, timerThread>>

\* _run pops a release that has become due.
PopDue ==
    /\ timerThread = "running" /\ released = NoRelease
    /\ \E x \in due : due' = due \ {x} /\ released' = x
    /\ UNCHANGED <<stopping, timerThread>>

\* _run after the callback.
Called ==
    /\ released # NoRelease
    /\ released' = NoRelease
    /\ UNCHANGED <<due, stopping, timerThread>>

\* _run ends when it is told to and nothing is due any more.
TimerStops ==
    /\ timerThread = "running" /\ released = NoRelease
    /\ stopping /\ due = {}
    /\ timerThread' = "stopped"
    /\ UNCHANGED <<due, stopping, released>>

CancelPending ==
    /\ due' = {}
    /\ UNCHANGED <<stopping, released, timerThread>>

\* shutdown, up to the join: without draining the heap is cleared.
StopPadding(drain) ==
    /\ due' = IF drain THEN due ELSE {}
    /\ stopping' = TRUE
    /\ UNCHANGED <<released, timerThread>>
=============================================================================
