---------------------------- MODULE EpochTracker ----------------------------
(***************************************************************************)
(* controlplane/epochs/watermark.py: the watermark of each edge and scope. *)
(***************************************************************************)
EXTENDS Credentials

VARIABLES
    watermarks,       \* _watermarks: (edge, scope) -> epochs, NoMark when unset
    uncertainEdges    \* _uncertain_edges

trackerVars == <<watermarks, uncertainEdges>>

\* EpochWatermark
Marks == [directory : Nat, representation : Nat]

\* No recorded watermark: both epochs start at 1, so 0 is below any of them.
NoMark == [directory |-> 0, representation |-> 0]

TrackerTypeOK ==
    /\ watermarks \in [Edges \X Scopes -> Marks]
    /\ uncertainEdges \in SUBSET Edges

TrackerInit ==
    /\ watermarks = [es \in Edges \X Scopes |-> NoMark]
    /\ uncertainEdges = {}

\* advance raises on a regression of either epoch and changes nothing then.
Regresses(e, s, mark) ==
    \/ mark.directory < watermarks[<<e, s>>].directory
    \/ mark.representation < watermarks[<<e, s>>].representation

Advance(e, s, mark) ==
    IF Regresses(e, s, mark)
    THEN UNCHANGED trackerVars
    ELSE /\ watermarks' = [watermarks EXCEPT ![<<e, s>>] = mark]
         /\ uncertainEdges' = uncertainEdges \ {e}

MarkTrackerUncertain(e) ==
    /\ uncertainEdges' = uncertainEdges \cup {e}
    /\ UNCHANGED watermarks
=============================================================================
