--------------------------- MODULE LifecycleTruth ---------------------------
(***************************************************************************)
(* What the lifecycle of one project promises, without dispatchers,        *)
(* reconcilers, sessions or rows: at most one operation is open; LIVE only *)
(* ever names a release that was proven; the project is closed once, by a  *)
(* proven destroy, and nothing happens in it afterwards.                   *)
(***************************************************************************)
EXTENDS Naturals

CONSTANTS Op, NoOp

VARIABLES
    open,        \* the operation that is under way, as a set of at most one
    releases,    \* the operations whose release was proven
    destroys,    \* the operations whose destroy was proven
    live,        \* the release users are served, or NoOp
    exists       \* BOOLEAN: the project exists

truthVars == <<open, releases, destroys, live, exists>>

Init ==
    /\ open = {}
    /\ releases = {}
    /\ destroys = {}
    /\ live = NoOp
    /\ exists = TRUE

Open(o) ==
    /\ exists
    /\ open = {}
    /\ open' = {o}
    /\ UNCHANGED <<releases, destroys, live, exists>>

Close(o) ==
    /\ open = {o}
    /\ open' = {}
    /\ UNCHANGED <<releases, destroys, live, exists>>

Prove(o) ==
    /\ o \notin releases \cup destroys
    /\ \/ releases' = releases \cup {o} /\ UNCHANGED destroys
       \/ destroys' = destroys \cup {o} /\ UNCHANGED releases
    /\ UNCHANGED <<open, live, exists>>

GoLive(o) ==
    /\ exists
    /\ o \in releases
    /\ live' = o
    /\ open' = open \ {o}
    /\ UNCHANGED <<releases, destroys, exists>>

Delete ==
    /\ exists
    /\ destroys # {}
    /\ exists' = FALSE
    /\ open' = {}
    /\ live' = NoOp
    /\ UNCHANGED <<releases, destroys>>

Next ==
    \/ \E o \in Op : Open(o) \/ Close(o) \/ Prove(o) \/ GoLive(o)
    \/ Delete

Spec == Init /\ [][Next]_truthVars
=============================================================================
