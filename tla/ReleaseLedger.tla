---------------------------- MODULE ReleaseLedger ----------------------------
(***************************************************************************)
(* The control plane's durable release truth for one project environment:  *)
(* project_deployment_generations, project_stable_releases and the LIVE    *)
(* pointer of project_environment_routes.  Operations are numbered in the  *)
(* order of their createdAt; a generation, a stable release and the        *)
(* operation that made them share the operation's number, because a        *)
(* release is finalized under generationId = current.generationId ||       *)
(* current.id and nothing but finalization ever sets that column.          *)
(***************************************************************************)
EXTENDS Naturals, FiniteSets

CONSTANT MaxOp     \* operations of the project's life, numbered 1..MaxOp

ASSUME MaxOpAssumption == MaxOp \in Nat \ {0}

VARIABLES
    generation,    \* [Op -> GenerationState]
    release,       \* [Op -> ReleaseState]
    route          \* the operation whose generation the route serves, or NoOp

ledgerVars == <<generation, release, route>>

Op   == 1 .. MaxOp
NoOp == 0

GenerationState == {"none", "live", "retired"}
ReleaseState    == {"none", "stable", "rollback_target", "superseded"}

LedgerTypeOK ==
    /\ generation \in [Op -> GenerationState]
    /\ release \in [Op -> ReleaseState]
    /\ route \in Op \cup {NoOp}

LedgerInit ==
    /\ generation = [o \in Op |-> "none"]
    /\ release = [o \in Op |-> "none"]
    /\ route = NoOp

(***************************************************************************)
(* materializeStableRelease: a release that already exists for the         *)
(* operation is returned as it is; otherwise the older rollback targets    *)
(* are superseded, then the stable release becomes the rollback target,    *)
(* and then the new release is inserted as the stable one.                 *)
(***************************************************************************)
Restated(releases, old, new) ==
    [p \in Op |-> IF releases[p] = old THEN new ELSE releases[p]]

SupersedeTargets(releases) == Restated(releases, "rollback_target", "superseded")
DemoteStable(releases)     == Restated(releases, "stable", "rollback_target")

AgedLate(releases) ==             \* mutant: targets looked up after the demotion
    SupersedeTargets(DemoteStable(releases))

Aged(releases) == DemoteStable(SupersedeTargets(releases))

InsertStable(releases, o) == [releases EXCEPT ![o] = "stable"]

MaterializeOnce(o) ==             \* mutant: looked up by environment, not operation
    release' = IF \E p \in Op : release[p] = "stable" THEN release
               ELSE InsertStable(Aged(release), o)

MaterializeStableRelease(o) ==
    release' = IF release[o] # "none" THEN release
               ELSE InsertStable(Aged(release), o)

(***************************************************************************)
(* The projection half of the finalization transaction: every other LIVE   *)
(* generation is retired, the operation's own becomes LIVE, the route      *)
(* points at it and the stable release is materialized.                    *)
(***************************************************************************)
Promote(o) ==
    /\ generation' = [p \in Op |-> IF p = o THEN "live"
                                   ELSE IF generation[p] = "live" THEN "retired"
                                   ELSE generation[p]]
    /\ route' = o
    /\ MaterializeStableRelease(o)

(***************************************************************************)
(* Deleting the projects row cascades over all three tables.               *)
(***************************************************************************)
EraseLedger ==
    /\ generation' = [o \in Op |-> "none"]
    /\ release' = [o \in Op |-> "none"]
    /\ route' = NoOp

-----------------------------------------------------------------------------
(***************************************************************************)
(* Properties of the ledger.                                               *)
(***************************************************************************)

(* The route and the generation table never disagree about what is LIVE:   *)
(* the generations marked LIVE are exactly the one the route serves.       *)
RouteIsSoleLive ==
    {o \in Op : generation[o] = "live"} = {route} \ {NoOp}

(* At every moment there is at most one stable release and at most one     *)
(* immediate rollback target; a rollback target is only ever found behind  *)
(* a stable release, and a superseded one behind a rollback target: no     *)
(* order of finalizations leaves a project with a history that cannot be   *)
(* rolled back.                                                            *)
ReleaseHistoryIsLinear ==
    /\ \A o, p \in Op : release[o] = "stable" /\ release[p] = "stable" => o = p
    /\ \A o, p \in Op :
          release[o] = "rollback_target" /\ release[p] = "rollback_target" => o = p
    /\ (\E o \in Op : release[o] = "rollback_target") => \E o \in Op : release[o] = "stable"
    /\ (\E o \in Op : release[o] = "superseded")
          => \E o \in Op : release[o] = "rollback_target"

(* The generation the route serves is the one the current stable release   *)
(* names, which is what a destroy and the rollback candidates are read     *)
(* from.                                                                   *)
RouteIsStable ==
    route # NoOp => release[route] = "stable"
=============================================================================
