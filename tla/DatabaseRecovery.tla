--------------------------- MODULE DatabaseRecovery ---------------------------
(***************************************************************************)
(* What a deployment makes of the managed database it finds: the verdict   *)
(* on the evidence from the tier, AWS and the Terraform state, and the     *)
(* admission that follows from it.  Pure functions of one observation;     *)
(* ProjectConfiguration has the dispatcher that acts on it.                *)
(*                                                                         *)
(* Only resources tagged as the project's own are observed, and a recovery *)
(* point never is: AWS Backup is not part of the runtime.                  *)
(***************************************************************************)

(* expected: the tier records a storage, generation or READY status.       *)
(* boundStorage, boundAccess: the ids it records, against those observed.  *)
(* secret: password and URL, which share one secret.  state: the Terraform *)
(* state has database resources.                                           *)
Resource == {"none", "unavailable", "available"}
Binding  == {"unbound", "this", "other"}

Evidence ==
    {e \in [managed : BOOLEAN, persistent : BOOLEAN, expected : BOOLEAN,
            boundStorage : Binding, boundAccess : Binding,
            storage : Resource, access : Resource, secret : BOOLEAN, state : BOOLEAN] :
        /\ e.persistent => e.managed
        /\ e.boundStorage # "unbound" \/ e.boundAccess # "unbound" => e.expected
        /\ e.boundStorage = "this" => e.storage # "none"
        /\ e.boundAccess = "this" => e.access # "none"
        /\ e.storage = "none" => e.access = "none"}

Verdict == {"HEALTHY", "DATA_LOST_RESET_REQUIRED", "STALE_METADATA",
            "IDENTITY_MIGRATION_REQUIRED"}

Leftovers(e) == e.expected \/ e.storage # "none" \/ e.access # "none" \/ e.secret \/ e.state

(* The storage the tier names, reachable and with its credentials.         *)
Whole(e) ==
    /\ e.storage = "available" /\ e.boundStorage # "other"
    /\ e.access = "available" /\ e.boundAccess # "other"
    /\ e.secret

(* classifyManagedDatabase.                                                *)
Classify(e) ==
    IF ~e.persistent
    THEN IF Leftovers(e) THEN "STALE_METADATA" ELSE "HEALTHY"
    ELSE IF e.storage = "available"
    THEN IF Whole(e) THEN "HEALTHY" ELSE "IDENTITY_MIGRATION_REQUIRED"
    ELSE IF e.expected
    THEN "DATA_LOST_RESET_REQUIRED"
    ELSE IF e.secret \/ e.state THEN "STALE_METADATA" ELSE "HEALTHY"

DeploymentAllowed(e) == Classify(e) = "HEALTHY"
ResetAllowed(e)      == Classify(e) \in {"DATA_LOST_RESET_REQUIRED", "STALE_METADATA"}

-----------------------------------------------------------------------------
(***************************************************************************)
(* decideDeploymentRecovery: a second opinion, from whether there ever was *)
(* a database, whether its storage is there, and the reset.                *)
(***************************************************************************)
Mode == {"DEPLOY", "RETRY", "RESET_FRESH"}

EverEstablished(e) == e.expected \/ e.storage # "none" \/ e.state

Decision(mode, state, allowed, e) ==
    [mode |-> mode, state |-> state, allowed |-> allowed, established |-> EverEstablished(e)]

Decide(mode, reset, e) ==
    IF reset
    THEN Decision("RESET_FRESH", "NONE", TRUE, e)
    ELSE IF ~EverEstablished(e)
    THEN Decision(IF mode = "RETRY" THEN "RETRY" ELSE "FRESH", "NONE", TRUE, e)
    ELSE Decision(IF mode = "RETRY" THEN "RETRY" ELSE "UPDATE", "PERSISTENT",
                  e.storage = "available", e)

(***************************************************************************)
(* The admission of a deployment.  A reset is asked for and needed, has    *)
(* nothing to lose, and writes a MANAGED tier.                             *)
(***************************************************************************)
Resets(mode, e) == mode = "RESET_FRESH" /\ ~DeploymentAllowed(e)

MayReset(e) == ResetAllowed(e) /\ e.storage # "available" /\ e.managed

Admitted(mode, e) ==
    /\ IF Resets(mode, e) THEN MayReset(e) ELSE DeploymentAllowed(e)
    /\ Decide(mode, Resets(mode, e), e).allowed

(* The tiers, by their provider and what they record, that some evidence   *)
(* lets an owner reset.                                                    *)
ResettableTiers ==
    {r \in [managed : BOOLEAN, expected : BOOLEAN] :
        \E e \in Evidence : /\ e.managed = r.managed /\ e.expected = r.expected
                           /\ Resets("RESET_FRESH", e) /\ Admitted("RESET_FRESH", e)}

(* isDispatchableDeploymentRecoveryDecision: what the workflow may be sent.*)
Dispatchable(d) ==
    /\ d.allowed
    /\ \/ d.state = "PERSISTENT" /\ d.established /\ d.mode \in {"UPDATE", "RETRY"}
       \/ d.state = "NONE" /\ d.mode = "RESET_FRESH"
       \/ d.state = "NONE" /\ ~d.established /\ d.mode \in {"FRESH", "RETRY"}

-----------------------------------------------------------------------------
(***************************************************************************)
(* What the two opinions promise together.                                 *)
(***************************************************************************)

(* A deployment goes ahead over a recorded database only if all of it is   *)
(* there, or if its storage is not and the owner asked for a fresh one.    *)
RecordedDataIsKept ==
    \A mode \in Mode, e \in Evidence :
        Admitted(mode, e) /\ e.expected =>
            Whole(e) \/ (mode = "RESET_FRESH" /\ e.storage # "available")

(* Every decision that is admitted is one the workflow's contract accepts, *)
(* though the two were written apart.                                      *)
AdmittedIsDispatchable ==
    \A mode \in Mode, e \in Evidence :
        Admitted(mode, e) => Dispatchable(Decide(mode, Resets(mode, e), e))

(* The opinions differ only on storage that is neither there nor gone: the *)
(* report calls it healthy, and the deployment is refused for it.          *)
OpinionsDiffer ==
    \A mode \in Mode, e \in Evidence :
        DeploymentAllowed(e) /\ ~Decide(mode, FALSE, e).allowed =>
            e.storage = "unavailable" /\ ~e.expected

(* An owner with a persistent managed database is refused both ways only   *)
(* while some storage exists: incomplete, or not available.                *)
AlwaysAWay ==
    \A e \in Evidence :
        e.persistent /\ ~Admitted("DEPLOY", e) /\ ~Admitted("RESET_FRESH", e) =>
            \/ e.storage = "available" /\ ~Whole(e)
            \/ e.storage = "unavailable" /\ ~e.expected

=============================================================================
