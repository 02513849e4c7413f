CONSTANTS
    MaxOp = 3
    Reconciler = {r1}
    Client = {c1}
    PendingLimit = 1
    Faults = {"crash", "lost_request", "lost_response", "poll_failed"}
SPECIFICATION Spec
ACTION_CONSTRAINTS
    Orderly
    Undisturbed
CHECK_DEADLOCK FALSE
INVARIANTS
    ReleaseHistoryIsLinear
    RouteIsStable
    RollbackGoesBack
PROPERTIES
    LiveMovesToDeployed
    OutcomeIsFinal
    DeletionFindsNothing
