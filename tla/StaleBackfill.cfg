CONSTANTS
    MaxOp = 1
    Reconciler = {r1}
    Client = {c1}
    PendingLimit = 1
    Faults = {"finalization_error"}
SPECIFICATION Spec
CHECK_DEADLOCK FALSE
PROPERTIES
    BackfillKeepsOutcome
