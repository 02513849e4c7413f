CONSTANTS
    MaxOp = 2
    Reconciler = {r1}
    Client = {}
    PendingLimit = 2
    Faults = {"lost_response", "cleanup_error"}
SPECIFICATION FairSpec
CHECK_DEADLOCK FALSE
PROPERTIES
    ActiveEventuallyEnds
    VerifiedDestroyDeletes
