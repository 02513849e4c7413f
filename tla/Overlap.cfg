CONSTANTS
    MaxOp = 2
    Reconciler = {r1, r2}
    Client = {}
    PendingLimit = 1
    Faults = {"lost_response", "finalization_error", "commit_ack_lost"}
SPECIFICATION Spec
CHECK_DEADLOCK FALSE
SYMMETRY Sessions
VIEW WithoutHistory
INVARIANTS
    OneUnderWay
    CompletedIsBacked
    RunKeepsItsSecrets
