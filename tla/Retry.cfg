CONSTANTS
    MaxOp = 2
    Reconciler = {r1}
    Client = {c1}
    PendingLimit = 1
    Faults = {"crash", "lost_request", "lost_response", "poll_failed", "finalization_error", "commit_ack_lost", "cleanup_error"}
SPECIFICATION Spec
CHECK_DEADLOCK FALSE
INVARIANTS
    LiveOnlyByEvidence
    DeletedByProvenDestroy
    FailureIsTrue
PROPERTIES
    ImplementsTruth
