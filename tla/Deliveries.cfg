CONSTANTS
    Event = {e1, e2}
    NoEvent = NoEvent
    Dispatcher = {w1, w2}
    Faults = {"crash", "database", "sns", "lost_answer"}
SPECIFICATION FairSpec
CHECK_DEADLOCK FALSE
INVARIANTS
    NoNeedlessRepeat
    OutcomeIsTrue
PROPERTIES
    DeliveryEnds
