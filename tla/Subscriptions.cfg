CONSTANTS
    Dest = {d1, d2}
    NoDest = NoDest
    Client = {c1, c2}
    MaxCall = 4
    Faults = {"crash", "database", "sns"}
SPECIFICATION Spec
CHECK_DEADLOCK FALSE
SYMMETRY Symmetry
INVARIANTS
    ConfirmedByRecipient
    OneDestination
    TopicGoes
    MailWanted
