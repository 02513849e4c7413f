CONSTANTS
    Services = 2
    Token = {t1, t2, t3}
    NoToken = NoToken
    MaxOp = 4
SPECIFICATION Spec
SYMMETRY Symmetric
CHECK_DEADLOCK FALSE
INVARIANTS
    PinnedVersionsExist
    RefusalRestores
