CONSTANTS
    Project = {p1, p2}
    NoProject = NoProject
    Repo = {r1, r2}
    Branch = {b1, b2}
    NoIdentity = NoIdentity
    Session = {s1, s2}
    Plan = {"free", "pro"}
    CurrentLimit <- MCCurrentLimit
    LiveLimit <- MCLiveLimit
    MaxOp = 3
    MaxEdit = 2
SPECIFICATION Spec
SYMMETRY Symmetric
INVARIANTS
    IdentityIsUnique
    CurrentWithinQuota
    LiveWithinQuota
    PriorityStaysFree
    CallerInPlace
