CONSTANTS
    Sub = {s1, s2}
    NoSub = NoSub
    MaxPlan = 2
    Handler = {h1, h2}
    Writer = {w1}
    MaxEvent = 3
    Activation = {l1, l2}
    NoActivation = NoActivation
SPECIFICATION Spec
CHECK_DEADLOCK FALSE
SYMMETRY Symmetry
INVARIANTS
    PaymentsOnce
    PlanWasSold
    SettledLikeStripe
    SettledInvoices
PROPERTIES
    KeepsSubscription
    EndedStaysEnded
