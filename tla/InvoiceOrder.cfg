CONSTANTS
    Sub = {s1}
    NoSub = NoSub
    MaxPlan = 1
    Handler = {h1}
    Writer = {}
    MaxEvent = 3
    Activation = {}
    NoActivation = NoActivation
SPECIFICATION Spec
CHECK_DEADLOCK FALSE
PROPERTIES
    InvoiceStaysPaid
