\* Two cancels of one booking inside the 12 to 24 hours window.
CONSTANTS
    o1 = o1  o2 = o2  k1 = k1  r1 = r1  r2 = r2
    c1 = c1  c2 = c2  w1 = w1  w2 = w2
    Orders = {o1}
    Keys = {k1}
    NoKey = NoKey
    Amount = 101
    Faults = {}
    CreateRequests = {r1}
    CancelRequests = {c1, c2}
    Hooks = {w1}
    NoOrder = NoOrder
    NoEvent = NoEvent
    IdChoices = {TRUE}
    MaxCrashes = 0
SPECIFICATION Spec
INVARIANTS
    NoDoubleRefund
CHECK_DEADLOCK FALSE
