\* Two create requests race with keys, around one cancel, the webhooks and a crash.
CONSTANTS
    o1 = o1  o2 = o2  k1 = k1  r1 = r1  r2 = r2
    c1 = c1  c2 = c2  w1 = w1  w2 = w2
    Orders = {o1, o2}
    Keys = {k1}
    NoKey = NoKey
    Amount = 101
    Faults = {"decline"}
    CreateRequests = {r1, r2}
    CancelRequests = {c1}
    Hooks = {w1, w2}
    NoOrder = NoOrder
    NoEvent = NoEvent
    IdChoices = {FALSE}
    MaxCrashes = 1
SYMMETRY Symmetry
SPECIFICATION LateSpec
INVARIANTS
    OneOrderPerKey
    PaidOrderHasRow
    AnsweredIsHandled
CHECK_DEADLOCK FALSE
