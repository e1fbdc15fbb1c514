\* Bodies without an id: redelivery makes up for a handler that died.
CONSTANTS
    o1 = o1  o2 = o2  k1 = k1  r1 = r1  r2 = r2
    c1 = c1  c2 = c2  w1 = w1  w2 = w2
    Orders = {o1}
    Keys = {k1}
    NoKey = NoKey
    Amount = 101
    Faults = {}
    CreateRequests = {r1}
    CancelRequests = {c1}
    Hooks = {w1, w2}
    NoOrder = NoOrder
    NoEvent = NoEvent
    IdChoices = {FALSE}
    MaxCrashes = 2
SPECIFICATION FairSpec
PROPERTIES
    WebhookStillConfirms
CHECK_DEADLOCK FALSE
