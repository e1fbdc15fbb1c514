\* A provider cancels before the webhook of the payment is handled.
CONSTANTS
    o1 = o1  o2 = o2  k1 = k1  r1 = r1  r2 = r2
    c1 = c1  c2 = c2  w1 = w1  w2 = w2
    Orders = {o1}
    Keys = {k1}
    NoKey = NoKey
    Amount = 101
    Faults = {}
    CreateRequests = {r1}
    CancelRequests = {c1}
    Hooks = {w1}
    NoOrder = NoOrder
    NoEvent = NoEvent
    IdChoices = {TRUE}
    MaxCrashes = 0
SPECIFICATION Spec
PROPERTIES
    ProviderCancelRefundsInFull
CHECK_DEADLOCK FALSE
