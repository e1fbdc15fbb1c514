\* One booking through its whole life, one request of every kind.
CONSTANTS
    o1 = o1  k1 = k1  r1 = r1  c1 = c1  w1 = w1  p1 = p1
    a1 = a1  f1 = f1  m1 = m1  v1 = v1
    Orders = {o1}
    Keys = {k1}
    NoKey = NoKey
    Amount = 100
    Faults = {"decline"}
    CreateRequests = {r1}
    CancelRequests = {c1}
    Hooks = {w1}
    NoOrder = NoOrder
    NoBooking = NoBooking
    NoEvent = NoEvent
    IdChoices = {TRUE}
    MaxCrashes = 0
    Tasks = {a1, f1, m1, v1}
    OpOf <- MCOpOf
    Persons = {p1}
    Nobody = Nobody
    MaxCodes = 1
SPECIFICATION ServiceSpec
PROPERTIES
    ImplementsPayments
    ImplementsFulfilment
    ImplementsLifecycle
CHECK_DEADLOCK FALSE
