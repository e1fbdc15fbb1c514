\* One booking, raced by two cancels and two deliveries.
CONSTANTS
    o1 = o1  o2 = o2  k1 = k1  r1 = r1  r2 = r2
    c1 = c1  c2 = c2  w1 = w1  w2 = w2
    Orders = {o1}
    Keys = {k1}
    NoKey = NoKey
    Amount = 101
    Faults = {"db", "refund", "decline"}
    CreateRequests = {r1}
    CancelRequests = {c1, c2}
    Hooks = {w1, w2}
    NoOrder = NoOrder
    NoEvent = NoEvent
    IdChoices = {TRUE}
    MaxCrashes = 1
SYMMETRY Symmetry
SPECIFICATION Spec
INVARIANTS
    TypeOK
    ServedWasPaid
    RefundOnRowWasMade
    OneCancelWins
    ClaimedOnce
    ConfirmationIsTrue
PROPERTY FinalRowsKept
CHECK_DEADLOCK FALSE
