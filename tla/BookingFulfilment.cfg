\* One booking, every operation of its fulfilment racing with the others.
CONSTANTS
    o1 = o1  p1 = p1  p2 = p2
    a1 = a1  a2 = a2  f1 = f1  f2 = f2  m1 = m1  m2 = m2  v1 = v1  v2 = v2
    s1 = s1  s2 = s2
    Orders = {o1}
    Faults = {"db"}
    Tasks = {a1, a2, f1, f2, m1, v1, s1, s2}
    OpOf <- MCOpOf
    NoBooking = NoBooking
    Persons = {p1, p2}
    Nobody = Nobody
    MaxCodes = 2
SYMMETRY Symmetry
SPECIFICATION JobsSpec
INVARIANTS
    ServedByProof
    OneTaskAdvances
    ReviewIsOfCompletedBooking
PROPERTIES
    ArrivedPersonKept
    DeadEndStays
CHECK_DEADLOCK FALSE
