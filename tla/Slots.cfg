\* Two requests for slots, three bookings with or without asking first.
CONSTANTS
    o1 = o1  o2 = o2  o3 = o3  a1 = a1  a2 = a2
    Orders = {o1, o2, o3}
    Faults = {}
    Asks = {a1, a2}
    Nobody = Nobody
    Minute = 2
    MinutesPerDay = 6
    Schedules <- MCSchedules
    Durations = {2}
    OtherSlots <- MCOtherSlots
SYMMETRY Symmetry
SPECIFICATION Spec
INVARIANTS
    OfferedIsFree
    NothingWithheld
    OverlapOnlyByRace
CHECK_DEADLOCK FALSE
