\* Two signups with one e-mail, two codes, one verification; three notifications
\* and two closings; two addresses and three requests; two people, three offerings.
CONSTANTS
    s1 = s1  s2 = s2  q1 = q1  q2 = q2  v1 = v1  e1 = e1  ph1 = ph1  b1 = b1  x1 = x1
    o1 = o1  o2 = o2  o3 = o3  p1 = p1  p2 = p2
    Signups = {s1, s2}
    Sends = {q1, q2}
    Verifies = {v1}
    Contacts = {e1, ph1}
    Emails = {e1}
    ContactsOf <- MCContactsOf
    Typed = {s1}
    NoCode = NoCode
    NoContact = NoContact
    Ids = {q1, q2, b1, x1}
    Users = {s1, s2}
    Notes <- MCNotes
    Nothing = Nothing
    Configured = {"in_app", "email"}
    MaxCloses = 2
    Places = {a1, a2}
    AddressRequests = {r1, r2, r3}
    NoRequest = NoRequest
    NoAddress = NoAddress
    Offerings = {o1, o2, o3}
    OwnerOf <- MCOwnerOf
    People = {p1, p2}
    EmployerOf <- MCEmployerOf
    StaffRequests = {r1, r2}
    NoPerson = NoPerson
SPECIFICATION MCSpec
INVARIANTS
    OneIdentityPerContact
    AnnouncedIsStored
    VerifiedByOwner
    LastCodeCounts
    NothingSkipped
    DoubledByClosesOnly
    TwoDefaultsNeedRace
    DeletedDefaultNeedsRace
    WantedIsDefault
    LinksWithinProvider
    ListIsKept
PROPERTY EventuallyServed
CHECK_DEADLOCK FALSE
