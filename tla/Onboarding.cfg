\* Providers and an admin sign up with one e-mail, and a consumer makes their rows.
CONSTANTS
    p1 = p1  p2 = p2  a1 = a1  e1 = e1
    Signups = {p1, p2, a1}
    Sends = {}
    Verifies = {}
    Contacts <- MCContacts
    Emails <- MCContacts
    ContactsOf <- MCContactsOf
    Typed = {p1, p2, a1}
    NoCode = NoCode  NoContact = NoContact
    AccountTypeOf <- MCAccountTypeOf
    AccountOf <- MCAccountOf
    AddressesOf <- MCAddressesOf
    Envelopes = {TRUE, FALSE}
    MaxRetries = 1
    MaxFaults = 2
    MaxCloses = 1
SPECIFICATION MCSpec
INVARIANTS
    ProfileIsOfIdentity
    DeadNeedsOtherAccount
    NothingLost
    RowsAreDue
    DeadOnlyAfterRetries
PROPERTY Settled
CHECK_DEADLOCK FALSE
