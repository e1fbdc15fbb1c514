\* The event as publishUserSignedUpEvent sends it, and nothing goes wrong.
CONSTANTS
    u1 = u1  p1 = p1  e1 = e1
    Signups = {u1, p1}
    AccountOf <- MCAccountOf
    AddressesOf <- MCAddressesOf
    Envelopes = {FALSE}
    MaxRetries = 1
    MaxFaults = 0
    MaxCloses = 0
SPECIFICATION FairSpec
PROPERTY ProvidersAreCreated
CHECK_DEADLOCK FALSE
