\* Bookings, shares and check-ins under MySQL's default isolation level.
SPECIFICATION BoughtSpec
CONSTANTS
    r1 = r1
    r2 = r2
    r3 = r3
    ann = ann
    bob = bob
    gala = gala
    p1 = p1
    p2 = p2
    p3 = p3
    p4 = p4
    None = None
    Requests <- MCRequests
    Accounts <- MCAccounts
    Managers <- MCManagers
    WalletOwners <- Everyone
    Events <- MCEvents
    PassIds <- MCPassIds
    Payloads <- MCPayloads
    Isolation = "REPEATABLE_READ"
    MaxCapacity = 5
    MaxPerUser = 4
    Price = 1
    Opening = 4
INVARIANTS
    AdmissionsAccounted
    PaymentsMatchPasses
    AdmittedWithinSold
PROPERTIES
    OversoldOnlyByRace
    OverLimitOnlyByRace
    ImplementsRegister
    EveryRequestEnds
\* Every request may have been answered.
CHECK_DEADLOCK FALSE
