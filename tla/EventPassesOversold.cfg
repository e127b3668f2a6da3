\* Two bookings that count passes in snapshots older than each other's commit.
SPECIFICATION Spec
CONSTANTS
    r1 = r1
    r2 = r2
    r3 = r3
    ann = ann
    bob = bob
    gala = gala
    p1 = p1
    p2 = p2
    p3 = p3
    p4 = p4
    None = None
    Requests <- MCRequests
    Accounts <- MCAccounts
    Managers <- MCManagers
    WalletOwners <- Everyone
    Events <- MCEvents
    PassIds <- MCPassIds
    Payloads <- RushPayloads
    Isolation = "REPEATABLE_READ"
    MaxCapacity = 3
    MaxPerUser = 2
    Price = 1
    Opening = 4
INVARIANT
    CapacityHeld
CHECK_DEADLOCK FALSE
