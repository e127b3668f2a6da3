\* One member pays the same month's dues twice at once.
SPECIFICATION Spec
CONSTANTS
    r1 = r1
    r2 = r2
    r3 = r3
    ann = ann
    bob = bob
    cyd = cyd
    old = old
    new = new
    None = None
    Requests <- MCRequests
    Accounts <- MCAccounts
    WalletOwners <- MCOwners
    Payloads <- DuesPayloads
    Pins <- MCPins
    Rate <- MCRate
    Isolation = "REPEATABLE_READ"
    OpeningPins <- MCPinsSet
    Opening = 3
    MaxBalance = 4
    LastMonth = 2
INVARIANT
    DuesOncePerMonth
\* Every request may have been answered.
CHECK_DEADLOCK FALSE
