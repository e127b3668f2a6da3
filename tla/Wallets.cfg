\* Three concurrent wallet requests under MySQL's default isolation level.
SPECIFICATION FairSpec
CONSTANTS
    r1 = r1
    r2 = r2
    r3 = r3
    ann = ann
    bob = bob
    cyd = cyd
    old = old
    new = new
    None = None
    Requests <- MCRequests
    Accounts <- MCAccounts
    WalletOwners <- MCOwners
    Payloads <- MCPayloads
    Pins <- MCPins
    Rate <- MCRate
    Isolation = "REPEATABLE_READ"
    OpeningPins <- MCPinsSet
    Opening = 3
    MaxBalance = 4
    LastMonth = 2
INVARIANTS
    LedgerExplainsBalance
    TransfersBalanced
PROPERTIES
    PinInForce
    DuesTwiceOnlyByRace
    EveryRequestEnds
\* Every request may have been answered.
CHECK_DEADLOCK FALSE
