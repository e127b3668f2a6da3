\* Two runs, at once, one after another or on two days, and owners who edit and delete.
SPECIFICATION FairSpec
CONSTANTS
    r1 = r1  r2 = r2  r3 = r3
    car = car  van = van
    ann = ann  bob = bob  bea = bea
    Null = Null
    Runs <- MCRuns
    Vehicles <- MCVehicles
    Types <- MCTypes
    Accounts <- MCAccounts
    owners <- MCowners
    LastDay = 2
    Edits <- MCEdits
    OpeningDue <- MCOpeningDue
INVARIANTS
    RemindedOnce
    NoneForgotten
PROPERTIES
    EveryRunEnds
\* Runs end.
CHECK_DEADLOCK FALSE
