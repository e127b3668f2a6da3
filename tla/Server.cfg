SPECIFICATION Spec
CONSTANTS
    None = None
    NoLimit = NoLimit
    Accounts <- MCAccounts
    RoleOf <- MCRoleOf
    HomeOf <- MCHomeOf
    Manages <- MCManages
    UnitOf <- MCUnitOf
    UnitHome <- MCUnitHome
    BlockOf <- MCBlockOf
    DisplayName <- MCDisplayName
    SeatsOf <- MCSeatsOf
    Initials <- MCInitials
    DayAhead = 1
    Formulas = {"=b", "=i", "=m"}
    ExactBelow = 50
    IdOrder <- MCIdOrder
    PageSizes = {1, 2}
    OpeningTables <- MCOpeningTables
    Workloads <- MCWorkloads
    LastTime = 1
    EditWindow = 0
    Browsers = {"own"}
    Timed <- MCTimed
    Pushing <- MCPushing
INVARIANTS
    TypeOK
    VotesStand
    AnnouncedOnce
    ListedMayOpen
    DistributionsAddUp
    ToldMayOpen
    SeatsHeldUnlessRaced
    OneRowPerMember
    WholeUnlessRaced
    NoDoubleUnlessRaced
    PagesCoverInbox
PROPERTIES
    InvoicesSettled
    OnlyAskedChanges
    WorkbooksAgree
\* Every request may have been answered.
CHECK_DEADLOCK FALSE
