\* Four concurrent requests at the gate.
SPECIFICATION Spec
CONSTANTS
    r1 = r1
    r2 = r2
    r3 = r3
    r4 = r4
    v1 = v1
    v2 = v2
    p1 = p1
    p2 = p2
    l1 = l1
    l2 = l2
    l3 = l3
    None = None
    Requests <- MCRequests
    VisitIds <- MCVisitIds
    PassIds <- MCPassIds
    LogIds <- MCLogIds
    Payloads <- MCPayloads
    OpeningVisits <- MCVisits
    OpeningPasses <- MCPasses
SYMMETRY Symmetry
INVARIANTS
    EntriesApproved
    SpentPassStaysSpent
PROPERTIES
    ReentryOnlyByRace
\* Every request may have been answered.
CHECK_DEADLOCK FALSE
