\* Four requests: two that overlap and two that see what they left.
SPECIFICATION MembershipSpec
CONSTANTS
    r1 = r1  r2 = r2  r3 = r3  r4 = r4
    ann = ann  bob = bob  cat = cat
    k1 = k1  k2 = k2  k3 = k3
    Nil = Nil
    Changes <- MCChanges
    Residents <- MCResidents
    Committees <- MCCommittees
    Copies <- MCCopies
    Terms <- MCTerms
    Proposals <- MCProposals
    OpeningCommittees <- MCOpeningCommittees
    OpeningSeats <- MCOpeningSeats
    OpeningTerms <- MCOpeningTerms
    OpeningRoles <- MCOpeningRoles
SYMMETRY Symmetric
INVARIANTS
    RolesAgree
\* Every request may have been answered.
CHECK_DEADLOCK FALSE
