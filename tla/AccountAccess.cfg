\* Three requests: two race and the third sees what they left.
SPECIFICATION Spec
CONSTANTS
    r1 = r1  r2 = r2  r3 = r3
    staff = staff  board = board  home = home
    ann = ann  bob = bob  cid = cid
    a1 = a1  a2 = a2  a3 = a3  a4 = a4
    s1 = s1  s2 = s2  s3 = s3
    c1 = c1  c2 = c2  c3 = c3
    q1 = q1  q2 = q2
    None = None
    Requests <- MCRequests
    Emails <- MCEmails
    Members <- MCMembers
    AccountIds <- MCAccountIds
    SessionIds <- MCSessionIds
    ChallengeIds <- MCChallengeIds
    CodeRequestIds <- MCCodeRequestIds
    Payloads <- MCPayloads
    OpeningAccounts <- MCOpeningAccounts
    OpeningSessions <- MCOpeningSessions
    OpeningChallenges <- MCOpeningChallenges
    OpeningCodes <- MCOpeningCodes
SYMMETRY Symmetric
INVARIANTS
    OneLiveChallenge
    CodesAgree
PROPERTIES
    NoSessionOutlivesPassword
\* Every request may have been answered.
CHECK_DEADLOCK FALSE
