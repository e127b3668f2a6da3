-------------------------- MODULE MCAccountAccess --------------------------
(* A member of staff with a session and a reset link, a board member whose   *)
(* account waits to be claimed, a resident with a fresh code, and room for    *)
(* one who asks for a code.                                                   *)
EXTENDS AccountAccess, TLC

CONSTANTS r1, r2, r3, staff, board, home, ann, bob, cid, a1, a2, a3, a4,
          s1, s2, s3, c1, c2, c3, q1, q2

MCRequests == {r1, r2, r3}
MCEmails == {staff, board, home}
MCMembers == {ann, bob, cid}
MCAccountIds == {a1, a2, a3, a4}
MCSessionIds == {s1, s2, s3}
MCChallengeIds == {c1, c2, c3}
MCCodeRequestIds == {q1, q2}

Row(status, e, m, w) ==
    [status |-> status, email |-> e, member |-> m, password |-> None, wallet |-> w]

MCOpeningAccounts ==
    [a \in MCAccountIds |-> CASE a = a1 -> Row("active", staff, None, TRUE)
                              [] a = a2 -> Row("inactive", board, ann, FALSE)
                              [] OTHER -> NoAccount]
MCOpeningSessions ==
    [s \in MCSessionIds |->
       IF s = s1 THEN [account |-> a1, password |-> None, live |-> TRUE] ELSE NoSession]
MCOpeningChallenges ==
    [c \in MCChallengeIds |-> IF c = c1 THEN [account |-> a1, live |-> TRUE] ELSE NoChallenge]
MCOpeningCodes == [m \in MCMembers |-> IF m = cid THEN "none" ELSE "active"]

Ask(op) == [op |-> op, email |-> None, member |-> None, session |-> None, challenge |-> None,
            codeRequest |-> None, permitted |-> TRUE]

Join(m, e) == [Ask("create_member_account") EXCEPT !.member = m, !.email = e]

MCPayloads ==
    {[Ask("login") EXCEPT !.email = staff], [Ask("login") EXCEPT !.email = board],
     [Ask("logout") EXCEPT !.session = s1],
     [Ask("request_password_reset") EXCEPT !.email = staff],
     [Ask("reset_password") EXCEPT !.challenge = c1],
     [Ask("reset_password") EXCEPT !.challenge = c2],
     Join(ann, board), Join(ann, home), Join(bob, board), Join(bob, home), Join(cid, home),
     [Ask("create_account") EXCEPT !.email = home],
     [Ask("create_account") EXCEPT !.permitted = FALSE, !.email = home],
     [Ask("request_access_code") EXCEPT !.email = home],
     [Ask("approve_code_request") EXCEPT !.codeRequest = q1],
     [Ask("reject_code_request") EXCEPT !.codeRequest = q1]}

Symmetric == Permutations(MCRequests) \cup Permutations({s2, s3})
                \cup Permutations({a3, a4})
=============================================================================
