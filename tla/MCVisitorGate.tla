---------------------------- MODULE MCVisitorGate ----------------------------
(* One walk-in request and one pre-approved pass on the books, and room for  *)
(* another of each.                                                          *)
EXTENDS VisitorGate, TLC

CONSTANTS r1, r2, r3, r4, v1, v2, p1, p2, l1, l2, l3

MCRequests == {r1, r2, r3, r4}
MCVisitIds == {v1, v2}
MCPassIds == {p1, p2}
MCLogIds == {l1, l2, l3}

MCVisits == [v \in MCVisitIds |-> IF v = v1 THEN [NoVisit EXCEPT !.status = "Pending"]
                                            ELSE NoVisit]
MCPasses == [p \in MCPassIds |-> IF p = p1 THEN [status |-> "Active", single |-> TRUE]
                                           ELSE NoPass]

Body(op, v, p, l) ==
    [op |-> op, visit |-> v, pass |-> p, log |-> l, single |-> FALSE, permitted |-> TRUE]

WalkIns ==
    {Body("approve", v1, None, None), Body("reject", v1, None, None),
     Body("check_in_walk_in", v1, None, None), Body("check_out_walk_in", v1, None, None)}

PreApproved ==
    {Body("check_in", None, p1, None), Body("check_out", None, p1, None),
     Body("cancel_preapproved", None, p1, None), Body("check_in", None, p2, None),
     Body("check_out", None, p2, None), Body("cancel_preapproved", None, p2, None)}
       \cup {Body("check_out_log", None, None, l) : l \in MCLogIds}

Others ==
    {Body("create_request", None, None, None), Body("create_preapproved", None, None, None),
     [Body("check_in", None, p1, None) EXCEPT !.permitted = FALSE]}

MCPayloads == WalkIns \cup PreApproved \cup Others

Symmetry == Permutations(MCRequests) \cup Permutations(MCLogIds)
=============================================================================
