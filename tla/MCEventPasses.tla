---------------------------- MODULE MCEventPasses ----------------------------
(* A member, ann, and a manager, bob, who meet at one event.                 *)
EXTENDS EventPasses, TLC

CONSTANTS r1, r2, r3, ann, bob, gala, p1, p2, p3, p4

MCRequests == {r1, r2, r3}
MCAccounts == {ann, bob}
MCManagers == {bob}
MCEvents == {gala}
MCPassIds == {p1, p2, p3, p4}

Book(a, n, m, ok) == [op |-> "book", acct |-> a, event |-> gala, pass |-> None,
                      count |-> n, method |-> m, pinOk |-> ok, to |-> None]
Share(a, p, n, t) == [op |-> "share", acct |-> a, event |-> None, pass |-> p,
                      count |-> n, method |-> "none", pinOk |-> FALSE, to |-> t]
CheckIn(p, n) == [op |-> "check_in", acct |-> bob, event |-> gala, pass |-> p,
                  count |-> n, method |-> "none", pinOk |-> FALSE, to |-> None]

MCPayloads ==
    {Book(ann, 2, "wallet", TRUE), Book(ann, 1, "upi", FALSE), Share(ann, p1, 1, bob),
     Book(bob, 2, "upi", FALSE), CheckIn(p1, 1), CheckIn(p1, 2), CheckIn(p2, 1)}

Everyone == MCAccounts

\* Bookings of two members that a capacity of three cannot hold together.
RushPayloads ==
    {Book(ann, 2, "wallet", TRUE), Book(ann, 1, "upi", FALSE), Book(bob, 2, "upi", FALSE),
     CheckIn(p1, 2), Share(ann, p1, 1, bob)}

\* ann has bought a pass for two before the requests considered.
Bought ==
    /\ passes = [p \in PassIds |-> IF p = p1 THEN NewPass(gala, ann, 2, 2, None) ELSE NoRow]
    /\ rsvps = [x \in Events \X Accounts |-> IF x = <<gala, ann>> THEN 1 ELSE 0]
    /\ admitted = [p \in PassIds |-> 0]
    /\ balance = [a \in Accounts |-> IF a = ann THEN Opening - 2 ELSE Opening]
    /\ debits = [a \in Accounts |-> IF a = ann THEN 2 ELSE 0]
    /\ upis = [a \in Accounts |-> 0]
    /\ eventLock = [e \in Events |-> None]
    /\ passLock = [p \in PassIds |-> None]
    /\ walletLock = [a \in Accounts |-> None]
    /\ stage = [r \in Requests |-> "idle"]
    /\ body = [r \in Requests |-> None]
    /\ view = [r \in Requests |-> NoView]

BoughtSpec ==
    /\ Bought /\ [][Next]_vars
    /\ \A r \in Requests : WF_vars(Step(r)) /\ WF_vars(LockWaitEnds(r))

Symmetric == Permutations(MCRequests)
=============================================================================
