------------------------------ MODULE MCWallets ------------------------------
(* Two members who pay dues, top up and send each other money, and a third   *)
(* who has no wallet.                                                        *)
EXTENDS Wallets, TLC

CONSTANTS r1, r2, r3, ann, bob, cyd, old, new

MCRequests == {r1, r2, r3}
MCAccounts == {ann, bob, cyd}
MCOwners == {ann, bob}
MCPins == {old, new}
MCRate == [a \in MCAccounts |-> IF a = ann THEN 2 ELSE 0]

Body(op, a, n, p, t) == [op |-> op, acct |-> a, amount |-> n, pin |-> p, to |-> t]

MCPayloads ==
    {Body("pin", ann, 1, new, None), Body("add", ann, 2, old, None),
     Body("dues", ann, 2, old, None), Body("dues_upi", ann, 2, old, None),
     Body("dues", bob, 2, old, None), Body("send", ann, 2, old, bob), Body("send", bob, 1, old, ann),
     Body("send", ann, 1, old, cyd)}

DuesPayloads ==
    {Body("add", ann, 2, old, None), Body("dues", ann, 2, old, None),
     Body("dues_upi", ann, 2, old, None)}

\* Both members have set their PIN before the requests considered.
MCPinsSet == [a \in MCAccounts |-> IF a \in MCOwners THEN old ELSE None]
=============================================================================
