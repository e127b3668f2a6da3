------------------------------- MODULE Wallets -------------------------------
(* A member's wallet: PIN, top-ups, maintenance dues and transfers,          *)
(* app/modules/wallet/service.py over repository.py.                         *)
(*                                                                           *)
(* As for event passes, a request is one MySQL transaction whose snapshot is *)
(* fixed by the authentication query. The wallet row is read FOR UPDATE, the *)
(* month's dues by a plain SELECT.                                           *)
EXTENDS Integers, FiniteSets, Sums

CONSTANTS
    Requests,       \* HTTP requests, each served once
    Accounts,
    WalletOwners,   \* accounts that have a wallet row
    Payloads,       \* the request bodies considered
    Pins,
    Rate,           \* the unit's assessment, 0 when none is configured
    Isolation,      \* isolation level of the MySQL session
    Opening,        \* balance of each wallet before the first request
    OpeningPins,    \* PIN of each wallet before the first request, None when unset
    MaxBalance,     \* largest NUMERIC(12,2)
    LastMonth,      \* bound on the months that begin
    None

Ops == {"pin", "add", "dues", "dues_upi", "send"}

\* An unknown or inactive recipient address is None; amounts are positive.
Bodies == [op: Ops, acct: Accounts, amount: Nat \ {0}, pin: Pins, to: Accounts \cup {None}]

ASSUME WalletConstants ==
    /\ WalletOwners \subseteq Accounts
    /\ Payloads \subseteq Bodies
    /\ Rate \in [Accounts -> Nat]
    /\ OpeningPins \in [Accounts -> Pins \cup {None}]
    /\ Isolation \in {"REPEATABLE_READ", "READ_COMMITTED"}
    /\ MaxBalance \in Nat /\ Opening \in 0..MaxBalance /\ LastMonth \in Nat \ {0}
    /\ None \notin Requests \cup Accounts \cup Pins

VARIABLES
    balance,    \* wallets.balance
    pins,       \* wallets.security_pin
    ledger,     \* sum of the wallet_transactions of an account, by kind
    dues,       \* number of dues rows of an account dated in a month
    month,      \* the current month of the database's clock
    walletLock, \* holder of each wallet row's exclusive lock
    stage,      \* how far a request has come
    body,       \* its body, None before it arrives
    view,       \* what it has read: the snapshot of dues, the locked balance
    reply       \* the balance it was answered

tables == <<balance, pins, ledger, dues>>
vars == <<balance, pins, ledger, dues, month, walletLock, stage, body, view, reply>>

Months == 1..LastMonth

\* Credit "Added via", Credit "Transfer from", Debit "Transfer to" and Debit or
\* UPI "Maintenance Dues Paid".
Kinds == {"added", "received", "sent", "dues", "dues_upi"}

NoDues == [a \in Accounts |-> [m \in Months |-> 0]]

NoView == [dues |-> NoDues, balance |-> 0]

Active == {"authenticated", "locked", "both"}
Outcomes == {"done", "refused", "aborted"}

\* The dues rows a plain SELECT of request r sees.
SeenDues(r) == IF Isolation = "READ_COMMITTED" THEN dues ELSE view[r].dues

dues_paid_this_month(r, a) == SeenDues(r)[a][month] > 0
-----------------------------------------------------------------------------
Init ==
    /\ balance = [a \in Accounts |-> IF a \in WalletOwners THEN Opening ELSE 0]
    /\ pins = OpeningPins
    /\ ledger = [a \in Accounts |-> [k \in Kinds |-> 0]]
    /\ dues = NoDues
    /\ month = 1
    /\ walletLock = [a \in Accounts |-> None]
    /\ stage = [r \in Requests |-> "idle"]
    /\ body = [r \in Requests |-> None]
    /\ view = [r \in Requests |-> NoView]
    /\ reply = [r \in Requests |-> None]

\* Commit or rollback: the transaction releases its row locks.
End(r, outcome) ==
    /\ stage' = [stage EXCEPT ![r] = outcome]
    /\ view' = [view EXCEPT ![r] = NoView]
    /\ walletLock' = [a \in Accounts |-> IF walletLock[a] = r THEN None ELSE walletLock[a]]
    /\ UNCHANGED <<month, body>>

Rollback(r, outcome) == End(r, outcome) /\ UNCHANGED <<tables, reply>>

\* get_auth_context reads the session row: the transaction's first read.
Authenticate(r) ==
    /\ stage[r] = "idle"
    /\ \E b \in Payloads :
         /\ body' = [body EXCEPT ![r] = b]
         /\ view' = [view EXCEPT ![r].dues =
                       IF b.op \in {"dues", "dues_upi"} THEN dues ELSE NoDues]
    /\ stage' = [stage EXCEPT ![r] = "authenticated"]
    /\ UNCHANGED <<tables, month, walletLock, reply>>

\* _assessment_amount: the amount sent must still be the configured one.
Assessed(b) == Rate[b.acct] > 0 /\ b.amount = Rate[b.acct]

\* _validate_debit, on the locked row.
Debitable(b) ==
    /\ pins[b.acct] # None /\ pins[b.acct] = b.pin
    /\ balance[b.acct] >= b.amount

\* The UPI payment does not ask whether the month is paid.
AllowedAgainByUpi(r) ==
    LET b == body[r] IN
    /\ b.acct \in WalletOwners
    /\ b.op \in {"dues", "send"} => Debitable(b)
    /\ b.op \in {"dues", "dues_upi"} => Assessed(b)
    /\ b.op = "dues" => ~dues_paid_this_month(r, b.acct)
    /\ b.op = "send" => b.to \notin {None, b.acct}

Allowed(r) ==
    LET b == body[r] IN
    /\ b.acct \in WalletOwners
    /\ b.op \in {"dues", "send"} => Debitable(b)
    /\ b.op \in {"dues", "dues_upi"} => Assessed(b) /\ ~dues_paid_this_month(r, b.acct)
    /\ b.op = "send" => b.to \notin {None, b.acct}

\* The wallet is read and validated without FOR UPDATE.
ReadWallet(r) ==
    /\ stage[r] = "authenticated"
    /\ IF Allowed(r)
       THEN /\ view' = [view EXCEPT ![r].balance = balance[body[r].acct]]
            /\ stage' = [stage EXCEPT ![r] = "locked"]
            /\ UNCHANGED <<tables, month, walletLock, body, reply>>
       ELSE Rollback(r, "refused")

\* pay_dues compares the amount with the assessment before it asks for the wallet.
RefuseUnassessed(r) ==
    /\ stage[r] = "authenticated" /\ body[r].op = "dues" /\ ~Assessed(body[r])
    /\ Rollback(r, "refused")

\* The requester's wallet is read FOR UPDATE and the request validated.
LockWallet(r) ==
    LET a == body[r].acct IN
    /\ stage[r] = "authenticated"
    /\ body[r].op = "dues" => Assessed(body[r])
    /\ walletLock[a] = None
    /\ IF Allowed(r)
       THEN /\ walletLock' = [walletLock EXCEPT ![a] = r]
            /\ view' = [view EXCEPT ![r].balance = balance[a]]
            /\ stage' = [stage EXCEPT ![r] = "locked"]
            /\ UNCHANGED <<tables, month, body, reply>>
       ELSE Rollback(r, "refused")

\* send_money then reads the recipient's wallet FOR UPDATE.
LockRecipient(r) ==
    LET a == body[r].to IN
    /\ stage[r] = "locked" /\ body[r].op = "send"
    /\ walletLock[a] = None
    /\ IF a \in WalletOwners
       THEN /\ walletLock' = [walletLock EXCEPT ![a] = r]
            /\ stage' = [stage EXCEPT ![r] = "both"]
            /\ UNCHANGED <<tables, month, body, view, reply>>
       ELSE Rollback(r, "refused")

setup_pin(r) ==
    /\ stage[r] = "locked" /\ body[r].op = "pin"
    /\ pins' = [pins EXCEPT ![body[r].acct] = body[r].pin]
    /\ End(r, "done")
    /\ UNCHANGED <<balance, ledger, dues, reply>>

\* A server mode that clips what does not fit.
AddClipped(r) ==
    LET b == body[r]
        sum == balance[b.acct] + b.amount
    IN
    /\ stage[r] = "locked" /\ b.op = "add"
    /\ balance' = [balance EXCEPT ![b.acct] = IF sum > MaxBalance THEN MaxBalance ELSE sum]
    /\ ledger' = [ledger EXCEPT ![b.acct]["added"] = @ + b.amount]
    /\ reply' = [reply EXCEPT ![r] = balance'[b.acct]]
    /\ End(r, "done")
    /\ UNCHANGED <<pins, dues>>

\* balance + amount may leave the column's range: MySQL then fails the statement.
add_money(r) ==
    LET b == body[r] IN
    /\ stage[r] = "locked" /\ b.op = "add"
    /\ IF balance[b.acct] + b.amount > MaxBalance
       THEN Rollback(r, "aborted")
       ELSE /\ balance' = [balance EXCEPT ![b.acct] = @ + b.amount]
            /\ ledger' = [ledger EXCEPT ![b.acct]["added"] = @ + b.amount]
            /\ reply' = [reply EXCEPT ![r] = view[r].balance + b.amount]
            /\ End(r, "done")
            /\ UNCHANGED <<pins, dues>>

pay_dues(r) ==
    LET b == body[r] IN
    /\ stage[r] = "locked" /\ b.op = "dues"
    /\ balance' = [balance EXCEPT ![b.acct] = @ - b.amount]
    /\ ledger' = [ledger EXCEPT ![b.acct]["dues"] = @ + b.amount]
    /\ dues' = [dues EXCEPT ![b.acct][month] = @ + 1]
    /\ reply' = [reply EXCEPT ![r] = view[r].balance - b.amount]
    /\ End(r, "done")
    /\ UNCHANGED pins

pay_dues_upi(r) ==
    LET b == body[r] IN
    /\ stage[r] = "locked" /\ b.op = "dues_upi"
    /\ ledger' = [ledger EXCEPT ![b.acct]["dues_upi"] = @ + b.amount]
    /\ dues' = [dues EXCEPT ![b.acct][month] = @ + 1]
    /\ reply' = [reply EXCEPT ![r] = view[r].balance]
    /\ End(r, "done")
    /\ UNCHANGED <<balance, pins>>

\* Each statement its own transaction: the debit stays when the credit fails.
SendInTwo(r) ==
    LET b == body[r]
        fits == balance[b.to] + b.amount <= MaxBalance
        paid == [ledger EXCEPT ![b.acct]["sent"] = @ + b.amount]
    IN
    /\ stage[r] = "both"
    /\ balance' = [balance EXCEPT ![b.acct] = @ - b.amount,
                                  ![b.to] = IF fits THEN @ + b.amount ELSE @]
    /\ ledger' = IF fits THEN [paid EXCEPT ![b.to]["received"] = @ + b.amount] ELSE paid
    /\ reply' = [reply EXCEPT ![r] = view[r].balance - b.amount]
    /\ End(r, "done")
    /\ UNCHANGED <<pins, dues>>

\* Both wallets change, or, when the recipient's column overflows, neither.
send_money(r) ==
    LET b == body[r] IN
    /\ stage[r] = "both"
    /\ IF balance[b.to] + b.amount > MaxBalance
       THEN Rollback(r, "aborted")
       ELSE /\ balance' = [balance EXCEPT ![b.acct] = @ - b.amount, ![b.to] = @ + b.amount]
            /\ ledger' = [ledger EXCEPT ![b.acct]["sent"] = @ + b.amount,
                                        ![b.to]["received"] = @ + b.amount]
            /\ reply' = [reply EXCEPT ![r] = view[r].balance - b.amount]
            /\ End(r, "done")
            /\ UNCHANGED <<pins, dues>>

\* Deadlock victim, lock wait timeout, lost connection or stopped worker.
Abort(r) == stage[r] \in Active /\ Rollback(r, "aborted")

NextMonth ==
    /\ month < LastMonth
    /\ month' = month + 1
    /\ UNCHANGED <<tables, walletLock, stage, body, view, reply>>

\* No one is waited for with the recipient's wallet.
WaitsForOwn(r) == stage[r] = "authenticated" /\ walletLock[body[r].acct] # None

\* The wallet row a request asks for next is held by another request.
Waits(r) ==
    \/ stage[r] = "authenticated" /\ walletLock[body[r].acct] # None
    \/ stage[r] = "locked" /\ body[r].op = "send" /\ walletLock[body[r].to] # None

LockWaitEnds(r) == Waits(r) /\ Abort(r)

Step(r) ==
    \/ RefuseUnassessed(r) \/ LockWallet(r) \/ LockRecipient(r)
    \/ setup_pin(r) \/ add_money(r) \/ pay_dues(r) \/ pay_dues_upi(r) \/ send_money(r)

Next ==
    \/ \E r \in Requests : Authenticate(r) \/ Step(r) \/ Abort(r)
    \/ NextMonth

Spec == Init /\ [][Next]_vars

FairSpec == Spec /\ \A r \in Requests : WF_vars(Step(r)) /\ WF_vars(LockWaitEnds(r))
-----------------------------------------------------------------------------
(* Properties *)

Views == [dues: [Accounts -> [Months -> Nat]], balance: 0..MaxBalance]

\* Columns and locals keep their ranges: no debit leaves a negative balance.
TypeOK ==
    /\ balance \in [Accounts -> 0..MaxBalance]
    /\ pins \in [Accounts -> Pins \cup {None}]
    /\ ledger \in [Accounts -> [Kinds -> Nat]]
    /\ dues \in [Accounts -> [Months -> Nat]]
    /\ month \in Months
    /\ walletLock \in [Accounts -> Requests \cup {None}]
    /\ stage \in [Requests -> {"idle"} \cup Active \cup Outcomes]
    /\ body \in [Requests -> Payloads \cup {None}]
    /\ view \in [Requests -> Views]
    /\ reply \in [Requests -> (0..MaxBalance) \cup {None}]

\* What request r holds and knows at its stage.
Held(r) ==
    LET b == body[r] IN
    /\ stage[r] # "idle" => b \in Payloads
    /\ stage[r] \in {"locked", "both"} =>
         /\ b.acct \in WalletOwners /\ walletLock[b.acct] = r
         /\ view[r].balance = balance[b.acct]
         /\ b.op \in {"dues", "send"} => Debitable(b)
         /\ b.op = "send" => b.to \in Accounts \ {b.acct}
    /\ stage[r] = "both" =>
         /\ b.op = "send" /\ b.to \in WalletOwners /\ walletLock[b.to] = r

\* A request past its check holds the wallet it checked, and what it checked, the
\* PIN and the balance, is still so until it writes.
LockDiscipline == \A r \in Requests : Held(r)

\* What a member received and added, less what was sent and paid, is the balance:
\* no concurrent request loses an update of the wallet.
LedgerExplainsBalance ==
    \A a \in WalletOwners :
        balance[a] = Opening + ledger[a]["added"] + ledger[a]["received"]
                       - ledger[a]["sent"] - ledger[a]["dues"]

\* What was sent has arrived: a transfer that fails half-way, by a crash or by an
\* overflow of the recipient's balance, leaves no trace in either wallet.
TransfersBalanced ==
    Total([a \in Accounts |-> ledger[a]["sent"]]) = Total([a \in Accounts |-> ledger[a]["received"]])

\* The balance a member is answered, computed in Python from the row read, is
\* the balance the request committed.
RepliesExact ==
    [][\A r \in Requests :
         reply'[r] # reply[r] => reply'[r] = balance'[body[r].acct]]_vars

\* Money leaves a wallet only for a request that carries the PIN in force at that
\* moment, though the PIN may be set between its check and the debit.
PinInForce ==
    [][\A a \in Accounts :
         ledger'[a]["sent"] + ledger'[a]["dues"] > ledger[a]["sent"] + ledger[a]["dues"] =>
             \E r \in Requests : /\ stage[r] \in Active /\ stage'[r] = "done"
                                 /\ body[r].acct = a /\ body[r].pin = pins[a]]_vars

\* Every request that arrives is answered, two transfers in opposite directions,
\* which lock the two wallets in opposite orders, included.
EveryRequestEnds == \A r \in Requests : stage[r] \in Active ~> stage[r] \in Outcomes

\* "Dues already paid for this month." (wallet/service.py:74, :83): dues are taken at
\* most once a month, by wallet or by UPI.
DuesOncePerMonth == \A a \in Accounts, m \in Months : dues[a][m] <= 1

\* What the check of the month does achieve: dues of a month already paid are taken
\* again only by a payment that another one of the account overtook, committed since
\* its transaction's first read; never by one that came after the other, by the other
\* method, or in a month that began between its check and its debit.
DuesTwiceOnlyByRace ==
    [][\A a \in Accounts, m \in Months :
          dues[a][m] > 0 /\ dues'[a][m] > dues[a][m] =>
              \E r \in Requests : /\ stage[r] = "locked" /\ stage'[r] = "done"
                                  /\ body[r].acct = a
                                  /\ SeenDues(r)[a][m] # dues[a][m]]_vars
=============================================================================
