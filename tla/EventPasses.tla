----------------------------- MODULE EventPasses -----------------------------
(* Booking, sharing and gate check-in of event passes:                       *)
(* app/modules/events/pass_service.py over pass_repository.py.               *)
(*                                                                           *)
(* Every HTTP request runs in one MySQL transaction. Its first read is the   *)
(* authentication query, which under REPEATABLE READ fixes the snapshot that *)
(* every later plain SELECT of the request sees. SELECT ... FOR UPDATE and   *)
(* UPDATE read current rows and lock them to the end of the transaction. The *)
(* writes of a request become visible together, when it commits.             *)
EXTENDS Naturals, FiniteSets, Sums

CONSTANTS
    Requests,       \* HTTP requests, each served once
    Accounts,       \* accounts allowed to see the events
    Managers,       \* those that pass _manager_event
    WalletOwners,   \* those that have a wallet row
    Events,
    PassIds,        \* primary keys uuid4 may draw
    Payloads,       \* the request bodies considered
    Isolation,      \* isolation level of the MySQL session
    MaxCapacity,    \* events.max_capacity, 0 for none
    MaxPerUser,     \* events.max_passes_per_user or 10
    Price,          \* pass_price, else fee_amount, else 0
    Opening,        \* wallet balance before the first request
    None

ASSUME ConstantsAssumption ==
    /\ Managers \subseteq Accounts
    /\ WalletOwners \subseteq Accounts
    /\ MaxCapacity \in Nat /\ MaxPerUser \in Nat
    /\ Price \in Nat /\ Opening \in Nat
    /\ Isolation \in {"REPEATABLE_READ", "READ_COMMITTED"}
    /\ None \notin Requests \cup Accounts \cup Events \cup PassIds

\* The three request bodies, with unused fields None and a count of at least one.
Bodies ==
    [op: {"book", "share", "check_in"}, acct: Accounts, event: Events \cup {None},
     pass: PassIds \cup {None}, count: Nat \ {0}, method: {"wallet", "upi", "none"},
     pinOk: BOOLEAN, to: Accounts \cup {None}]

ASSUME PayloadsAssumption ==
    /\ Payloads \subseteq Bodies
    /\ \A b \in Payloads :
         /\ b.op = "book" => b.event \in Events /\ b.method # "none"
         /\ b.op # "book" => b.pass \in PassIds

VARIABLES
    passes,     \* event_passes by id; an id not drawn yet has status "None"
    rsvps,      \* number of event_rsvps rows of an event and an account
    admitted,   \* sum of event_pass_checkins.admitted_count of a pass
    balance,    \* wallets.balance
    debits,     \* sum of the wallet's "Debit" transactions
    upis,       \* sum of the wallet's "UPI" transactions
    eventLock, passLock, walletLock,  \* holder of each row's exclusive lock
    stage,      \* how far a request has come
    body,       \* its body, None before it arrives
    view        \* what a request has read: its snapshot, the row and the buyer's
                \* pass that it locked

tables == <<passes, rsvps, admitted, balance, debits, upis>>
locks == <<eventLock, passLock, walletLock>>
vars == <<passes, rsvps, admitted, balance, debits, upis,
          eventLock, passLock, walletLock, stage, body, view>>

Rows == [status: {"None", "Active", "Checked_In"}, event: Events \cup {None},
         acct: Accounts \cup {None}, total: Nat, remaining: Nat, checked: Nat,
         paid: Nat, from: PassIds \cup {None}]

NoRow == [status |-> "None", event |-> None, acct |-> None, total |-> 0,
          remaining |-> 0, checked |-> 0, paid |-> 0, from |-> None]

NewPass(e, a, n, amount, from) ==
    [status |-> "Active", event |-> e, acct |-> a, total |-> n, remaining |-> n,
     checked |-> 0, paid |-> amount, from |-> from]

NoView == [passes |-> [p \in PassIds |-> NoRow],
           rsvps |-> [x \in Events \X Accounts |-> 0],
           row |-> NoRow, own |-> None]

\* A booking that has counted the passes sold.
Booking == {"admitted", "paid", "found"}

Active == {"authenticated", "locked"} \cup Booking

\* The outcome of a plain SELECT by request r.
Seen(r) == IF Isolation = "READ_COMMITTED"
           THEN [view[r] EXCEPT !.passes = passes, !.rsvps = rsvps]
           ELSE view[r]

Primary(table, p) == table[p].status # "None" /\ table[p].from = None

PrimaryTotals(table, e) ==
    [p \in PassIds |-> IF Primary(table, p) /\ table[p].event = e
                       THEN table[p].total ELSE 0]

booked_count(table, e) == Total(PrimaryTotals(table, e))

buyer_count(table, e, a) ==
    Total([p \in PassIds |-> IF /\ Primary(table, p)
                                /\ table[p].event = e
                                /\ table[p].acct = a
                             THEN table[p].total ELSE 0])

primary_buyer_pass(e, a) ==
    {p \in PassIds : Primary(passes, p) /\ passes[p].event = e /\ passes[p].acct = a}

Amount(b) == Price * b.count

-----------------------------------------------------------------------------
Init ==
    /\ passes = [p \in PassIds |-> NoRow]
    /\ rsvps = [x \in Events \X Accounts |-> 0]
    /\ admitted = [p \in PassIds |-> 0]
    /\ balance = [a \in Accounts |-> IF a \in WalletOwners THEN Opening ELSE 0]
    /\ debits = [a \in Accounts |-> 0]
    /\ upis = [a \in Accounts |-> 0]
    /\ eventLock = [e \in Events |-> None]
    /\ passLock = [p \in PassIds |-> None]
    /\ walletLock = [a \in Accounts |-> None]
    /\ stage = [r \in Requests |-> "idle"]
    /\ body = [r \in Requests |-> None]
    /\ view = [r \in Requests |-> NoView]

Release(lock, r) == [x \in DOMAIN lock |-> IF lock[x] = r THEN None ELSE lock[x]]

\* The transaction ends: commit or rollback releases every row lock.
End(r, outcome) ==
    /\ stage' = [stage EXCEPT ![r] = outcome]
    /\ view' = [view EXCEPT ![r] = NoView]
    /\ eventLock' = Release(eventLock, r)
    /\ passLock' = Release(passLock, r)
    /\ walletLock' = Release(walletLock, r)
    /\ UNCHANGED body

Refuse(r) == End(r, "refused") /\ UNCHANGED tables

\* get_auth_context reads the session row: the transaction's first read.
Authenticate(r) ==
    /\ stage[r] = "idle"
    /\ \E b \in Payloads :
         /\ body' = [body EXCEPT ![r] = b]
         /\ view' = [view EXCEPT ![r] = IF b.op = "book"
                                        THEN [NoView EXCEPT !.passes = passes, !.rsvps = rsvps]
                                        ELSE NoView]
    /\ stage' = [stage EXCEPT ![r] = "authenticated"]
    /\ UNCHANGED <<tables, locks>>

-----------------------------------------------------------------------------
(* book *)

FitsIgnoringOwnCount(r) ==
    LET b == body[r] IN
    /\ MaxCapacity # 0 => booked_count(Seen(r).passes, b.event) < MaxCapacity
    /\ buyer_count(Seen(r).passes, b.event, b.acct) + b.count <= MaxPerUser

FitsWithoutOwnLimit(r) ==
    LET b == body[r] IN
    /\ MaxCapacity # 0 =>
         booked_count(Seen(r).passes, b.event) + b.count <= MaxCapacity
    /\ b.count <= MaxPerUser

Fits(r) ==
    LET b == body[r] IN
    /\ MaxCapacity # 0 =>
         booked_count(Seen(r).passes, b.event) + b.count <= MaxCapacity
    /\ buyer_count(Seen(r).passes, b.event, b.acct) + b.count <= MaxPerUser

\* Locks the event row, then counts what has been sold.
BookAdmission(r) ==
    /\ stage[r] = "authenticated" /\ body[r].op = "book"
    /\ eventLock[body[r].event] = None
    /\ IF Fits(r)
       THEN /\ eventLock' = [eventLock EXCEPT ![body[r].event] = r]
            /\ stage' = [stage EXCEPT ![r] = "admitted"]
            /\ UNCHANGED <<tables, passLock, walletLock, body, view>>
       ELSE Refuse(r)

\* Whether the wallet, read FOR UPDATE, can carry the payment.
Payable(b) ==
    /\ b.acct \in WalletOwners
    /\ b.method = "wallet" => b.pinOk /\ balance[b.acct] >= Amount(b)

BookPayment(r) ==
    LET b == body[r] IN
    /\ stage[r] = "admitted"
    /\ \/ /\ Amount(b) = 0
          /\ stage' = [stage EXCEPT ![r] = "paid"]
          /\ UNCHANGED <<tables, locks, body, view>>
       \/ /\ Amount(b) > 0
          /\ walletLock[b.acct] = None
          /\ IF Payable(b)
             THEN /\ walletLock' = [walletLock EXCEPT ![b.acct] = r]
                  /\ stage' = [stage EXCEPT ![r] = "paid"]
                  /\ UNCHANGED <<tables, eventLock, passLock, body, view>>
             ELSE Refuse(r)

EnlargedOnly(row, b) ==
    [row EXCEPT !.total = @ + b.count, !.remaining = @ + b.count, !.status = "Active"]

\* add_to_pass: the buyer's one pass grows and is active again.
Enlarged(row, b) ==
    [row EXCEPT !.total = @ + b.count, !.remaining = @ + b.count,
                !.paid = @ + Amount(b), !.status = "Active"]

\* Looks for the buyer's pass FOR UPDATE.
BookFindPass(r) ==
    LET mine == primary_buyer_pass(body[r].event, body[r].acct) IN
    /\ stage[r] = "paid"
    /\ \/ \E p \in mine :
            /\ passLock[p] = None
            /\ passLock' = [passLock EXCEPT ![p] = r]
            /\ view' = [view EXCEPT ![r].own = p]
       \/ /\ mine = {}
          /\ view' = [view EXCEPT ![r].own = None]
          /\ UNCHANGED passLock
    /\ stage' = [stage EXCEPT ![r] = "found"]
    /\ UNCHANGED <<tables, eventLock, walletLock, body>>

\* Writes pass, payment and RSVP, and commits.
BookCommit(r) ==
    LET b == body[r]
        own == view[r].own
        amount == Amount(b)
    IN
    /\ stage[r] = "found"
    /\ \/ own # None /\ passes' = [passes EXCEPT ![own] = Enlarged(@, b)]
       \/ /\ own = None
          /\ \E p \in PassIds :
               /\ passes[p].status = "None"
               /\ passes' = [passes EXCEPT ![p] =
                               NewPass(b.event, b.acct, b.count, amount, None)]
    /\ rsvps' = IF Seen(r).rsvps[<<b.event, b.acct>>] = 0
                THEN [rsvps EXCEPT ![<<b.event, b.acct>>] = @ + 1]
                ELSE rsvps
    /\ IF b.method = "wallet"
       THEN /\ balance' = [balance EXCEPT ![b.acct] = @ - amount]
            /\ debits' = [debits EXCEPT ![b.acct] = @ + amount]
            /\ UNCHANGED upis
       ELSE /\ upis' = [upis EXCEPT ![b.acct] = @ + amount]
            /\ UNCHANGED <<balance, debits>>
    /\ End(r, "done")
    /\ UNCHANGED admitted

-----------------------------------------------------------------------------
(* share and check_in *)

ReadUnlocked(r) ==
    /\ view' = [view EXCEPT ![r].row = passes[body[r].pass]]
    /\ stage' = [stage EXCEPT ![r] = "locked"]
    /\ UNCHANGED <<tables, locks, body>>

\* pass_by_id(lock=True): the current row, locked until the transaction ends.
ReadLocked(r) ==
    LET p == body[r].pass IN
    /\ passLock[p] = None
    /\ passLock' = [passLock EXCEPT ![p] = r]
    /\ view' = [view EXCEPT ![r].row = passes[p]]
    /\ stage' = [stage EXCEPT ![r] = "locked"]
    /\ UNCHANGED <<tables, eventLock, walletLock, body>>

Shareable(row, b) ==
    /\ row.status = "Active"
    /\ row.acct = b.acct \/ b.acct \in Managers
    /\ row.from = None
    /\ b.count <= row.remaining

AdmissibleByTotal(row, b) ==
    /\ b.acct \in Managers
    /\ row.event = b.event
    /\ b.count <= row.total

Admissible(row, b) ==
    /\ b.acct \in Managers
    /\ row.event = b.event
    /\ row.status = "Active"
    /\ b.count <= row.remaining

\* The request reads its pass under lock and is refused or goes on.
LockPass(r) ==
    LET b == body[r]
        row == passes[b.pass]
    IN
    /\ stage[r] = "authenticated" /\ b.op # "book"
    /\ passLock[b.pass] = None
    /\ IF (b.op = "share" /\ Shareable(row, b)) \/ (b.op = "check_in" /\ Admissible(row, b))
       THEN ReadLocked(r)
       ELSE Refuse(r)

\* The child row's foreign key needs the event row, so a booking that holds it is waited for.
ShareCommit(r) ==
    LET b == body[r]
        row == view[r].row
        owner == IF b.to = None THEN row.acct ELSE b.to
    IN
    /\ stage[r] = "locked" /\ b.op = "share"
    /\ eventLock[row.event] = None
    /\ \E p \in PassIds :
         /\ passes[p].status = "None"
         /\ passes' = [passes EXCEPT ![b.pass].remaining = @ - b.count,
                                    ![p] = NewPass(row.event, owner, b.count, 0, b.pass)]
    /\ End(r, "done")
    /\ UNCHANGED <<rsvps, admitted, balance, debits, upis>>

\* The row check_in writes: values computed in Python from the row it read.
CheckedIn(current, row, b) ==
    LET remaining == row.remaining - b.count IN
    [current EXCEPT !.remaining = remaining, !.checked = row.checked + b.count,
                    !.status = IF remaining = 0 THEN "Checked_In" ELSE "Active"]

CheckInCommit(r) ==
    LET b == body[r]
        row == view[r].row
    IN
    /\ stage[r] = "locked" /\ b.op = "check_in"
    /\ eventLock[row.event] = None
    /\ passes' = [passes EXCEPT ![b.pass] = CheckedIn(@, row, b)]
    /\ admitted' = [admitted EXCEPT ![b.pass] = @ + b.count]
    /\ End(r, "done")
    /\ UNCHANGED <<rsvps, balance, debits, upis>>

-----------------------------------------------------------------------------
(* A transaction that fails is rolled back: the deadlock victim MySQL picks, *)
(* a lock wait timeout, a lost connection, a worker that stops.              *)

AbortAndRetry(r) ==
    /\ stage[r] \in Active
    /\ End(r, "authenticated")
    /\ UNCHANGED tables

Abort(r) == stage[r] \in Active /\ End(r, "aborted") /\ UNCHANGED tables

\* The row lock a request asks for next is held by another request.
Waits(r) ==
    LET b == body[r] IN
    \/ stage[r] = "authenticated" /\ b.op = "book" /\ eventLock[b.event] # None
    \/ stage[r] = "admitted" /\ Amount(b) > 0 /\ walletLock[b.acct] # None
    \/ stage[r] = "paid" /\ \E p \in primary_buyer_pass(b.event, b.acct) : passLock[p] # None
    \/ stage[r] = "authenticated" /\ b.op # "book" /\ passLock[b.pass] # None
    \/ stage[r] = "locked" /\ eventLock[view[r].row.event] # None

LockWaitEnds(r) == Waits(r) /\ Abort(r)

Step(r) ==
    \/ BookAdmission(r) \/ BookPayment(r) \/ BookFindPass(r) \/ BookCommit(r)
    \/ LockPass(r) \/ ShareCommit(r) \/ CheckInCommit(r)

Next == \E r \in Requests : Authenticate(r) \/ Step(r) \/ Abort(r)

Spec == Init /\ [][Next]_vars

FairSpec == Spec /\ \A r \in Requests : WF_vars(Step(r)) /\ WF_vars(LockWaitEnds(r))
-----------------------------------------------------------------------------
(* Properties *)

Outcomes == {"done", "refused", "aborted"}

Views == [passes: [PassIds -> Rows], rsvps: [Events \X Accounts -> Nat], row: Rows,
          own: PassIds \cup {None}]

\* Every table column, lock and local keeps its range; in particular no wallet
\* is overdrawn and no pass is left with a negative number of admissions.
TypeOK ==
    /\ passes \in [PassIds -> Rows]
    /\ rsvps \in [Events \X Accounts -> Nat]
    /\ admitted \in [PassIds -> Nat]
    /\ balance \in [Accounts -> Nat]
    /\ debits \in [Accounts -> Nat]
    /\ upis \in [Accounts -> Nat]
    /\ eventLock \in [Events -> Requests \cup {None}]
    /\ passLock \in [PassIds -> Requests \cup {None}]
    /\ walletLock \in [Accounts -> Requests \cup {None}]
    /\ stage \in [Requests -> {"idle"} \cup Active \cup Outcomes]
    /\ body \in [Requests -> Payloads \cup {None}]
    /\ view \in [Requests -> Views]

\* What request r holds and knows at its stage.
Disciplined(r) ==
    LET b == body[r] IN
    /\ stage[r] # "idle" => b \in Payloads
    /\ stage[r] \in Booking => b.op = "book" /\ eventLock[b.event] = r
    /\ stage[r] \in {"paid", "found"} /\ Amount(b) > 0 =>
         walletLock[b.acct] = r /\ Payable(b)
    /\ stage[r] = "found" /\ view[r].own # None =>
         /\ passLock[view[r].own] = r
         /\ view[r].own \in primary_buyer_pass(b.event, b.acct)
    /\ stage[r] = "locked" =>
         /\ passLock[b.pass] = r /\ view[r].row = passes[b.pass]
         /\ \/ b.op = "share" /\ Shareable(passes[b.pass], b)
            \/ b.op = "check_in" /\ Admissible(passes[b.pass], b)

\* Who is past which check holds the rows it checked, and what it checked still
\* holds: the pass row a share or a check-in read is the current one until the
\* request ends, and a wallet that could pay can still pay when it is debited.
LockDiscipline == \A r \in Requests : Disciplined(r)

\* Admissions passed on from p by sharing.
SharedOut(p) ==
    Total([q \in PassIds |-> IF passes[q].from = p THEN passes[q].total ELSE 0])

\* Every admission ever put on a pass is still on it, was used at the gate, or was
\* passed on, and what the pass counts as used is what the check-in rows add up to:
\* however bookings, shares and check-ins of a pass interleave, two gates that scan it
\* lose no admission.
AdmissionsAccounted ==
    \A p \in PassIds :
        /\ passes[p].total = passes[p].remaining + passes[p].checked + SharedOut(p)
        /\ passes[p].checked = admitted[p]

\* What the passes of an account say was paid is what its wallet recorded, and
\* the wallet lost exactly its debits: no booking takes money without a pass or
\* gives a pass without its payment, even when transactions are rolled back.
PaymentsMatchPasses ==
    \A a \in Accounts :
        /\ Total([p \in PassIds |-> IF passes[p].acct = a THEN passes[p].paid ELSE 0])
             = debits[a] + upis[a]
        /\ a \in WalletOwners => balance[a] + debits[a] = Opening

AdmittedTo(e) ==
    Total([p \in PassIds |-> IF passes[p].event = e THEN admitted[p] ELSE 0])

\* Nobody enters on an admission that was never sold: sharing neither copies
\* admissions nor lets the giver use the ones given away.
AdmittedWithinSold == \A e \in Events : AdmittedTo(e) <= booked_count(passes, e)

\* Every request that arrives is answered, though bookings (event row, then pass)
\* and shares (pass, then event row by foreign key) lock in opposite orders.
EveryRequestEnds == \A r \in Requests : stage[r] \in Active ~> stage[r] \in Outcomes

\* "Lock the event before counting purchases, so concurrent bookings cannot
\* exceed capacity" (pass_service.py:44).
CapacityHeld ==
    MaxCapacity # 0 => \A e \in Events : booked_count(passes, e) <= MaxCapacity

\* Booking r commits in this step.
Commits(r) == stage[r] = "found" /\ stage'[r] = "done"

\* What the lock of the event row does achieve: a sale beyond the capacity is a booking
\* whose count of the passes sold was overtaken, that is, another booking of the event
\* was committed since its transaction's first read. Bookings one after another, and
\* shares and check-ins in between, never oversell.
OversoldOnlyByRace ==
    [][\A e \in Events :
          /\ MaxCapacity # 0
          /\ booked_count(passes', e) > booked_count(passes, e)
          /\ booked_count(passes', e) > MaxCapacity
          => \E r \in Requests :
               /\ Commits(r) /\ body[r].event = e
               /\ booked_count(Seen(r).passes, e) # booked_count(passes, e)]_vars

\* A member has one bought pass of an event, which repeated bookings add to
\* (pass_service.py:77-90): also when the bookings of the member are concurrent and
\* neither sees the other's, since the pass is looked for under the event's lock.
OnePrimary ==
    \A p, q \in PassIds :
        /\ Primary(passes, p) /\ Primary(passes, q)
        /\ passes[p].event = passes[q].event
        /\ passes[p].acct = passes[q].acct
        => p = q

\* "Maximum {limit} passes permitted per member" (pass_service.py:50): a member gets
\* past the limit only with a booking overtaken by another one of the same member. And even
\* such bookings add to one pass.
OverLimitOnlyByRace ==
    /\ []OnePrimary
    /\ [][\A e \in Events, a \in Accounts :
             /\ buyer_count(passes', e, a) > buyer_count(passes, e, a)
             /\ buyer_count(passes', e, a) > MaxPerUser
             => \E r \in Requests :
                  /\ Commits(r) /\ body[r].event = e /\ body[r].acct = a
                  /\ buyer_count(Seen(r).passes, e, a) # buyer_count(passes, e, a)]_vars

\* The tables implement the register of admissions a box office would keep. The note of
\* a request is the count its transaction reads; without a booking it is the present one.
Register == INSTANCE AdmissionRegister WITH
    Clerks <- Requests,
    Capacity <- MaxCapacity,
    sold <- [e \in Events |-> booked_count(passes, e)],
    entered <- [e \in Events |-> AdmittedTo(e)],
    noted <- [r \in Requests |-> [e \in Events |->
                 IF stage[r] \in Active /\ body[r].op = "book"
                 THEN booked_count(Seen(r).passes, e)
                 ELSE booked_count(passes, e)]]

\* Each committed request sells what fits its note, admits within the sales, or
\* leaves the register alone; and no note is of anything but sales of the present or
\* of the transaction's start.
ImplementsRegister == Register!Spec
=============================================================================
