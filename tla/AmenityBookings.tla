--------------------------- MODULE AmenityBookings ---------------------------
(* Amenities and the booking of their slots with wallet payment,             *)
(* app/modules/amenities/service.py over repository.py.                      *)
(*                                                                           *)
(* A request is one MySQL transaction under REPEATABLE READ: the amenity and *)
(* the bookings are read from the snapshot the authentication query fixed,   *)
(* the wallet FOR UPDATE. A FOR UPDATE that finds no wallet locks the gap    *)
(* where the row would be: any number of requests may hold that lock, and    *)
(* each of them keeps the others from inserting.                             *)
EXTENDS Naturals, FiniteSets, Sums

CONSTANTS
    Requests,       \* HTTP requests, each served once
    Accounts,
    Amenities, BookingIds,  \* primary keys uuid4 may draw
    Payloads,       \* the requests considered
    OpeningAmenities,       \* amenities before the first request
    OpeningWallets, \* accounts that have a wallet row before the first request
    Opening,        \* its balance
    MaxAmount,      \* largest amenity_bookings.amount, NUMERIC(10,2)
    None

Ops == {"create", "update_status", "delete", "book"}

\* permitted stands for the checks of role and association, pinOk for the wallet's
\* PIN; start < end and hours > 0 by validation, but hours need not be end - start.
Bodies ==
    [op: Ops, acct: Accounts, amenity: Amenities \cup {None}, permitted: BOOLEAN,
     start: Nat, end: Nat, hours: 1..24, method: {"wallet", "upi"}, pinOk: BOOLEAN,
     charges: Nat, on: BOOLEAN]

AmenityRows == [exists: BOOLEAN, on: BOOLEAN, deleted: BOOLEAN, charges: Nat]

NoAmenity == [exists |-> FALSE, on |-> FALSE, deleted |-> FALSE, charges |-> 0]

BookingRows == [amenity: Amenities \cup {None}, acct: Accounts \cup {None},
                start: Nat, end: Nat, amount: 0..MaxAmount]

NoBooking == [amenity |-> None, acct |-> None, start |-> 0, end |-> 0, amount |-> 0]

ASSUME AmenityConstants ==
    /\ Payloads \subseteq Bodies
    /\ \A b \in Payloads : /\ b.op # "create" => b.amenity \in Amenities
                           /\ b.op = "book" => b.start < b.end
    /\ OpeningAmenities \in [Amenities -> AmenityRows]
    /\ \A z \in Amenities : OpeningAmenities[z].deleted => OpeningAmenities[z].exists
    /\ OpeningWallets \subseteq Accounts
    /\ Opening \in Nat /\ MaxAmount \in Nat
    /\ None \notin Requests \cup Accounts \cup Amenities \cup BookingIds

VARIABLES
    amenities,  \* amenities by id
    bookings,   \* amenity_bookings by id
    wallets,    \* accounts that have a wallet row
    balance,    \* wallets.balance
    debits,     \* sum of the wallet's "Debit" transactions
    upis,       \* sum of the wallet's "UPI" transactions
    walletLock, \* holder of the exclusive lock on an account's wallet row
    gapLocks,   \* holders of the gap lock where an account's row would be
    stage,      \* how far a request has come
    body,       \* its body, None before it arrives
    view        \* what its SELECTs return: the amenity and the bookings

tables == <<amenities, bookings, wallets, balance, debits, upis>>
vars == <<amenities, bookings, wallets, balance, debits, upis,
          walletLock, gapLocks, stage, body, view>>

NoView == [amenity |-> NoAmenity, bookings |-> {}]

Active == {"authenticated", "gap", "locked"}
Outcomes == {"done", "refused", "aborted"}

\* The booking that is there when the new one starts.
OverlapAtStart(x, y) == x.start <= y.start /\ x.end > y.start

Overlap(x, y) == x.start < y.end /\ x.end > y.start

\* Whether a booking of the snapshot overlaps the slot asked for; every booking is
\* confirmed and none is ever deleted.
overlapping_booking(r) ==
    \E k \in view[r].bookings : /\ bookings[k].amenity = body[r].amenity
                                /\ Overlap(bookings[k], body[r])

\* The row of an amenity that is not deleted, as it is now.
amenity_model(b) ==
    IF b.op = "create" \/ amenities[b.amenity].deleted THEN NoAmenity
    ELSE amenities[b.amenity]

Booked == {k \in BookingIds : bookings[k] # NoBooking}

Amount(r) == view[r].amenity.charges * body[r].hours
-----------------------------------------------------------------------------
Init ==
    /\ amenities = OpeningAmenities
    /\ bookings = [k \in BookingIds |-> NoBooking]
    /\ wallets = OpeningWallets
    /\ balance = [a \in Accounts |-> IF a \in OpeningWallets THEN Opening ELSE 0]
    /\ debits = [a \in Accounts |-> 0]
    /\ upis = [a \in Accounts |-> 0]
    /\ walletLock = [a \in Accounts |-> None]
    /\ gapLocks = [a \in Accounts |-> {}]
    /\ stage = [r \in Requests |-> "idle"]
    /\ body = [r \in Requests |-> None]
    /\ view = [r \in Requests |-> NoView]

\* Authentication reads first and fixes the snapshot.
Authenticate(r) ==
    /\ stage[r] = "idle"
    /\ \E b \in Payloads :
         /\ body' = [body EXCEPT ![r] = b]
         /\ view' = [view EXCEPT ![r] =
                       [amenity |-> amenity_model(b),
                        bookings |-> IF b.op = "book" THEN Booked ELSE {}]]
    /\ stage' = [stage EXCEPT ![r] = "authenticated"]
    /\ UNCHANGED <<tables, walletLock, gapLocks>>

\* Commit or rollback releases every lock.
End(r, outcome) ==
    /\ stage' = [stage EXCEPT ![r] = outcome]
    /\ view' = [view EXCEPT ![r] = NoView]
    /\ walletLock' = [a \in Accounts |-> IF walletLock[a] = r THEN None ELSE walletLock[a]]
    /\ gapLocks' = [a \in Accounts |-> gapLocks[a] \ {r}]
    /\ UNCHANGED body

Rollback(r, outcome) == End(r, outcome) /\ UNCHANGED tables

Refuse(r) == Rollback(r, "refused")

-----------------------------------------------------------------------------
(* Managers: the flush writes the changed columns of the row by id *)

Manages(r, op) ==
    /\ stage[r] = "authenticated" /\ body[r].op = op
    /\ body[r].permitted

create(r) ==
    /\ Manages(r, "create")
    /\ \E z \in Amenities :
         /\ ~amenities[z].exists
         /\ amenities' = [amenities EXCEPT ![z] =
              [exists |-> TRUE, on |-> body[r].on, deleted |-> FALSE,
               charges |-> body[r].charges]]
    /\ End(r, "done")
    /\ UNCHANGED <<bookings, wallets, balance, debits, upis>>

\* A flush that writes the whole row it read.
update_whole_row(r) ==
    /\ Manages(r, "update_status") /\ view[r].amenity.exists
    /\ amenities' = [amenities EXCEPT ![body[r].amenity] =
                       [view[r].amenity EXCEPT !.on = body[r].on]]
    /\ End(r, "done")
    /\ UNCHANGED <<bookings, wallets, balance, debits, upis>>

\* No UPDATE is sent when the status read is the one asked for.
update_status(r) ==
    /\ Manages(r, "update_status") /\ view[r].amenity.exists
    /\ amenities' = IF view[r].amenity.on = body[r].on THEN amenities
                    ELSE [amenities EXCEPT ![body[r].amenity].on = body[r].on]
    /\ End(r, "done")
    /\ UNCHANGED <<bookings, wallets, balance, debits, upis>>

delete(r) ==
    /\ Manages(r, "delete") /\ view[r].amenity.exists
    /\ amenities' = [amenities EXCEPT ![body[r].amenity].deleted = TRUE]
    /\ End(r, "done")
    /\ UNCHANGED <<bookings, wallets, balance, debits, upis>>

-----------------------------------------------------------------------------
(* book *)

\* What the snapshot must show: an active amenity and a free slot.
Bookable(r) ==
    /\ body[r].permitted /\ view[r].amenity.exists /\ view[r].amenity.on
    /\ ~overlapping_booking(r)

\* A request is refused for what it read.
RefuseRequest(r) ==
    /\ stage[r] = "authenticated"
    /\ CASE body[r].op = "create" -> ~body[r].permitted
         [] body[r].op = "book" -> ~Bookable(r)
         [] OTHER -> ~(body[r].permitted /\ view[r].amenity.exists)
    /\ Refuse(r)

\* Whether the wallet row read FOR UPDATE carries the payment.
Payable(r) ==
    LET b == body[r] IN
    b.method = "wallet" => b.pinOk /\ balance[b.acct] >= Amount(r)

\* wallet_for_update: the wallet row, or the gap where it would be.
LockWallet(r) ==
    LET a == body[r].acct IN
    /\ stage[r] = "authenticated" /\ body[r].op = "book" /\ Bookable(r)
    /\ walletLock[a] = None
    /\ \/ /\ a \in wallets /\ Payable(r)
          /\ walletLock' = [walletLock EXCEPT ![a] = r]
          /\ stage' = [stage EXCEPT ![r] = "locked"]
          /\ UNCHANGED <<tables, gapLocks, body, view>>
       \/ /\ a \notin wallets /\ body[r].method = "upi"
          /\ gapLocks' = [gapLocks EXCEPT ![a] = @ \cup {r}]
          /\ stage' = [stage EXCEPT ![r] = "gap"]
          /\ UNCHANGED <<tables, walletLock, body, view>>
       \/ /\ IF a \in wallets THEN ~Payable(r) ELSE body[r].method = "wallet"
          /\ Refuse(r)

\* The row is inserted, and visible to others when the booking commits; the insert
\* waits for the gap locks of others.
create_wallet(r) ==
    LET a == body[r].acct IN
    /\ stage[r] = "gap"
    /\ gapLocks[a] = {r}
    /\ walletLock' = [walletLock EXCEPT ![a] = r]
    /\ stage' = [stage EXCEPT ![r] = "locked"]
    /\ UNCHANGED <<tables, gapLocks, body, view>>

BookingRow(r) ==
    LET b == body[r] IN
    [amenity |-> b.amenity, acct |-> b.acct, start |-> b.start, end |-> b.end,
     amount |-> Amount(r)]

\* Debit and transaction committed apart from the booking row.
PayFirst(r) ==
    LET b == body[r]
        paid == IF b.method = "wallet" THEN Amount(r) ELSE 0
    IN
    /\ wallets' = wallets \cup {b.acct}
    /\ balance' = [balance EXCEPT ![b.acct] = @ - paid]
    /\ debits' = [debits EXCEPT ![b.acct] = @ + paid]
    /\ upis' = [upis EXCEPT ![b.acct] = @ + (Amount(r) - paid)]
    /\ \/ Amount(r) > MaxAmount /\ UNCHANGED bookings
       \/ /\ Amount(r) <= MaxAmount
          /\ \E k \in BookingIds \ Booked : bookings' = [bookings EXCEPT ![k] = BookingRow(r)]
    /\ End(r, "done")
    /\ UNCHANGED amenities

\* Debit, transaction and booking, or none when the amount does not fit the column.
Book(r) ==
    LET b == body[r]
        paid == IF b.method = "wallet" THEN Amount(r) ELSE 0
    IN
    \/ Amount(r) > MaxAmount /\ Rollback(r, "aborted")
    \/ /\ Amount(r) <= MaxAmount
       /\ \E k \in BookingIds \ Booked : bookings' = [bookings EXCEPT ![k] = BookingRow(r)]
       /\ wallets' = wallets \cup {b.acct}
       /\ balance' = [balance EXCEPT ![b.acct] = @ - paid]
       /\ debits' = [debits EXCEPT ![b.acct] = @ + paid]
       /\ upis' = [upis EXCEPT ![b.acct] = @ + (Amount(r) - paid)]
       /\ End(r, "done")
       /\ UNCHANGED amenities

book(r) == stage[r] = "locked" /\ Book(r)

-----------------------------------------------------------------------------
\* Deadlock victim, lock wait timeout, lost connection or stopped worker.
Abort(r) == stage[r] \in Active /\ Rollback(r, "aborted")

\* A wait for a gap lock goes unnoticed.
WaitsForRow(r) ==
    /\ stage[r] = "authenticated" /\ body[r].op = "book" /\ Bookable(r)
    /\ walletLock[body[r].acct] # None

\* The lock a request asks for next is held by another.
Waits(r) ==
    \/ /\ stage[r] = "authenticated" /\ body[r].op = "book" /\ Bookable(r)
       /\ walletLock[body[r].acct] # None
    \/ stage[r] = "gap" /\ gapLocks[body[r].acct] # {r}

LockWaitEnds(r) == Waits(r) /\ Abort(r)

Step(r) ==
    \/ create(r) \/ update_status(r) \/ delete(r) \/ RefuseRequest(r)
    \/ LockWallet(r) \/ create_wallet(r) \/ book(r)

Next == \E r \in Requests : Authenticate(r) \/ Step(r) \/ Abort(r)

Spec == Init /\ [][Next]_vars

FairSpec == Spec /\ \A r \in Requests : WF_vars(Step(r)) /\ WF_vars(LockWaitEnds(r))
-----------------------------------------------------------------------------
(* Properties *)

Charged(a) == Total([k \in BookingIds |-> IF bookings[k].acct = a THEN bookings[k].amount ELSE 0])

\* The wallet's transactions are the member's bookings, and the balance fell by the
\* debits alone and not below zero, also when an amount is too large for the booking's column.
PaymentsMatchBookings ==
    \A a \in Accounts :
        /\ debits[a] + upis[a] = Charged(a)
        /\ balance[a] + debits[a] = IF a \in OpeningWallets THEN Opening ELSE 0
        /\ balance[a] >= 0

Clash(x, y) == /\ x.amenity = y.amenity
               /\ (x.start .. x.end - 1) \cap (y.start .. y.end - 1) # {}

\* Two bookings share a time only if the request for one was under way when the other
\* was committed.
SlotSharedOnlyByRace ==
    [][\A k \in Booked', r \in Requests :
         stage[r] = "locked" /\ stage'[r] = "done" /\ k \notin Booked =>
             \A other \in Booked :
                 Clash(bookings'[k], bookings[other]) => other \notin view[r].bookings]_vars

\* A deleted amenity stays deleted though a manager who read it before sets its status.
DeletedStaysDeleted ==
    [][\A z \in Amenities : amenities[z].deleted => amenities'[z].deleted]_vars

\* Every request that arrives is answered, two that each hold the gap lock the other's
\* insert waits for included.
EveryRequestEnds == \A r \in Requests : stage[r] \in Active ~> stage[r] \in Outcomes
=============================================================================
