------------------------ MODULE AmenityBookingsProofs ------------------------
(* Theorems about amenities and their bookings for any number of requests,   *)
(* accounts, amenities and bookings.                                         *)
EXTENDS AmenityBookings, SumsTheorems

\* The ranges of the variables.
TypeOK ==
    /\ amenities \in [Amenities -> AmenityRows]
    /\ bookings \in [BookingIds -> BookingRows]
    /\ wallets \in SUBSET Accounts
    /\ balance \in [Accounts -> Nat] /\ debits \in [Accounts -> Nat] /\ upis \in [Accounts -> Nat]
    /\ walletLock \in [Accounts -> Requests \cup {None}]
    /\ gapLocks \in [Accounts -> SUBSET Requests]
    /\ stage \in [Requests -> {"idle"} \cup Active \cup Outcomes]
    /\ body \in [Requests -> Payloads \cup {None}]
    /\ view \in [Requests -> [amenity: AmenityRows, bookings: SUBSET BookingIds]]

\* An amenity that is deleted, or that a request has read, is a row.
RowsStay ==
    /\ \A z \in Amenities : amenities[z].deleted => amenities[z].exists
    /\ \A r \in Requests : stage[r] \in Active =>
          /\ body[r] \in Payloads
          /\ view[r].amenity.exists =>
                body[r].amenity \in Amenities /\ amenities[body[r].amenity].exists

\* A booking past its check found the slot free, and the bookings it found are there as they
\* were.
FoundFree ==
    \A r \in Requests :
        /\ view[r].bookings \subseteq Booked
        /\ stage[r] \in {"gap", "locked"} => body[r].op = "book" /\ Bookable(r)

\* A booking that may pay holds the wallet row, which carries the payment; one that is to
\* insert the row holds the gap, in which there is neither a row nor another's lock on one.
WalletHeld ==
    \A r \in Requests :
        /\ stage[r] = "locked" => walletLock[body[r].acct] = r /\ Payable(r)
        /\ stage[r] = "gap" =>
              /\ r \in gapLocks[body[r].acct] /\ walletLock[body[r].acct] = None
              /\ body[r].acct \notin wallets /\ body[r].method = "upi"

\* The amounts of an account's bookings.
Column(a) == [k \in BookingIds |-> IF bookings[k].acct = a THEN bookings[k].amount ELSE 0]

\* The bookings of an account can be added up.
Countable == \A a \in Accounts : IsFiniteSet(Units(Column(a)))

\* The inductive invariant of the bookings.
BookingInv == TypeOK /\ RowsStay /\ FoundFree /\ WalletHeld /\ Countable /\ PaymentsMatchBookings

USE AmenityConstants
-----------------------------------------------------------------------------
\* What a booking costs is a natural number.
LEMMA AmountTyped ==
    ASSUME TypeOK, NEW r \in Requests, body[r] \in Payloads
    PROVE  Amount(r) \in Nat
<1>1. view[r].amenity.charges \in Nat
  BY DEF TypeOK, AmenityRows
<1>3. body[r].hours \in 1..24
  BY DEF Bodies
<1>2. \A x, y \in Nat : x * y \in Nat
  OBVIOUS
<1> QED
  BY <1>1, <1>2, <1>3 DEF Amount

\* A body in Payloads has an account and, but for a new amenity, names one.
LEMMA BodyTyped ==
    ASSUME NEW b \in Payloads
    PROVE  /\ b.acct \in Accounts /\ b.start \in Nat /\ b.end \in Nat /\ b.op \in Ops
           /\ b.op # "create" => b.amenity \in Amenities
           /\ b.on \in BOOLEAN /\ b.charges \in Nat /\ b.method \in {"wallet", "upi"}
  BY DEF Bodies

\* The invariant holds at the start.
LEMMA InitLemma == Init => BookingInv
<1> SUFFICES ASSUME Init PROVE BookingInv
  OBVIOUS
<1>1. TypeOK
  BY DEF Init, TypeOK, BookingRows, NoBooking, AmenityRows, NoAmenity, NoView, Active, Outcomes
<1>2. RowsStay /\ FoundFree /\ WalletHeld
  BY DEF Init, RowsStay, FoundFree, WalletHeld, Active, NoView, Booked
<1>3. ASSUME NEW a \in Accounts
      PROVE  IsFiniteSet(Units(Column(a))) /\ Charged(a) = 0
  <2>1. Column(a) \in [BookingIds -> {0}]
    BY DEF Init, Column, NoBooking
  <2> QED
    BY <2>1, TotalOfZeros, Zenon DEF Charged, Column
<1>4. Countable /\ PaymentsMatchBookings
  BY <1>3 DEF Init, Countable, PaymentsMatchBookings
<1> QED
  BY <1>1, <1>2, <1>4 DEF BookingInv

\* A step that leaves the tables alone, but for rows of amenities it changes, keeps the sums.
LEMMA SumsStay ==
    ASSUME Countable, PaymentsMatchBookings, UNCHANGED <<bookings, balance, debits, upis>>
    PROVE  Countable' /\ PaymentsMatchBookings'
  BY DEF Countable, PaymentsMatchBookings, Column, Charged

\* The end of a request that writes no booking.
LEMMA EndKeeps ==
    ASSUME BookingInv, NEW r \in Requests, stage[r] \in Active, NEW outcome \in Outcomes,
           End(r, outcome), amenities' \in [Amenities -> AmenityRows],
           \A z \in Amenities : amenities[z].exists \/ amenities'[z].deleted => amenities'[z].exists,
           UNCHANGED <<bookings, wallets, balance, debits, upis>>
    PROVE  BookingInv'
<1> USE DEF BookingInv
<1>1. /\ stage' = [stage EXCEPT ![r] = outcome] /\ view' = [view EXCEPT ![r] = NoView]
      /\ walletLock' = [a \in Accounts |-> IF walletLock[a] = r THEN None ELSE walletLock[a]]
      /\ gapLocks' = [a \in Accounts |-> gapLocks[a] \ {r}]
      /\ body' = body
  BY DEF End
<1>2. TypeOK'
  BY <1>1 DEF TypeOK, NoView, NoAmenity, AmenityRows
<1>3. \A s \in Requests : /\ s # r => stage'[s] = stage[s] /\ view'[s] = view[s]
                          /\ s = r => stage'[s] = outcome /\ view'[s] = NoView
  BY <1>1 DEF TypeOK
<1>4. outcome \notin Active
  BY DEF Outcomes, Active
<1>5. RowsStay'
  BY <1>1, <1>3, <1>4 DEF RowsStay
<1>6. FoundFree'
  BY <1>1, <1>3, <1>4 DEF FoundFree, NoView, Booked, Bookable, overlapping_booking, Active
<1>7. WalletHeld'
  <2> SUFFICES ASSUME NEW s \in Requests
               PROVE  /\ stage'[s] = "locked" => walletLock'[body'[s].acct] = s /\ Payable(s)'
                      /\ stage'[s] = "gap" =>
                            /\ s \in gapLocks'[body'[s].acct] /\ walletLock'[body'[s].acct] = None
                            /\ body'[s].acct \notin wallets' /\ body'[s].method = "upi"
    BY Zenon DEF WalletHeld
  <2>0. stage'[s] \in {"locked", "gap"} => s # r /\ stage'[s] = stage[s]
    BY <1>3, <1>4 DEF Active
  <2>1. stage[s] \in {"locked", "gap"} => body[s].acct \in Accounts
    BY BodyTyped DEF RowsStay, Active
  <2>2. /\ stage[s] = "locked" => walletLock[body[s].acct] = s /\ Payable(s)
        /\ stage[s] = "gap" =>
              /\ s \in gapLocks[body[s].acct] /\ walletLock[body[s].acct] = None
              /\ body[s].acct \notin wallets /\ body[s].method = "upi"
    BY DEF WalletHeld
  <2>3. s # r => Payable(s)' = Payable(s)
    BY <1>1, <1>3 DEF Payable, Amount
  <2>4. s # r => \A a \in Accounts :
                            /\ walletLock[a] = s => walletLock'[a] = s
                            /\ walletLock[a] = None => walletLock'[a] = None
                            /\ s \in gapLocks[a] => s \in gapLocks'[a]
    BY <1>1
  <2> QED
    BY <1>1, <2>0, <2>1, <2>2, <2>3, <2>4
<1> QED
  BY <1>2, <1>5, <1>6, <1>7, SumsStay

\* The start of a request: it reads the amenity and the bookings as they are.
LEMMA AuthenticateKeeps ==
    ASSUME BookingInv, NEW r \in Requests, Authenticate(r)
    PROVE  BookingInv'
<1> USE DEF BookingInv
<1>1. PICK b \in Payloads :
        /\ body' = [body EXCEPT ![r] = b]
        /\ view' = [view EXCEPT ![r] = [amenity |-> amenity_model(b),
                                        bookings |-> IF b.op = "book" THEN Booked ELSE {}]]
  BY DEF Authenticate
<1>2. /\ stage[r] = "idle" /\ stage' = [stage EXCEPT ![r] = "authenticated"]
      /\ UNCHANGED <<tables, walletLock, gapLocks>>
  BY DEF Authenticate
<1>3. /\ amenity_model(b) \in AmenityRows
      /\ amenity_model(b).exists => b.amenity \in Amenities /\ amenities[b.amenity].exists
  BY BodyTyped DEF TypeOK, amenity_model, NoAmenity, AmenityRows
<1>4. TypeOK'
  BY <1>1, <1>2, <1>3 DEF TypeOK, tables, Booked, Active
<1>5. \A s \in Requests :
         /\ s # r => stage'[s] = stage[s] /\ view'[s] = view[s] /\ body'[s] = body[s]
         /\ s = r => /\ stage'[s] = "authenticated" /\ body'[s] = b
                     /\ view'[s].amenity = amenity_model(b) /\ view'[s].bookings \subseteq Booked
  BY <1>1, <1>2 DEF TypeOK
<1>6. RowsStay'
  BY <1>2, <1>3, <1>5 DEF RowsStay, tables
<1>7. FoundFree'
  BY <1>2, <1>5 DEF FoundFree, tables, Booked, Bookable, overlapping_booking
<1>8. WalletHeld'
  BY <1>2, <1>5 DEF WalletHeld, tables, Payable, Amount
<1> QED
  BY <1>2, <1>4, <1>6, <1>7, <1>8, SumsStay DEF tables

\* What a manager does keeps the invariant, and so does a refusal.
LEMMA ManagersKeep ==
    ASSUME BookingInv, NEW r \in Requests, create(r) \/ update_status(r) \/ delete(r)
    PROVE  BookingInv'
<1> USE DEF BookingInv
<1>1. /\ stage[r] = "authenticated" /\ stage[r] \in Active /\ "done" \in Outcomes
      /\ End(r, "done") /\ UNCHANGED <<bookings, wallets, balance, debits, upis>>
  BY DEF create, update_status, delete, Manages, Active, Outcomes
<1>2. body[r] \in Payloads
  BY <1>1 DEF RowsStay
<1>3. /\ amenities' \in [Amenities -> AmenityRows]
      /\ \A z \in Amenities : amenities[z].exists \/ amenities'[z].deleted => amenities'[z].exists
  <2>1. CASE create(r)
    BY <1>2, <2>1, BodyTyped DEF create, TypeOK, RowsStay, AmenityRows
  <2>2. ASSUME update_status(r) \/ delete(r)
        PROVE  /\ body[r].amenity \in Amenities /\ body[r].on \in BOOLEAN
               /\ amenities[body[r].amenity].exists
    BY <1>1, <1>2, <2>2, BodyTyped DEF update_status, delete, Manages, RowsStay
  <2>3. amenities \in [Amenities -> AmenityRows]
    BY DEF TypeOK
  <2>4. CASE update_status(r)
    <3> DEFINE row == [amenities[body[r].amenity] EXCEPT !.on = body[r].on]
    <3>1. \/ amenities' = amenities
          \/ amenities' = [amenities EXCEPT ![body[r].amenity] = row]
      BY <2>4 DEF update_status
    <3>2. row \in AmenityRows /\ row.exists /\ row.deleted = amenities[body[r].amenity].deleted
      BY <2>2, <2>3, <2>4 DEF AmenityRows
    <3> QED
      BY <2>2, <2>3, <2>4, <3>1, <3>2 DEF RowsStay
  <2>5. CASE delete(r)
    <3> DEFINE row == [amenities[body[r].amenity] EXCEPT !.deleted = TRUE]
    <3>1. amenities' = [amenities EXCEPT ![body[r].amenity] = row]
      BY <2>5 DEF delete
    <3>2. row \in AmenityRows /\ row.exists
      BY <2>2, <2>3, <2>5 DEF AmenityRows
    <3> QED
      BY <2>2, <2>3, <2>5, <3>1, <3>2 DEF RowsStay
  <2> QED
    BY <2>1, <2>4, <2>5
<1> QED
  BY <1>1, <1>3, EndKeeps

\* A rollback keeps the invariant.
LEMMA RollbackKeeps ==
    ASSUME BookingInv, NEW r \in Requests, stage[r] \in Active, NEW outcome \in Outcomes,
           Rollback(r, outcome)
    PROVE  BookingInv'
<1>1. /\ amenities' \in [Amenities -> AmenityRows]
      /\ \A z \in Amenities : amenities[z].exists \/ amenities'[z].deleted => amenities'[z].exists
      /\ End(r, outcome) /\ UNCHANGED <<bookings, wallets, balance, debits, upis>>
  BY DEF Rollback, tables, BookingInv, TypeOK, RowsStay
<1> QED
  BY <1>1, EndKeeps

\* The lock of the wallet, or of the gap where it would be, keeps the invariant.
LEMMA LockWalletKeeps ==
    ASSUME BookingInv, NEW r \in Requests, LockWallet(r)
    PROVE  BookingInv'
<1> USE DEF BookingInv
<1> DEFINE a == body[r].acct
<1>1. /\ stage[r] = "authenticated" /\ stage[r] \in Active /\ body[r].op = "book" /\ Bookable(r)
      /\ walletLock[a] = None
      /\ body[r] \in Payloads /\ a \in Accounts
  BY BodyTyped DEF LockWallet, RowsStay, Active
<1>2. CASE Refuse(r)
  BY <1>1, <1>2, RollbackKeeps DEF Refuse, Outcomes
<1>3. CASE /\ a \in wallets /\ Payable(r)
           /\ walletLock' = [walletLock EXCEPT ![a] = r]
           /\ stage' = [stage EXCEPT ![r] = "locked"]
           /\ UNCHANGED <<tables, gapLocks, body, view>>
  <2>1. TypeOK'
    BY <1>1, <1>3 DEF TypeOK, tables, Active
  <2>2. \A s \in Requests : stage'[s] = IF s = r THEN "locked" ELSE stage[s]
    BY <1>3 DEF TypeOK
  <2>3. RowsStay' /\ FoundFree'
    BY <1>1, <1>3, <2>2 DEF RowsStay, FoundFree, tables, Booked, Bookable, overlapping_booking, Active
  <2>4. WalletHeld'
    BY <1>1, <1>3, <2>2 DEF WalletHeld, TypeOK, tables, Payable, Amount
  <2> QED
    BY <1>3, <2>1, <2>3, <2>4, SumsStay DEF tables
<1>4. CASE /\ a \notin wallets /\ body[r].method = "upi"
           /\ gapLocks' = [gapLocks EXCEPT ![a] = @ \cup {r}]
           /\ stage' = [stage EXCEPT ![r] = "gap"]
           /\ UNCHANGED <<tables, walletLock, body, view>>
  <2>1. TypeOK'
    BY <1>1, <1>4 DEF TypeOK, tables, Active
  <2>2. \A s \in Requests : stage'[s] = IF s = r THEN "gap" ELSE stage[s]
    BY <1>4 DEF TypeOK
  <2>3. RowsStay' /\ FoundFree'
    BY <1>1, <1>4, <2>2 DEF RowsStay, FoundFree, tables, Booked, Bookable, overlapping_booking, Active
  <2>4. WalletHeld'
    BY <1>1, <1>4, <2>2 DEF WalletHeld, TypeOK, tables, Payable, Amount
  <2> QED
    BY <1>4, <2>1, <2>3, <2>4, SumsStay DEF tables
<1> QED
  BY <1>2, <1>3, <1>4 DEF LockWallet

\* The insertion of the wallet row keeps the invariant: only a payment by UPI comes to it.
LEMMA CreateWalletKeeps ==
    ASSUME BookingInv, NEW r \in Requests, create_wallet(r)
    PROVE  BookingInv'
<1> USE DEF BookingInv
<1> DEFINE a == body[r].acct
<1>1. /\ stage[r] = "gap" /\ gapLocks[a] = {r} /\ walletLock' = [walletLock EXCEPT ![a] = r]
      /\ stage' = [stage EXCEPT ![r] = "locked"] /\ UNCHANGED <<tables, gapLocks, body, view>>
      /\ body[r] \in Payloads /\ a \in Accounts
  BY BodyTyped DEF create_wallet, RowsStay, Active
<1>2. TypeOK'
  BY <1>1 DEF TypeOK, tables, Active
<1>3. \A s \in Requests : stage'[s] = IF s = r THEN "locked" ELSE stage[s]
  BY <1>1 DEF TypeOK
<1>4. RowsStay' /\ FoundFree'
  BY <1>1, <1>3 DEF RowsStay, FoundFree, tables, Booked, Bookable, overlapping_booking, Active
<1>5. WalletHeld'
  BY <1>1, <1>3 DEF WalletHeld, TypeOK, tables, Payable, Amount
<1> QED
  BY <1>1, <1>2, <1>4, <1>5, SumsStay DEF tables

\* What a booking needs where it writes: its amount, and that the wallet has it.
LEMMA Paying ==
    ASSUME BookingInv, NEW r \in Requests, stage[r] = "locked"
    PROVE  LET a == body[r].acct
               paid == IF body[r].method = "wallet" THEN Amount(r) ELSE 0
           IN  /\ body[r] \in Payloads /\ a \in Accounts /\ walletLock[a] = r
               /\ Amount(r) \in Nat /\ paid \in Nat /\ Amount(r) - paid \in Nat
               /\ balance[a] - paid \in Nat
<1>1. body[r] \in Payloads /\ body[r].acct \in Accounts
  BY BodyTyped DEF BookingInv, RowsStay, Active
<1>2. Amount(r) \in Nat
  BY <1>1, AmountTyped DEF BookingInv
<1>3. walletLock[body[r].acct] = r /\ Payable(r)
  BY DEF BookingInv, WalletHeld
<1>4. balance[body[r].acct] \in Nat
  BY <1>1 DEF BookingInv, TypeOK
<1> QED
  BY <1>1, <1>2, <1>3, <1>4 DEF Payable

\* A booking with its payment keeps the invariant.
LEMMA BookKeeps ==
    ASSUME BookingInv, NEW r \in Requests, book(r)
    PROVE  BookingInv'
<1> DEFINE a == body[r].acct
           c == Amount(r)
           paid == IF body[r].method = "wallet" THEN Amount(r) ELSE 0
<1>0. stage[r] = "locked"
  BY DEF book
<1>1. /\ body[r] \in Payloads /\ a \in Accounts /\ walletLock[a] = r
      /\ c \in Nat /\ paid \in Nat /\ c - paid \in Nat /\ balance[a] - paid \in Nat
  BY <1>0, Paying
<1>2. CASE Rollback(r, "aborted")
  BY <1>0, <1>2, RollbackKeeps DEF Active, Outcomes
<1>3. CASE /\ c <= MaxAmount
           /\ \E k \in BookingIds \ Booked : bookings' = [bookings EXCEPT ![k] = BookingRow(r)]
           /\ wallets' = wallets \cup {a}
           /\ balance' = [balance EXCEPT ![a] = @ - paid]
           /\ debits' = [debits EXCEPT ![a] = @ + paid]
           /\ upis' = [upis EXCEPT ![a] = @ + (c - paid)]
           /\ End(r, "done")
           /\ UNCHANGED amenities
  <2>1. PICK k \in BookingIds \ Booked : bookings' = [bookings EXCEPT ![k] = BookingRow(r)]
    BY <1>3
  <2> HIDE DEF paid, c
  <2>2. /\ stage' = [stage EXCEPT ![r] = "done"] /\ view' = [view EXCEPT ![r] = NoView]
        /\ walletLock' = [x \in Accounts |-> IF walletLock[x] = r THEN None ELSE walletLock[x]]
        /\ gapLocks' = [x \in Accounts |-> gapLocks[x] \ {r}]
        /\ body' = body
    BY <1>3 DEF End
  <2>3. /\ \A x \in Accounts : x # a => balance'[x] = balance[x]
        /\ balance'[a] = balance[a] - paid /\ debits'[a] = debits[a] + paid
        /\ upis'[a] = upis[a] + (c - paid)
        /\ \A x \in Accounts : x # a => debits'[x] = debits[x] /\ upis'[x] = upis[x]
    BY <1>1, <1>3 DEF BookingInv, TypeOK
  <2>4. /\ bookings[k] = NoBooking /\ bookings'[k] = BookingRow(r) /\ BookingRow(r) \in BookingRows
        /\ BookingRow(r).acct = a /\ BookingRow(r).amount = c /\ BookingRow(r) # NoBooking
        /\ \A x \in BookingIds : x # k => bookings'[x] = bookings[x]
    <3>1. /\ body[r].start \in Nat /\ body[r].end \in Nat /\ c \in 0..MaxAmount
          /\ body[r].amenity \in Amenities
      BY <1>0, <1>1, <1>3, BodyTyped DEF BookingInv, FoundFree
    <3> QED
      BY <1>1, <2>1, <3>1 DEF BookingInv, TypeOK, BookingRow, BookingRows, NoBooking, Booked, c
  <2>5. TypeOK'
    <3>1. bookings' \in [BookingIds -> BookingRows]
      BY <2>1, <2>4 DEF BookingInv, TypeOK
    <3>2. balance' \in [Accounts -> Nat] /\ debits' \in [Accounts -> Nat] /\ upis' \in [Accounts -> Nat]
      BY <1>1, <1>3 DEF BookingInv, TypeOK
    <3> QED
      BY <1>1, <1>3, <2>2, <3>1, <3>2 DEF BookingInv, TypeOK, NoView, NoAmenity, AmenityRows, Outcomes
  <2>6. \A s \in Requests : /\ s # r => stage'[s] = stage[s] /\ view'[s] = view[s]
                            /\ s = r => stage'[s] = "done" /\ view'[s] = NoView
    BY <2>2 DEF BookingInv, TypeOK
  <2>7. RowsStay'
    BY <1>3, <2>2, <2>6 DEF BookingInv, RowsStay, Active
  <2>8. FoundFree'
    <3> SUFFICES ASSUME NEW s \in Requests
                 PROVE  /\ view'[s].bookings \subseteq Booked'
                        /\ stage'[s] \in {"gap", "locked"} => body'[s].op = "book" /\ Bookable(s)'
      BY Zenon DEF FoundFree
    <3>1. \A x \in Booked : x # k /\ x \in Booked' /\ bookings'[x] = bookings[x]
      BY <2>1, <2>4 DEF Booked
    <3>2. CASE s = r
      BY <2>6, <3>2 DEF NoView
    <3>3. CASE s # r
      BY <2>2, <2>6, <3>1, <3>3 DEF BookingInv, FoundFree, Bookable, overlapping_booking
    <3> QED
      BY <3>2, <3>3
  <2>9. WalletHeld'
    <3> SUFFICES ASSUME NEW s \in Requests
                 PROVE  /\ stage'[s] = "locked" => walletLock'[body'[s].acct] = s /\ Payable(s)'
                        /\ stage'[s] = "gap" =>
                              /\ s \in gapLocks'[body'[s].acct] /\ walletLock'[body'[s].acct] = None
                              /\ body'[s].acct \notin wallets' /\ body'[s].method = "upi"
      BY Zenon DEF WalletHeld
    <3>1. stage'[s] \in {"locked", "gap"} =>
             /\ s # r /\ stage'[s] = stage[s] /\ view'[s] = view[s]
             /\ body[s].acct \in Accounts /\ body[s].acct # a
      BY <1>1, <2>6, BodyTyped DEF BookingInv, RowsStay, WalletHeld, Active
    <3>2. /\ stage[s] = "locked" => walletLock[body[s].acct] = s /\ Payable(s)
          /\ stage[s] = "gap" =>
                /\ s \in gapLocks[body[s].acct] /\ walletLock[body[s].acct] = None
                /\ body[s].acct \notin wallets /\ body[s].method = "upi"
      BY DEF BookingInv, WalletHeld
    <3>3. stage'[s] = "locked" => Payable(s)' = Payable(s)
      BY <2>2, <2>3, <3>1 DEF Payable, Amount
    <3>4. s # r => \A x \in Accounts : /\ walletLock[x] = s => walletLock'[x] = s
                                       /\ walletLock[x] = None => walletLock'[x] = None
                                       /\ s \in gapLocks[x] => s \in gapLocks'[x]
      BY <2>2
    <3> QED
      BY <1>3, <2>2, <3>1, <3>2, <3>3, <3>4
  <2>10. ASSUME NEW x \in Accounts
         PROVE  /\ IsFiniteSet(Units(Column(x)'))
                /\ Charged(x)' = Charged(x) + (IF x = a THEN c ELSE 0)
    <3>1. Column(x) \in [BookingIds -> Nat] /\ Column(x)' \in [BookingIds -> Nat]
      BY <2>5 DEF BookingInv, TypeOK, Column, BookingRows
    <3>2. IsFiniteSet(Units(Column(x)))
      BY DEF BookingInv, Countable
    <3>3. \A z \in BookingIds \ {k} : Column(x)'[z] = Column(x)[z]
      BY <2>4 DEF Column
    <3>4. Column(x)'[k] = Column(x)[k] + (IF x = a THEN c ELSE 0)
      BY <1>1, <2>4 DEF Column, NoBooking
    <3>5. (IF x = a THEN c ELSE 0) \in Nat
      BY <1>1
    <3>6. PICK f, g, n : f = Column(x) /\ g = Column(x)' /\ n = (IF x = a THEN c ELSE 0)
      OBVIOUS
    <3>7. IsFiniteSet(Units(g)) /\ Total(g) = Total(f) + n
      <4>1. /\ f \in [BookingIds -> Nat] /\ g \in [BookingIds -> Nat] /\ n \in Nat /\ k \in BookingIds
            /\ IsFiniteSet(Units(f)) /\ g[k] = f[k] + n /\ \A z \in BookingIds \ {k} : g[z] = f[z]
        BY <3>1, <3>2, <3>3, <3>4, <3>5, <3>6
      <4> QED
        BY <4>1, TotalOfRowIncrease
    <3> QED
      BY <3>6, <3>7 DEF Charged, Column
  <2>11. Countable'
    BY <2>10 DEF Countable
  <2>12. PaymentsMatchBookings'
    <3> SUFFICES ASSUME NEW x \in Accounts
                 PROVE  /\ debits'[x] + upis'[x] = Charged(x)'
                        /\ balance'[x] + debits'[x] = IF x \in OpeningWallets THEN Opening ELSE 0
                        /\ balance'[x] >= 0
      BY DEF PaymentsMatchBookings
    <3>1. /\ debits[x] + upis[x] = Charged(x)
          /\ balance[x] + debits[x] = IF x \in OpeningWallets THEN Opening ELSE 0
      BY DEF BookingInv, PaymentsMatchBookings
    <3>2. balance[x] \in Nat /\ debits[x] \in Nat /\ upis[x] \in Nat /\ balance'[x] \in Nat
      BY <2>5 DEF BookingInv, TypeOK
    <3> QED
      BY <1>1, <2>3, <2>10, <3>1, <3>2
  <2> QED
    BY <2>5, <2>7, <2>8, <2>9, <2>11, <2>12 DEF BookingInv
<1> QED
  BY <1>2, <1>3 DEF book, Book

\* Every step keeps the invariant.
LEMMA NextKeeps == BookingInv /\ [Next]_vars => BookingInv'
<1> SUFFICES ASSUME BookingInv, [Next]_vars PROVE BookingInv'
  OBVIOUS
<1>1. CASE UNCHANGED vars
  <2>1. TypeOK' /\ RowsStay' /\ FoundFree' /\ WalletHeld'
    BY <1>1 DEF vars, BookingInv, TypeOK, RowsStay, FoundFree, WalletHeld, Booked, Bookable,
                overlapping_booking, Payable, Amount
  <2> QED
    BY <1>1, <2>1, SumsStay DEF vars, BookingInv
<1>2. ASSUME NEW r \in Requests, RefuseRequest(r) PROVE BookingInv'
  BY <1>2, RollbackKeeps DEF RefuseRequest, Refuse, Active, Outcomes
<1>3. ASSUME NEW r \in Requests, Abort(r) PROVE BookingInv'
  BY <1>3, RollbackKeeps DEF Abort, Outcomes
<1> QED
  BY <1>1, <1>2, <1>3, AuthenticateKeeps, ManagersKeep, LockWalletKeeps, CreateWalletKeeps, BookKeeps
     DEF Next, Step

\* The tables keep their types, no row of an amenity is lost, a booking past its check has found
\* the slot free and holds the wallet that can pay, in every reachable state.
THEOREM BookingInvariant == Spec => []BookingInv
  BY InitLemma, NextKeeps, PTL DEF Spec

\* The transactions of a wallet are its member's bookings, and the balance fell by the debits
\* alone and not below zero, however bookings overlap and wherever one fails.
THEOREM PaymentsAlwaysMatch == Spec => []PaymentsMatchBookings
<1>1. BookingInv => PaymentsMatchBookings
  BY DEF BookingInv
<1> QED
  BY <1>1, BookingInvariant, PTL
-----------------------------------------------------------------------------
\* A deleted amenity stays deleted, also when a manager sets its status after.
THEOREM DeletedAmenitiesStay == Spec => DeletedStaysDeleted
<1>1. ASSUME BookingInv, [Next]_vars, NEW z \in Amenities, amenities[z].deleted
      PROVE  amenities'[z].deleted
  <2>0. amenities \in [Amenities -> AmenityRows] /\ amenities[z].exists
    BY <1>1 DEF BookingInv, TypeOK, RowsStay
  <2>1. ASSUME NEW r \in Requests, create(r) \/ update_status(r) \/ delete(r)
        PROVE  amenities'[z].deleted
    BY <1>1, <2>0, <2>1 DEF create, update_status, delete, AmenityRows
  <2>2. ASSUME NEW r \in Requests, LockWallet(r) \/ create_wallet(r) \/ book(r) \/ Authenticate(r)
                                   \/ RefuseRequest(r) \/ Abort(r)
        PROVE  amenities' = amenities
    BY <2>2 DEF LockWallet, create_wallet, book, Book, Authenticate, RefuseRequest, Abort, Refuse, Rollback,
                tables
  <2>3. CASE UNCHANGED vars
    BY <1>1, <2>3 DEF vars
  <2> QED
    BY <1>1, <2>1, <2>2, <2>3 DEF Next, Step
<1>2. BookingInv /\ [Next]_vars => [\A z \in Amenities : amenities[z].deleted => amenities'[z].deleted]_vars
  BY <1>1
<1> QED
  BY <1>2, BookingInvariant, PTL DEF Spec, DeletedStaysDeleted

\* Slots that share a time overlap.
LEMMA ClashOverlaps ==
    ASSUME NEW x, NEW y, x.start \in Nat, x.end \in Nat, y.start \in Nat, y.end \in Nat, Clash(x, y)
    PROVE  x.amenity = y.amenity /\ Overlap(y, x)
  BY DEF Clash, Overlap

\* A booking that is committed shares its time with none that its request had found.
THEOREM SlotsSharedOnlyByRaces == Spec => SlotSharedOnlyByRace
<1>1. ASSUME BookingInv, [Next]_vars, NEW k \in Booked', NEW r \in Requests, stage[r] = "locked",
             stage'[r] = "done", k \notin Booked, NEW other \in Booked, Clash(bookings'[k], bookings[other])
      PROVE  other \notin view[r].bookings
  <2>1. book(r)
    <3>1. ASSUME NEW s \in Requests, s # r, Authenticate(s) \/ Step(s) \/ Abort(s)
          PROVE  stage'[r] = stage[r]
      BY <1>1, <3>1 DEF BookingInv, TypeOK, Authenticate, Step, Abort, create, update_status, delete,
                  RefuseRequest, LockWallet, create_wallet, book, Book, Refuse, Rollback, End
    <3>2. stage' # stage
      BY <1>1
    <3>3. PICK s \in Requests : Authenticate(s) \/ Step(s) \/ Abort(s)
      BY <1>1, <3>2 DEF Next, vars
    <3>4. s = r
      BY <1>1, <3>1, <3>3
    <3>5. ~Abort(r)
      BY <1>1 DEF Abort, Rollback, End, BookingInv, TypeOK
    <3> QED
      BY <1>1, <3>3, <3>4, <3>5 DEF Authenticate, Step, create, update_status, delete, Manages, RefuseRequest,
           LockWallet, create_wallet
  <2>2. bookings'[k] = BookingRow(r) /\ k \in BookingIds
    BY <1>1, <2>1 DEF book, Book, Booked, Rollback, tables, BookingInv, TypeOK
  <2>3. body[r] \in Payloads /\ Bookable(r)
    BY <1>1 DEF BookingInv, RowsStay, FoundFree, Active
  <2>4. /\ BookingRow(r).start \in Nat /\ BookingRow(r).end \in Nat
        /\ BookingRow(r).amenity = body[r].amenity
        /\ BookingRow(r).start = body[r].start /\ BookingRow(r).end = body[r].end
    BY <2>3, BodyTyped DEF BookingRow
  <2>5. bookings[other].start \in Nat /\ bookings[other].end \in Nat
    BY <1>1 DEF BookingInv, TypeOK, Booked, BookingRows
  <2>6. bookings[other].amenity = body[r].amenity /\ Overlap(bookings[other], body[r])
    BY <1>1, <2>2, <2>4, <2>5, ClashOverlaps DEF Overlap
  <2> QED
    BY <2>3, <2>6 DEF Bookable, overlapping_booking
<1> DEFINE Raceless ==
      \A k \in Booked', r \in Requests :
         stage[r] = "locked" /\ stage'[r] = "done" /\ k \notin Booked =>
             \A other \in Booked :
                 Clash(bookings'[k], bookings[other]) => other \notin view[r].bookings
<1>2. BookingInv /\ [Next]_vars => Raceless
  BY <1>1
<1> HIDE DEF Raceless
<1>3. BookingInv /\ [Next]_vars => [Raceless]_vars
  BY <1>2
<1>4. Spec => [][Raceless]_vars
  BY <1>3, BookingInvariant, PTL DEF Spec
<1> QED
  BY <1>4 DEF SlotSharedOnlyByRace, Raceless
=============================================================================
