-------------------------- MODULE EventPassesProofs --------------------------
(* Theorems about event passes for any number of requests, accounts, events  *)
(* and passes.                                                                *)
EXTENDS EventPasses, SumsTheorems

\* Closure of the naturals under the product, for amounts.
LEMMA ProductOfNaturals ==
    ASSUME NEW x \in Nat, NEW y \in Nat
    PROVE  x * y \in Nat
  OBVIOUS

USE ConstantsAssumption DEF Booking

\* The inductive invariant behind the type invariant: remaining_passes and
\* balance stay natural only because what was read under a lock stays true.
Locked == TypeOK /\ LockDiscipline

\* What a request body carries.
LEMMA BodyType ==
    ASSUME NEW b \in Payloads
    PROVE  /\ b.op \in {"book", "share", "check_in"}
           /\ b.acct \in Accounts
           /\ b.op = "book" => b.event \in Events
           /\ b.op # "book" => b.pass \in PassIds
           /\ b.count \in Nat \ {0}
           /\ b.method \in {"wallet", "upi", "none"}
           /\ b.pinOk \in BOOLEAN
           /\ b.to \in Accounts \cup {None}
           /\ Amount(b) \in Nat
  <1>1. /\ b \in Bodies
        /\ b.op = "book" => b.event \in Events
        /\ b.op # "book" => b.pass \in PassIds
    BY PayloadsAssumption
  <1>2. /\ b.op \in {"book", "share", "check_in"}
        /\ b.acct \in Accounts
        /\ b.count \in Nat \ {0}
        /\ b.method \in {"wallet", "upi", "none"}
        /\ b.pinOk \in BOOLEAN
        /\ b.to \in Accounts \cup {None}
    BY <1>1 DEF Bodies
  <1>3. Amount(b) \in Nat
    <2>1. b.count \in Nat
      BY <1>2
    <2> QED
      BY <2>1, ProductOfNaturals DEF Amount
  <1> QED
    BY <1>1, <1>2, <1>3

\* No stage of an active request is an outcome, and a lock is held by a request.
LEMMA NoneIsNoRequest == None \notin Requests
  OBVIOUS

\* Ending a transaction keeps the types and the locks of the others.
LEMMA EndKeeps ==
    ASSUME TypeOK, NEW r \in Requests, NEW o \in Outcomes, End(r, o)
    PROVE  /\ stage' \in [Requests -> {"idle"} \cup Active \cup Outcomes]
           /\ view' \in [Requests -> Views]
           /\ body' = body
           /\ eventLock' \in [Events -> Requests \cup {None}]
           /\ passLock' \in [PassIds -> Requests \cup {None}]
           /\ walletLock' \in [Accounts -> Requests \cup {None}]
           /\ stage'[r] = o
           /\ \A s \in Requests \ {r} :
                /\ stage'[s] = stage[s] /\ view'[s] = view[s]
                /\ \A e \in Events : eventLock[e] = s => eventLock'[e] = s
                /\ \A p \in PassIds : passLock[p] = s => passLock'[p] = s
                /\ \A a \in Accounts : walletLock[a] = s => walletLock'[a] = s
  <1>1. NoRow \in Rows
    BY DEF NoRow, Rows
  <1>2. NoView \in Views
    BY <1>1 DEF NoView, Views
  <1>3. /\ stage' \in [Requests -> {"idle"} \cup Active \cup Outcomes]
        /\ view' \in [Requests -> Views]
        /\ body' = body /\ stage'[r] = o
        /\ \A s \in Requests \ {r} : stage'[s] = stage[s] /\ view'[s] = view[s]
    BY <1>2 DEF End, TypeOK
  <1>4. /\ eventLock' \in [Events -> Requests \cup {None}]
        /\ \A s \in Requests \ {r} : \A e \in Events : eventLock[e] = s => eventLock'[e] = s
    BY DEF Release, End, TypeOK
  <1>5. /\ passLock' \in [PassIds -> Requests \cup {None}]
        /\ \A s \in Requests \ {r} : \A p \in PassIds : passLock[p] = s => passLock'[p] = s
    BY DEF Release, End, TypeOK
  <1>6. /\ walletLock' \in [Accounts -> Requests \cup {None}]
        /\ \A s \in Requests \ {r} : \A a \in Accounts : walletLock[a] = s => walletLock'[a] = s
    BY DEF Release, End, TypeOK
  <1> QED
    BY <1>3, <1>4, <1>5, <1>6

\* What another request holds and knows survives a step that leaves it, its locks
\* and the rows it has locked alone.
LEMMA OthersDisciplined ==
    ASSUME NEW s \in Requests, Disciplined(s),
           body'[s] = body[s], stage'[s] = stage[s], view'[s] = view[s],
           \A e \in Events : eventLock[e] = s => eventLock'[e] = s,
           \A p \in PassIds : passLock[p] = s =>
               passLock'[p] = s /\ (passes[p].status # "None" => passes'[p] = passes[p]),
           \A a \in Accounts : walletLock[a] = s => walletLock'[a] = s /\ balance'[a] = balance[a]
    PROVE  Disciplined(s)'
  <1>1. stage[s] # "idle" => body[s] \in Payloads
    BY DEF Disciplined
  <1>2. CASE stage[s] \in Booking
    <2>1. body[s] \in Payloads /\ body[s].op = "book" /\ eventLock[body[s].event] = s
      BY <1>2 DEF Disciplined
    <2>2. body[s].event \in Events /\ body[s].acct \in Accounts
      BY <2>1, BodyType
    <2>3. eventLock'[body[s].event] = s
      BY <2>1, <2>2
    <2>4. ASSUME stage[s] \in {"paid", "found"}, Amount(body[s]) > 0
          PROVE  walletLock'[body[s].acct] = s /\ Payable(body[s])'
      <3>1. walletLock[body[s].acct] = s /\ Payable(body[s])
        BY <2>4 DEF Disciplined
      <3>2. walletLock'[body[s].acct] = s /\ balance'[body[s].acct] = balance[body[s].acct]
        BY <2>2, <3>1
      <3> QED
        BY <3>1, <3>2 DEF Payable
    <2>5. ASSUME stage[s] = "found", view[s].own # None
          PROVE  /\ passLock'[view'[s].own] = s
                 /\ view'[s].own \in primary_buyer_pass(body[s].event, body[s].acct)'
      <3>1. /\ view[s].own \in PassIds /\ passLock[view[s].own] = s
            /\ Primary(passes, view[s].own)
            /\ passes[view[s].own].event = body[s].event
            /\ passes[view[s].own].acct = body[s].acct
        BY <2>5 DEF Disciplined, primary_buyer_pass
      <3>2. passLock'[view[s].own] = s /\ passes'[view[s].own] = passes[view[s].own]
        BY <3>1 DEF Primary
      <3> QED
        BY <3>1, <3>2 DEF Primary, primary_buyer_pass
    <2> QED
      BY <1>2, <2>1, <2>3, <2>4, <2>5 DEF Disciplined
  <1>3. CASE stage[s] = "locked"
    <2>1. body[s] \in Payloads /\ body[s].op # "book" /\ passLock[body[s].pass] = s
      BY <1>3 DEF Disciplined
    <2>2. body[s].pass \in PassIds
      BY <2>1, BodyType
    <2>3. passes[body[s].pass].status = "Active"
      BY <1>3 DEF Disciplined, Shareable, Admissible
    <2>4. passLock'[body[s].pass] = s /\ passes'[body[s].pass] = passes[body[s].pass]
      BY <2>1, <2>2, <2>3
    <2> QED
      BY <1>3, <2>1, <2>4 DEF Disciplined
  <1>4. CASE stage[s] \notin Booking \cup {"locked"}
    BY <1>1, <1>4 DEF Disciplined
  <1> QED
    BY <1>2, <1>3, <1>4

\* A refused or aborted request changes no table and keeps the invariant.
LEMMA EndWithoutWriteKeeps ==
    ASSUME Locked, NEW r \in Requests, NEW o \in Outcomes, End(r, o), UNCHANGED tables,
           body[r] \in Payloads
    PROVE  Locked'
  <1>1. TypeOK /\ LockDiscipline
    BY DEF Locked
  <1>2. /\ stage'[r] = o /\ body' = body
        /\ \A s \in Requests \ {r} :
             /\ stage'[s] = stage[s] /\ view'[s] = view[s]
             /\ \A e \in Events : eventLock[e] = s => eventLock'[e] = s
             /\ \A p \in PassIds : passLock[p] = s => passLock'[p] = s
             /\ \A a \in Accounts : walletLock[a] = s => walletLock'[a] = s
    BY <1>1, EndKeeps
  <1>3. TypeOK'
    <2>1. /\ passes' = passes /\ rsvps' = rsvps /\ admitted' = admitted
          /\ balance' = balance /\ debits' = debits /\ upis' = upis
      BY DEF tables
    <2>2. /\ stage' \in [Requests -> {"idle"} \cup Active \cup Outcomes]
          /\ view' \in [Requests -> Views]
          /\ eventLock' \in [Events -> Requests \cup {None}]
          /\ passLock' \in [PassIds -> Requests \cup {None}]
          /\ walletLock' \in [Accounts -> Requests \cup {None}]
      BY <1>1, EndKeeps
    <2> QED
      BY <1>1, <1>2, <2>1, <2>2 DEF TypeOK
  <1>4. Disciplined(r)'
    BY <1>2 DEF Disciplined, Outcomes
  <1>5. ASSUME NEW s \in Requests \ {r} PROVE Disciplined(s)'
    <2>1. Disciplined(s)
      BY <1>1 DEF LockDiscipline
    <2> QED
      BY <1>2, <2>1, OthersDisciplined DEF tables
  <1>6. LockDiscipline'
    BY <1>4, <1>5 DEF LockDiscipline
  <1> QED
    BY <1>3, <1>6 DEF Locked

\* The empty tables satisfy the invariant.
LEMMA InitLocked == Init => Locked
  <1> SUFFICES ASSUME Init PROVE Locked
    OBVIOUS
  <1>1. NoRow \in Rows
    BY DEF NoRow, Rows
  <1>2. NoView \in Views
    BY <1>1 DEF NoView, Views
  <1>3. TypeOK
    BY <1>1, <1>2 DEF Init, TypeOK
  <1>4. LockDiscipline
    BY DEF Init, LockDiscipline, Disciplined
  <1> QED
    BY <1>3, <1>4 DEF Locked
-----------------------------------------------------------------------------
(* One lemma per action.                                                     *)

\* Authentication gives the request a body and a snapshot.
LEMMA AuthenticateKeeps ==
    ASSUME Locked, NEW r \in Requests, Authenticate(r)
    PROVE  Locked'
  <1>1. TypeOK /\ LockDiscipline
    BY DEF Locked
  <1>2. PICK b \in Payloads :
          /\ body' = [body EXCEPT ![r] = b]
          /\ view' = [view EXCEPT ![r] = IF b.op = "book"
                                          THEN [NoView EXCEPT !.passes = passes, !.rsvps = rsvps]
                                          ELSE NoView]
    BY DEF Authenticate
  <1>3. stage' = [stage EXCEPT ![r] = "authenticated"] /\ UNCHANGED <<tables, locks>>
    BY DEF Authenticate
  <1>4. NoRow \in Rows
    BY DEF NoRow, Rows
  <1>5. NoView \in Views /\ [NoView EXCEPT !.passes = passes, !.rsvps = rsvps] \in Views
    BY <1>1, <1>4 DEF NoView, Views, TypeOK
  <1>6. view' \in [Requests -> Views]
    BY <1>1, <1>2, <1>5 DEF TypeOK
  <1>7. body' \in [Requests -> Payloads \cup {None}]
    BY <1>1, <1>2 DEF TypeOK
  <1>8. TypeOK'
    BY <1>1, <1>3, <1>6, <1>7 DEF TypeOK, tables, locks, Active
  <1>9. Disciplined(r)'
    BY <1>1, <1>2, <1>3 DEF Disciplined, TypeOK
  <1>10. ASSUME NEW s \in Requests \ {r} PROVE Disciplined(s)'
    <2>1. body'[s] = body[s] /\ stage'[s] = stage[s] /\ view'[s] = view[s]
      BY <1>1, <1>2, <1>3 DEF TypeOK
    <2>2. Disciplined(s)
      BY <1>1 DEF LockDiscipline
    <2> QED
      BY <1>3, <2>1, <2>2, OthersDisciplined DEF tables, locks
  <1> QED
    BY <1>8, <1>9, <1>10 DEF Locked, LockDiscipline

\* The event row is locked for the booking that fits.
LEMMA BookAdmissionKeeps ==
    ASSUME Locked, NEW r \in Requests, BookAdmission(r)
    PROVE  Locked'
  <1>1. TypeOK /\ LockDiscipline /\ body[r] \in Payloads /\ body[r].op = "book"
    BY DEF Locked, LockDiscipline, Disciplined, BookAdmission
  <1>2. CASE Refuse(r)
    BY <1>1, <1>2, EndWithoutWriteKeeps DEF Refuse, Outcomes
  <1>3. CASE /\ eventLock[body[r].event] = None
             /\ eventLock' = [eventLock EXCEPT ![body[r].event] = r]
             /\ stage' = [stage EXCEPT ![r] = "admitted"]
             /\ UNCHANGED <<tables, passLock, walletLock, body, view>>
    <2>1. body[r].event \in Events
      BY <1>1, BodyType
    <2>2. TypeOK'
      BY <1>1, <1>3, <2>1 DEF TypeOK, tables, Active
    <2>3. Disciplined(r)'
      BY <1>1, <1>3, <2>1 DEF Disciplined, TypeOK
    <2>4. ASSUME NEW s \in Requests \ {r} PROVE Disciplined(s)'
      <3>1. stage'[s] = stage[s] /\ Disciplined(s)
        BY <1>1, <1>3 DEF TypeOK, LockDiscipline
      <3>2. \A e \in Events : eventLock[e] = s => eventLock'[e] = s
        BY <1>1, <1>3 DEF TypeOK
      <3> QED
        BY <1>3, <3>1, <3>2, OthersDisciplined DEF tables
    <2> QED
      BY <2>2, <2>3, <2>4 DEF Locked, LockDiscipline
  <1> QED
    BY <1>2, <1>3 DEF BookAdmission

\* The wallet row is locked for the booking that can be paid.
LEMMA BookPaymentKeeps ==
    ASSUME Locked, NEW r \in Requests, BookPayment(r)
    PROVE  Locked'
  <1>b. PICK b \in Payloads : b = body[r]
    BY DEF Locked, LockDiscipline, Disciplined, BookPayment
  <1>1. /\ TypeOK /\ LockDiscipline /\ stage[r] = "admitted"
        /\ b.op = "book" /\ eventLock[b.event] = r
    BY <1>b DEF Locked, LockDiscipline, Disciplined, BookPayment
  <1>2. b.acct \in Accounts /\ b.event \in Events /\ Amount(b) \in Nat
    BY BodyType, <1>1
  <1>3. CASE Refuse(r)
    BY <1>b, <1>3, EndWithoutWriteKeeps DEF Refuse, Outcomes
  <1>4. CASE /\ Amount(b) = 0
             /\ stage' = [stage EXCEPT ![r] = "paid"]
             /\ UNCHANGED <<tables, locks, body, view>>
    <2>1. TypeOK'
      BY <1>1, <1>4 DEF TypeOK, tables, locks, Active
    <2>2. Disciplined(r)'
      <3>1. stage'[r] = "paid" /\ body'[r] = b /\ eventLock'[b.event] = r
        BY <1>b, <1>1, <1>4 DEF TypeOK, locks
      <3>2. ~(Amount(b) > 0)
        BY <1>4
      <3> QED
        BY <1>1, <3>1, <3>2 DEF Disciplined
    <2>3. ASSUME NEW s \in Requests \ {r} PROVE Disciplined(s)'
      <3>1. stage'[s] = stage[s] /\ Disciplined(s)
        BY <1>1, <1>4 DEF TypeOK, LockDiscipline
      <3> QED
        BY <1>4, <3>1, OthersDisciplined DEF tables, locks
    <2> QED
      BY <2>1, <2>2, <2>3 DEF Locked, LockDiscipline
  <1>5. CASE /\ walletLock[b.acct] = None /\ Payable(b)
             /\ walletLock' = [walletLock EXCEPT ![b.acct] = r]
             /\ stage' = [stage EXCEPT ![r] = "paid"]
             /\ UNCHANGED <<tables, eventLock, passLock, body, view>>
    <2>1. TypeOK'
      BY <1>1, <1>2, <1>5 DEF TypeOK, tables, Active
    <2>2. Disciplined(r)'
      BY <1>b, <1>1, <1>2, <1>5 DEF Disciplined, TypeOK, Payable, tables
    <2>3. ASSUME NEW s \in Requests \ {r} PROVE Disciplined(s)'
      <3>1. stage'[s] = stage[s] /\ Disciplined(s)
        BY <1>1, <1>5 DEF TypeOK, LockDiscipline
      <3>2. \A a \in Accounts : walletLock[a] = s => walletLock'[a] = s
        BY <1>1, <1>5 DEF TypeOK
      <3> QED
        BY <1>5, <3>1, <3>2, OthersDisciplined DEF tables
    <2> QED
      BY <2>1, <2>2, <2>3 DEF Locked, LockDiscipline
  <1> QED
    BY <1>b, <1>2, <1>3, <1>4, <1>5 DEF BookPayment

\* A share or a check-in locks the pass it was found fit for.
LEMMA LockPassKeeps ==
    ASSUME Locked, NEW r \in Requests, LockPass(r)
    PROVE  Locked'
  <1> DEFINE b == body[r]
  <1>1. /\ TypeOK /\ LockDiscipline
        /\ b \in Payloads /\ b.op # "book"
    BY DEF Locked, LockDiscipline, Disciplined, LockPass
  <1>2. b.pass \in PassIds
    BY <1>1, BodyType
  <1>3. CASE Refuse(r)
    BY <1>1, <1>3, EndWithoutWriteKeeps DEF Refuse, Outcomes
  <1>4. CASE /\ \/ b.op = "share" /\ Shareable(passes[b.pass], b)
                \/ b.op = "check_in" /\ Admissible(passes[b.pass], b)
             /\ ReadLocked(r)
    <2>1. /\ passLock[b.pass] = None
          /\ passLock' = [passLock EXCEPT ![b.pass] = r]
          /\ view' = [view EXCEPT ![r].row = passes[b.pass]]
          /\ stage' = [stage EXCEPT ![r] = "locked"]
          /\ UNCHANGED <<tables, eventLock, walletLock, body>>
      BY <1>4 DEF ReadLocked
    <2>2. view' \in [Requests -> Views]
      <3>1. view[r] \in Views /\ passes[b.pass] \in Rows
        BY <1>1, <1>2 DEF TypeOK
      <3>2. [view[r] EXCEPT !.row = passes[b.pass]] \in Views
        BY <3>1 DEF Views
      <3> QED
        BY <1>1, <2>1, <3>2 DEF TypeOK
    <2>3. TypeOK'
      BY <1>1, <1>2, <2>1, <2>2 DEF TypeOK, tables, Active
    <2>4. Disciplined(r)'
      <3>1. view'[r].row = passes[b.pass]
        <4>1. view \in [Requests -> Views]
          BY <1>1 DEF TypeOK
        <4>2. view'[r] = [view[r] EXCEPT !.row = passes[b.pass]] /\ view[r] \in Views
          BY <2>1, <4>1
        <4> QED
          BY <4>2 DEF Views
      <3> QED
        BY <1>1, <1>2, <1>4, <2>1, <3>1 DEF Disciplined, TypeOK, tables
    <2>5. ASSUME NEW s \in Requests \ {r} PROVE Disciplined(s)'
      <3>1. stage'[s] = stage[s] /\ view'[s] = view[s] /\ Disciplined(s)
        BY <1>1, <2>1 DEF TypeOK, LockDiscipline
      <3>2. \A p \in PassIds : passLock[p] = s => passLock'[p] = s
        BY <1>1, <2>1 DEF TypeOK
      <3> QED
        BY <2>1, <3>1, <3>2, OthersDisciplined DEF tables
    <2> QED
      BY <2>3, <2>4, <2>5 DEF Locked, LockDiscipline
  <1> QED
    BY <1>3, <1>4 DEF LockPass

\* The buyer's pass, when there is one, is locked.
LEMMA BookFindPassKeeps ==
    ASSUME Locked, NEW r \in Requests, BookFindPass(r)
    PROVE  Locked'
  <1>b. PICK b \in Payloads : b = body[r]
    BY DEF Locked, LockDiscipline, Disciplined, BookFindPass
  <1>1. /\ TypeOK /\ LockDiscipline /\ stage[r] = "paid"
        /\ b.op = "book" /\ eventLock[b.event] = r
        /\ Amount(b) > 0 => walletLock[b.acct] = r /\ Payable(b)
    BY <1>b DEF Locked, LockDiscipline, Disciplined, BookFindPass
  <1>2. /\ stage' = [stage EXCEPT ![r] = "found"]
        /\ UNCHANGED <<tables, eventLock, walletLock, body>>
    BY DEF BookFindPass
  <1>3. \/ /\ passLock' = passLock
           /\ view' = [view EXCEPT ![r].own = None]
        \/ \E p \in primary_buyer_pass(b.event, b.acct) :
             /\ passLock[p] = None
             /\ passLock' = [passLock EXCEPT ![p] = r]
             /\ view' = [view EXCEPT ![r].own = p]
    BY <1>b DEF BookFindPass
  <1>4. Payable(b)' = Payable(b)
    BY <1>2 DEF Payable, tables
  <1>5. ASSUME NEW s \in Requests \ {r},
               view'[s] = view[s], \A p \in PassIds : passLock[p] = s => passLock'[p] = s
        PROVE  Disciplined(s)'
    <2>1. stage'[s] = stage[s] /\ Disciplined(s)
      BY <1>1, <1>2 DEF TypeOK, LockDiscipline
    <2> QED
      BY <1>2, <1>5, <2>1, OthersDisciplined DEF tables
  <1>6. CASE passLock' = passLock /\ view' = [view EXCEPT ![r].own = None]
    <2>1. view[r] \in Views /\ [view[r] EXCEPT !.own = None] \in Views
      <3>1. view[r] \in Views
        BY <1>1 DEF TypeOK
      <3> QED
        BY <3>1 DEF Views
    <2>2. /\ view' \in [Requests -> Views] /\ view'[r].own = None
          /\ \A s \in Requests \ {r} : view'[s] = view[s]
      BY <1>1, <1>6, <2>1 DEF TypeOK, Views
    <2>3. TypeOK'
      BY <1>1, <1>2, <1>6, <2>2 DEF TypeOK, tables, Active
    <2>4. Disciplined(r)'
      BY <1>b, <1>1, <1>2, <1>4, <2>2 DEF Disciplined, TypeOK
    <2> QED
      BY <1>5, <1>6, <2>2, <2>3, <2>4 DEF Locked, LockDiscipline
  <1>7. ASSUME NEW p \in primary_buyer_pass(b.event, b.acct),
               passLock[p] = None,
               passLock' = [passLock EXCEPT ![p] = r],
               view' = [view EXCEPT ![r].own = p]
        PROVE  Locked'
    <2>1. p \in PassIds
      BY DEF primary_buyer_pass
    <2>2. view[r] \in Views /\ [view[r] EXCEPT !.own = p] \in Views
      <3>1. view[r] \in Views
        BY <1>1 DEF TypeOK
      <3> QED
        BY <2>1, <3>1 DEF Views
    <2>3. /\ view' \in [Requests -> Views] /\ view'[r].own = p
          /\ \A s \in Requests \ {r} : view'[s] = view[s]
      BY <1>1, <1>7, <2>2 DEF TypeOK, Views
    <2>4. /\ passLock' \in [PassIds -> Requests \cup {None}] /\ passLock'[p] = r
          /\ \A s \in Requests \ {r} : \A q \in PassIds : passLock[q] = s => passLock'[q] = s
      BY <1>1, <1>7, <2>1 DEF TypeOK
    <2>5. TypeOK'
      BY <1>1, <1>2, <2>3, <2>4 DEF TypeOK, tables, Active
    <2>6. Disciplined(r)'
      <3>1. stage'[r] = "found" /\ body'[r] = b /\ eventLock'[b.event] = r
        BY <1>b, <1>1, <1>2 DEF TypeOK
      <3>2. Amount(b) > 0 => walletLock'[b.acct] = r /\ Payable(b)'
        BY <1>1, <1>2, <1>4
      <3>3. p \in primary_buyer_pass(b.event, b.acct)'
        BY <1>2 DEF primary_buyer_pass, tables
      <3> QED
        BY <1>1, <2>3, <2>4, <3>1, <3>2, <3>3 DEF Disciplined
    <2> QED
      BY <1>5, <2>3, <2>4, <2>5, <2>6 DEF Locked, LockDiscipline
  <1> QED
    BY <1>3, <1>6, <1>7

\* A booking that commits writes rows that it holds or that nobody holds.
LEMMA BookCommitKeeps ==
    ASSUME Locked, NEW r \in Requests, BookCommit(r)
    PROVE  Locked'
  <1>b. PICK b \in Payloads : b = body[r]
    BY DEF Locked, LockDiscipline, Disciplined, BookCommit
  <1>a. PICK amount \in Nat : amount = Amount(b)
    BY BodyType
  <1>k. PICK key : key = <<b.event, b.acct>>
    OBVIOUS
  <1>1. /\ TypeOK /\ LockDiscipline /\ stage[r] = "found"
        /\ b.op = "book" /\ eventLock[b.event] = r
        /\ amount > 0 => /\ walletLock[b.acct] = r
                         /\ b.method = "wallet" => balance[b.acct] >= amount
    BY <1>b, <1>a DEF Locked, LockDiscipline, Disciplined, BookCommit, Payable
  <1>2. b.acct \in Accounts /\ b.event \in Events /\ b.count \in Nat \ {0}
    BY <1>1, BodyType
  <1>3. End(r, "done") /\ admitted' = admitted
    BY DEF BookCommit
  <1>4. PICK p \in PassIds :
          \/ /\ passLock[p] = r
             /\ passes' = [passes EXCEPT ![p] = Enlarged(passes[p], b)]
          \/ /\ passes[p].status = "None"
             /\ passes' = [passes EXCEPT ![p] = NewPass(b.event, b.acct, b.count, amount, None)]
    BY <1>a, <1>b DEF Locked, LockDiscipline, Disciplined, BookCommit, primary_buyer_pass
  <1>5. passes' \in [PassIds -> Rows]
    <2>1. passes \in [PassIds -> Rows] /\ passes[p] \in Rows
      BY <1>1 DEF TypeOK
    <2>2. Enlarged(passes[p], b) \in Rows
      <3>1. /\ passes[p].total + b.count \in Nat
            /\ passes[p].remaining + b.count \in Nat
            /\ passes[p].paid + amount \in Nat
        BY <1>2, <2>1 DEF Rows
      <3>2. [passes[p] EXCEPT !.total = passes[p].total + b.count,
                              !.remaining = passes[p].remaining + b.count,
                              !.paid = passes[p].paid + amount,
                              !.status = "Active"] \in Rows
        BY <2>1, <3>1 DEF Rows
      <3> QED
        BY <1>a, <3>2 DEF Enlarged
    <2>3. NewPass(b.event, b.acct, b.count, amount, None) \in Rows
      BY <1>2 DEF NewPass, Rows
    <2> QED
      BY <1>4, <2>1, <2>2, <2>3
  <1>6. rsvps' \in [Events \X Accounts -> Nat]
    <2>1. rsvps \in [Events \X Accounts -> Nat] /\ key \in Events \X Accounts
      BY <1>1, <1>2, <1>k DEF TypeOK
    <2>2. rsvps' = rsvps \/ rsvps' = [rsvps EXCEPT ![key] = rsvps[key] + 1]
      BY <1>b, <1>k DEF BookCommit
    <2> QED
      BY <2>1, <2>2
  <1>7. \/ /\ b.method = "wallet"
           /\ balance' = [balance EXCEPT ![b.acct] = balance[b.acct] - amount]
           /\ debits' = [debits EXCEPT ![b.acct] = debits[b.acct] + amount]
           /\ upis' = upis
        \/ /\ upis' = [upis EXCEPT ![b.acct] = upis[b.acct] + amount]
           /\ balance' = balance /\ debits' = debits
    BY <1>a, <1>b DEF BookCommit
  <1>8. balance' \in [Accounts -> Nat] /\ debits' \in [Accounts -> Nat] /\ upis' \in [Accounts -> Nat]
    <2>1. /\ balance \in [Accounts -> Nat] /\ debits \in [Accounts -> Nat]
          /\ upis \in [Accounts -> Nat]
      BY <1>1 DEF TypeOK
    <2>2. b.method = "wallet" => balance[b.acct] >= amount
      BY <1>1, <1>2, <2>1
    <2> QED
      BY <1>2, <1>7, <2>1, <2>2
  <1>9. /\ stage' \in [Requests -> {"idle"} \cup Active \cup Outcomes]
        /\ view' \in [Requests -> Views]
        /\ eventLock' \in [Events -> Requests \cup {None}]
        /\ passLock' \in [PassIds -> Requests \cup {None}]
        /\ walletLock' \in [Accounts -> Requests \cup {None}]
        /\ body' = body /\ stage'[r] = "done"
        /\ \A s \in Requests \ {r} :
             /\ stage'[s] = stage[s] /\ view'[s] = view[s]
             /\ \A e \in Events : eventLock[e] = s => eventLock'[e] = s
             /\ \A q \in PassIds : passLock[q] = s => passLock'[q] = s
             /\ \A a \in Accounts : walletLock[a] = s => walletLock'[a] = s
    BY <1>1, <1>3, EndKeeps DEF Outcomes
  <1>10. TypeOK'
    BY <1>1, <1>3, <1>5, <1>6, <1>8, <1>9 DEF TypeOK
  <1>11. Disciplined(r)'
    BY <1>b, <1>1, <1>9 DEF Disciplined
  <1>12. ASSUME NEW s \in Requests \ {r} PROVE Disciplined(s)'
    <2>1. Disciplined(s)
      BY <1>1 DEF LockDiscipline
    <2>2. \A q \in PassIds : passLock[q] = s /\ passes[q].status # "None" => passes'[q] = passes[q]
      BY <1>1, <1>4 DEF TypeOK
    <2>3. \A a \in Accounts : walletLock[a] = s => balance'[a] = balance[a]
      <3>1. CASE amount = 0
        BY <1>1, <1>2, <1>7, <3>1 DEF TypeOK
      <3>2. CASE amount > 0
        BY <1>1, <1>2, <1>7, <3>2 DEF TypeOK
      <3> QED
        BY <1>2, <3>1, <3>2
    <2> QED
      BY <1>9, <2>1, <2>2, <2>3, OthersDisciplined
  <1> QED
    BY <1>10, <1>11, <1>12 DEF Locked, LockDiscipline

\* A share that commits takes from the pass it holds and draws a new one.
LEMMA ShareCommitKeeps ==
    ASSUME Locked, NEW r \in Requests, ShareCommit(r)
    PROVE  Locked'
  <1> DEFINE b == body[r]
             row == passes[b.pass]
             owner == IF b.to = None THEN row.acct ELSE b.to
  <1>1. /\ TypeOK /\ LockDiscipline
        /\ b \in Payloads /\ b.op = "share"
        /\ passLock[b.pass] = r /\ view[r].row = row
        /\ Shareable(row, b)
    BY DEF Locked, LockDiscipline, Disciplined, ShareCommit
  <1>2. /\ b.pass \in PassIds /\ b.count \in Nat \ {0} /\ b.to \in Accounts \cup {None}
    BY <1>1, BodyType
  <1>3. End(r, "done") /\ UNCHANGED <<rsvps, admitted, balance, debits, upis>>
    BY DEF ShareCommit
  <1>4. PICK p \in PassIds :
          /\ passes[p].status = "None"
          /\ passes' = [passes EXCEPT ![b.pass].remaining = @ - b.count,
                                     ![p] = NewPass(row.event, owner, b.count, 0, b.pass)]
    BY <1>1 DEF ShareCommit
  <1>5. passes \in [PassIds -> Rows] /\ row \in Rows /\ b.count <= row.remaining
        /\ row.status = "Active" /\ p # b.pass
    BY <1>1, <1>2, <1>4 DEF TypeOK, Shareable
  <1>6. /\ passes'[b.pass] = [row EXCEPT !.remaining = row.remaining - b.count]
        /\ passes'[p] = NewPass(row.event, owner, b.count, 0, b.pass)
        /\ \A q \in PassIds \ {p, b.pass} : passes'[q] = passes[q]
        /\ DOMAIN passes' = PassIds
    BY <1>2, <1>4, <1>5
  <1>7. passes' \in [PassIds -> Rows]
    <2>1. [row EXCEPT !.remaining = row.remaining - b.count] \in Rows
      BY <1>2, <1>5 DEF Rows
    <2>2. NewPass(row.event, owner, b.count, 0, b.pass) \in Rows
      BY <1>2, <1>5 DEF NewPass, Rows
    <2> QED
      BY <1>4, <1>5, <1>6, <2>1, <2>2
  <1>9. /\ stage' \in [Requests -> {"idle"} \cup Active \cup Outcomes]
        /\ view' \in [Requests -> Views]
        /\ eventLock' \in [Events -> Requests \cup {None}]
        /\ passLock' \in [PassIds -> Requests \cup {None}]
        /\ walletLock' \in [Accounts -> Requests \cup {None}]
        /\ body' = body /\ stage'[r] = "done"
        /\ \A s \in Requests \ {r} :
             /\ stage'[s] = stage[s] /\ view'[s] = view[s]
             /\ \A e \in Events : eventLock[e] = s => eventLock'[e] = s
             /\ \A q \in PassIds : passLock[q] = s => passLock'[q] = s
             /\ \A a \in Accounts : walletLock[a] = s => walletLock'[a] = s
    BY <1>1, <1>3, EndKeeps DEF Outcomes
  <1>10. TypeOK'
    BY <1>1, <1>3, <1>7, <1>9 DEF TypeOK
  <1>11. Disciplined(r)'
    BY <1>1, <1>9 DEF Disciplined
  <1>12. ASSUME NEW s \in Requests \ {r} PROVE Disciplined(s)'
    <2>1. Disciplined(s)
      BY <1>1 DEF LockDiscipline
    <2>2. \A q \in PassIds : passLock[q] = s /\ passes[q].status # "None" => passes'[q] = passes[q]
      BY <1>1, <1>4, <1>6
    <2> QED
      BY <1>3, <1>9, <2>1, <2>2, OthersDisciplined
  <1> QED
    BY <1>10, <1>11, <1>12 DEF Locked, LockDiscipline

\* A check-in that commits writes the pass it holds.
LEMMA CheckInCommitKeeps ==
    ASSUME Locked, NEW r \in Requests, CheckInCommit(r)
    PROVE  Locked'
  <1> DEFINE b == body[r]
             row == passes[b.pass]
  <1>1. /\ TypeOK /\ LockDiscipline
        /\ b \in Payloads /\ b.op = "check_in"
        /\ passLock[b.pass] = r /\ view[r].row = row
        /\ Admissible(row, b)
    BY DEF Locked, LockDiscipline, Disciplined, CheckInCommit
  <1>2. b.pass \in PassIds /\ b.count \in Nat \ {0}
    BY <1>1, BodyType
  <1>3. /\ End(r, "done") /\ UNCHANGED <<rsvps, balance, debits, upis>>
        /\ passes' = [passes EXCEPT ![b.pass] = CheckedIn(row, row, b)]
        /\ admitted' = [admitted EXCEPT ![b.pass] = admitted[b.pass] + b.count]
    BY <1>1 DEF CheckInCommit
  <1>4. passes \in [PassIds -> Rows] /\ row \in Rows /\ b.count <= row.remaining
    BY <1>1, <1>2 DEF TypeOK, Admissible
  <1>5. CheckedIn(row, row, b) \in Rows
    <2>1. row.remaining - b.count \in Nat /\ row.checked + b.count \in Nat
      BY <1>2, <1>4 DEF Rows
    <2> QED
      BY <1>4, <2>1 DEF CheckedIn, Rows
  <1>6. passes' \in [PassIds -> Rows] /\ admitted' \in [PassIds -> Nat]
    BY <1>1, <1>2, <1>3, <1>4, <1>5 DEF TypeOK
  <1>9. /\ stage' \in [Requests -> {"idle"} \cup Active \cup Outcomes]
        /\ view' \in [Requests -> Views]
        /\ eventLock' \in [Events -> Requests \cup {None}]
        /\ passLock' \in [PassIds -> Requests \cup {None}]
        /\ walletLock' \in [Accounts -> Requests \cup {None}]
        /\ body' = body /\ stage'[r] = "done"
        /\ \A s \in Requests \ {r} :
             /\ stage'[s] = stage[s] /\ view'[s] = view[s]
             /\ \A e \in Events : eventLock[e] = s => eventLock'[e] = s
             /\ \A q \in PassIds : passLock[q] = s => passLock'[q] = s
             /\ \A a \in Accounts : walletLock[a] = s => walletLock'[a] = s
    BY <1>1, <1>3, EndKeeps DEF Outcomes
  <1>10. TypeOK'
    BY <1>1, <1>3, <1>6, <1>9 DEF TypeOK
  <1>11. Disciplined(r)'
    BY <1>1, <1>9 DEF Disciplined
  <1>12. ASSUME NEW s \in Requests \ {r} PROVE Disciplined(s)'
    <2>1. Disciplined(s)
      BY <1>1 DEF LockDiscipline
    <2>2. \A q \in PassIds : passLock[q] = s => passes'[q] = passes[q]
      BY <1>1, <1>2, <1>3, <1>4
    <2> QED
      BY <1>3, <1>9, <2>1, <2>2, OthersDisciplined
  <1> QED
    BY <1>10, <1>11, <1>12 DEF Locked, LockDiscipline

\* Every step keeps the invariant, and so does the passing of time.
LEMMA NextLocked == Locked /\ [Next]_vars => Locked'
  <1> SUFFICES ASSUME Locked, [Next]_vars PROVE Locked'
    OBVIOUS
  <1>1. ASSUME NEW r \in Requests, Authenticate(r) PROVE Locked'
    BY <1>1, AuthenticateKeeps
  <1>2. ASSUME NEW r \in Requests, Step(r) PROVE Locked'
    BY <1>2, BookAdmissionKeeps, BookPaymentKeeps, BookFindPassKeeps, BookCommitKeeps,
       LockPassKeeps, ShareCommitKeeps, CheckInCommitKeeps DEF Step
  <1>3. ASSUME NEW r \in Requests, Abort(r) PROVE Locked'
    <2>1. body[r] \in Payloads
      BY <1>3 DEF Locked, LockDiscipline, Disciplined, Abort, Active
    <2> QED
      BY <1>3, <2>1, EndWithoutWriteKeeps DEF Abort, Outcomes
  <1>4. CASE UNCHANGED vars
    <2>1. TypeOK'
      BY <1>4 DEF Locked, TypeOK, vars
    <2>2. ASSUME NEW s \in Requests PROVE Disciplined(s)'
      BY <1>4, OthersDisciplined DEF Locked, LockDiscipline, vars
    <2> QED
      BY <2>1, <2>2 DEF Locked, LockDiscipline
  <1> QED
    BY <1>1, <1>2, <1>3, <1>4 DEF Next

\* In every reachable state the columns, locks and locals keep their ranges: no
\* wallet is overdrawn and no pass has a negative remainder, whatever the isolation.
THEOREM TypeCorrect == Spec => []TypeOK
  <1>1. Spec => []Locked
    BY InitLocked, NextLocked, PTL DEF Spec
  <1>2. Locked => TypeOK
    BY DEF Locked
  <1> QED
    BY <1>1, <1>2, PTL

\* What a request read under a row lock is current until it ends.
THEOREM LocksProtectReads == Spec => []LockDiscipline
  <1>1. Spec => []Locked
    BY InitLocked, NextLocked, PTL DEF Spec
  <1>2. Locked => LockDiscipline
    BY DEF Locked
  <1> QED
    BY <1>1, <1>2, PTL

-----------------------------------------------------------------------------
(* What is sold                                                              *)

Sold(e) == booked_count(passes, e)

Countable == \A e \in Events : IsFiniteSet(Units(PrimaryTotals(passes, e)))

\* A sum of sales is a natural number.
LEMMA SoldType ==
    ASSUME Countable, NEW e \in Events
    PROVE  Sold(e) \in Nat
  BY FS_CardinalityType DEF Countable, Sold, booked_count, Total

\* The column of sales of an event is a column of natural numbers.
LEMMA PrimaryTotalsType ==
    ASSUME TypeOK, NEW e \in Events
    PROVE  PrimaryTotals(passes, e) \in [PassIds -> Nat]
  BY DEF TypeOK, PrimaryTotals, Rows

\* A committed booking adds its count to the sales of its event and of no other.
LEMMA BookCommitSells ==
    ASSUME Locked, Countable, NEW r \in Requests, BookCommit(r)
    PROVE  /\ Countable'
           /\ booked_count(passes', body[r].event)
                = booked_count(passes, body[r].event) + body[r].count
           /\ \A e \in Events \ {body[r].event} :
                booked_count(passes', e) = booked_count(passes, e)
  <1>b. PICK b \in Payloads : b = body[r]
    BY DEF Locked, LockDiscipline, Disciplined, BookCommit
  <1>1. /\ TypeOK /\ b.op = "book" /\ body' = body
        /\ passes \in [PassIds -> Rows]
    BY <1>b DEF Locked, LockDiscipline, Disciplined, BookCommit, TypeOK, End
  <1>2. b.event \in Events /\ b.count \in Nat \ {0}
    BY <1>1, BodyType
  <1>3. PICK p \in PassIds :
          \/ /\ Primary(passes, p) /\ passes[p].event = b.event
             /\ passes' = [passes EXCEPT ![p] = Enlarged(passes[p], b)]
          \/ /\ passes[p].status = "None"
             /\ passes' = [passes EXCEPT ![p] = NewPass(b.event, b.acct, b.count, Amount(b), None)]
    BY <1>b DEF Locked, LockDiscipline, Disciplined, BookCommit, primary_buyer_pass
  <1>4. /\ \A q \in PassIds \ {p} : passes'[q] = passes[q]
        /\ \/ /\ Primary(passes, p) /\ passes[p].event = b.event
              /\ passes'[p] = Enlarged(passes[p], b)
           \/ /\ passes[p].status = "None"
              /\ passes'[p] = NewPass(b.event, b.acct, b.count, Amount(b), None)
    BY <1>1, <1>3
  <1>5. /\ Primary(passes', p) /\ passes'[p].event = b.event
        /\ PrimaryTotals(passes', b.event)[p] = PrimaryTotals(passes, b.event)[p] + b.count
    <2>1. CASE /\ Primary(passes, p) /\ passes[p].event = b.event
               /\ passes'[p] = Enlarged(passes[p], b)
      <3>1. passes[p] \in Rows
        BY <1>1
      <3>2. /\ passes'[p].status = "Active" /\ passes'[p].from = passes[p].from
            /\ passes'[p].event = passes[p].event
            /\ passes'[p].total = passes[p].total + b.count
        BY <2>1, <3>1 DEF Enlarged, Rows
      <3> QED
        BY <2>1, <3>2 DEF Primary, PrimaryTotals
    <2>2. CASE /\ passes[p].status = "None"
               /\ passes'[p] = NewPass(b.event, b.acct, b.count, Amount(b), None)
      BY <1>2, <2>2 DEF Primary, PrimaryTotals, NewPass
    <2> QED
      BY <1>4, <2>1, <2>2
  <1>6. PrimaryTotals(passes', b.event) =
          [PrimaryTotals(passes, b.event) EXCEPT ![p] = PrimaryTotals(passes, b.event)[p] + b.count]
    BY <1>4, <1>5 DEF PrimaryTotals, Primary
  <1>7. /\ IsFiniteSet(Units(PrimaryTotals(passes', b.event)))
        /\ Total(PrimaryTotals(passes', b.event)) = Total(PrimaryTotals(passes, b.event)) + b.count
    <2> DEFINE f == PrimaryTotals(passes, b.event)
               n == b.count
    <2>1. f \in [PassIds -> Nat] /\ IsFiniteSet(Units(f)) /\ n \in Nat
      BY <1>1, <1>2, PrimaryTotalsType DEF Countable
    <2>2. PrimaryTotals(passes', b.event) = [f EXCEPT ![p] = f[p] + n]
      BY <1>6
    <2> HIDE DEF f, n
    <2>3. IsFiniteSet(Units([f EXCEPT ![p] = f[p] + n])) /\ Total([f EXCEPT ![p] = f[p] + n]) = Total(f) + n
      BY ZenonT(30), <2>1, TotalOfIncrease
    <2>4. /\ IsFiniteSet(Units(PrimaryTotals(passes', b.event)))
          /\ Total(PrimaryTotals(passes', b.event)) = Total(f) + n
      BY <2>2, <2>3
    <2> QED
      BY <2>4 DEF f, n
  <1>8. ASSUME NEW e \in Events \ {b.event}
        PROVE  PrimaryTotals(passes', e) = PrimaryTotals(passes, e)
    <2>1. PrimaryTotals(passes, e)[p] = 0
      BY <1>4 DEF PrimaryTotals, Primary
    <2>2. PrimaryTotals(passes', e)[p] = 0
      BY <1>5 DEF PrimaryTotals
    <2> QED
      BY <1>4, <2>1, <2>2 DEF PrimaryTotals, Primary
  <1>9. Countable'
    BY <1>7, <1>8 DEF Countable
  <1> QED
    BY <1>b, <1>1, <1>7, <1>8, <1>9 DEF Sold, booked_count

\* A share moves admissions between passes and sells none.
LEMMA ShareCommitSellsNothing ==
    ASSUME Locked, NEW r \in Requests, ShareCommit(r), NEW e \in Events
    PROVE  PrimaryTotals(passes', e) = PrimaryTotals(passes, e)
  <1>b. PICK b \in Payloads : b = body[r]
    BY DEF Locked, LockDiscipline, Disciplined, ShareCommit
  <1>1. b.pass \in PassIds /\ passes \in [PassIds -> Rows] /\ passes[b.pass].status = "Active"
    BY <1>b, BodyType DEF Locked, LockDiscipline, Disciplined, ShareCommit, TypeOK, Shareable
  <1>2. PICK p \in PassIds :
          /\ passes[p].status = "None"
          /\ passes' = [passes EXCEPT
                          ![b.pass].remaining = @ - b.count,
                          ![p] = NewPass(view[r].row.event,
                                         IF b.to = None THEN view[r].row.acct ELSE b.to,
                                         b.count, 0, b.pass)]
    BY <1>b DEF ShareCommit
  <1>3. /\ \A q \in PassIds \ {p, b.pass} : passes'[q] = passes[q]
        /\ passes'[p].from = b.pass
        /\ passes'[b.pass] = [passes[b.pass] EXCEPT !.remaining = @ - b.count]
    BY <1>1, <1>2 DEF NewPass
  <1>4. PrimaryTotals(passes', e)[p] = 0 /\ PrimaryTotals(passes, e)[p] = 0
    <2>1. b.pass # None
      BY <1>1, ConstantsAssumption
    <2>2. ~ Primary(passes', p) /\ ~ Primary(passes, p)
      BY <1>2, <1>3, <2>1 DEF Primary
    <2> QED
      BY <2>2 DEF PrimaryTotals
  <1>5. PrimaryTotals(passes', e)[b.pass] = PrimaryTotals(passes, e)[b.pass]
    <2>1. passes[b.pass] \in Rows
      BY <1>1
    <2>2. /\ passes'[b.pass].status = passes[b.pass].status
          /\ passes'[b.pass].from = passes[b.pass].from
          /\ passes'[b.pass].event = passes[b.pass].event
          /\ passes'[b.pass].total = passes[b.pass].total
      BY <1>3, <2>1 DEF Rows
    <2> QED
      BY <1>1, <2>2 DEF PrimaryTotals, Primary
  <1> QED
    BY <1>3, <1>4, <1>5 DEF PrimaryTotals, Primary

\* A check-in uses admissions and sells none.
LEMMA CheckInCommitSellsNothing ==
    ASSUME Locked, NEW r \in Requests, CheckInCommit(r), NEW e \in Events
    PROVE  PrimaryTotals(passes', e) = PrimaryTotals(passes, e)
  <1>b. PICK b \in Payloads : b = body[r]
    BY DEF Locked, LockDiscipline, Disciplined, CheckInCommit
  <1>1. b.pass \in PassIds /\ passes \in [PassIds -> Rows] /\ passes[b.pass].status = "Active"
    BY <1>b, BodyType DEF Locked, LockDiscipline, Disciplined, CheckInCommit, TypeOK, Admissible
  <1>2. PICK row : passes' = [passes EXCEPT ![b.pass] = CheckedIn(passes[b.pass], row, b)]
    BY <1>b DEF CheckInCommit
  <1>3. /\ passes[b.pass] \in Rows
        /\ passes'[b.pass] = CheckedIn(passes[b.pass], row, b)
        /\ \A q \in PassIds \ {b.pass} : passes'[q] = passes[q]
    BY <1>1, <1>2
  <1>4. /\ passes'[b.pass].status # "None"
        /\ passes'[b.pass].from = passes[b.pass].from
        /\ passes'[b.pass].event = passes[b.pass].event
        /\ passes'[b.pass].total = passes[b.pass].total
    BY <1>3 DEF CheckedIn, Rows
  <1>5. PrimaryTotals(passes', e)[b.pass] = PrimaryTotals(passes, e)[b.pass]
    BY <1>1, <1>4 DEF PrimaryTotals, Primary
  <1> QED
    BY <1>3, <1>5 DEF PrimaryTotals, Primary

-----------------------------------------------------------------------------
(* What a committed request writes                                           *)

\* An id that is not drawn yet has an empty row.
Unused == \A p \in PassIds : passes[p].status = "None" => passes[p] = NoRow

\* The buyer's pass before and after a booking, whether it was empty or is added to.
Grown(row, new, b) ==
    /\ new.status = "Active" /\ new.event = b.event /\ new.acct = b.acct /\ new.from = None
    /\ new.total = row.total + b.count /\ new.remaining = row.remaining + b.count
    /\ new.checked = row.checked /\ new.paid = row.paid + Amount(b)

BookWrites(b, p) ==
    /\ passes[p] = NoRow \/ p \in primary_buyer_pass(b.event, b.acct)
    /\ Grown(passes[p], passes'[p], b)
    /\ \A q \in PassIds \ {p} : passes'[q] = passes[q]
    /\ admitted' = admitted
    /\ \/ /\ b.method = "wallet" /\ upis' = upis
          /\ Amount(b) > 0 => b.acct \in WalletOwners /\ balance[b.acct] >= Amount(b)
          /\ balance' = [balance EXCEPT ![b.acct] = balance[b.acct] - Amount(b)]
          /\ debits' = [debits EXCEPT ![b.acct] = debits[b.acct] + Amount(b)]
       \/ /\ balance' = balance /\ debits' = debits
          /\ upis' = [upis EXCEPT ![b.acct] = upis[b.acct] + Amount(b)]

\* A share: p is the pass that is drawn for the admissions given away.
ShareWrites(b, p) ==
    LET row == passes[b.pass]
        owner == IF b.to = None THEN row.acct ELSE b.to
    IN  /\ passes[p] = NoRow /\ p # b.pass
        /\ row.status = "Active" /\ row.from = None /\ b.count <= row.remaining
        /\ passes'[b.pass] = [row EXCEPT !.remaining = row.remaining - b.count]
        /\ passes'[p] = NewPass(row.event, owner, b.count, 0, b.pass)
        /\ \A q \in PassIds \ {p, b.pass} : passes'[q] = passes[q]
        /\ UNCHANGED <<admitted, balance, debits, upis>>

CheckInWrites(b) ==
    LET row == passes[b.pass]
    IN  /\ row.status = "Active" /\ b.count <= row.remaining
        /\ passes'[b.pass] = CheckedIn(row, row, b)
        /\ \A q \in PassIds \ {b.pass} : passes'[q] = passes[q]
        /\ admitted' = [admitted EXCEPT ![b.pass] = admitted[b.pass] + b.count]
        /\ UNCHANGED <<balance, debits, upis>>

\* A booking that commits: the wallet it checked can still pay, and the pass it
\* found is still the buyer's.
LEMMA BookCommitWrites ==
    ASSUME Locked, Unused, NEW r \in Requests, BookCommit(r)
    PROVE  /\ body[r] \in Payloads /\ body[r].op = "book"
           /\ \E p \in PassIds : BookWrites(body[r], p) /\ (passes[p] = NoRow => view[r].own = None)
  <1>b. PICK b \in Payloads : b = body[r]
    BY DEF Locked, LockDiscipline, Disciplined, BookCommit
  <1>1. /\ TypeOK /\ b.op = "book" /\ passes \in [PassIds -> Rows]
        /\ Amount(b) > 0 => Payable(b)
        /\ view[r].own # None => view[r].own \in primary_buyer_pass(b.event, b.acct)
    BY <1>b DEF Locked, LockDiscipline, Disciplined, BookCommit, TypeOK
  <1>2. b.acct \in Accounts /\ b.count \in Nat /\ Amount(b) \in Nat
    BY BodyType
  <1>3. \E p \in PassIds :
          /\ passes[p] = NoRow \/ p \in primary_buyer_pass(b.event, b.acct)
          /\ passes[p] = NoRow => view[r].own = None
          /\ Grown(passes[p], passes'[p], b)
          /\ \A q \in PassIds \ {p} : passes'[q] = passes[q]
    <2>1. CASE view[r].own # None
      <3> DEFINE p == view[r].own
      <3>1. p \in PassIds /\ p \in primary_buyer_pass(b.event, b.acct) /\ passes[p] \in Rows
        BY <1>1, <2>1 DEF primary_buyer_pass
      <3>2. passes' = [passes EXCEPT ![p] = Enlarged(passes[p], b)]
        BY <1>b, <2>1 DEF BookCommit
      <3>3. Grown(passes[p], Enlarged(passes[p], b), b)
        BY <3>1 DEF Enlarged, Grown, Rows, primary_buyer_pass, Primary
      <3>4. passes[p] # NoRow
        BY <3>1 DEF NoRow, primary_buyer_pass, Primary
      <3> QED
        BY <1>1, <3>1, <3>2, <3>3, <3>4
    <2>2. CASE view[r].own = None
      <3>1. PICK p \in PassIds :
              /\ passes[p].status = "None"
              /\ passes' = [passes EXCEPT ![p] = NewPass(b.event, b.acct, b.count, Amount(b), None)]
        BY <1>b, <2>2 DEF BookCommit
      <3>2. passes[p] = NoRow
        BY <3>1 DEF Unused
      <3>3. Grown(NoRow, NewPass(b.event, b.acct, b.count, Amount(b), None), b)
        BY <1>2 DEF NewPass, Grown, NoRow
      <3> QED
        BY <1>1, <2>2, <3>1, <3>2, <3>3
    <2> QED
      BY <2>1, <2>2
  <1>4. \/ /\ b.method = "wallet" /\ upis' = upis
           /\ Amount(b) > 0 => b.acct \in WalletOwners /\ balance[b.acct] >= Amount(b)
           /\ balance' = [balance EXCEPT ![b.acct] = balance[b.acct] - Amount(b)]
           /\ debits' = [debits EXCEPT ![b.acct] = debits[b.acct] + Amount(b)]
        \/ /\ balance' = balance /\ debits' = debits
           /\ upis' = [upis EXCEPT ![b.acct] = upis[b.acct] + Amount(b)]
    BY <1>b, <1>1 DEF BookCommit, Payable
  <1>5. admitted' = admitted
    BY DEF BookCommit
  <1> QED
    BY <1>b, <1>1, <1>3, <1>4, <1>5 DEF BookWrites

\* A share that commits: the row it read is the row it takes from.
LEMMA ShareCommitWrites ==
    ASSUME Locked, Unused, NEW r \in Requests, ShareCommit(r)
    PROVE  /\ body[r] \in Payloads /\ body[r].op = "share"
           /\ \E p \in PassIds : ShareWrites(body[r], p)
  <1>b. PICK b \in Payloads : b = body[r]
    BY DEF Locked, LockDiscipline, Disciplined, ShareCommit
  <1>1. /\ b.op = "share" /\ passes \in [PassIds -> Rows]
        /\ view[r].row = passes[b.pass] /\ Shareable(passes[b.pass], b)
    BY <1>b DEF Locked, LockDiscipline, Disciplined, ShareCommit, TypeOK
  <1>2. b.pass \in PassIds /\ passes[b.pass] \in Rows
    BY <1>1, BodyType
  <1>3. PICK p \in PassIds :
          /\ passes[p].status = "None"
          /\ passes' = [passes EXCEPT ![b.pass].remaining = @ - b.count,
                                     ![p] = NewPass(passes[b.pass].event,
                                              IF b.to = None THEN passes[b.pass].acct ELSE b.to,
                                              b.count, 0, b.pass)]
    BY <1>b, <1>1 DEF ShareCommit
  <1>4. passes[p] = NoRow /\ p # b.pass
    BY <1>1, <1>3 DEF Unused, Shareable
  <1>5. UNCHANGED <<admitted, balance, debits, upis>>
    BY DEF ShareCommit
  <1> QED
    BY <1>b, <1>1, <1>2, <1>3, <1>4, <1>5 DEF ShareWrites, Shareable

\* A check-in that commits counts on from the row it read.
LEMMA CheckInCommitWrites ==
    ASSUME Locked, NEW r \in Requests, CheckInCommit(r)
    PROVE  /\ body[r] \in Payloads /\ body[r].op = "check_in"
           /\ CheckInWrites(body[r]) /\ passes[body[r].pass].event = body[r].event
  <1>b. PICK b \in Payloads : b = body[r]
    BY DEF Locked, LockDiscipline, Disciplined, CheckInCommit
  <1>1. /\ b.op = "check_in"
        /\ view[r].row = passes[b.pass] /\ Admissible(passes[b.pass], b)
        /\ passes \in [PassIds -> Rows]
    BY <1>b DEF Locked, LockDiscipline, Disciplined, CheckInCommit, TypeOK
  <1>2. b.pass \in PassIds
    BY <1>1, BodyType
  <1> QED
    BY <1>b, <1>1, <1>2 DEF CheckInWrites, CheckInCommit, Admissible

\* Every other step leaves the passes, the check-ins and the wallets alone.
LEMMA OnlyCommitsWrite ==
    ASSUME [Next]_vars
    PROVE  \/ \E r \in Requests : BookCommit(r) \/ ShareCommit(r) \/ CheckInCommit(r)
           \/ UNCHANGED <<passes, admitted, balance, debits, upis>>
  <1>1. ASSUME NEW r \in Requests, Authenticate(r) \/ Abort(r)
        PROVE  UNCHANGED <<passes, admitted, balance, debits, upis>>
    BY <1>1 DEF Authenticate, Abort, tables
  <1>2. ASSUME NEW r \in Requests, BookAdmission(r) \/ BookPayment(r) \/ BookFindPass(r)
        PROVE  UNCHANGED <<passes, admitted, balance, debits, upis>>
    BY <1>2 DEF BookAdmission, BookPayment, BookFindPass, Refuse, tables
  <1>3. ASSUME NEW r \in Requests, LockPass(r)
        PROVE  UNCHANGED <<passes, admitted, balance, debits, upis>>
    BY <1>3 DEF LockPass, ReadLocked, Refuse, tables
  <1> QED
    BY <1>1, <1>2, <1>3 DEF Next, Step, vars

-----------------------------------------------------------------------------
(* Admissions. A booking adds to what a pass has left, a share moves it to a *)
(* pass drawn for it, a check-in uses it: none is lost and none copied.       *)

SharedColumn(p) == [q \in PassIds |-> IF passes[q].from = p THEN passes[q].total ELSE 0]

Accounted ==
    /\ Locked /\ Unused /\ AdmissionsAccounted
    /\ \A p \in PassIds : IsFiniteSet(Units(SharedColumn(p)))

\* At the start no pass is sold, so the units are accounted for.
LEMMA InitAccounted == Init => Accounted
  <1> SUFFICES ASSUME Init PROVE Accounted
    OBVIOUS
  <1>1. \A p \in PassIds : passes[p] = NoRow /\ admitted[p] = 0
    BY DEF Init
  <1>2. ASSUME NEW p \in PassIds
        PROVE  IsFiniteSet(Units(SharedColumn(p))) /\ SharedOut(p) = 0
    <2>1. SharedColumn(p) \in [PassIds -> {0}]
      BY <1>1 DEF SharedColumn, NoRow
    <2> QED
      BY <2>1, TotalOfZeros DEF SharedOut, SharedColumn
  <1> QED
    BY <1>1, <1>2, InitLocked DEF Accounted, Unused, AdmissionsAccounted, NoRow

\* A booking puts as many admissions on the pass as it sells.
LEMMA BookAccounted ==
    ASSUME Accounted, NEW r \in Requests, BookCommit(r)
    PROVE  Accounted'
  <1>1. PICK b \in Payloads, p \in PassIds : BookWrites(b, p)
    BY BookCommitWrites DEF Accounted
  <1>2. b.count \in Nat /\ passes[p] \in Rows
    BY BodyType DEF Accounted, Locked, TypeOK
  <1>3. passes[p].from = None
    BY <1>1 DEF BookWrites, NoRow, primary_buyer_pass, Primary
  <1>4. Grown(passes[p], passes'[p], b) /\ admitted' = admitted /\ \A q \in PassIds \ {p} : passes'[q] = passes[q]
    BY <1>1 DEF BookWrites
  <1>5. ASSUME NEW x \in PassIds PROVE SharedColumn(x)' = SharedColumn(x)
    BY <1>3, <1>4 DEF SharedColumn, Grown
  <1>6. ASSUME NEW x \in PassIds
        PROVE  /\ passes'[x].total = passes'[x].remaining + passes'[x].checked + SharedOut(x)'
               /\ passes'[x].checked = admitted'[x]
    <2>1. SharedOut(x)' = SharedOut(x)
      BY <1>5 DEF SharedOut, SharedColumn
    <2>2. passes[x].total = passes[x].remaining + passes[x].checked + SharedOut(x) /\ passes[x].checked = admitted[x]
      BY DEF Accounted, AdmissionsAccounted
    <2>3. SharedOut(x) \in Nat
      BY FS_CardinalityType DEF Accounted, SharedOut, SharedColumn, Total
    <2>4. CASE x = p
      BY <1>2, <1>4, <2>1, <2>2, <2>3, <2>4 DEF Grown, Rows
    <2> QED
      BY <1>4, <2>1, <2>2, <2>4
  <1>7. Locked' /\ Unused'
    BY <1>4, BookCommitKeeps DEF Accounted, Unused, Grown
  <1> QED
    BY <1>5, <1>6, <1>7 DEF Accounted, AdmissionsAccounted

\* A share puts on the new pass what it takes from the old one.
LEMMA ShareAccounted ==
    ASSUME Accounted, NEW r \in Requests, ShareCommit(r)
    PROVE  Accounted'
  <1>1. PICK b \in Payloads : b.op = "share" /\ \E p \in PassIds : ShareWrites(b, p)
    BY ShareCommitWrites DEF Accounted
  <1>2. PICK p \in PassIds : ShareWrites(b, p)
    BY <1>1
  <1>3. b.count \in Nat /\ b.pass \in PassIds /\ passes[b.pass] \in Rows
    BY <1>1, BodyType DEF Accounted, Locked, TypeOK
  <1> DEFINE row == passes[b.pass]
  <1>4. /\ passes[p] = NoRow /\ p # b.pass /\ row.from = None /\ b.count <= row.remaining
        /\ row.status = "Active"
        /\ passes'[b.pass] = [row EXCEPT !.remaining = row.remaining - b.count]
        /\ \A q \in PassIds \ {p, b.pass} : passes'[q] = passes[q]
        /\ admitted' = admitted
    BY <1>2 DEF ShareWrites
  <1>5. /\ passes'[p].total = b.count /\ passes'[p].remaining = b.count /\ passes'[p].checked = 0
        /\ passes'[p].from = b.pass /\ passes'[p].status = "Active"
    BY <1>2 DEF ShareWrites, NewPass
  <1>6. /\ passes'[b.pass].total = row.total /\ passes'[b.pass].remaining = row.remaining - b.count
        /\ passes'[b.pass].checked = row.checked /\ passes'[b.pass].from = None
        /\ passes'[b.pass].status = "Active"
    BY <1>3, <1>4 DEF Rows
  <1> HIDE DEF row
  <1>7. ASSUME NEW x \in PassIds
        PROVE  SharedOut(x) \in Nat /\ SharedColumn(x) \in [PassIds -> Nat] /\ IsFiniteSet(Units(SharedColumn(x)))
    BY FS_CardinalityType DEF Accounted, Locked, TypeOK, Rows, SharedOut, SharedColumn, Total
  <1>8. ASSUME NEW x \in PassIds \ {b.pass} PROVE SharedColumn(x)' = SharedColumn(x)
    <2>1. passes[b.pass].from = None /\ passes[p].from = None /\ passes'[p].from # x /\ x # None
      BY <1>4, <1>5 DEF NoRow, row
    <2>2. ASSUME NEW q \in PassIds PROVE SharedColumn(x)'[q] = SharedColumn(x)[q]
      BY <1>4, <1>6, <2>1 DEF SharedColumn
    <2> QED
      BY <2>2 DEF SharedColumn
  <1>9. IsFiniteSet(Units(SharedColumn(b.pass)')) /\ SharedOut(b.pass)' = SharedOut(b.pass) + b.count
    <2> DEFINE f == SharedColumn(b.pass)
               g == SharedColumn(b.pass)'
    <2>1. f \in [PassIds -> Nat] /\ IsFiniteSet(Units(f))
      BY <1>3, <1>7
    <2>2. g = [q \in PassIds |-> IF passes'[q].from = b.pass THEN passes'[q].total ELSE 0]
      BY DEF SharedColumn
    <2>3. g[p] = f[p] + b.count /\ f[p] = 0
      BY <1>3, <1>4, <1>5, <2>2 DEF SharedColumn, NoRow
    <2>4. \A z \in PassIds \ {p} : g[z] = f[z]
      BY <1>3, <1>4, <1>6, <2>2 DEF SharedColumn, row
    <2>5. g \in [PassIds -> Nat]
      <3>1. \A z \in PassIds : g[z] \in Nat
        BY <1>3, <2>1, <2>3, <2>4
      <3> QED
        BY <2>2, <3>1
    <2> HIDE DEF f, g
    <2>6. IsFiniteSet(Units(g)) /\ Total(g) = Total(f) + b.count
      BY <1>3, <2>1, <2>3, <2>4, <2>5, TotalOfRowIncrease
    <2>7. SharedOut(b.pass) = Total(f) /\ SharedOut(b.pass)' = Total(g)
      BY <2>2 DEF SharedOut, f, g, SharedColumn
    <2> QED
      BY <2>6, <2>7 DEF g
  <1>10. ASSUME NEW x \in PassIds
         PROVE  /\ passes'[x].total = passes'[x].remaining + passes'[x].checked + SharedOut(x)'
                /\ passes'[x].checked = admitted'[x]
    <2>1. passes[x].total = passes[x].remaining + passes[x].checked + SharedOut(x) /\ passes[x].checked = admitted[x]
      BY DEF Accounted, AdmissionsAccounted
    <2>2. x # b.pass => SharedOut(x)' = SharedOut(x)
      BY <1>8 DEF SharedOut, SharedColumn
    <2>3. CASE x = b.pass
      BY <1>3, <1>4, <1>6, <1>7, <1>9, <2>1, <2>3 DEF Rows, row
    <2>4. CASE x = p
      <3>1. SharedOut(x) = 0 /\ admitted[x] = 0
        BY <1>4, <1>7, <2>1, <2>4 DEF NoRow
      <3> QED
        BY <1>3, <1>4, <1>5, <2>2, <2>4, <3>1
    <2> QED
      BY <1>4, <2>1, <2>2, <2>3, <2>4
  <1>11. Locked' /\ Unused'
    BY <1>4, <1>5, <1>6, ShareCommitKeeps DEF Accounted, Unused
  <1>12. ASSUME NEW x \in PassIds PROVE IsFiniteSet(Units(SharedColumn(x)'))
    BY <1>7, <1>8, <1>9
  <1> QED
    BY <1>10, <1>11, <1>12 DEF Accounted, AdmissionsAccounted

\* A check-in counts on the pass what it writes to the check-ins.
LEMMA CheckInAccounted ==
    ASSUME Accounted, NEW r \in Requests, CheckInCommit(r)
    PROVE  Accounted'
  <1>1. PICK b \in Payloads : b.op = "check_in" /\ CheckInWrites(b)
    BY CheckInCommitWrites DEF Accounted
  <1>2. b.count \in Nat /\ b.pass \in PassIds /\ passes[b.pass] \in Rows /\ admitted \in [PassIds -> Nat]
    BY <1>1, BodyType DEF Accounted, Locked, TypeOK
  <1> DEFINE row == passes[b.pass]
  <1>3. /\ row.status = "Active" /\ b.count <= row.remaining
        /\ passes'[b.pass] = CheckedIn(row, row, b)
        /\ \A q \in PassIds \ {b.pass} : passes'[q] = passes[q]
        /\ admitted' = [admitted EXCEPT ![b.pass] = admitted[b.pass] + b.count]
    BY <1>1 DEF CheckInWrites
  <1>4. /\ passes'[b.pass].total = row.total /\ passes'[b.pass].remaining = row.remaining - b.count
        /\ passes'[b.pass].checked = row.checked + b.count /\ passes'[b.pass].from = row.from
        /\ passes'[b.pass].status # "None"
    BY <1>2, <1>3 DEF Rows, CheckedIn
  <1> HIDE DEF row
  <1>5. ASSUME NEW x \in PassIds PROVE SharedColumn(x)' = SharedColumn(x)
    BY <1>2, <1>3, <1>4 DEF SharedColumn, row
  <1>6. ASSUME NEW x \in PassIds
        PROVE  /\ passes'[x].total = passes'[x].remaining + passes'[x].checked + SharedOut(x)'
               /\ passes'[x].checked = admitted'[x]
    <2>1. SharedOut(x)' = SharedOut(x)
      BY <1>5 DEF SharedOut, SharedColumn
    <2>2. passes[x].total = passes[x].remaining + passes[x].checked + SharedOut(x) /\ passes[x].checked = admitted[x]
      BY DEF Accounted, AdmissionsAccounted
    <2>3. SharedOut(x) \in Nat
      BY FS_CardinalityType DEF Accounted, SharedOut, SharedColumn, Total
    <2>4. CASE x = b.pass
      BY <1>2, <1>3, <1>4, <2>1, <2>2, <2>3, <2>4 DEF Rows, row
    <2> QED
      BY <1>2, <1>3, <2>1, <2>2, <2>4
  <1>7. Locked' /\ Unused'
    BY <1>3, <1>4, CheckInCommitKeeps DEF Accounted, Unused
  <1> QED
    BY <1>5, <1>6, <1>7 DEF Accounted, AdmissionsAccounted

\* Every step of the passes, and a stutter, keeps the units accounted for.
LEMMA NextAccounted == Accounted /\ [Next]_vars => Accounted'
  <1> SUFFICES ASSUME Accounted, [Next]_vars PROVE Accounted'
    OBVIOUS
  <1>1. CASE UNCHANGED <<passes, admitted, balance, debits, upis>>
    <2>1. Locked'
      BY NextLocked DEF Accounted
    <2>2. ASSUME NEW x \in PassIds PROVE SharedColumn(x)' = SharedColumn(x) /\ SharedOut(x)' = SharedOut(x)
      BY <1>1 DEF SharedColumn, SharedOut
    <2> QED
      BY <1>1, <2>1, <2>2 DEF Accounted, Unused, AdmissionsAccounted
  <1> QED
    BY <1>1, OnlyCommitsWrite, BookAccounted, ShareAccounted, CheckInAccounted

\* However many bookings, shares and check-ins of however many passes interleave, and
\* under either isolation level, no admission is lost, used twice or given away twice.
THEOREM AdmissionsAlwaysAccounted == Spec => []AdmissionsAccounted
  <1>1. Accounted => AdmissionsAccounted
    BY DEF Accounted
  <1> QED
    BY <1>1, InitAccounted, NextAccounted, PTL DEF Spec

-----------------------------------------------------------------------------
(* Admissions against sales. What the passes of an event have left or used   *)
(* is together what was sold: a share only moves it from one pass to another. *)

KeptColumn(e) == [p \in PassIds |-> IF passes[p].event = e THEN passes[p].remaining + passes[p].checked ELSE 0]

Kept ==
    /\ Accounted /\ Countable
    /\ \A e \in Events : /\ IsFiniteSet(Units(KeptColumn(e)))
                         /\ Total(KeptColumn(e)) = Total(PrimaryTotals(passes, e))

\* The column of the units a pass still holds is a function into the
\* naturals.
LEMMA KeptColumnType ==
    ASSUME TypeOK, NEW e \in Events
    PROVE  KeptColumn(e) \in [PassIds -> Nat]
  BY DEF TypeOK, Rows, KeptColumn

\* At the start no unit is held or admitted, so the log agrees with the
\* passes.
LEMMA InitKept == Init => Kept
  <1> SUFFICES ASSUME Init PROVE Kept
    OBVIOUS
  <1>1. ASSUME NEW e \in Events
        PROVE  /\ KeptColumn(e) \in [PassIds -> {0}]
               /\ PrimaryTotals(passes, e) \in [PassIds -> {0}]
    BY DEF Init, KeptColumn, PrimaryTotals, Primary, NoRow
  <1> QED
    BY <1>1, InitAccounted, TotalOfZeros DEF Kept, Countable

\* What is sold is left on the buyer's pass.
LEMMA BookKept ==
    ASSUME Kept, NEW r \in Requests, BookCommit(r)
    PROVE  Kept'
  <1>1. Accounted' /\ TypeOK' /\ TypeOK /\ Accounted
    BY BookAccounted DEF Kept, Accounted, Locked
  <1>2. PICK b \in Payloads : b.op = "book" /\ \E p \in PassIds : BookWrites(b, p)
    BY <1>1, BookCommitWrites DEF Accounted
  <1>3. PICK p \in PassIds : BookWrites(b, p)
    BY <1>2
  <1>4. /\ Grown(passes[p], passes'[p], b)
        /\ \A q \in PassIds \ {p} : passes'[q] = passes[q]
        /\ passes[p] = NoRow \/ p \in primary_buyer_pass(b.event, b.acct)
    BY <1>3 DEF BookWrites
  <1>5. b.count \in Nat /\ b.event \in Events /\ passes[p] \in Rows
    BY <1>1, <1>2, BodyType DEF TypeOK
  <1>6. ASSUME NEW e \in Events \ {b.event}
        PROVE  KeptColumn(e)' = KeptColumn(e) /\ PrimaryTotals(passes', e) = PrimaryTotals(passes, e)
    <2>1. passes[p].event # e /\ passes'[p].event # e
      BY <1>4, <1>5 DEF Grown, NoRow, primary_buyer_pass
    <2> QED
      BY <1>4, <2>1 DEF KeptColumn, PrimaryTotals, Primary
  <1>7. LET e == b.event
        IN  /\ IsFiniteSet(Units(KeptColumn(e)')) /\ IsFiniteSet(Units(PrimaryTotals(passes', e)))
            /\ Total(KeptColumn(e)') = Total(PrimaryTotals(passes', e))
    <2> DEFINE e == b.event
               f == KeptColumn(e)
               f2 == KeptColumn(e)'
               g == PrimaryTotals(passes, e)
               g2 == PrimaryTotals(passes', e)
    <2>1. f \in [PassIds -> Nat] /\ f2 \in [PassIds -> Nat] /\ g \in [PassIds -> Nat] /\ g2 \in [PassIds -> Nat]
      <3>1. f \in [PassIds -> Nat] /\ g \in [PassIds -> Nat]
        BY <1>1, <1>5, KeptColumnType, PrimaryTotalsType
      <3>2. passes' \in [PassIds -> Rows]
        BY <1>1 DEF TypeOK
      <3> QED
        BY <3>1, <3>2 DEF KeptColumn, PrimaryTotals, Rows
    <2>2. \A z \in PassIds \ {p} : f2[z] = f[z] /\ g2[z] = g[z]
      BY <1>4 DEF KeptColumn, PrimaryTotals, Primary
    <2>3. f2[p] = passes[p].remaining + passes[p].checked + b.count /\ g2[p] = passes[p].total + b.count
      BY <1>4, <1>5 DEF KeptColumn, PrimaryTotals, Primary, Grown, Rows
    <2>4. f[p] = passes[p].remaining + passes[p].checked /\ g[p] = passes[p].total
      <3>1. CASE passes[p] = NoRow
        BY <1>5, <3>1 DEF KeptColumn, PrimaryTotals, Primary, NoRow
      <3>2. CASE p \in primary_buyer_pass(b.event, b.acct)
        BY <3>2 DEF KeptColumn, PrimaryTotals, primary_buyer_pass
      <3> QED
        BY <1>4, <3>1, <3>2
    <2>5. IsFiniteSet(Units(f)) /\ IsFiniteSet(Units(g)) /\ Total(f) = Total(g)
      BY <1>5 DEF Kept, Countable
    <2> HIDE DEF f, f2, g, g2
    <2>6. Increased(PassIds, f, f2, p, b.count) /\ Increased(PassIds, g, g2, p, b.count)
      BY <1>5, <2>1, <2>2, <2>3, <2>4 DEF Increased
    <2>7. IsFiniteSet(Units(f2)) /\ IsFiniteSet(Units(g2)) /\ Total(f2) = Total(g2)
      BY <2>5, <2>6, EqualTotalsStayEqual
    <2> QED
      BY <2>7 DEF f2, g2
  <1>8. ASSUME NEW e \in Events
        PROVE  /\ IsFiniteSet(Units(KeptColumn(e)')) /\ IsFiniteSet(Units(PrimaryTotals(passes', e)))
               /\ Total(KeptColumn(e)') = Total(PrimaryTotals(passes', e))
    BY <1>6, <1>7 DEF Kept, Countable
  <1> QED
    BY <1>1, <1>8 DEF Kept, Countable

\* What is given away leaves one pass and is put on another.
LEMMA ShareKept ==
    ASSUME Kept, NEW r \in Requests, ShareCommit(r)
    PROVE  Kept'
  <1>1. Accounted' /\ TypeOK' /\ TypeOK /\ Accounted /\ Locked
    BY ShareAccounted DEF Kept, Accounted, Locked
  <1>2. PICK b \in Payloads : b.op = "share" /\ \E p \in PassIds : ShareWrites(b, p)
    BY <1>1, ShareCommitWrites DEF Accounted
  <1>3. PICK p \in PassIds : ShareWrites(b, p)
    BY <1>2
  <1>4. b.count \in Nat /\ b.pass \in PassIds /\ passes[b.pass] \in Rows
    BY <1>1, <1>2, BodyType DEF TypeOK
  <1>5. /\ passes[p] = NoRow /\ p # b.pass /\ b.count <= passes[b.pass].remaining
        /\ passes'[b.pass] = [passes[b.pass] EXCEPT !.remaining = passes[b.pass].remaining - b.count]
        /\ passes'[p].event = passes[b.pass].event /\ passes'[p].remaining = b.count
        /\ passes'[p].checked = 0
        /\ \A q \in PassIds \ {p, b.pass} : passes'[q] = passes[q]
    BY <1>3 DEF ShareWrites, NewPass
  <1>6. /\ passes'[b.pass].event = passes[b.pass].event
        /\ passes'[b.pass].remaining = passes[b.pass].remaining - b.count
        /\ passes'[b.pass].checked = passes[b.pass].checked
    BY <1>4, <1>5 DEF Rows
  <1>7. ASSUME NEW e \in Events
        PROVE  IsFiniteSet(Units(KeptColumn(e)')) /\ Total(KeptColumn(e)') = Total(KeptColumn(e))
    <2>0. passes[p].event # e
      BY <1>5 DEF NoRow
    <2>1. CASE passes[b.pass].event # e
      <3>1. KeptColumn(e)' = KeptColumn(e)
        BY <1>4, <1>5, <1>6, <2>0, <2>1 DEF KeptColumn
      <3> QED
        BY <3>1 DEF Kept
    <2>2. CASE passes[b.pass].event = e
      <3> DEFINE f == KeptColumn(e)
                 g == KeptColumn(e)'
      <3>1. f \in [PassIds -> Nat] /\ IsFiniteSet(Units(f))
        BY <1>1, KeptColumnType DEF Kept
      <3>2. g \in [PassIds -> Nat]
        <4>1. passes' \in [PassIds -> Rows]
          BY <1>1 DEF TypeOK
        <4> QED
          BY <4>1 DEF KeptColumn, Rows
      <3>3. \A z \in PassIds \ {b.pass, p} : g[z] = f[z]
        BY <1>5 DEF KeptColumn
      <3>4. f[b.pass] = passes[b.pass].remaining + passes[b.pass].checked /\ f[p] = 0
        BY <1>4, <2>0, <2>2 DEF KeptColumn, Rows
      <3>5. g[b.pass] = (passes[b.pass].remaining - b.count) + passes[b.pass].checked /\ g[p] = b.count
        <4>1. g[b.pass] = passes'[b.pass].remaining + passes'[b.pass].checked
          BY <1>4, <1>6, <2>2 DEF KeptColumn
        <4>2. g[p] = passes'[p].remaining + passes'[p].checked
          BY <1>5, <2>2 DEF KeptColumn
        <4>3. passes'[p].remaining + passes'[p].checked = b.count
          BY <1>4, <1>5
        <4> HIDE DEF g
        <4> QED
          BY <1>6, <4>1, <4>2, <4>3
      <3>6. g[b.pass] = f[b.pass] - b.count /\ g[p] = f[p] + b.count /\ b.count <= f[b.pass]
        BY <1>4, <1>5, <3>4, <3>5 DEF Rows
      <3> HIDE DEF f, g
      <3>7. IsFiniteSet(Units(g)) /\ Total(g) = Total(f)
        BY <1>4, <1>5, <3>1, <3>2, <3>3, <3>6, TotalOfMove
      <3> QED
        BY <3>7 DEF f, g
    <2> QED
      BY <2>1, <2>2
  <1>8. \A e \in Events : PrimaryTotals(passes', e) = PrimaryTotals(passes, e)
    BY <1>1, ShareCommitSellsNothing
  <1> QED
    BY <1>1, <1>7, <1>8 DEF Kept, Countable

\* What is used was left.
LEMMA CheckInKept ==
    ASSUME Kept, NEW r \in Requests, CheckInCommit(r)
    PROVE  Kept'
  <1>1. Accounted' /\ TypeOK /\ Accounted /\ Locked
    BY CheckInAccounted DEF Kept, Accounted, Locked
  <1>2. PICK b \in Payloads : b.op = "check_in" /\ CheckInWrites(b)
    BY <1>1, CheckInCommitWrites
  <1>3. b.count \in Nat /\ b.pass \in PassIds /\ passes[b.pass] \in Rows
    BY <1>1, <1>2, BodyType DEF TypeOK
  <1>4. /\ b.count <= passes[b.pass].remaining
        /\ passes'[b.pass] = CheckedIn(passes[b.pass], passes[b.pass], b)
        /\ \A q \in PassIds \ {b.pass} : passes'[q] = passes[q]
    BY <1>2 DEF CheckInWrites
  <1>5. /\ passes'[b.pass].event = passes[b.pass].event
        /\ passes'[b.pass].remaining + passes'[b.pass].checked = passes[b.pass].remaining + passes[b.pass].checked
    BY <1>3, <1>4 DEF CheckedIn, Rows
  <1>6. ASSUME NEW e \in Events PROVE KeptColumn(e)' = KeptColumn(e)
    BY <1>3, <1>4, <1>5 DEF KeptColumn
  <1>7. \A e \in Events : PrimaryTotals(passes', e) = PrimaryTotals(passes, e)
    BY <1>1, CheckInCommitSellsNothing
  <1> QED
    BY <1>1, <1>6, <1>7 DEF Kept, Countable

\* Every step keeps the admission log in agreement with the passes.
LEMMA NextKept == Kept /\ [Next]_vars => Kept'
  <1> SUFFICES ASSUME Kept, [Next]_vars PROVE Kept'
    OBVIOUS
  <1>1. CASE UNCHANGED <<passes, admitted, balance, debits, upis>>
    <2>1. Accounted'
      BY NextAccounted DEF Kept
    <2>2. ASSUME NEW e \in Events
          PROVE  KeptColumn(e)' = KeptColumn(e) /\ PrimaryTotals(passes', e) = PrimaryTotals(passes, e)
      BY <1>1 DEF KeptColumn
    <2> QED
      BY <2>1, <2>2 DEF Kept, Countable
  <1> QED
    BY <1>1, OnlyCommitsWrite, BookKept, ShareKept, CheckInKept

\* The admission log agrees with the passes in every reachable state.
LEMMA AlwaysKept == Spec => []Kept
  BY InitKept, NextKept, PTL DEF Spec

\* What entered on the passes of an event is at most what they had.
LEMMA KeptBoundsAdmitted ==
    ASSUME Kept, NEW e \in Events
    PROVE  AdmittedTo(e) <= booked_count(passes, e)
  <1> DEFINE f == [p \in PassIds |-> IF passes[p].event = e THEN admitted[p] ELSE 0]
             g == KeptColumn(e)
  <1>1. TypeOK /\ AdmissionsAccounted
    BY DEF Kept, Accounted, Locked
  <1>2. g \in [PassIds -> Nat] /\ IsFiniteSet(Units(g)) /\ Total(g) = booked_count(passes, e)
    BY <1>1, KeptColumnType DEF Kept, booked_count
  <1>3. f \in [PassIds -> Nat]
    BY <1>1 DEF TypeOK
  <1>4. \A p \in PassIds : f[p] <= g[p]
    BY <1>1 DEF TypeOK, Rows, AdmissionsAccounted, KeptColumn
  <1>5. AdmittedTo(e) = Total(f)
    BY DEF AdmittedTo
  <1> HIDE DEF f, g
  <1> QED
    BY <1>2, <1>3, <1>4, <1>5, TotalMonotone

\* Nobody enters on an admission that was never sold, for any number of passes, shares
\* of them and gates that scan them at once.
THEOREM AdmittedNeverExceedsSold == Spec => []AdmittedWithinSold
  <1>1. Kept => AdmittedWithinSold
    BY KeptBoundsAdmitted DEF AdmittedWithinSold
  <1> QED
    BY <1>1, AlwaysKept, PTL

-----------------------------------------------------------------------------
(* Payments. The pass, the wallet and its transaction are written together,  *)
(* so what the passes of an account say was paid is what its wallet recorded. *)

PaidColumn(a) == [p \in PassIds |-> IF passes[p].acct = a THEN passes[p].paid ELSE 0]

Paid ==
    /\ Locked /\ Unused /\ PaymentsMatchPasses
    /\ \A a \in Accounts : IsFiniteSet(Units(PaidColumn(a)))

\* The column of the units an account has paid for is a function into the
\* naturals.
LEMMA PaidColumnType ==
    ASSUME TypeOK, NEW a \in Accounts
    PROVE  PaidColumn(a) \in [PassIds -> Nat]
  BY DEF TypeOK, Rows, PaidColumn

\* At the start nothing is paid and nothing is sold.
LEMMA InitPaid == Init => Paid
  <1> SUFFICES ASSUME Init PROVE Paid
    OBVIOUS
  <1>1. ASSUME NEW a \in Accounts
        PROVE  IsFiniteSet(Units(PaidColumn(a))) /\ Total(PaidColumn(a)) = 0
    <2>1. PaidColumn(a) \in [PassIds -> {0}]
      BY DEF Init, PaidColumn, NoRow
    <2> QED
      BY <2>1, TotalOfZeros
  <1>2. PaymentsMatchPasses
    BY <1>1 DEF Init, PaymentsMatchPasses, PaidColumn
  <1>3. Unused
    BY InitAccounted DEF Accounted
  <1> QED
    BY <1>1, <1>2, <1>3, InitLocked DEF Paid

\* A booking writes one amount to the pass and to the wallet's transactions.
LEMMA BookPaid ==
    ASSUME Paid, NEW r \in Requests, BookCommit(r)
    PROVE  Paid'
  <1>1. Locked' /\ TypeOK /\ Locked /\ Unused
    BY BookCommitKeeps DEF Paid, Locked
  <1>2. PICK b \in Payloads : b.op = "book" /\ \E p \in PassIds : BookWrites(b, p)
    BY <1>1, BookCommitWrites
  <1>3. PICK p \in PassIds : BookWrites(b, p)
    BY <1>2
  <1>4. /\ Grown(passes[p], passes'[p], b)
        /\ \A q \in PassIds \ {p} : passes'[q] = passes[q]
        /\ passes[p] = NoRow \/ p \in primary_buyer_pass(b.event, b.acct)
    BY <1>3 DEF BookWrites
  <1> DEFINE a == b.acct
             n == Amount(b)
  <1>5. n \in Nat /\ a \in Accounts /\ passes[p] \in Rows
    BY <1>1, BodyType DEF TypeOK
  <1>6. ASSUME NEW x \in Accounts \ {a} PROVE PaidColumn(x)' = PaidColumn(x)
    <2>1. passes[p].acct # x /\ passes'[p].acct # x
      BY <1>4, <1>5 DEF Grown, NoRow, primary_buyer_pass
    <2> QED
      BY <1>4, <2>1 DEF PaidColumn
  <1>7. IsFiniteSet(Units(PaidColumn(a)')) /\ Total(PaidColumn(a)') = Total(PaidColumn(a)) + n
    <2> DEFINE f == PaidColumn(a)
               g == PaidColumn(a)'
    <2>1. f \in [PassIds -> Nat] /\ IsFiniteSet(Units(f))
      BY <1>1, <1>5, PaidColumnType DEF Paid
    <2>2. \A z \in PassIds \ {p} : g[z] = f[z]
      BY <1>4 DEF PaidColumn
    <2>3. f[p] = passes[p].paid
      <3>1. CASE passes[p] = NoRow
        BY <1>5, <3>1 DEF PaidColumn, NoRow
      <3>2. CASE p \in primary_buyer_pass(b.event, a)
        BY <3>2 DEF PaidColumn, primary_buyer_pass
      <3> QED
        BY <1>4, <3>1, <3>2
    <2>4. g[p] = passes[p].paid + n
      BY <1>4 DEF PaidColumn, Grown
    <2>5. g \in [PassIds -> Nat]
      <3>1. \A z \in PassIds : g[z] \in Nat
        BY <1>5, <2>1, <2>2, <2>4 DEF Rows
      <3> QED
        BY <3>1 DEF PaidColumn
    <2> HIDE DEF f, g, n
    <2>6. IsFiniteSet(Units(g)) /\ Total(g) = Total(f) + n
      BY <1>5, <2>1, <2>2, <2>3, <2>4, <2>5, TotalOfRowIncrease
    <2> QED
      BY <2>6 DEF f, g
  <1>8. ASSUME NEW x \in Accounts
        PROVE  /\ balance[x] \in Nat /\ debits[x] \in Nat /\ upis[x] \in Nat
               /\ Total(PaidColumn(x)) = debits[x] + upis[x]
               /\ x \in WalletOwners => balance[x] + debits[x] = Opening
    BY <1>1 DEF Paid, PaymentsMatchPasses, TypeOK, PaidColumn
  <1>9. /\ \A x \in Accounts \ {a} : balance'[x] = balance[x] /\ debits'[x] = debits[x] /\ upis'[x] = upis[x]
        /\ debits'[a] + upis'[a] = debits[a] + upis[a] + n
        /\ balance'[a] + debits'[a] = balance[a] + debits[a]
    <2>1. /\ balance \in [Accounts -> Nat] /\ debits \in [Accounts -> Nat] /\ upis \in [Accounts -> Nat]
      BY <1>1 DEF TypeOK
    <2>2. CASE b.method = "wallet" /\ upis' = upis /\ balance' = [balance EXCEPT ![a] = balance[a] - n]
                 /\ debits' = [debits EXCEPT ![a] = debits[a] + n]
      <3> HIDE DEF n
      <3> QED
        BY <1>5, <2>1, <2>2
    <2>3. CASE balance' = balance /\ debits' = debits /\ upis' = [upis EXCEPT ![a] = upis[a] + n]
      <3> HIDE DEF n
      <3> QED
        BY <1>5, <2>1, <2>3
    <2> QED
      BY <1>3, <2>2, <2>3 DEF BookWrites
  <1>10. ASSUME NEW x \in Accounts
         PROVE  /\ Total(PaidColumn(x)') = debits'[x] + upis'[x]
                /\ x \in WalletOwners => balance'[x] + debits'[x] = Opening
                /\ IsFiniteSet(Units(PaidColumn(x)'))
    <2> HIDE DEF n
    <2>1. CASE x = a
      BY <1>5, <1>7, <1>8, <1>9, <2>1
    <2>2. CASE x # a
      BY <1>6, <1>8, <1>9, <2>2 DEF Paid
    <2> QED
      BY <2>1, <2>2
  <1>11. Unused'
    BY <1>1, <1>4 DEF Unused, Grown
  <1> QED
    BY <1>1, <1>10, <1>11 DEF Paid, PaymentsMatchPasses, PaidColumn

\* A request that leaves the wallets and what each pass says of its payment alone.
LEMMA NothingPaidKeeps ==
    ASSUME Paid, Locked', Unused', UNCHANGED <<balance, debits, upis>>,
           \A a \in Accounts : PaidColumn(a)' = PaidColumn(a)
    PROVE  Paid'
  <1>1. ASSUME NEW a \in Accounts
        PROVE  /\ Total([p \in PassIds |-> IF passes[p].acct = a THEN passes[p].paid ELSE 0])' = debits[a] + upis[a]
               /\ a \in WalletOwners => balance[a] + debits[a] = Opening
               /\ IsFiniteSet(Units(PaidColumn(a)'))
    BY DEF Paid, PaymentsMatchPasses, PaidColumn
  <1> QED
    BY <1>1 DEF Paid, PaymentsMatchPasses

\* A share moves units between holders and leaves every payment with the
\* buyer's pass.
LEMMA SharePaid ==
    ASSUME Paid, NEW r \in Requests, ShareCommit(r)
    PROVE  Paid'
  <1>1. Locked' /\ TypeOK /\ Locked /\ Unused
    BY ShareCommitKeeps DEF Paid, Locked
  <1>2. PICK b \in Payloads : b.op = "share" /\ \E p \in PassIds : ShareWrites(b, p)
    BY <1>1, ShareCommitWrites
  <1>3. PICK p \in PassIds : ShareWrites(b, p)
    BY <1>2
  <1>4. b.pass \in PassIds /\ passes[b.pass] \in Rows
    BY <1>1, <1>2, BodyType DEF TypeOK
  <1>5. /\ passes[p] = NoRow /\ p # b.pass /\ passes'[p].paid = 0 /\ passes'[p].status = "Active"
        /\ passes'[b.pass] = [passes[b.pass] EXCEPT !.remaining = passes[b.pass].remaining - b.count]
        /\ passes[b.pass].status = "Active"
        /\ \A q \in PassIds \ {p, b.pass} : passes'[q] = passes[q]
        /\ UNCHANGED <<balance, debits, upis>>
    BY <1>3 DEF ShareWrites, NewPass
  <1>6. passes'[b.pass].paid = passes[b.pass].paid /\ passes'[b.pass].acct = passes[b.pass].acct /\ passes'[b.pass].status = "Active"
    BY <1>4, <1>5 DEF Rows
  <1>7. ASSUME NEW a \in Accounts PROVE PaidColumn(a)' = PaidColumn(a)
    <2>1. passes[p].paid = 0
      BY <1>5 DEF NoRow
    <2>2. ASSUME NEW q \in PassIds PROVE PaidColumn(a)'[q] = PaidColumn(a)[q]
      BY <1>4, <1>5, <1>6, <2>1 DEF PaidColumn
    <2> QED
      BY <2>2 DEF PaidColumn
  <1>8. Unused'
    BY <1>1, <1>5, <1>6 DEF Unused
  <1> QED
    BY <1>1, <1>5, <1>7, <1>8, NothingPaidKeeps

\* A check-in leaves the payments and the units bought as they were.
LEMMA CheckInPaid ==
    ASSUME Paid, NEW r \in Requests, CheckInCommit(r)
    PROVE  Paid'
  <1>1. Locked' /\ TypeOK /\ Locked /\ Unused
    BY CheckInCommitKeeps DEF Paid, Locked
  <1>2. PICK b \in Payloads : b.op = "check_in" /\ CheckInWrites(b)
    BY <1>1, CheckInCommitWrites
  <1>3. b.pass \in PassIds /\ passes[b.pass] \in Rows
    BY <1>1, <1>2, BodyType DEF TypeOK
  <1>4. /\ passes'[b.pass] = CheckedIn(passes[b.pass], passes[b.pass], b)
        /\ \A q \in PassIds \ {b.pass} : passes'[q] = passes[q]
        /\ UNCHANGED <<balance, debits, upis>>
    BY <1>2 DEF CheckInWrites
  <1>5. /\ passes'[b.pass].paid = passes[b.pass].paid /\ passes'[b.pass].acct = passes[b.pass].acct
        /\ passes'[b.pass].status # "None"
    BY <1>3, <1>4 DEF CheckedIn, Rows
  <1>6. ASSUME NEW a \in Accounts PROVE PaidColumn(a)' = PaidColumn(a)
    BY <1>3, <1>4, <1>5 DEF PaidColumn
  <1>7. Unused'
    BY <1>1, <1>4, <1>5 DEF Unused
  <1> QED
    BY <1>1, <1>4, <1>6, <1>7, NothingPaidKeeps

\* Every step keeps payments in agreement with the passes they bought.
LEMMA NextPaid == Paid /\ [Next]_vars => Paid'
  <1> SUFFICES ASSUME Paid, [Next]_vars PROVE Paid'
    OBVIOUS
  <1>1. CASE UNCHANGED <<passes, admitted, balance, debits, upis>>
    <2>1. Locked'
      BY NextLocked DEF Paid
    <2>2. Unused' /\ \A a \in Accounts : PaidColumn(a)' = PaidColumn(a)
      BY <1>1 DEF Paid, Unused, PaidColumn
    <2> QED
      BY <1>1, <2>1, <2>2, NothingPaidKeeps
  <1> QED
    BY <1>1, OnlyCommitsWrite, BookPaid, SharePaid, CheckInPaid

\* No booking takes money without a pass, gives a pass without its payment or loses a
\* concurrent debit, whatever is rolled back and under either isolation level.
THEOREM PaymentsAlwaysMatch == Spec => []PaymentsMatchPasses
  <1>1. Paid => PaymentsMatchPasses
    BY DEF Paid
  <1> QED
    BY <1>1, InitPaid, NextPaid, PTL DEF Spec

-----------------------------------------------------------------------------
(* One bought pass per buyer. A booking that found no pass holds the event   *)
(* row, so no other can draw one before it does: under any isolation.        *)

NoneFound ==
    \A r \in Requests : stage[r] = "found" /\ view[r].own = None =>
        primary_buyer_pass(body[r].event, body[r].acct) = {}

Solo == Locked /\ Unused /\ OnePrimary /\ NoneFound

\* The bought passes stay what they are, as far as their buyers go.
SameSales ==
    \A q \in PassIds :
        /\ Primary(passes', q) <=> Primary(passes, q)
        /\ Primary(passes, q) => /\ passes'[q].event = passes[q].event
                                 /\ passes'[q].acct = passes[q].acct
                                 /\ passes'[q].total = passes[q].total

\* A share gives no buyer a second primary pass and buys no unit.
LEMMA ShareSameSales ==
    ASSUME Locked, Unused, NEW r \in Requests, ShareCommit(r)
    PROVE  SameSales /\ Unused'
  <1>1. PICK b \in Payloads : b.op = "share" /\ \E p \in PassIds : ShareWrites(b, p)
    BY ShareCommitWrites
  <1>2. PICK p \in PassIds : ShareWrites(b, p)
    BY <1>1
  <1>3. b.pass \in PassIds /\ passes[b.pass] \in Rows
    BY <1>1, BodyType DEF Locked, TypeOK
  <1>4. /\ passes[p] = NoRow /\ p # b.pass /\ passes'[p].from = b.pass /\ passes'[p].status = "Active"
        /\ passes'[b.pass] = [passes[b.pass] EXCEPT !.remaining = passes[b.pass].remaining - b.count]
        /\ passes[b.pass].status = "Active"
        /\ \A q \in PassIds \ {p, b.pass} : passes'[q] = passes[q]
    BY <1>2 DEF ShareWrites, NewPass
  <1>5. /\ passes'[b.pass].status = "Active" /\ passes'[b.pass].from = passes[b.pass].from
        /\ passes'[b.pass].event = passes[b.pass].event /\ passes'[b.pass].acct = passes[b.pass].acct
        /\ passes'[b.pass].total = passes[b.pass].total
    BY <1>3, <1>4 DEF Rows
  <1>6. ~ Primary(passes, p) /\ ~ Primary(passes', p)
    BY <1>3, <1>4 DEF Primary, NoRow
  <1>7. SameSales
    BY <1>4, <1>5, <1>6 DEF SameSales, Primary
  <1>8. Unused'
    BY <1>4, <1>5 DEF Unused
  <1> QED
    BY <1>7, <1>8

\* A check-in gives no buyer a second primary pass and buys no unit.
LEMMA CheckInSameSales ==
    ASSUME Locked, Unused, NEW r \in Requests, CheckInCommit(r)
    PROVE  SameSales /\ Unused'
  <1>1. PICK b \in Payloads : b.op = "check_in" /\ CheckInWrites(b)
    BY CheckInCommitWrites
  <1>2. b.pass \in PassIds /\ passes[b.pass] \in Rows
    BY <1>1, BodyType DEF Locked, TypeOK
  <1>3. /\ passes[b.pass].status = "Active"
        /\ passes'[b.pass] = CheckedIn(passes[b.pass], passes[b.pass], b)
        /\ \A q \in PassIds \ {b.pass} : passes'[q] = passes[q]
    BY <1>1 DEF CheckInWrites
  <1>4. /\ passes'[b.pass].status # "None" /\ passes'[b.pass].from = passes[b.pass].from
        /\ passes'[b.pass].event = passes[b.pass].event /\ passes'[b.pass].acct = passes[b.pass].acct
        /\ passes'[b.pass].total = passes[b.pass].total
    BY <1>2, <1>3 DEF CheckedIn, Rows
  <1> QED
    BY <1>3, <1>4 DEF SameSales, Primary, Unused

\* A step that sells nothing, and lets no booking come to the point of drawing a pass.
LEMMA SoloKept ==
    ASSUME Solo, Locked', Unused', SameSales,
           \A r \in Requests : stage'[r] = "found" =>
               stage[r] = "found" /\ view'[r].own = view[r].own /\ body'[r] = body[r]
    PROVE  Solo'
  <1>1. OnePrimary'
    BY DEF Solo, OnePrimary, SameSales
  <1>2. ASSUME NEW e, NEW a PROVE primary_buyer_pass(e, a)' = primary_buyer_pass(e, a)
    BY DEF SameSales, primary_buyer_pass
  <1>3. NoneFound'
    BY <1>2 DEF Solo, NoneFound
  <1> QED
    BY <1>1, <1>3 DEF Solo

\* At the start no buyer has a primary pass.
LEMMA InitSolo == Init => Solo
  <1> SUFFICES ASSUME Init PROVE Solo
    OBVIOUS
  <1>1. OnePrimary /\ NoneFound
    BY DEF Init, OnePrimary, NoneFound, Primary, NoRow
  <1> QED
    BY <1>1, InitLocked, InitAccounted DEF Solo, Accounted

\* A booking looks for the buyer's pass under the event's lock.
LEMMA FindSolo ==
    ASSUME Solo, NEW r \in Requests, BookFindPass(r)
    PROVE  Solo'
  <1>1. Locked' /\ TypeOK /\ passes' = passes /\ body' = body
    BY BookFindPassKeeps DEF Solo, Locked, BookFindPass, tables
  <1>2. \A s \in Requests \ {r} : stage'[s] = stage[s] /\ view'[s] = view[s]
    BY <1>1 DEF BookFindPass, TypeOK
  <1>3. ASSUME view'[r].own = None PROVE primary_buyer_pass(body[r].event, body[r].acct) = {}
    <2>1. view[r] \in Views
      BY <1>1 DEF TypeOK
    <2>2. \A p \in PassIds : p # None
      OBVIOUS
    <2> QED
      BY <1>1, <1>3, <2>1, <2>2 DEF BookFindPass, primary_buyer_pass, TypeOK, Views
  <1>4. NoneFound'
    BY <1>1, <1>2, <1>3 DEF Solo, NoneFound, primary_buyer_pass
  <1>5. OnePrimary' /\ Unused'
    BY <1>1 DEF Solo, OnePrimary, Unused
  <1> QED
    BY <1>1, <1>4, <1>5 DEF Solo

\* It draws one only if there was none, and there is none still.
LEMMA BookSolo ==
    ASSUME Solo, NEW r \in Requests, BookCommit(r)
    PROVE  Solo'
  <1>1. Locked' /\ TypeOK /\ Locked /\ Unused /\ LockDiscipline
    BY BookCommitKeeps DEF Solo, Locked
  <1>b. PICK b \in Payloads : b = body[r] /\ b.op = "book"
    BY <1>1, BookCommitWrites
  <1>2. PICK p \in PassIds : BookWrites(b, p) /\ (passes[p] = NoRow => view[r].own = None)
    BY <1>1, <1>b, BookCommitWrites
  <1>3. /\ Grown(passes[p], passes'[p], b)
        /\ \A q \in PassIds \ {p} : passes'[q] = passes[q]
        /\ passes[p] = NoRow \/ p \in primary_buyer_pass(b.event, b.acct)
    BY <1>2 DEF BookWrites
  <1>4. stage[r] = "found" /\ eventLock[b.event] = r /\ b.event \in Events
    BY <1>1, <1>b, BodyType DEF BookCommit, LockDiscipline, Disciplined
  <1>5. primary_buyer_pass(b.event, b.acct) \subseteq {p}
    <2>1. CASE passes[p] = NoRow
      BY <1>b, <1>2, <1>4, <2>1 DEF Solo, NoneFound
    <2>2. CASE p \in primary_buyer_pass(b.event, b.acct)
      BY <2>2 DEF Solo, OnePrimary, primary_buyer_pass
    <2> QED
      BY <1>3, <2>1, <2>2
  <1>6. OnePrimary'
    <2> SUFFICES ASSUME NEW x \in PassIds, NEW y \in PassIds,
                        Primary(passes', x), Primary(passes', y),
                        passes'[x].event = passes'[y].event, passes'[x].acct = passes'[y].acct
                 PROVE  x = y
      BY DEF OnePrimary
    <2>1. CASE x # p /\ y # p
      BY <1>3, <2>1 DEF Solo, OnePrimary, Primary
    <2>2. CASE x = p /\ y # p
      BY <1>3, <1>5, <2>2 DEF Grown, Primary, primary_buyer_pass
    <2>3. CASE x # p /\ y = p
      BY <1>3, <1>5, <2>3 DEF Grown, Primary, primary_buyer_pass
    <2> QED
      BY <2>1, <2>2, <2>3
  <1>7. ASSUME NEW s \in Requests, stage'[s] = "found", view'[s].own = None
        PROVE  primary_buyer_pass(body[s].event, body[s].acct)' = {}
    <2>1. s # r /\ stage[s] = "found" /\ view[s].own = None /\ body' = body
      BY <1>1, <1>7 DEF BookCommit, End, TypeOK
    <2>2. eventLock[body[s].event] = s
      BY <1>1, <2>1 DEF LockDiscipline, Disciplined
    <2>3. body[s].event # b.event
      BY <1>4, <2>1, <2>2
    <2>4. primary_buyer_pass(body[s].event, body[s].acct) = {}
      BY <2>1 DEF Solo, NoneFound
    <2> QED
      BY <1>3, <2>1, <2>3, <2>4 DEF Grown, Primary, primary_buyer_pass
  <1>8. Unused'
    BY <1>1, <1>3 DEF Unused, Grown
  <1> QED
    BY <1>1, <1>6, <1>7, <1>8 DEF Solo, NoneFound

\* Every step leaves at most one primary pass to a buyer and an event.
LEMMA NextSolo == Solo /\ [Next]_vars => Solo'
  <1> SUFFICES ASSUME Solo, [Next]_vars PROVE Solo'
    OBVIOUS
  <1>1. Locked' /\ TypeOK /\ Locked /\ Unused
    BY NextLocked DEF Solo, Locked
  <1>2. ASSUME passes' = passes,
               \A s \in Requests : stage'[s] = "found" =>
                 stage[s] = "found" /\ view'[s].own = view[s].own /\ body'[s] = body[s]
        PROVE  Solo'
    <2>1. Unused' /\ SameSales
      BY <1>1, <1>2 DEF Unused, SameSales
    <2> QED
      BY <1>1, <1>2, <2>1, SoloKept
  <1>3. ASSUME NEW r \in Requests, Authenticate(r) PROVE Solo'
    BY <1>1, <1>2, <1>3 DEF Authenticate, tables, TypeOK
  <1>4. ASSUME NEW r \in Requests, BookAdmission(r) PROVE Solo'
    BY <1>1, <1>2, <1>4 DEF BookAdmission, Refuse, End, tables, TypeOK
  <1>5. ASSUME NEW r \in Requests, BookPayment(r) PROVE Solo'
    BY <1>1, <1>2, <1>5 DEF BookPayment, Refuse, End, tables, TypeOK
  <1>6. ASSUME NEW r \in Requests, LockPass(r) PROVE Solo'
    BY <1>1, <1>2, <1>6 DEF LockPass, ReadLocked, Refuse, End, tables, TypeOK
  <1>7. ASSUME NEW r \in Requests, ShareCommit(r) \/ CheckInCommit(r) PROVE Solo'
    <2>1. Unused' /\ SameSales
      BY <1>1, <1>7, ShareSameSales, CheckInSameSales
    <2>2. \A s \in Requests : stage'[s] = "found" =>
            stage[s] = "found" /\ view'[s].own = view[s].own /\ body'[s] = body[s]
      BY <1>1, <1>7 DEF ShareCommit, CheckInCommit, End, TypeOK
    <2> QED
      BY <1>1, <2>1, <2>2, SoloKept
  <1>8. ASSUME NEW r \in Requests, Abort(r) PROVE Solo'
    BY <1>1, <1>2, <1>8 DEF Abort, End, tables, TypeOK
  <1>9. CASE UNCHANGED vars
    BY <1>2, <1>9 DEF vars
  <1> QED
    BY <1>3, <1>4, <1>5, <1>6, <1>7, <1>8, <1>9, FindSolo, BookSolo DEF Next, Step

\* Repeated and concurrent bookings of a member add to one pass, under either
\* isolation level: the buyer's pass is looked for FOR UPDATE under the event's lock.
THEOREM OnePassPerBuyer == Spec => []OnePrimary
  <1>1. Solo => OnePrimary
    BY DEF Solo
  <1> QED
    BY <1>1, InitSolo, NextSolo, PTL DEF Spec

-----------------------------------------------------------------------------
(* Capacity and limit. A booking that was let in keeps fitting what it       *)
(* counts up to its commit: under REPEATABLE READ because it counts in its   *)
(* snapshot, under READ COMMITTED because nobody sells an event it has locked.*)

BuyerColumn(e, a) ==
    [p \in PassIds |-> IF /\ Primary(passes, p)
                          /\ passes[p].event = e
                          /\ passes[p].acct = a
                       THEN passes[p].total ELSE 0]

BuyersCountable == \A e \in Events, a \in Accounts : IsFiniteSet(Units(BuyerColumn(e, a)))

StillFits == \A r \in Requests : stage[r] \in Booking => Fits(r)

Fitting == Solo /\ Kept /\ BuyersCountable /\ StillFits

\* At the start nothing is sold and nobody books.
LEMMA InitFitting == Init => Fitting
  <1> SUFFICES ASSUME Init PROVE Fitting
    OBVIOUS
  <1>1. ASSUME NEW e \in Events, NEW a \in Accounts
        PROVE  IsFiniteSet(Units(BuyerColumn(e, a)))
    <2>1. BuyerColumn(e, a) \in [PassIds -> {0}]
      BY DEF Init, BuyerColumn, Primary, NoRow
    <2> QED
      BY <2>1, TotalOfZeros
  <1>2. StillFits
    BY DEF Init, StillFits
  <1> QED
    BY <1>1, <1>2, InitSolo, InitKept DEF Fitting, BuyersCountable

\* A request in progress keeps its body and its snapshot; only its authentication
\* takes a snapshot.
LEMMA SnapshotStays ==
    ASSUME TypeOK, [Next]_vars, NEW s \in Requests, stage'[s] \in Active
    PROVE  \/ /\ stage[s] \in Active /\ body'[s] = body[s]
              /\ view'[s].passes = view[s].passes
           \/ Authenticate(s)
  <1>0. view \in [Requests -> Views] /\ stage[s] \in {"idle"} \cup Active \cup Outcomes
    BY DEF TypeOK
  <1>v. view[s] \in Views
    BY <1>0
  <1>1. ASSUME NEW r \in Requests, Authenticate(r), r # s
        PROVE  stage'[s] = stage[s] /\ body'[s] = body[s] /\ view'[s] = view[s]
    BY <1>1 DEF Authenticate, TypeOK
  <1>2. ASSUME NEW r \in Requests, BookAdmission(r) \/ BookPayment(r)
        PROVE  stage[s] \in Active /\ body'[s] = body[s] /\ view'[s] = view[s]
    BY <1>2 DEF BookAdmission, BookPayment, Refuse, End, TypeOK, Active
  <1>3. ASSUME NEW r \in Requests, BookFindPass(r)
        PROVE  stage[s] \in Active /\ body'[s] = body[s] /\ view'[s].passes = view[s].passes
    BY <1>3, <1>v DEF BookFindPass, TypeOK, Active, Views
  <1>4. ASSUME NEW r \in Requests, LockPass(r)
        PROVE  stage[s] \in Active /\ body'[s] = body[s] /\ view'[s].passes = view[s].passes
    <2>1. CASE Refuse(r)
      BY <1>4, <2>1 DEF LockPass, Refuse, End, TypeOK, Active
    <2>2. CASE ReadLocked(r)
      <3>1. /\ stage' = [stage EXCEPT ![r] = "locked"] /\ body' = body
            /\ stage[r] = "authenticated"
            /\ view' = [view EXCEPT ![r].row = passes[body[r].pass]]
        BY <1>4, <2>2 DEF LockPass, ReadLocked
      <3>2. stage[s] \in Active
        BY <3>1, <1>0 DEF TypeOK, Active
      <3>3. view'[s].passes = view[s].passes
        BY <3>1, <1>0, <1>v DEF Views
      <3> QED
        BY <3>1, <3>2, <3>3
    <2> QED
      BY <1>4, <2>1, <2>2 DEF LockPass
  <1>5. ASSUME NEW r \in Requests, BookCommit(r) \/ ShareCommit(r) \/ CheckInCommit(r) \/ Abort(r)
        PROVE  stage[s] \in Active /\ body'[s] = body[s] /\ view'[s] = view[s]
    BY <1>5 DEF BookCommit, ShareCommit, CheckInCommit, Abort, End, TypeOK, Active
  <1>6. CASE UNCHANGED vars
    BY <1>6 DEF vars
  <1> QED
    BY <1>1, <1>2, <1>3, <1>4, <1>5, <1>6 DEF Next, Step

\* Past its count a request only goes on; what it has not counted yet, it counts now.
LEMMA BookingGoesOn ==
    ASSUME TypeOK, [Next]_vars, NEW s \in Requests, stage'[s] \in Booking
    PROVE  \/ stage[s] \in Booking
           \/ BookAdmission(s) /\ Fits(s) /\ UNCHANGED <<passes, body, view>>
  <1>1. ASSUME NEW r \in Requests, Authenticate(r) \/ BookPayment(r) \/ BookFindPass(r)
        PROVE  stage[s] \in Booking
    BY <1>1 DEF Authenticate, BookPayment, BookFindPass, Refuse, End, TypeOK
  <1>2. ASSUME NEW r \in Requests, LockPass(r)
        PROVE  stage[s] \in Booking
    BY <1>2 DEF LockPass, ReadLocked, Refuse, End, TypeOK
  <1>3. ASSUME NEW r \in Requests, BookCommit(r) \/ ShareCommit(r) \/ CheckInCommit(r) \/ Abort(r)
        PROVE  stage[s] \in Booking
    BY <1>3 DEF BookCommit, ShareCommit, CheckInCommit, Abort, End, TypeOK
  <1>4. ASSUME NEW r \in Requests, BookAdmission(r), stage[s] \notin Booking
        PROVE  r = s /\ Fits(s) /\ UNCHANGED <<passes, body, view>>
    BY <1>4 DEF BookAdmission, Refuse, End, TypeOK, tables
  <1>5. CASE UNCHANGED vars
    BY <1>5 DEF vars
  <1> QED
    BY <1>1, <1>2, <1>3, <1>4, <1>5 DEF Next, Step

\* The buyer's count is the total of the buyer's column.
LEMMA BuyerCountIsTotal ==
    ASSUME NEW e, NEW a
    PROVE  /\ buyer_count(passes, e, a) = Total(BuyerColumn(e, a))
           /\ buyer_count(passes', e, a) = Total(BuyerColumn(e, a)')
           /\ buyer_count(passes, e, a)' = buyer_count(passes', e, a)
  BY DEF BuyerColumn, buyer_count, Primary

\* A booking sells its buyer what it asks for, and nobody else anything.
LEMMA BookSellsBuyer ==
    ASSUME Fitting, NEW r \in Requests, BookCommit(r)
    PROVE  /\ BuyersCountable'
           /\ buyer_count(passes', body[r].event, body[r].acct)
                = buyer_count(passes, body[r].event, body[r].acct) + body[r].count
           /\ \A e \in Events, a \in Accounts : e # body[r].event \/ a # body[r].acct =>
                buyer_count(passes', e, a) = buyer_count(passes, e, a)
  <1>1. TypeOK /\ Locked /\ Unused /\ LockDiscipline
    BY DEF Fitting, Solo, Locked
  <1>b. PICK b \in Payloads : b = body[r] /\ b.op = "book"
    BY <1>1, BookCommitWrites
  <1>2. PICK p \in PassIds : BookWrites(b, p)
    BY <1>1, <1>b, BookCommitWrites
  <1>3. /\ Grown(passes[p], passes'[p], b)
        /\ \A q \in PassIds \ {p} : passes'[q] = passes[q]
        /\ passes[p] = NoRow \/ p \in primary_buyer_pass(b.event, b.acct)
    BY <1>2 DEF BookWrites
  <1>4. /\ b.event \in Events /\ b.acct \in Accounts
        /\ b.count \in Nat /\ passes[p] \in Rows
    BY <1>1, <1>b, BodyType DEF TypeOK
  <1> DEFINE f == BuyerColumn(b.event, b.acct)
             g == BuyerColumn(b.event, b.acct)'
  <1>5. IsFiniteSet(Units(g)) /\ Total(g) = Total(f) + b.count
    <2>1. f \in [PassIds -> Nat] /\ IsFiniteSet(Units(f))
      <3>1. f \in [PassIds -> Nat]
        BY <1>1 DEF BuyerColumn, TypeOK, Rows
      <3>2. IsFiniteSet(Units(f))
        BY <1>4 DEF Fitting, BuyersCountable
      <3> QED
        BY <3>1, <3>2
    <2>2. \A z \in PassIds \ {p} : g[z] = f[z]
      BY <1>3 DEF BuyerColumn, Primary
    <2>3. f[p] = passes[p].total
      <3>1. CASE passes[p] = NoRow
        BY <3>1 DEF BuyerColumn, Primary, NoRow
      <3>2. CASE p \in primary_buyer_pass(b.event, b.acct)
        BY <3>2 DEF BuyerColumn, primary_buyer_pass
      <3> QED
        BY <1>3, <3>1, <3>2
    <2>4. g[p] = passes[p].total + b.count
      BY <1>3 DEF BuyerColumn, Primary, Grown
    <2>5. g \in [PassIds -> Nat]
      <3>1. \A z \in PassIds : g[z] \in Nat
        BY <1>4, <2>1, <2>2, <2>4 DEF Rows
      <3> QED
        BY <3>1 DEF BuyerColumn
    <2> HIDE DEF f, g
    <2> QED
      BY <1>4, <2>1, <2>2, <2>3, <2>4, <2>5, TotalOfRowIncrease
  <1>6. ASSUME NEW e \in Events, NEW a \in Accounts, e # b.event \/ a # b.acct
        PROVE  BuyerColumn(e, a)' = BuyerColumn(e, a)
    <2>1. passes[p].event # e \/ passes[p].acct # a
      BY <1>3, <1>6 DEF NoRow, primary_buyer_pass
    <2>2. passes'[p].event # e \/ passes'[p].acct # a
      BY <1>3, <1>6 DEF Grown
    <2> QED
      BY <1>3, <2>1, <2>2 DEF BuyerColumn, Primary
  <1>7. BuyersCountable'
    <2>1. ASSUME NEW e \in Events, NEW a \in Accounts PROVE IsFiniteSet(Units(BuyerColumn(e, a)'))
      <3>1. CASE e = b.event /\ a = b.acct
        BY <1>5, <3>1
      <3>2. CASE e # b.event \/ a # b.acct
        BY <1>6, <3>2 DEF Fitting, BuyersCountable
      <3> QED
        BY <3>1, <3>2
    <2> QED
      BY <2>1 DEF BuyersCountable
  <1>8. ASSUME NEW e \in Events, NEW a \in Accounts, e # b.event \/ a # b.acct
        PROVE  buyer_count(passes', e, a) = buyer_count(passes, e, a)
    BY <1>6, <1>8, BuyerCountIsTotal
  <1>9. buyer_count(passes', b.event, b.acct) = buyer_count(passes, b.event, b.acct) + b.count
    BY <1>5, BuyerCountIsTotal
  <1> QED
    BY <1>b, <1>7, <1>8, <1>9

\* A share and a check-in sell nothing to any buyer.
LEMMA OthersSellNothing ==
    ASSUME Fitting, NEW r \in Requests, ShareCommit(r) \/ CheckInCommit(r), NEW e \in Events
    PROVE  /\ booked_count(passes', e) = booked_count(passes, e)
           /\ \A a : BuyerColumn(e, a)' = BuyerColumn(e, a)
           /\ \A a : buyer_count(passes', e, a) = buyer_count(passes, e, a)
  <1>1. Locked /\ Unused
    BY DEF Fitting, Solo
  <1>2. SameSales
    BY <1>1, ShareSameSales, CheckInSameSales
  <1>3. PrimaryTotals(passes', e) = PrimaryTotals(passes, e)
    BY <1>1, ShareCommitSellsNothing, CheckInCommitSellsNothing
  <1>4. \A a : BuyerColumn(e, a)' = BuyerColumn(e, a)
    BY <1>2 DEF SameSales, BuyerColumn
  <1>5. \A a : buyer_count(passes', e, a) = buyer_count(passes, e, a)
    BY <1>4, BuyerCountIsTotal
  <1> QED
    BY <1>3, <1>4, <1>5 DEF booked_count

\* Nobody sells an event that a booking past its count has locked.
LEMMA LockedEventStays ==
    ASSUME Fitting, [Next]_vars, NEW s \in Requests,
           stage[s] \in Booking, stage'[s] \in Booking
    PROVE  /\ booked_count(passes', body[s].event) = booked_count(passes, body[s].event)
           /\ buyer_count(passes', body[s].event, body[s].acct)
                = buyer_count(passes, body[s].event, body[s].acct)
  <1>1. TypeOK /\ LockDiscipline /\ Locked /\ Countable
    BY DEF Fitting, Solo, Locked, Kept
  <1>b. PICK b \in Payloads : b = body[s] /\ b.op = "book"
    BY <1>1 DEF LockDiscipline, Disciplined
  <1>2. eventLock[b.event] = s /\ b.event \in Events /\ b.acct \in Accounts
    BY <1>1, <1>b, BodyType DEF LockDiscipline, Disciplined
  <1>3. /\ booked_count(passes', b.event) = booked_count(passes, b.event)
        /\ buyer_count(passes', b.event, b.acct) = buyer_count(passes, b.event, b.acct)
    <2>1. CASE UNCHANGED passes
      BY <2>1
    <2>2. ASSUME NEW r \in Requests, BookCommit(r)
          PROVE  /\ booked_count(passes', b.event) = booked_count(passes, b.event)
                 /\ buyer_count(passes', b.event, b.acct) = buyer_count(passes, b.event, b.acct)
      <3>1. r # s /\ eventLock[body[r].event] = r
        BY <1>1, <2>2 DEF BookCommit, End, TypeOK, LockDiscipline, Disciplined
      <3>2. b.event # body[r].event
        BY <1>2, <3>1
      <3> QED
        BY <1>1, <1>2, <2>2, <3>2, BookCommitSells, BookSellsBuyer
    <2>3. ASSUME NEW r \in Requests, ShareCommit(r) \/ CheckInCommit(r)
          PROVE  /\ booked_count(passes', b.event) = booked_count(passes, b.event)
                 /\ buyer_count(passes', b.event, b.acct) = buyer_count(passes, b.event, b.acct)
      BY <1>2, <2>3, OthersSellNothing
    <2> QED
      BY <2>1, <2>2, <2>3, OnlyCommitsWrite
  <1> QED
    BY <1>b, <1>3

\* Every step keeps the columns of sales finite and every admitted booking fitting.
LEMMA NextFitting == Fitting /\ [Next]_vars => Fitting'
  <1> SUFFICES ASSUME Fitting, [Next]_vars PROVE Fitting'
    OBVIOUS
  <1>1. Solo' /\ Kept' /\ TypeOK /\ TypeOK'
    BY NextSolo, NextKept DEF Fitting, Solo, Locked
  <1>2. BuyersCountable'
    <2>1. CASE UNCHANGED passes
      BY <2>1 DEF Fitting, BuyersCountable, BuyerColumn
    <2>2. ASSUME NEW r \in Requests, ShareCommit(r) \/ CheckInCommit(r) PROVE BuyersCountable'
      BY <2>2, OthersSellNothing DEF Fitting, BuyersCountable
    <2> QED
      BY <2>1, <2>2, OnlyCommitsWrite, BookSellsBuyer
  <1>3. ASSUME NEW s \in Requests, stage'[s] \in Booking PROVE Fits(s)'
    <2>1. CASE stage[s] \in Booking
      <3>1. Fits(s)
        BY <2>1 DEF Fitting, StillFits
      <3>2. body'[s] = body[s] /\ view'[s].passes = view[s].passes
        BY <1>1, <1>3, <2>1, SnapshotStays DEF Active, Authenticate
      <3>3. view[s] \in Views /\ view'[s] \in Views
        BY <1>1 DEF TypeOK
      <3>4. CASE Isolation = "READ_COMMITTED"
        <4>1. Seen(s).passes = passes /\ Seen(s)'.passes = passes'
          BY <3>3, <3>4 DEF Seen, Views
        <4> QED
          BY <1>3, <2>1, <3>1, <3>2, <4>1, LockedEventStays DEF Fits
      <3>5. CASE Isolation # "READ_COMMITTED"
        <4>1. Seen(s)'.passes = Seen(s).passes
          BY <3>2, <3>5 DEF Seen
        <4> QED
          BY <3>1, <3>2, <4>1 DEF Fits
      <3> QED
        BY <3>4, <3>5
    <2>2. CASE stage[s] \notin Booking
      BY <1>1, <1>3, <2>2, BookingGoesOn DEF Fits, Seen
    <2> QED
      BY <2>1, <2>2
  <1> QED
    BY <1>1, <1>2, <1>3 DEF Fitting, StillFits

\* Always.
LEMMA AlwaysFitting == Spec => []Fitting
  BY InitFitting, NextFitting, PTL DEF Spec

\* A sale is the commit of a booking that fits what it counts.
LEMMA SaleFits ==
    ASSUME Fitting, [Next]_vars, NEW e \in Events,
           \/ booked_count(passes', e) # booked_count(passes, e)
           \/ \E a \in Accounts : buyer_count(passes', e, a) # buyer_count(passes, e, a)
    PROVE  \E r \in Requests :
             /\ BookCommit(r) /\ Commits(r) /\ Fits(r)
             /\ body[r].event = e /\ body[r].acct \in Accounts /\ body[r].count \in Nat \ {0}
  <1>1. TypeOK /\ Locked /\ LockDiscipline /\ Countable
    BY DEF Fitting, Solo, Locked, Kept
  <1>2. ~ UNCHANGED passes
    OBVIOUS
  <1>3. ASSUME NEW r \in Requests, ShareCommit(r) \/ CheckInCommit(r) PROVE FALSE
    BY <1>3, OthersSellNothing
  <1>4. PICK r \in Requests : BookCommit(r)
    BY <1>2, <1>3, OnlyCommitsWrite
  <1>b. PICK b \in Payloads : b = body[r] /\ b.op = "book"
    BY <1>1, <1>4 DEF BookCommit, LockDiscipline, Disciplined
  <1>5. b.event \in Events /\ b.acct \in Accounts /\ b.count \in Nat \ {0}
    BY <1>b, BodyType
  <1>6. Commits(r) /\ Fits(r)
    BY <1>1, <1>4 DEF BookCommit, Commits, End, TypeOK, Fitting, StillFits
  <1>7. b.event = e
    <2>1. CASE booked_count(passes', e) # booked_count(passes, e)
      BY <1>1, <1>4, <1>b, <2>1, BookCommitSells
    <2>2. CASE \E a \in Accounts : buyer_count(passes', e, a) # buyer_count(passes, e, a)
      BY <1>4, <1>b, <2>2, BookSellsBuyer
    <2> QED
      BY <2>1, <2>2
  <1> QED
    BY <1>4, <1>b, <1>5, <1>6, <1>7

\* Under either isolation level the capacity is exceeded only by a booking whose count of
\* the passes sold another booking overtook: one that reads what is there never does it.
THEOREM OversoldByRaceAlone == Spec => OversoldOnlyByRace
  <1> DEFINE Exceeds(e) == /\ MaxCapacity # 0
                           /\ booked_count(passes', e) > booked_count(passes, e)
                           /\ booked_count(passes', e) > MaxCapacity
             Overtaken(r, e) == /\ Commits(r) /\ body[r].event = e
                                /\ booked_count(Seen(r).passes, e) # booked_count(passes, e)
  <1>1. ASSUME Fitting, [Next]_vars, NEW e \in Events, Exceeds(e)
        PROVE  \E r \in Requests : Overtaken(r, e)
    <2>0. Kept /\ Kept' /\ Locked /\ Countable /\ Countable'
      BY <1>1, NextFitting DEF Fitting, Solo, Kept
    <2>t. booked_count(passes, e) \in Nat /\ booked_count(passes, e)' \in Nat
      BY <2>0, SoldType, FS_CardinalityType DEF Countable, Sold, booked_count, Total
    <2>1. PICK r \in Requests :
             /\ BookCommit(r) /\ Commits(r) /\ Fits(r)
             /\ body[r].event = e /\ body[r].acct \in Accounts /\ body[r].count \in Nat \ {0}
      BY <1>1, <2>t, SaleFits
    <2>2. booked_count(passes', e) = booked_count(passes, e) + body[r].count
      BY <1>1, <2>0, <2>1, BookCommitSells
    <2>3. booked_count(Seen(r).passes, e) + body[r].count <= MaxCapacity
      BY <1>1, <2>1 DEF Fits
    <2>4. booked_count(Seen(r).passes, e) # booked_count(passes, e)
      BY <1>1, <2>t, <2>1, <2>2, <2>3
    <2> QED
      BY <2>1, <2>4
  <1>2. Fitting /\ [Next]_vars =>
          [\A e \in Events : Exceeds(e) => \E r \in Requests : Overtaken(r, e)]_vars
    BY <1>1
  <1> QED
    BY AlwaysFitting, <1>2, PTL DEF Spec, OversoldOnlyByRace

\* Under either isolation level a member gets past the limit that pass_service.py:50
\* announces only with a booking that another one of the same member overtook, and all of
\* them add to one pass.
THEOREM OverLimitByRaceAlone == Spec => OverLimitOnlyByRace
  <1> DEFINE Exceeds(e, a) == /\ buyer_count(passes', e, a) > buyer_count(passes, e, a)
                              /\ buyer_count(passes', e, a) > MaxPerUser
             Overtaken(r, e, a) ==
               /\ Commits(r) /\ body[r].event = e /\ body[r].acct = a
               /\ buyer_count(Seen(r).passes, e, a) # buyer_count(passes, e, a)
  <1>1. ASSUME Fitting, [Next]_vars, NEW e \in Events, NEW a \in Accounts, Exceeds(e, a)
        PROVE  \E r \in Requests : Overtaken(r, e, a)
    <2>0. BuyersCountable /\ BuyersCountable'
      BY <1>1, NextFitting DEF Fitting
    <2>t. buyer_count(passes, e, a) \in Nat /\ buyer_count(passes, e, a)' \in Nat
      BY <2>0, FS_CardinalityType DEF BuyersCountable, BuyerColumn, buyer_count, Total
    <2>1. PICK r \in Requests :
             /\ BookCommit(r) /\ Commits(r) /\ Fits(r)
             /\ body[r].event = e /\ body[r].acct \in Accounts /\ body[r].count \in Nat \ {0}
      BY <1>1, <2>t, SaleFits
    <2>2. body[r].acct = a
      BY <1>1, <2>t, <2>1, BookSellsBuyer
    <2>3. buyer_count(passes', e, a) = buyer_count(passes, e, a) + body[r].count
      BY <1>1, <2>1, <2>2, BookSellsBuyer
    <2>4. buyer_count(Seen(r).passes, e, a) + body[r].count <= MaxPerUser
      BY <2>1, <2>2 DEF Fits
    <2>5. buyer_count(Seen(r).passes, e, a) # buyer_count(passes, e, a)
      BY <1>1, <2>t, <2>1, <2>3, <2>4
    <2> QED
      BY <2>1, <2>2, <2>5
  <1>2. Fitting /\ [Next]_vars =>
          [\A e \in Events, a \in Accounts :
             Exceeds(e, a) => \E r \in Requests : Overtaken(r, e, a)]_vars
    BY <1>1
  <1>3. Spec => [][\A e \in Events, a \in Accounts :
             Exceeds(e, a) => \E r \in Requests : Overtaken(r, e, a)]_vars
    BY AlwaysFitting, <1>2, PTL DEF Spec
  <1> QED
    BY <1>3, OnePassPerBuyer, PTL DEF OverLimitOnlyByRace

-----------------------------------------------------------------------------
(* The register of admissions: a booking sells within the capacity, a        *)
(* check-in admits within the sales, every other step leaves both alone.      *)

EnteredColumn(e) == [p \in PassIds |-> IF passes[p].event = e THEN admitted[p] ELSE 0]

\* Only finitely many passes count admissions at an event, so these have a
\* total.
LEMMA EnteredColumnFinite ==
    ASSUME Kept, NEW e \in Events
    PROVE  EnteredColumn(e) \in [PassIds -> Nat] /\ IsFiniteSet(Units(EnteredColumn(e)))
  <1>1. TypeOK /\ AdmissionsAccounted
    BY DEF Kept, Accounted, Locked
  <1>2. KeptColumn(e) \in [PassIds -> Nat] /\ IsFiniteSet(Units(KeptColumn(e)))
    BY <1>1, KeptColumnType DEF Kept
  <1>3. EnteredColumn(e) \in [PassIds -> Nat]
    BY <1>1 DEF EnteredColumn, TypeOK
  <1>4. \A p \in PassIds : EnteredColumn(e)[p] <= KeptColumn(e)[p]
    BY <1>1 DEF TypeOK, Rows, AdmissionsAccounted, KeptColumn, EnteredColumn
  <1> QED
    BY <1>2, <1>3, <1>4, TotalMonotone

\* While the log agrees with the passes, an event admits at most what it
\* sold.
LEMMA KeptAdmits == Kept => AdmittedWithinSold
  BY KeptBoundsAdmitted DEF AdmittedWithinSold

\* The same in the next state.
LEMMA KeptAdmitsNext == Kept' => AdmittedWithinSold'
  BY KeptAdmits, PTL

\* The initial states are initial states of the register.
LEMMA InitRegisters == Init => Register!Init
  <1> SUFFICES ASSUME Init PROVE Register!Init
    OBVIOUS
  <1>1. ASSUME NEW e \in Events PROVE booked_count(passes, e) = 0 /\ AdmittedTo(e) = 0
    <2>1. PrimaryTotals(passes, e) \in [PassIds -> {0}] /\ EnteredColumn(e) \in [PassIds -> {0}]
      BY DEF Init, PrimaryTotals, EnteredColumn, Primary, NoRow
    <2> QED
      BY <2>1, TotalOfZeros DEF booked_count, AdmittedTo, EnteredColumn
  <1>2. \A r \in Requests : stage[r] \notin Active
    BY DEF Init, Active
  <1> QED
    BY <1>1, <1>2 DEF Register!Init

\* What the mapping takes for the sales and for the note of a request.
SoldNow == [e \in Events |-> booked_count(passes, e)]

NoteOf(r) == [e \in Events |-> IF stage[r] \in Active /\ body[r].op = "book"
                               THEN booked_count(Seen(r).passes, e)
                               ELSE booked_count(passes, e)]

\* A request keeps its note or takes the sales of the present.
LEMMA NotesLookUp ==
    ASSUME TypeOK, TypeOK', [Next]_vars
    PROVE  Register!LookUp
  <1>1. ASSUME NEW r \in Requests PROVE NoteOf(r)' = NoteOf(r) \/ NoteOf(r)' = SoldNow'
    <2>1. CASE ~ (stage'[r] \in Active /\ body'[r].op = "book")
      BY <2>1 DEF NoteOf, SoldNow
    <2>2. CASE stage'[r] \in Active /\ body'[r].op = "book"
      <3>1. view[r] \in Views /\ view'[r] \in Views
        BY DEF TypeOK
      <3>2. CASE Isolation = "READ_COMMITTED"
        <4>1. Seen(r)'.passes = passes'
          BY <3>1, <3>2 DEF Seen, Views
        <4> QED
          BY <4>1 DEF NoteOf, SoldNow
      <3>3. CASE Isolation # "READ_COMMITTED"
        <4>1. Seen(r)'.passes = view'[r].passes /\ Seen(r).passes = view[r].passes
          BY <3>3 DEF Seen
        <4>2. CASE /\ stage[r] \in Active /\ body'[r] = body[r]
                   /\ view'[r].passes = view[r].passes
          BY <2>2, <4>1, <4>2 DEF NoteOf
        <4>3. CASE Authenticate(r)
          <5>1. passes' = passes /\ view'[r].passes = passes
            <6>1. PICK b \in Payloads :
                    /\ body' = [body EXCEPT ![r] = b]
                    /\ view' = [view EXCEPT ![r] = IF b.op = "book"
                                  THEN [NoView EXCEPT !.passes = passes, !.rsvps = rsvps]
                                  ELSE NoView]
              BY <4>3 DEF Authenticate
            <6>2. body'[r] = b
              BY <6>1 DEF TypeOK
            <6>3. view'[r] = [NoView EXCEPT !.passes = passes, !.rsvps = rsvps]
              BY <2>2, <6>1, <6>2 DEF TypeOK
            <6> QED
              BY <4>3, <6>3 DEF NoView, Authenticate, tables
          <5> QED
            BY <4>1, <5>1 DEF NoteOf, SoldNow
        <4> QED
          BY <2>2, <4>2, <4>3, SnapshotStays
      <3> QED
        BY <3>2, <3>3
    <2> QED
      BY <2>1, <2>2
  <1> QED
    BY <1>1 DEF Register!LookUp, NoteOf, SoldNow

\* A booking is a sale, of what by its note is left.
LEMMA BookRegisters ==
    ASSUME Fitting, NEW r \in Requests, BookCommit(r)
    PROVE  \E e \in Events : Register!Sell(r, e)
  <1>1. Locked /\ Unused /\ Countable /\ AdmissionsAccounted
    BY DEF Fitting, Kept, Accounted
  <1>2. PICK b \in Payloads : b = body[r] /\ b.op = "book"
    BY <1>1, BookCommitWrites
  <1>3. PICK p \in PassIds : BookWrites(b, p)
    BY <1>1, <1>2, BookCommitWrites
  <1>4. b.event \in Events /\ b.count \in Nat \ {0}
    BY <1>2, BodyType
  <1>5. /\ booked_count(passes', b.event) = booked_count(passes, b.event) + b.count
        /\ \A e \in Events \ {b.event} : booked_count(passes', e) = booked_count(passes, e)
    BY <1>1, <1>2, BookCommitSells
  <1>6. booked_count(passes, b.event) \in Nat
    BY <1>1, <1>4, SoldType DEF Sold
  <1>7. ASSUME NEW e \in Events PROVE AdmittedTo(e)' = AdmittedTo(e)
    <2>1. /\ Grown(passes[p], passes'[p], b) /\ admitted' = admitted
          /\ \A q \in PassIds \ {p} : passes'[q] = passes[q]
          /\ passes[p] = NoRow \/ p \in primary_buyer_pass(b.event, b.acct)
      BY <1>3 DEF BookWrites
    <2>2. CASE passes[p] = NoRow
      <3>1. admitted[p] = 0
        BY <1>1, <2>2 DEF AdmissionsAccounted, NoRow
      <3> QED
        BY <2>1, <3>1 DEF AdmittedTo
    <2>3. CASE p \in primary_buyer_pass(b.event, b.acct)
      BY <2>1, <2>3 DEF AdmittedTo, primary_buyer_pass, Grown
    <2> QED
      BY <2>1, <2>2, <2>3
  <1>8. MaxCapacity # 0 => booked_count(Seen(r).passes, b.event) + b.count <= MaxCapacity
    BY <1>2 DEF BookCommit, Fitting, StillFits, Fits
  <1>9. stage[r] \in Active
    BY DEF BookCommit, Active
  <1> DEFINE sold == [e \in Events |-> booked_count(passes, e)]
             n == booked_count(passes', b.event)
  <1>10. sold' = [sold EXCEPT ![b.event] = n]
    BY <1>4, <1>5
  <1>11. n > booked_count(passes, b.event) /\ n - booked_count(passes, b.event) = b.count
    BY <1>4, <1>5, <1>6
  <1>12. Register!Sell(r, b.event)
    BY <1>2, <1>4, <1>7, <1>8, <1>9, <1>10, <1>11 DEF Register!Sell
  <1> QED
    BY <1>4, <1>12

\* A share is none of the register's business.
LEMMA ShareRegisters ==
    ASSUME Kept, NEW r \in Requests, ShareCommit(r)
    PROVE  /\ \A e \in Events : AdmittedTo(e)' = AdmittedTo(e)
           /\ \A e \in Events : booked_count(passes', e) = booked_count(passes, e)
  <1>1. Locked /\ Unused /\ AdmissionsAccounted
    BY DEF Kept, Accounted
  <1>2. PICK b \in Payloads : b.op = "share" /\ \E p \in PassIds : ShareWrites(b, p)
    BY <1>1, ShareCommitWrites
  <1>3. PICK p \in PassIds : ShareWrites(b, p)
    BY <1>2
  <1>4. b.pass \in PassIds /\ passes[b.pass] \in Rows
    BY <1>1, <1>2, BodyType DEF Locked, TypeOK
  <1>5. /\ passes[p] = NoRow /\ p # b.pass /\ admitted' = admitted
        /\ passes'[b.pass] = [passes[b.pass] EXCEPT !.remaining = passes[b.pass].remaining - b.count]
        /\ \A q \in PassIds \ {p, b.pass} : passes'[q] = passes[q]
    BY <1>3 DEF ShareWrites
  <1>6. admitted[p] = 0 /\ passes'[b.pass].event = passes[b.pass].event
    <2>1. admitted[p] = 0
      BY <1>1, <1>5 DEF AdmissionsAccounted, NoRow
    <2> QED
      BY <1>4, <1>5, <2>1 DEF Rows
  <1>7. ASSUME NEW e \in Events PROVE AdmittedTo(e)' = AdmittedTo(e)
    <2>1. ASSUME NEW q \in PassIds PROVE EnteredColumn(e)'[q] = EnteredColumn(e)[q]
      BY <1>5, <1>6 DEF EnteredColumn
    <2>2. EnteredColumn(e)' = EnteredColumn(e)
      BY <2>1 DEF EnteredColumn
    <2> QED
      BY <2>2 DEF AdmittedTo, EnteredColumn
  <1>8. ASSUME NEW e \in Events PROVE booked_count(passes', e) = booked_count(passes, e)
    BY <1>1, ShareCommitSellsNothing DEF booked_count
  <1> QED
    BY <1>7, <1>8

\* A check-in is an entry, within the sales.
LEMMA CheckInRegisters ==
    ASSUME Kept, Kept', NEW r \in Requests, CheckInCommit(r)
    PROVE  \/ \E e \in Events : Register!Enter(e)
           \/ \A e \in Events : /\ AdmittedTo(e)' = AdmittedTo(e)
                                /\ booked_count(passes', e) = booked_count(passes, e)
  <1>1. Locked /\ Unused
    BY DEF Kept, Accounted
  <1>2. PICK b \in Payloads : b.op = "check_in" /\ CheckInWrites(b)
    BY <1>1, CheckInCommitWrites
  <1>3. /\ b.pass \in PassIds /\ b.count \in Nat \ {0} /\ passes[b.pass] \in Rows
        /\ admitted \in [PassIds -> Nat]
    BY <1>1, <1>2, BodyType DEF Locked, TypeOK
  <1>4. /\ passes'[b.pass] = CheckedIn(passes[b.pass], passes[b.pass], b)
        /\ \A q \in PassIds \ {b.pass} : passes'[q] = passes[q]
        /\ admitted' = [admitted EXCEPT ![b.pass] = admitted[b.pass] + b.count]
    BY <1>2 DEF CheckInWrites
  <1>5. passes'[b.pass].event = passes[b.pass].event
    BY <1>3, <1>4 DEF CheckedIn, Rows
  <1>e. PICK ev : ev = passes[b.pass].event
    OBVIOUS
  <1>6. ASSUME NEW e \in Events PROVE booked_count(passes', e) = booked_count(passes, e)
    BY <1>1, CheckInCommitSellsNothing DEF booked_count
  <1>7. ASSUME NEW e \in Events \ {ev} PROVE AdmittedTo(e)' = AdmittedTo(e)
    <2>1. ASSUME NEW q \in PassIds PROVE EnteredColumn(e)'[q] = EnteredColumn(e)[q]
      BY <1>e, <1>3, <1>4, <1>5 DEF EnteredColumn
    <2>2. EnteredColumn(e)' = EnteredColumn(e)
      BY <2>1 DEF EnteredColumn
    <2> QED
      BY <2>2 DEF AdmittedTo, EnteredColumn
  <1>8. CASE ev \in Events
    <2> DEFINE f == EnteredColumn(ev)
               g == [p \in PassIds |-> IF passes'[p].event = ev THEN admitted'[p] ELSE 0]
    <2>1. f \in [PassIds -> Nat] /\ IsFiniteSet(Units(f))
      BY <1>8, EnteredColumnFinite
    <2>2. g[b.pass] = f[b.pass] + b.count /\ \A z \in PassIds \ {b.pass} : g[z] = f[z]
      BY <1>e, <1>3, <1>4, <1>5 DEF EnteredColumn
    <2>3. g \in [PassIds -> Nat]
      <3>1. \A z \in PassIds : g[z] \in Nat
        BY <1>3, <2>1, <2>2
      <3> QED
        BY <3>1
    <2>4. AdmittedTo(ev) = Total(f) /\ AdmittedTo(ev)' = Total(g)
      BY <1>4, <1>5 DEF AdmittedTo, EnteredColumn
    <2> HIDE DEF f, g
    <2>5. AdmittedTo(ev)' = AdmittedTo(ev) + b.count /\ AdmittedTo(ev) \in Nat
      <3>1. Total(g) = Total(f) + b.count
        BY <1>3, <2>1, <2>2, <2>3, TotalOfRowIncrease
      <3>2. Total(f) \in Nat
        BY <2>1, FS_CardinalityType DEF Total
      <3> QED
        BY <2>4, <3>1, <3>2
    <2>6. AdmittedTo(ev)' <= booked_count(passes, ev)
      <3>1. AdmittedWithinSold'
        BY KeptAdmitsNext
      <3> QED
        BY <1>5, <1>6, <1>8, <3>1 DEF AdmittedWithinSold
    <2>7. Register!Enter(ev)
      <3> DEFINE entered == [e \in Events |-> AdmittedTo(e)]
                 n == AdmittedTo(ev)'
      <3>1. entered' = [entered EXCEPT ![ev] = n]
        BY <1>7, <1>8
      <3>2. n > AdmittedTo(ev)
        BY <1>3, <2>5
      <3> QED
        BY <1>6, <1>8, <2>6, <3>1, <3>2 DEF Register!Enter
    <2> QED
      BY <1>8, <2>7
  <1>9. CASE ev \notin Events
    BY <1>6, <1>7, <1>9
  <1> QED
    BY <1>8, <1>9

\* Every step is a sale, an admission or none of them, and looks up what it likes.
LEMMA NextRegisters ==
    ASSUME Fitting, Fitting', [Next]_vars
    PROVE  Register!Next
  <1>1. TypeOK /\ TypeOK' /\ Kept /\ Kept'
    BY DEF Fitting, Solo, Locked
  <1>2. Register!LookUp
    BY <1>1, NotesLookUp
  <1>3. ASSUME \A e \in Events : /\ AdmittedTo(e)' = AdmittedTo(e)
                                 /\ booked_count(passes', e) = booked_count(passes, e)
        PROVE  Register!Next
    BY <1>2, <1>3 DEF Register!Next
  <1>4. CASE UNCHANGED <<passes, admitted, balance, debits, upis>>
    BY <1>3, <1>4 DEF AdmittedTo
  <1>5. ASSUME NEW r \in Requests, BookCommit(r) PROVE Register!Next
    BY <1>2, <1>5, BookRegisters DEF Register!Next
  <1>6. ASSUME NEW r \in Requests, ShareCommit(r) PROVE Register!Next
    BY <1>1, <1>3, <1>6, ShareRegisters
  <1>7. ASSUME NEW r \in Requests, CheckInCommit(r) PROVE Register!Next
    BY <1>1, <1>2, <1>3, <1>7, CheckInRegisters DEF Register!Next
  <1> QED
    BY <1>4, <1>5, <1>6, <1>7, OnlyCommitsWrite

\* Under either isolation level the pass rows, payments and check-ins implement the
\* register: whatever interleaves, every committed request sells what fits the count its
\* transaction reads, admits within the sales or changes neither.
THEOREM RegisterImplemented == Spec => ImplementsRegister
  <1>1. Fitting /\ Fitting' /\ [Next]_vars => [Register!Next]_Register!vars
    BY NextRegisters
  <1> QED
    BY InitRegisters, AlwaysFitting, <1>1, PTL DEF Spec, ImplementsRegister, Register!Spec
=============================================================================
