---------------------------- MODULE WalletsProofs ----------------------------
(* Theorems about wallets for any number of requests and accounts.           *)
EXTENDS Wallets, SumsTheorems

USE WalletConstants

\* The inductive invariant: balances stay in range only because what was checked
\* on a locked row is still so when the row is written.
Safe == TypeOK /\ LockDiscipline

\* What a request body carries.
LEMMA BodyType ==
    ASSUME NEW b \in Payloads
    PROVE  /\ b.op \in Ops /\ b.acct \in Accounts /\ b.amount \in Nat \ {0}
           /\ b.pin \in Pins /\ b.to \in Accounts \cup {None}
  BY DEF Bodies

\* The empty view is a view.
LEMMA NoViewType == NoView \in Views
  BY DEF NoView, NoDues, Views

\* Ending a transaction keeps the types and the locks of the others.
LEMMA EndKeeps ==
    ASSUME TypeOK, NEW r \in Requests, NEW o \in Outcomes, End(r, o)
    PROVE  /\ stage' \in [Requests -> {"idle"} \cup Active \cup Outcomes]
           /\ view' \in [Requests -> Views]
           /\ walletLock' \in [Accounts -> Requests \cup {None}]
           /\ body' = body /\ month' = month /\ stage'[r] = o
           /\ \A s \in Requests \ {r} :
                /\ stage'[s] = stage[s] /\ view'[s] = view[s]
                /\ \A a \in Accounts : walletLock[a] = s => walletLock'[a] = s
  <1>1. /\ stage' \in [Requests -> {"idle"} \cup Active \cup Outcomes]
        /\ view' \in [Requests -> Views]
        /\ body' = body /\ month' = month /\ stage'[r] = o
        /\ \A s \in Requests \ {r} : stage'[s] = stage[s] /\ view'[s] = view[s]
    BY NoViewType DEF End, TypeOK
  <1>2. /\ walletLock' \in [Accounts -> Requests \cup {None}]
        /\ \A s \in Requests \ {r} : \A a \in Accounts : walletLock[a] = s => walletLock'[a] = s
    BY DEF End, TypeOK
  <1> QED
    BY <1>1, <1>2

\* What another request holds and knows survives a step that leaves it and the
\* wallets it has locked alone.
LEMMA OthersHeld ==
    ASSUME NEW s \in Requests, Held(s),
           body'[s] = body[s], stage'[s] = stage[s], view'[s] = view[s],
           \A a \in Accounts : walletLock[a] = s =>
               walletLock'[a] = s /\ balance'[a] = balance[a] /\ pins'[a] = pins[a]
    PROVE  Held(s)'
  <1>1. CASE stage[s] \in {"locked", "both"}
    <2>b. PICK b \in Payloads : b = body[s]
      BY <1>1 DEF Held
    <2>1. /\ b.acct \in WalletOwners /\ walletLock[b.acct] = s
          /\ view[s].balance = balance[b.acct]
          /\ b.op \in {"dues", "send"} => Debitable(b)
          /\ b.op = "send" => b.to \in Accounts \ {b.acct}
          /\ stage[s] = "both" => b.op = "send" /\ b.to \in WalletOwners /\ walletLock[b.to] = s
      BY <1>1, <2>b DEF Held
    <2>2. walletLock'[b.acct] = s /\ balance'[b.acct] = balance[b.acct] /\ pins'[b.acct] = pins[b.acct]
      BY <2>1
    <2>3. b.op \in {"dues", "send"} => Debitable(b)'
      BY <2>1, <2>2 DEF Debitable
    <2>4. stage[s] = "both" => walletLock'[b.to] = s
      BY <2>1
    <2> QED
      BY <2>b, <2>1, <2>2, <2>3, <2>4 DEF Held
  <1>2. CASE stage[s] \notin {"locked", "both"}
    BY <1>2 DEF Held
  <1> QED
    BY <1>1, <1>2

\* A transaction that ends having written at most the wallets it holds, and within
\* the columns' ranges, keeps the invariant.
LEMMA EndOfTransactionKeeps ==
    ASSUME Safe, NEW r \in Requests, stage[r] # "idle", NEW o \in Outcomes, End(r, o),
           balance' \in [Accounts -> 0..MaxBalance], pins' \in [Accounts -> Pins \cup {None}],
           ledger' \in [Accounts -> [Kinds -> Nat]], dues' \in [Accounts -> [Months -> Nat]],
           reply' \in [Requests -> (0..MaxBalance) \cup {None}],
           \A a \in Accounts : walletLock[a] # r => balance'[a] = balance[a] /\ pins'[a] = pins[a]
    PROVE  Safe'
  <1>1. TypeOK /\ LockDiscipline
    BY DEF Safe
  <1>2. TypeOK'
    BY <1>1, EndKeeps DEF TypeOK
  <1>3. Held(r)'
    <2>1. stage'[r] = o /\ body' = body /\ body[r] \in Payloads
      BY <1>1, EndKeeps DEF LockDiscipline, Held
    <2> QED
      BY <2>1 DEF Held, Outcomes
  <1>4. ASSUME NEW s \in Requests \ {r} PROVE Held(s)'
    <2>1. Held(s)
      BY <1>1 DEF LockDiscipline
    <2>2. /\ stage'[s] = stage[s] /\ view'[s] = view[s] /\ body'[s] = body[s]
          /\ \A a \in Accounts : walletLock[a] = s => walletLock'[a] = s
      BY <1>1, EndKeeps
    <2> QED
      BY <2>1, <2>2, OthersHeld
  <1> QED
    BY <1>2, <1>3, <1>4 DEF Safe, LockDiscipline

\* A transaction rolled back has changed nothing.
LEMMA RollbackKeeps ==
    ASSUME Safe, NEW r \in Requests, stage[r] # "idle", NEW o \in Outcomes, Rollback(r, o)
    PROVE  Safe'
  BY EndOfTransactionKeeps DEF Rollback, tables, Safe, TypeOK

\* The first state: nobody has a PIN and no request has come.
LEMMA InitSafe == Init => Safe
  <1> SUFFICES ASSUME Init PROVE Safe
    OBVIOUS
  <1>1. TypeOK
    BY NoViewType DEF Init, TypeOK, NoDues, Months
  <1>2. LockDiscipline
    BY DEF Init, LockDiscipline, Held
  <1> QED
    BY <1>1, <1>2 DEF Safe
-----------------------------------------------------------------------------
(* One lemma per action.                                                     *)

\* Authentication gives the request a body and a snapshot.
LEMMA AuthenticateKeeps ==
    ASSUME Safe, NEW r \in Requests, Authenticate(r)
    PROVE  Safe'
  <1>1. TypeOK /\ LockDiscipline
    BY DEF Safe
  <1>2. PICK b \in Payloads, d \in {dues, NoDues} :
          /\ body' = [body EXCEPT ![r] = b]
          /\ view' = [view EXCEPT ![r].dues = d]
    BY DEF Authenticate
  <1>3. stage' = [stage EXCEPT ![r] = "authenticated"] /\ UNCHANGED <<tables, month, walletLock, reply>>
    BY DEF Authenticate
  <1>4. view' \in [Requests -> Views]
    <2>1. d \in [Accounts -> [Months -> Nat]]
      BY <1>1 DEF TypeOK, NoDues
    <2>2. view[r] \in Views
      BY <1>1 DEF TypeOK
    <2>3. [view[r] EXCEPT !.dues = d] \in Views
      BY <2>1, <2>2 DEF Views
    <2> QED
      BY <1>1, <1>2, <2>3 DEF TypeOK
  <1>5. TypeOK'
    BY <1>1, <1>2, <1>3, <1>4 DEF TypeOK, tables, Active
  <1>6. Held(r)'
    BY <1>1, <1>2, <1>3 DEF Held, TypeOK
  <1>7. ASSUME NEW s \in Requests \ {r} PROVE Held(s)'
    <2>1. body'[s] = body[s] /\ stage'[s] = stage[s] /\ view'[s] = view[s]
      BY <1>1, <1>2, <1>3 DEF TypeOK
    <2>2. Held(s)
      BY <1>1 DEF LockDiscipline
    <2> QED
      BY <1>3, <2>1, <2>2, OthersHeld DEF tables
  <1> QED
    BY <1>5, <1>6, <1>7 DEF Safe, LockDiscipline

\* The requester's wallet is locked when the request is allowed.
LEMMA LockWalletKeeps ==
    ASSUME Safe, NEW r \in Requests, LockWallet(r)
    PROVE  Safe'
  <1>1. TypeOK /\ LockDiscipline /\ stage[r] = "authenticated"
    BY DEF Safe, LockWallet
  <1>b. PICK b \in Payloads : b = body[r]
    BY <1>1 DEF LockDiscipline, Held
  <1>2. CASE Rollback(r, "refused")
    BY <1>1, <1>2, RollbackKeeps DEF Outcomes
  <1>3. CASE /\ walletLock[b.acct] = None /\ Allowed(r)
             /\ walletLock' = [walletLock EXCEPT ![b.acct] = r]
             /\ view' = [view EXCEPT ![r].balance = balance[b.acct]]
             /\ stage' = [stage EXCEPT ![r] = "locked"]
             /\ UNCHANGED <<tables, month, body, reply>>
    <2>1. /\ b.acct \in WalletOwners /\ b.acct \in Accounts
          /\ b.op \in {"dues", "send"} => Debitable(b)
          /\ b.op = "send" => b.to \in Accounts \ {b.acct}
      BY <1>b, <1>3, BodyType DEF Allowed
    <2>2. balance[b.acct] \in 0..MaxBalance
      BY <1>1, <2>1 DEF TypeOK
    <2>3. /\ view' \in [Requests -> Views]
          /\ view'[r].balance = balance[b.acct]
          /\ \A s \in Requests \ {r} : view'[s] = view[s]
      <3>1. view \in [Requests -> Views]
        BY <1>1 DEF TypeOK
      <3>2. [view[r] EXCEPT !.balance = balance[b.acct]] \in Views
        BY <2>2, <3>1 DEF Views
      <3>3. [view[r] EXCEPT !.balance = balance[b.acct]].balance = balance[b.acct]
        BY <3>1 DEF Views
      <3> QED
        BY <1>3, <3>1, <3>2, <3>3
    <2>4. /\ walletLock' \in [Accounts -> Requests \cup {None}] /\ walletLock'[b.acct] = r
          /\ \A s \in Requests \ {r} : \A a \in Accounts : walletLock[a] = s => walletLock'[a] = s
      BY <1>1, <1>3, <2>1 DEF TypeOK
    <2>5. TypeOK'
      BY <1>1, <1>3, <2>3, <2>4 DEF TypeOK, tables, Active
    <2>6. Held(r)'
      <3>1. stage'[r] = "locked" /\ body'[r] = b /\ balance' = balance
        BY <1>b, <1>1, <1>3 DEF TypeOK, tables
      <3>2. b.op \in {"dues", "send"} => Debitable(b)'
        BY <1>3, <2>1 DEF Debitable, tables
      <3> QED
        BY <2>1, <2>3, <2>4, <3>1, <3>2 DEF Held
    <2>7. ASSUME NEW s \in Requests \ {r} PROVE Held(s)'
      <3>1. stage'[s] = stage[s] /\ Held(s)
        BY <1>1, <1>3 DEF TypeOK, LockDiscipline
      <3> QED
        BY <1>3, <2>3, <2>4, <3>1, OthersHeld DEF tables
    <2> QED
      BY <2>5, <2>6, <2>7 DEF Safe, LockDiscipline
  <1> QED
    BY <1>b, <1>2, <1>3 DEF LockWallet

\* The recipient's wallet is locked when there is one.
LEMMA LockRecipientKeeps ==
    ASSUME Safe, NEW r \in Requests, LockRecipient(r)
    PROVE  Safe'
  <1>1. TypeOK /\ LockDiscipline /\ stage[r] = "locked"
    BY DEF Safe, LockRecipient
  <1>b. PICK b \in Payloads : b = body[r]
    BY <1>1 DEF LockDiscipline, Held
  <1>2. CASE Rollback(r, "refused")
    BY <1>1, <1>2, RollbackKeeps DEF Outcomes
  <1>3. CASE /\ b.op = "send" /\ b.to \in WalletOwners
             /\ walletLock[b.to] = None
             /\ walletLock' = [walletLock EXCEPT ![b.to] = r]
             /\ stage' = [stage EXCEPT ![r] = "both"]
             /\ UNCHANGED <<tables, month, body, view, reply>>
    <2>1. /\ b.acct \in WalletOwners /\ walletLock[b.acct] = r
          /\ view[r].balance = balance[b.acct] /\ Debitable(b)
          /\ b.to \in Accounts \ {b.acct}
      BY <1>b, <1>1, <1>3 DEF LockDiscipline, Held
    <2>2. /\ walletLock' \in [Accounts -> Requests \cup {None}]
          /\ walletLock'[b.to] = r /\ walletLock'[b.acct] = r
          /\ \A s \in Requests \ {r} : \A a \in Accounts : walletLock[a] = s => walletLock'[a] = s
      BY <1>1, <1>3, <2>1 DEF TypeOK
    <2>3. TypeOK'
      BY <1>1, <1>3, <2>2 DEF TypeOK, tables, Active
    <2>4. Held(r)'
      <3>1. stage'[r] = "both" /\ body'[r] = b /\ view' = view /\ balance' = balance
        BY <1>b, <1>1, <1>3 DEF TypeOK, tables
      <3>2. Debitable(b)'
        BY <1>3, <2>1 DEF Debitable, tables
      <3> QED
        BY <1>3, <2>1, <2>2, <3>1, <3>2 DEF Held
    <2>5. ASSUME NEW s \in Requests \ {r} PROVE Held(s)'
      <3>1. stage'[s] = stage[s] /\ Held(s)
        BY <1>1, <1>3 DEF TypeOK, LockDiscipline
      <3> QED
        BY <1>3, <2>2, <3>1, OthersHeld DEF tables
    <2> QED
      BY <2>3, <2>4, <2>5 DEF Safe, LockDiscipline
  <1> QED
    BY <1>b, <1>2, <1>3 DEF LockRecipient

\* What a request that holds its wallet may rely on when it writes.
LEMMA HolderKnows ==
    ASSUME Safe, NEW r \in Requests, stage[r] \in {"locked", "both"},
           NEW b \in Payloads, b = body[r]
    PROVE  /\ b.acct \in WalletOwners /\ b.acct \in Accounts /\ b.amount \in Nat \ {0}
           /\ walletLock[b.acct] = r /\ view[r].balance = balance[b.acct]
           /\ balance[b.acct] \in 0..MaxBalance
           /\ b.op \in {"dues", "send"} => b.amount <= balance[b.acct] /\ pins[b.acct] = b.pin
           /\ b.op = "send" => b.to \in Accounts \ {b.acct} /\ balance[b.to] \in 0..MaxBalance
           /\ stage[r] = "both" => b.op = "send" /\ b.to \in WalletOwners /\ walletLock[b.to] = r
  <1>1. /\ b.acct \in WalletOwners /\ walletLock[b.acct] = r
        /\ view[r].balance = balance[b.acct]
        /\ b.op \in {"dues", "send"} => Debitable(b)
        /\ b.op = "send" => b.to \in Accounts \ {b.acct}
        /\ stage[r] = "both" => b.op = "send" /\ b.to \in WalletOwners /\ walletLock[b.to] = r
    BY DEF Safe, LockDiscipline, Held
  <1>2. b.acct \in Accounts /\ b.amount \in Nat \ {0}
    BY BodyType
  <1>3. \A a \in Accounts : balance[a] \in 0..MaxBalance
    BY DEF Safe, TypeOK
  <1> QED
    BY <1>1, <1>2, <1>3 DEF Debitable

\* The PIN is set on the wallet held.
LEMMA SetupPinKeeps ==
    ASSUME Safe, NEW r \in Requests, setup_pin(r)
    PROVE  Safe'
  <1>1. TypeOK /\ LockDiscipline /\ stage[r] = "locked"
    BY DEF Safe, setup_pin
  <1>b. PICK b \in Payloads : b = body[r]
    BY <1>1 DEF LockDiscipline, Held
  <1>2. /\ pins' = [pins EXCEPT ![b.acct] = b.pin] /\ End(r, "done")
        /\ UNCHANGED <<balance, ledger, dues, reply>>
    BY <1>b DEF setup_pin
  <1>3. b.acct \in Accounts /\ walletLock[b.acct] = r /\ b.pin \in Pins
    BY <1>b, <1>1, HolderKnows, BodyType
  <1>4. /\ pins' \in [Accounts -> Pins \cup {None}]
        /\ \A a \in Accounts : walletLock[a] # r => pins'[a] = pins[a]
    BY <1>1, <1>2, <1>3 DEF TypeOK
  <1> QED
    BY <1>1, <1>2, <1>4, EndOfTransactionKeeps DEF TypeOK, Outcomes

\* A top-up writes the balance and the ledger of the wallet it holds.
LEMMA AddMoneyWrites ==
    ASSUME Safe, NEW r \in Requests, add_money(r), ~Rollback(r, "aborted"),
           NEW b \in Payloads, b = body[r]
    PROVE  /\ balance[b.acct] + b.amount \in 0..MaxBalance
           /\ balance' = [balance EXCEPT ![b.acct] = balance[b.acct] + b.amount]
           /\ ledger' = [ledger EXCEPT ![b.acct] =
                           [ledger[b.acct] EXCEPT !["added"] = ledger[b.acct]["added"] + b.amount]]
           /\ reply' = [reply EXCEPT ![r] = balance[b.acct] + b.amount]
           /\ End(r, "done") /\ pins' = pins /\ dues' = dues
  <1>1. stage[r] = "locked"
    BY DEF add_money
  <1>2. /\ b.acct \in Accounts /\ b.amount \in Nat /\ balance[b.acct] \in 0..MaxBalance
        /\ view[r].balance = balance[b.acct]
    BY <1>1, HolderKnows
  <1>3. ledger \in [Accounts -> [Kinds -> Nat]]
    BY DEF Safe, TypeOK
  <1> QED
    BY <1>2, <1>3 DEF add_money

\* Dues paid by wallet write the balance, the ledger and the month's row.
LEMMA PayDuesWrites ==
    ASSUME Safe, NEW r \in Requests, pay_dues(r), NEW b \in Payloads, b = body[r]
    PROVE  /\ balance[b.acct] - b.amount \in 0..MaxBalance
           /\ balance' = [balance EXCEPT ![b.acct] = balance[b.acct] - b.amount]
           /\ ledger' = [ledger EXCEPT ![b.acct] =
                           [ledger[b.acct] EXCEPT !["dues"] = ledger[b.acct]["dues"] + b.amount]]
           /\ dues' = [dues EXCEPT ![b.acct] =
                         [dues[b.acct] EXCEPT ![month] = dues[b.acct][month] + 1]]
           /\ reply' = [reply EXCEPT ![r] = balance[b.acct] - b.amount]
           /\ End(r, "done") /\ pins' = pins /\ pins[b.acct] = b.pin
  <1>1. stage[r] = "locked" /\ b.op = "dues"
    BY DEF pay_dues
  <1>2. /\ b.acct \in Accounts /\ b.amount \in Nat /\ balance[b.acct] \in 0..MaxBalance
        /\ view[r].balance = balance[b.acct]
        /\ b.amount <= balance[b.acct] /\ pins[b.acct] = b.pin
    BY <1>1, HolderKnows
  <1>3. ledger \in [Accounts -> [Kinds -> Nat]] /\ dues \in [Accounts -> [Months -> Nat]]
    BY DEF Safe, TypeOK
  <1> QED
    BY <1>2, <1>3 DEF pay_dues

\* Dues paid by UPI write the ledger and the month's row, never the balance.
LEMMA PayDuesUpiWrites ==
    ASSUME Safe, NEW r \in Requests, pay_dues_upi(r), NEW b \in Payloads, b = body[r]
    PROVE  /\ ledger' = [ledger EXCEPT ![b.acct] =
                           [ledger[b.acct] EXCEPT !["dues_upi"] = ledger[b.acct]["dues_upi"] + b.amount]]
           /\ dues' = [dues EXCEPT ![b.acct] =
                         [dues[b.acct] EXCEPT ![month] = dues[b.acct][month] + 1]]
           /\ reply' = [reply EXCEPT ![r] = balance[b.acct]]
           /\ End(r, "done") /\ pins' = pins /\ balance' = balance
  <1>1. stage[r] = "locked"
    BY DEF pay_dues_upi
  <1>2. b.acct \in Accounts /\ view[r].balance = balance[b.acct]
    BY <1>1, HolderKnows
  <1>3. ledger \in [Accounts -> [Kinds -> Nat]] /\ dues \in [Accounts -> [Months -> Nat]]
    BY DEF Safe, TypeOK
  <1> QED
    BY <1>2, <1>3 DEF pay_dues_upi

\* A transfer writes both wallets, which it has locked.
LEMMA SendMoneyWrites ==
    ASSUME Safe, NEW r \in Requests, send_money(r), ~Rollback(r, "aborted"),
           NEW b \in Payloads, b = body[r]
    PROVE  /\ b.acct \in WalletOwners /\ b.to \in WalletOwners /\ b.acct # b.to
           /\ balance[b.acct] - b.amount \in 0..MaxBalance
           /\ balance[b.to] + b.amount \in 0..MaxBalance
           /\ balance' = [balance EXCEPT ![b.acct] = balance[b.acct] - b.amount,
                                         ![b.to] = balance[b.to] + b.amount]
           /\ ledger' = [ledger EXCEPT
                ![b.acct] = [ledger[b.acct] EXCEPT !["sent"] = ledger[b.acct]["sent"] + b.amount],
                ![b.to] = [ledger[b.to] EXCEPT !["received"] = ledger[b.to]["received"] + b.amount]]
           /\ reply' = [reply EXCEPT ![r] = balance[b.acct] - b.amount]
           /\ End(r, "done") /\ pins' = pins /\ dues' = dues /\ pins[b.acct] = b.pin
           /\ walletLock[b.acct] = r /\ walletLock[b.to] = r
  <1>1. stage[r] = "both"
    BY DEF send_money
  <1>2. /\ b.acct \in WalletOwners /\ b.acct \in Accounts /\ b.amount \in Nat
        /\ balance[b.acct] \in 0..MaxBalance /\ view[r].balance = balance[b.acct]
        /\ b.amount <= balance[b.acct] /\ pins[b.acct] = b.pin
        /\ b.to \in WalletOwners /\ b.to \in Accounts /\ b.to # b.acct
        /\ balance[b.to] \in 0..MaxBalance
        /\ walletLock[b.acct] = r /\ walletLock[b.to] = r
    BY <1>1, HolderKnows
  <1>3. balance \in [Accounts -> 0..MaxBalance] /\ ledger \in [Accounts -> [Kinds -> Nat]]
    BY DEF Safe, TypeOK
  <1> QED
    BY <1>2, <1>3 DEF send_money

\* A top-up keeps the invariant.
LEMMA AddMoneyKeeps ==
    ASSUME Safe, NEW r \in Requests, add_money(r)
    PROVE  Safe'
  <1>1. TypeOK /\ LockDiscipline /\ stage[r] = "locked"
    BY DEF Safe, add_money
  <1>b. PICK b \in Payloads : b = body[r]
    BY <1>1 DEF LockDiscipline, Held
  <1>2. CASE Rollback(r, "aborted")
    BY <1>1, <1>2, RollbackKeeps DEF Outcomes
  <1>3. CASE ~Rollback(r, "aborted")
    <2>1. /\ balance[b.acct] + b.amount \in 0..MaxBalance
          /\ balance' = [balance EXCEPT ![b.acct] = balance[b.acct] + b.amount]
          /\ ledger' = [ledger EXCEPT ![b.acct] =
                          [ledger[b.acct] EXCEPT !["added"] = ledger[b.acct]["added"] + b.amount]]
          /\ reply' = [reply EXCEPT ![r] = balance[b.acct] + b.amount]
          /\ End(r, "done") /\ pins' = pins /\ dues' = dues
      BY <1>b, <1>3, AddMoneyWrites
    <2>2. b.acct \in Accounts /\ b.amount \in Nat /\ walletLock[b.acct] = r
      BY <1>b, <1>1, HolderKnows
    <2>3. balance' \in [Accounts -> 0..MaxBalance] /\ reply' \in [Requests -> (0..MaxBalance) \cup {None}]
      BY <1>1, <2>1 DEF TypeOK
    <2>4. ledger' \in [Accounts -> [Kinds -> Nat]]
      <3>1. ledger[b.acct] \in [Kinds -> Nat]
        BY <1>1, <2>2 DEF TypeOK
      <3>2. [ledger[b.acct] EXCEPT !["added"] = ledger[b.acct]["added"] + b.amount] \in [Kinds -> Nat]
        BY <2>2, <3>1 DEF Kinds
      <3> QED
        BY <1>1, <2>1, <3>2 DEF TypeOK
    <2>5. \A a \in Accounts : walletLock[a] # r => balance'[a] = balance[a] /\ pins'[a] = pins[a]
      BY <1>1, <2>1, <2>2 DEF TypeOK
    <2> QED
      BY <1>1, <2>1, <2>3, <2>4, <2>5, EndOfTransactionKeeps DEF TypeOK, Outcomes
  <1> QED
    BY <1>2, <1>3

\* Dues paid by wallet keep the invariant.
LEMMA PayDuesKeeps ==
    ASSUME Safe, NEW r \in Requests, pay_dues(r)
    PROVE  Safe'
  <1>1. TypeOK /\ LockDiscipline /\ stage[r] = "locked"
    BY DEF Safe, pay_dues
  <1>b. PICK b \in Payloads : b = body[r]
    BY <1>1 DEF LockDiscipline, Held
  <1>2. /\ balance[b.acct] - b.amount \in 0..MaxBalance
        /\ balance' = [balance EXCEPT ![b.acct] = balance[b.acct] - b.amount]
        /\ ledger' = [ledger EXCEPT ![b.acct] =
                        [ledger[b.acct] EXCEPT !["dues"] = ledger[b.acct]["dues"] + b.amount]]
        /\ dues' = [dues EXCEPT ![b.acct] =
                      [dues[b.acct] EXCEPT ![month] = dues[b.acct][month] + 1]]
        /\ reply' = [reply EXCEPT ![r] = balance[b.acct] - b.amount]
        /\ End(r, "done") /\ pins' = pins
    BY <1>b, PayDuesWrites
  <1>3. b.acct \in Accounts /\ b.amount \in Nat /\ walletLock[b.acct] = r
    BY <1>b, <1>1, HolderKnows
  <1>4. balance' \in [Accounts -> 0..MaxBalance] /\ reply' \in [Requests -> (0..MaxBalance) \cup {None}]
    BY <1>1, <1>2 DEF TypeOK
  <1>5. ledger' \in [Accounts -> [Kinds -> Nat]]
    <2>1. ledger[b.acct] \in [Kinds -> Nat]
      BY <1>1, <1>3 DEF TypeOK
    <2>2. [ledger[b.acct] EXCEPT !["dues"] = ledger[b.acct]["dues"] + b.amount] \in [Kinds -> Nat]
      BY <1>3, <2>1 DEF Kinds
    <2> QED
      BY <1>1, <1>2, <2>2 DEF TypeOK
  <1>6. dues' \in [Accounts -> [Months -> Nat]]
    <2>1. dues[b.acct] \in [Months -> Nat] /\ month \in Months
      BY <1>1, <1>3 DEF TypeOK
    <2>2. [dues[b.acct] EXCEPT ![month] = dues[b.acct][month] + 1] \in [Months -> Nat]
      BY <2>1
    <2> QED
      BY <1>1, <1>2, <2>2 DEF TypeOK
  <1>7. \A a \in Accounts : walletLock[a] # r => balance'[a] = balance[a] /\ pins'[a] = pins[a]
    BY <1>1, <1>2, <1>3 DEF TypeOK
  <1> QED
    BY <1>1, <1>2, <1>4, <1>5, <1>6, <1>7, EndOfTransactionKeeps DEF TypeOK, Outcomes

\* Dues paid by UPI keep the invariant.
LEMMA PayDuesUpiKeeps ==
    ASSUME Safe, NEW r \in Requests, pay_dues_upi(r)
    PROVE  Safe'
  <1>1. TypeOK /\ LockDiscipline /\ stage[r] = "locked"
    BY DEF Safe, pay_dues_upi
  <1>b. PICK b \in Payloads : b = body[r]
    BY <1>1 DEF LockDiscipline, Held
  <1>2. /\ ledger' = [ledger EXCEPT ![b.acct] =
                        [ledger[b.acct] EXCEPT !["dues_upi"] = ledger[b.acct]["dues_upi"] + b.amount]]
        /\ dues' = [dues EXCEPT ![b.acct] =
                      [dues[b.acct] EXCEPT ![month] = dues[b.acct][month] + 1]]
        /\ reply' = [reply EXCEPT ![r] = balance[b.acct]]
        /\ End(r, "done") /\ pins' = pins /\ balance' = balance
    BY <1>b, PayDuesUpiWrites
  <1>3. b.acct \in Accounts /\ b.amount \in Nat /\ balance[b.acct] \in 0..MaxBalance
    BY <1>b, <1>1, HolderKnows
  <1>4. reply' \in [Requests -> (0..MaxBalance) \cup {None}]
    BY <1>1, <1>2, <1>3 DEF TypeOK
  <1>5. ledger' \in [Accounts -> [Kinds -> Nat]]
    <2>1. ledger[b.acct] \in [Kinds -> Nat]
      BY <1>1, <1>3 DEF TypeOK
    <2>2. [ledger[b.acct] EXCEPT !["dues_upi"] = ledger[b.acct]["dues_upi"] + b.amount] \in [Kinds -> Nat]
      BY <1>3, <2>1 DEF Kinds
    <2> QED
      BY <1>1, <1>2, <2>2 DEF TypeOK
  <1>6. dues' \in [Accounts -> [Months -> Nat]]
    <2>1. dues[b.acct] \in [Months -> Nat] /\ month \in Months
      BY <1>1, <1>3 DEF TypeOK
    <2>2. [dues[b.acct] EXCEPT ![month] = dues[b.acct][month] + 1] \in [Months -> Nat]
      BY <2>1
    <2> QED
      BY <1>1, <1>2, <2>2 DEF TypeOK
  <1> QED
    BY <1>1, <1>2, <1>4, <1>5, <1>6, EndOfTransactionKeeps DEF TypeOK, Outcomes

\* A transfer keeps the invariant.
LEMMA SendMoneyKeeps ==
    ASSUME Safe, NEW r \in Requests, send_money(r)
    PROVE  Safe'
  <1>1. TypeOK /\ LockDiscipline /\ stage[r] = "both"
    BY DEF Safe, send_money
  <1>b. PICK b \in Payloads : b = body[r]
    BY <1>1 DEF LockDiscipline, Held
  <1>2. CASE Rollback(r, "aborted")
    BY <1>1, <1>2, RollbackKeeps DEF Outcomes
  <1>3. CASE ~Rollback(r, "aborted")
    <2>1. /\ b.acct # b.to
          /\ balance[b.acct] - b.amount \in 0..MaxBalance
          /\ balance[b.to] + b.amount \in 0..MaxBalance
          /\ balance' = [balance EXCEPT ![b.acct] = balance[b.acct] - b.amount,
                                        ![b.to] = balance[b.to] + b.amount]
          /\ ledger' = [ledger EXCEPT
               ![b.acct] = [ledger[b.acct] EXCEPT !["sent"] = ledger[b.acct]["sent"] + b.amount],
               ![b.to] = [ledger[b.to] EXCEPT !["received"] = ledger[b.to]["received"] + b.amount]]
          /\ reply' = [reply EXCEPT ![r] = balance[b.acct] - b.amount]
          /\ End(r, "done") /\ pins' = pins /\ dues' = dues
          /\ walletLock[b.acct] = r /\ walletLock[b.to] = r
      BY <1>b, <1>3, SendMoneyWrites
    <2>2. b.acct \in Accounts /\ b.amount \in Nat /\ b.to \in Accounts
      BY <1>b, <1>1, <1>3, HolderKnows, SendMoneyWrites
    <2>3. balance' \in [Accounts -> 0..MaxBalance] /\ reply' \in [Requests -> (0..MaxBalance) \cup {None}]
      BY <1>1, <2>1 DEF TypeOK
    <2>4. ledger' \in [Accounts -> [Kinds -> Nat]]
      <3>1. ledger[b.acct] \in [Kinds -> Nat] /\ ledger[b.to] \in [Kinds -> Nat]
        BY <1>1, <2>2 DEF TypeOK
      <3>2. /\ [ledger[b.acct] EXCEPT !["sent"] = ledger[b.acct]["sent"] + b.amount] \in [Kinds -> Nat]
            /\ [ledger[b.to] EXCEPT !["received"] = ledger[b.to]["received"] + b.amount] \in [Kinds -> Nat]
        BY <2>2, <3>1 DEF Kinds
      <3> QED
        BY <1>1, <2>1, <3>2 DEF TypeOK
    <2>5. \A a \in Accounts : walletLock[a] # r => balance'[a] = balance[a] /\ pins'[a] = pins[a]
      BY <1>1, <2>1, <2>2 DEF TypeOK
    <2> QED
      BY <1>1, <2>1, <2>3, <2>4, <2>5, EndOfTransactionKeeps DEF TypeOK, Outcomes
  <1> QED
    BY <1>2, <1>3

\* The clock touches no request and no wallet.
LEMMA NextMonthKeeps == Safe /\ NextMonth => Safe'
  <1> SUFFICES ASSUME Safe, NextMonth PROVE Safe'
    OBVIOUS
  <1>1. TypeOK'
    BY DEF Safe, TypeOK, NextMonth, tables, Months
  <1>2. LockDiscipline'
    <2>1. ASSUME NEW s \in Requests PROVE Held(s)'
      BY OthersHeld DEF NextMonth, tables, Safe, LockDiscipline
    <2> QED
      BY <2>1 DEF LockDiscipline
  <1> QED
    BY <1>1, <1>2 DEF Safe

\* A step that changes nothing.
LEMMA StutterKeeps == Safe /\ UNCHANGED vars => Safe'
  <1> SUFFICES ASSUME Safe, UNCHANGED vars PROVE Safe'
    OBVIOUS
  <1>1. TypeOK'
    BY DEF Safe, TypeOK, vars
  <1>2. LockDiscipline'
    <2>1. ASSUME NEW s \in Requests PROVE Held(s)'
      BY OthersHeld DEF vars, Safe, LockDiscipline
    <2> QED
      BY <2>1 DEF LockDiscipline
  <1> QED
    BY <1>1, <1>2 DEF Safe

\* A refusal changes nothing.
LEMMA RefuseUnassessedKeeps ==
    ASSUME Safe, NEW r \in Requests, RefuseUnassessed(r)
    PROVE  Safe'
  BY RollbackKeeps DEF RefuseUnassessed, Outcomes

\* Every step keeps the invariant.
LEMMA NextSafe == Safe /\ [Next]_vars => Safe'
  <1> SUFFICES ASSUME Safe, [Next]_vars PROVE Safe'
    OBVIOUS
  <1>1. ASSUME NEW r \in Requests, Authenticate(r) PROVE Safe'
    BY <1>1, AuthenticateKeeps
  <1>2. ASSUME NEW r \in Requests, LockWallet(r) PROVE Safe'
    BY <1>2, LockWalletKeeps
  <1>3. ASSUME NEW r \in Requests, LockRecipient(r) PROVE Safe'
    BY <1>3, LockRecipientKeeps
  <1>4. ASSUME NEW r \in Requests, setup_pin(r) PROVE Safe'
    BY <1>4, SetupPinKeeps
  <1>5. ASSUME NEW r \in Requests, add_money(r) PROVE Safe'
    BY <1>5, AddMoneyKeeps
  <1>6. ASSUME NEW r \in Requests, pay_dues(r) PROVE Safe'
    BY <1>6, PayDuesKeeps
  <1>7. ASSUME NEW r \in Requests, pay_dues_upi(r) PROVE Safe'
    BY <1>7, PayDuesUpiKeeps
  <1>8. ASSUME NEW r \in Requests, send_money(r) PROVE Safe'
    BY <1>8, SendMoneyKeeps
  <1>9. ASSUME NEW r \in Requests, Abort(r) PROVE Safe'
    BY <1>9, RollbackKeeps DEF Abort, Active, Outcomes
  <1>12. ASSUME NEW r \in Requests, RefuseUnassessed(r) PROVE Safe'
    BY <1>12, RefuseUnassessedKeeps
  <1>10. CASE NextMonth
    BY <1>10, NextMonthKeeps
  <1>11. CASE UNCHANGED vars
    BY <1>11, StutterKeeps
  <1> QED
    BY <1>1, <1>2, <1>3, <1>4, <1>5, <1>6, <1>7, <1>8, <1>9, <1>10, <1>11, <1>12 DEF Next, Step

\* The inductive invariant holds throughout.
LEMMA AlwaysSafe == Spec => []Safe
  BY InitSafe, NextSafe, PTL DEF Spec

\* Columns and locals keep their ranges; in particular no debit of
\* wallet/service.py leaves a negative balance.
THEOREM TypeCorrect == Spec => []TypeOK
  BY AlwaysSafe, PTL DEF Safe

\* Between its check and its write a request of wallet/service.py holds the rows
\* it checked, and what it checked is still so.
THEOREM LocksProtectReads == Spec => []LockDiscipline
  BY AlwaysSafe, PTL DEF Safe
-----------------------------------------------------------------------------
(* Money: every step that moves some is one of four.                         *)

\* Balances, the ledger and replies change only when a request writes them.
LEMMA OnlyMoneyRequestsWrite ==
    ASSUME Safe, [Next]_vars
    PROVE  \/ UNCHANGED <<balance, ledger, reply>>
           \/ \E r \in Requests, b \in Payloads :
                /\ b = body[r]
                /\ \/ add_money(r) /\ ~Rollback(r, "aborted")
                   \/ pay_dues(r)
                   \/ pay_dues_upi(r)
                   \/ send_money(r) /\ ~Rollback(r, "aborted")
  <1> DEFINE Still == UNCHANGED <<balance, ledger, reply>>
  <1>1. ASSUME NEW r \in Requests, NEW o \in Outcomes, Rollback(r, o) PROVE Still
    BY <1>1 DEF Rollback, tables
  <1>2. ASSUME NEW r \in Requests, stage[r] # "idle" PROVE body[r] \in Payloads
    BY <1>2 DEF Safe, LockDiscipline, Held
  <1>3. ASSUME NEW r \in Requests, Authenticate(r) \/ LockWallet(r) \/ LockRecipient(r) PROVE Still
    BY <1>1, <1>3 DEF Authenticate, LockWallet, LockRecipient, tables, Outcomes
  <1>4. ASSUME NEW r \in Requests, RefuseUnassessed(r) \/ Abort(r) PROVE Still
    BY <1>1, <1>4 DEF RefuseUnassessed, Abort, Outcomes
  <1>5. ASSUME NEW r \in Requests, setup_pin(r) PROVE Still
    BY <1>5 DEF setup_pin
  <1>6. CASE NextMonth
    BY <1>6 DEF NextMonth, tables
  <1>7. CASE UNCHANGED vars
    BY <1>7 DEF vars
  <1>8. ASSUME NEW r \in Requests, add_money(r) \/ pay_dues(r) \/ pay_dues_upi(r) \/ send_money(r)
        PROVE  Still \/ \E b \in Payloads :
                 /\ b = body[r]
                 /\ \/ add_money(r) /\ ~Rollback(r, "aborted")
                    \/ pay_dues(r)
                    \/ pay_dues_upi(r)
                    \/ send_money(r) /\ ~Rollback(r, "aborted")
    <2>1. stage[r] # "idle"
      BY <1>8 DEF add_money, pay_dues, pay_dues_upi, send_money
    <2>2. body[r] \in Payloads
      BY <1>2, <2>1
    <2>3. Rollback(r, "aborted") => Still
      BY <1>1 DEF Outcomes
    <2> QED
      BY <1>8, <2>2, <2>3
  <1> QED
    BY <1>3, <1>4, <1>5, <1>6, <1>7, <1>8 DEF Next, Step

\* The ledger goes on explaining every balance.
LEMMA LedgerKeeps ==
    ASSUME Safe, [Next]_vars, LedgerExplainsBalance
    PROVE  LedgerExplainsBalance'
  <1>t. /\ balance \in [Accounts -> 0..MaxBalance] /\ ledger \in [Accounts -> [Kinds -> Nat]]
        /\ Opening \in Nat
    BY DEF Safe, TypeOK
  <1>k. {"added", "received", "sent", "dues", "dues_upi"} = Kinds
    BY DEF Kinds
  <1>1. CASE UNCHANGED <<balance, ledger, reply>>
    BY <1>1 DEF LedgerExplainsBalance
  <1>2. ASSUME NEW r \in Requests, NEW b \in Payloads, b = body[r],
               \/ add_money(r) /\ ~Rollback(r, "aborted")
               \/ pay_dues(r)
               \/ pay_dues_upi(r)
               \/ send_money(r) /\ ~Rollback(r, "aborted"),
               NEW a \in WalletOwners
        PROVE  balance'[a] = Opening + ledger'[a]["added"] + ledger'[a]["received"]
                               - ledger'[a]["sent"] - ledger'[a]["dues"]
    <2>1. balance[a] = Opening + ledger[a]["added"] + ledger[a]["received"]
                         - ledger[a]["sent"] - ledger[a]["dues"]
      BY DEF LedgerExplainsBalance
    <2>2. /\ b.acct \in Accounts /\ b.amount \in Nat /\ a \in Accounts
          /\ balance[a] \in Nat /\ balance[b.acct] \in Nat
          /\ ledger[a] \in [Kinds -> Nat] /\ ledger[b.acct] \in [Kinds -> Nat]
      BY <1>t, BodyType
    <2>3. CASE add_money(r) /\ ~Rollback(r, "aborted")
      <3>1. /\ balance' = [balance EXCEPT ![b.acct] = balance[b.acct] + b.amount]
            /\ ledger' = [ledger EXCEPT ![b.acct] =
                            [ledger[b.acct] EXCEPT !["added"] = ledger[b.acct]["added"] + b.amount]]
        BY <1>2, <2>3, AddMoneyWrites
      <3>2. a # b.acct => balance'[a] = balance[a] /\ ledger'[a] = ledger[a]
        BY <1>t, <2>2, <3>1
      <3>3. a = b.acct => balance'[a] = balance[a] + b.amount
        BY <1>t, <2>2, <3>1
      <3>4. a = b.acct => ledger'[a]["added"] = ledger[a]["added"] + b.amount
        BY <1>t, <1>k, <2>2, <3>1
      <3>5. a = b.acct =>
              /\ ledger'[a]["received"] = ledger[a]["received"]
              /\ ledger'[a]["sent"] = ledger[a]["sent"]
              /\ ledger'[a]["dues"] = ledger[a]["dues"]
        BY <1>t, <1>k, <2>2, <3>1
      <3>6. /\ ledger[a]["added"] \in Nat /\ ledger[a]["received"] \in Nat
            /\ ledger[a]["sent"] \in Nat /\ ledger[a]["dues"] \in Nat
        BY <1>k, <2>2
      <3> QED
        BY <1>t, <2>1, <2>2, <3>2, <3>3, <3>4, <3>5, <3>6
    <2>4. CASE pay_dues(r)
      <3>1. /\ balance' = [balance EXCEPT ![b.acct] = balance[b.acct] - b.amount]
            /\ ledger' = [ledger EXCEPT ![b.acct] =
                            [ledger[b.acct] EXCEPT !["dues"] = ledger[b.acct]["dues"] + b.amount]]
        BY <1>2, <2>4, PayDuesWrites
      <3>2. a # b.acct => balance'[a] = balance[a] /\ ledger'[a] = ledger[a]
        BY <1>t, <2>2, <3>1
      <3>3. a = b.acct => balance'[a] = balance[a] - b.amount
        BY <1>t, <2>2, <3>1
      <3>4. a = b.acct => ledger'[a]["dues"] = ledger[a]["dues"] + b.amount
        BY <1>t, <1>k, <2>2, <3>1
      <3>5. a = b.acct =>
              /\ ledger'[a]["added"] = ledger[a]["added"]
              /\ ledger'[a]["received"] = ledger[a]["received"]
              /\ ledger'[a]["sent"] = ledger[a]["sent"]
        BY <1>t, <1>k, <2>2, <3>1
      <3>6. /\ ledger[a]["added"] \in Nat /\ ledger[a]["received"] \in Nat
            /\ ledger[a]["sent"] \in Nat /\ ledger[a]["dues"] \in Nat
        BY <1>k, <2>2
      <3> QED
        BY <1>t, <2>1, <2>2, <3>2, <3>3, <3>4, <3>5, <3>6
    <2>5. CASE pay_dues_upi(r)
      <3>1. /\ ledger' = [ledger EXCEPT ![b.acct] =
                            [ledger[b.acct] EXCEPT !["dues_upi"] = ledger[b.acct]["dues_upi"] + b.amount]]
            /\ balance' = balance
        BY <1>2, <2>5, PayDuesUpiWrites
      <3> QED
        BY <1>t, <1>k, <2>1, <2>2, <3>1
    <2>6. CASE send_money(r) /\ ~Rollback(r, "aborted")
      <3>1. /\ b.to \in WalletOwners /\ b.acct # b.to
            /\ balance' = [balance EXCEPT ![b.acct] = balance[b.acct] - b.amount,
                                          ![b.to] = balance[b.to] + b.amount]
            /\ ledger' = [ledger EXCEPT
                 ![b.acct] = [ledger[b.acct] EXCEPT !["sent"] = ledger[b.acct]["sent"] + b.amount],
                 ![b.to] = [ledger[b.to] EXCEPT !["received"] = ledger[b.to]["received"] + b.amount]]
        BY <1>2, <2>6, SendMoneyWrites
      <3>2. balance[b.to] \in Nat /\ ledger[b.to] \in [Kinds -> Nat] /\ b.to \in Accounts
        BY <1>t, <3>1
      <3>3. a \notin {b.acct, b.to} => balance'[a] = balance[a] /\ ledger'[a] = ledger[a]
        BY <1>t, <2>2, <3>1
      <3>4. a = b.acct => balance'[a] = balance[a] - b.amount
        BY <1>t, <2>2, <3>1
      <3>5. a = b.to => balance'[a] = balance[a] + b.amount
        BY <1>t, <2>2, <3>1, <3>2
      <3>6. a = b.acct => ledger'[a] = [ledger[a] EXCEPT !["sent"] = ledger[a]["sent"] + b.amount]
        BY <1>t, <2>2, <3>1, <3>2
      <3>7. a = b.to => ledger'[a] = [ledger[a] EXCEPT !["received"] = ledger[a]["received"] + b.amount]
        BY <1>t, <2>2, <3>1, <3>2
      <3>8. /\ ledger[a]["added"] \in Nat /\ ledger[a]["received"] \in Nat
            /\ ledger[a]["sent"] \in Nat /\ ledger[a]["dues"] \in Nat
        BY <1>k, <2>2
      <3>9. a = b.acct =>
              /\ ledger'[a]["sent"] = ledger[a]["sent"] + b.amount
              /\ ledger'[a]["added"] = ledger[a]["added"]
              /\ ledger'[a]["received"] = ledger[a]["received"]
              /\ ledger'[a]["dues"] = ledger[a]["dues"]
        BY <1>k, <2>2, <3>6
      <3>10. a = b.to =>
              /\ ledger'[a]["received"] = ledger[a]["received"] + b.amount
              /\ ledger'[a]["added"] = ledger[a]["added"]
              /\ ledger'[a]["sent"] = ledger[a]["sent"]
              /\ ledger'[a]["dues"] = ledger[a]["dues"]
        BY <1>k, <2>2, <3>7
      <3> QED
        BY <1>t, <2>1, <2>2, <3>1, <3>3, <3>4, <3>5, <3>8, <3>9, <3>10
    <2> QED
      BY <1>2, <2>3, <2>4, <2>5, <2>6
  <1> QED
    BY <1>1, <1>2, OnlyMoneyRequestsWrite DEF LedgerExplainsBalance

\* No concurrent request loses an update of a wallet: what its transactions say
\* is its balance, wallet/service.py under either isolation level.
THEOREM BalancesExplained == Spec => []LedgerExplainsBalance
  <1>1. Init => LedgerExplainsBalance
    <2> SUFFICES ASSUME Init, NEW a \in WalletOwners
                 PROVE  balance[a] = Opening + ledger[a]["added"] + ledger[a]["received"]
                                       - ledger[a]["sent"] - ledger[a]["dues"]
      BY DEF LedgerExplainsBalance
    <2> QED
      BY DEF Init, Kinds
  <1>2. Safe /\ LedgerExplainsBalance /\ [Next]_vars => LedgerExplainsBalance'
    BY LedgerKeeps
  <1> QED
    BY <1>1, <1>2, AlwaysSafe, PTL DEF Spec

\* The balance answered, computed from the row read earlier, is the one committed.
THEOREM RepliesAreExact == Spec => RepliesExact
  <1> DEFINE Exact == \A r \in Requests : reply'[r] # reply[r] => reply'[r] = balance'[body[r].acct]
  <1>1. Safe /\ [Next]_vars => Exact
    <2> SUFFICES ASSUME Safe, [Next]_vars PROVE Exact
      OBVIOUS
    <2>t. balance \in [Accounts -> 0..MaxBalance] /\ reply \in [Requests -> (0..MaxBalance) \cup {None}]
      BY DEF Safe, TypeOK
    <2>1. CASE UNCHANGED <<balance, ledger, reply>>
      BY <2>1
    <2>2. ASSUME NEW r \in Requests, NEW b \in Payloads, b = body[r],
                 \/ add_money(r) /\ ~Rollback(r, "aborted")
                 \/ pay_dues(r)
                 \/ pay_dues_upi(r)
                 \/ send_money(r) /\ ~Rollback(r, "aborted")
          PROVE  Exact
      <3>0. b.acct \in Accounts
        BY BodyType
      <3>1. CASE add_money(r) /\ ~Rollback(r, "aborted")
        <4>1. /\ balance' = [balance EXCEPT ![b.acct] = balance[b.acct] + b.amount]
              /\ reply' = [reply EXCEPT ![r] = balance[b.acct] + b.amount]
          BY <2>2, <3>1, AddMoneyWrites
        <4> QED
          BY <2>t, <2>2, <3>0, <4>1
      <3>2. CASE pay_dues(r)
        <4>1. /\ balance' = [balance EXCEPT ![b.acct] = balance[b.acct] - b.amount]
              /\ reply' = [reply EXCEPT ![r] = balance[b.acct] - b.amount]
          BY <2>2, <3>2, PayDuesWrites
        <4> QED
          BY <2>t, <2>2, <3>0, <4>1
      <3>3. CASE pay_dues_upi(r)
        <4>1. balance' = balance /\ reply' = [reply EXCEPT ![r] = balance[b.acct]]
          BY <2>2, <3>3, PayDuesUpiWrites
        <4> QED
          BY <2>t, <2>2, <3>0, <4>1
      <3>4. CASE send_money(r) /\ ~Rollback(r, "aborted")
        <4>0. b = body[r] /\ send_money(r) /\ ~Rollback(r, "aborted")
          BY <2>2, <3>4
        <4>1. b.acct # b.to
          BY <4>0, SendMoneyWrites
        <4>2. balance' = [balance EXCEPT ![b.acct] = balance[b.acct] - b.amount,
                                         ![b.to] = balance[b.to] + b.amount]
          BY <4>0, SendMoneyWrites
        <4>3. reply' = [reply EXCEPT ![r] = balance[b.acct] - b.amount]
          <5>1. stage[r] = "both"
            BY <4>0 DEF send_money
          <5>2. view[r].balance = balance[b.acct]
            BY <4>0, <5>1, HolderKnows
          <5>3. reply' = [reply EXCEPT ![r] = view[r].balance - body[r].amount]
            BY <4>0 DEF send_money
          <5> QED
            BY <4>0, <5>2, <5>3
        <4> QED
          BY <2>t, <2>2, <3>0, <4>1, <4>2, <4>3
      <3> QED
        BY <2>2, <3>1, <3>2, <3>3, <3>4
    <2> QED
      BY <2>1, <2>2, OnlyMoneyRequestsWrite
  <1> QED
    BY <1>1, AlwaysSafe, PTL DEF Spec, RepliesExact

\* A wallet is debited only under the PIN in force at the moment of the debit.
THEOREM DebitsUnderPinInForce == Spec => PinInForce
  <1> DEFINE Out(a) == ledger[a]["sent"] + ledger[a]["dues"]
             OutNext(a) == ledger'[a]["sent"] + ledger'[a]["dues"]
             Debitor(a) == \E r \in Requests : /\ stage[r] \in Active /\ stage'[r] = "done"
                                               /\ body[r].acct = a /\ body[r].pin = pins[a]
             Authorised == \A a \in Accounts : OutNext(a) > Out(a) => Debitor(a)
  <1>1. Safe /\ [Next]_vars => Authorised
    <2> SUFFICES ASSUME Safe, [Next]_vars, NEW a \in Accounts, OutNext(a) > Out(a)
                 PROVE  Debitor(a)
      OBVIOUS
    <2>t. TypeOK /\ ledger \in [Accounts -> [Kinds -> Nat]]
      BY DEF Safe, TypeOK
    <2>k. {"added", "received", "sent", "dues", "dues_upi"} = Kinds
      BY DEF Kinds
    <2>1. ~UNCHANGED <<balance, ledger, reply>>
      <3>1. ledger[a] \in [Kinds -> Nat]
        BY <2>t
      <3>2. Out(a) \in Nat
        BY <2>k, <3>1
      <3> QED
        BY <3>2
    <2>2. PICK r \in Requests, b \in Payloads :
            /\ b = body[r]
            /\ \/ add_money(r) /\ ~Rollback(r, "aborted")
               \/ pay_dues(r)
               \/ pay_dues_upi(r)
               \/ send_money(r) /\ ~Rollback(r, "aborted")
      BY <2>1, OnlyMoneyRequestsWrite
    <2>3. /\ b.acct \in Accounts /\ b.amount \in Nat
          /\ ledger[a] \in [Kinds -> Nat] /\ ledger[b.acct] \in [Kinds -> Nat]
      BY <2>t, BodyType
    <2>4. CASE add_money(r) /\ ~Rollback(r, "aborted")
      <3>1. ledger' = [ledger EXCEPT ![b.acct] =
                         [ledger[b.acct] EXCEPT !["added"] = ledger[b.acct]["added"] + b.amount]]
        BY <2>2, <2>4, AddMoneyWrites
      <3>2. ledger'[a]["sent"] = ledger[a]["sent"] /\ ledger'[a]["dues"] = ledger[a]["dues"]
        BY <2>t, <2>k, <2>3, <3>1
      <3> QED
        BY <2>k, <2>3, <3>2
    <2>5. CASE pay_dues_upi(r)
      <3>1. ledger' = [ledger EXCEPT ![b.acct] =
                         [ledger[b.acct] EXCEPT !["dues_upi"] = ledger[b.acct]["dues_upi"] + b.amount]]
        BY <2>2, <2>5, PayDuesUpiWrites
      <3>2. ledger'[a]["sent"] = ledger[a]["sent"] /\ ledger'[a]["dues"] = ledger[a]["dues"]
        BY <2>t, <2>k, <2>3, <3>1
      <3> QED
        BY <2>k, <2>3, <3>2
    <2>6. CASE pay_dues(r)
      <3>1. /\ ledger' = [ledger EXCEPT ![b.acct] =
                            [ledger[b.acct] EXCEPT !["dues"] = ledger[b.acct]["dues"] + b.amount]]
            /\ End(r, "done") /\ pins[b.acct] = b.pin
        BY <2>2, <2>6, PayDuesWrites
      <3>2. a # b.acct => ledger'[a] = ledger[a]
        BY <2>t, <3>1
      <3>3. a = b.acct
        BY <2>k, <2>3, <3>2
      <3>4. stage[r] \in Active /\ stage'[r] = "done"
        BY <2>t, <2>6, <3>1 DEF pay_dues, Active, End, TypeOK
      <3> QED
        BY <2>2, <3>1, <3>3, <3>4
    <2>7. CASE send_money(r) /\ ~Rollback(r, "aborted")
      <3>1. /\ ledger' = [ledger EXCEPT
                 ![b.acct] = [ledger[b.acct] EXCEPT !["sent"] = ledger[b.acct]["sent"] + b.amount],
                 ![b.to] = [ledger[b.to] EXCEPT !["received"] = ledger[b.to]["received"] + b.amount]]
            /\ End(r, "done") /\ pins[b.acct] = b.pin /\ b.acct # b.to /\ b.to \in Accounts
        BY <2>2, <2>7, SendMoneyWrites
      <3>2. a # b.acct => ledger'[a]["sent"] = ledger[a]["sent"] /\ ledger'[a]["dues"] = ledger[a]["dues"]
        <4>1. ledger[b.to] \in [Kinds -> Nat]
          BY <2>t, <3>1
        <4> QED
          BY <2>t, <2>k, <2>3, <3>1, <4>1
      <3>3. a = b.acct
        BY <2>k, <2>3, <3>2
      <3>4. stage[r] \in Active /\ stage'[r] = "done"
        BY <2>t, <2>7, <3>1 DEF send_money, Active, End, TypeOK
      <3> QED
        BY <2>2, <3>1, <3>3, <3>4
    <2> QED
      BY <2>2, <2>4, <2>5, <2>6, <2>7
  <1> QED
    BY <1>1, AlwaysSafe, PTL DEF Spec, PinInForce
-----------------------------------------------------------------------------
(* Conservation: what was sent is what was received, summed over all members.*)

Column(l, k) == [a \in Accounts |-> l[a][k]]

\* TransfersBalanced, with the sums known to be of finitely many units.
Settled ==
    /\ IsFiniteSet(Units(Column(ledger, "sent")))
    /\ IsFiniteSet(Units(Column(ledger, "received")))
    /\ Total(Column(ledger, "sent")) = Total(Column(ledger, "received"))

\* A step that leaves both columns alone leaves the sums alone.
LEMMA ColumnsAloneKeepSettled ==
    ASSUME Settled, Column(ledger', "sent") = Column(ledger, "sent"),
           Column(ledger', "received") = Column(ledger, "received")
    PROVE  Settled'
  <1>1. Column(ledger, "sent")' = Column(ledger, "sent")
    BY DEF Column
  <1>2. Column(ledger, "received")' = Column(ledger, "received")
    BY DEF Column
  <1> QED
    BY <1>1, <1>2 DEF Settled

\* A transfer adds the same amount to both columns.
LEMMA TransferKeepsSettled ==
    ASSUME Settled, NEW x \in Accounts, NEW y \in Accounts, NEW n \in Nat,
           ledger \in [Accounts -> [Kinds -> Nat]], ledger' \in [Accounts -> [Kinds -> Nat]],
           ledger'[x]["sent"] = ledger[x]["sent"] + n,
           ledger'[y]["received"] = ledger[y]["received"] + n,
           \A a \in Accounts \ {x} : ledger'[a]["sent"] = ledger[a]["sent"],
           \A a \in Accounts \ {y} : ledger'[a]["received"] = ledger[a]["received"]
    PROVE  Settled'
  <1> DEFINE f == Column(ledger, "sent")
             g == Column(ledger, "received")
             f2 == Column(ledger', "sent")
             g2 == Column(ledger', "received")
  <1>1. Increased(Accounts, f, f2, x, n)
    BY DEF Column, Kinds, Increased
  <1>2. Increased(Accounts, g, g2, y, n)
    BY DEF Column, Kinds, Increased
  <1>3. IsFiniteSet(Units(f)) /\ IsFiniteSet(Units(g)) /\ Total(f) = Total(g)
    BY DEF Settled
  <1>4. Column(ledger, "sent")' = f2 /\ Column(ledger, "received")' = g2
    BY DEF Column
  <1> HIDE DEF f, g, f2, g2
  <1>5. IsFiniteSet(Units(f2)) /\ IsFiniteSet(Units(g2)) /\ Total(f2) = Total(g2)
    BY <1>1, <1>2, <1>3, EqualTotalsStayEqual
  <1> QED
    BY <1>4, <1>5 DEF Settled

\* Every step keeps what was sent equal to what was received.
LEMMA SettledKeeps ==
    ASSUME Safe, [Next]_vars, Settled
    PROVE  Settled'
  <1>t. ledger \in [Accounts -> [Kinds -> Nat]]
    BY DEF Safe, TypeOK
  <1>k. {"added", "received", "sent", "dues", "dues_upi"} = Kinds
    BY DEF Kinds
  <1>1. CASE UNCHANGED <<balance, ledger, reply>>
    BY <1>1, ColumnsAloneKeepSettled
  <1>2. ASSUME NEW r \in Requests, NEW b \in Payloads, b = body[r],
               NEW k \in {"added", "dues", "dues_upi"},
               ledger' = [ledger EXCEPT ![b.acct] =
                            [ledger[b.acct] EXCEPT ![k] = ledger[b.acct][k] + b.amount]]
        PROVE  Settled'
    <2>1. b.acct \in Accounts /\ ledger[b.acct] \in [Kinds -> Nat]
      BY <1>t, BodyType
    <2>2. /\ \A a \in Accounts : ledger'[a]["sent"] = ledger[a]["sent"]
          /\ \A a \in Accounts : ledger'[a]["received"] = ledger[a]["received"]
      BY <1>t, <1>k, <1>2, <2>1
    <2> QED
      BY <2>2, ColumnsAloneKeepSettled DEF Column
  <1>3. ASSUME NEW r \in Requests, NEW b \in Payloads, b = body[r],
               send_money(r), ~Rollback(r, "aborted")
        PROVE  Settled'
    <2>1. /\ b.acct # b.to /\ b.to \in WalletOwners
          /\ ledger' = [ledger EXCEPT
               ![b.acct] = [ledger[b.acct] EXCEPT !["sent"] = ledger[b.acct]["sent"] + b.amount],
               ![b.to] = [ledger[b.to] EXCEPT !["received"] = ledger[b.to]["received"] + b.amount]]
      BY <1>3, SendMoneyWrites
    <2>2. /\ b.acct \in Accounts /\ b.to \in Accounts /\ b.amount \in Nat
          /\ ledger[b.acct] \in [Kinds -> Nat] /\ ledger[b.to] \in [Kinds -> Nat]
      BY <1>t, <2>1, BodyType
    <2>3. /\ ledger'[b.acct] = [ledger[b.acct] EXCEPT !["sent"] = ledger[b.acct]["sent"] + b.amount]
          /\ ledger'[b.to] = [ledger[b.to] EXCEPT !["received"] = ledger[b.to]["received"] + b.amount]
          /\ \A a \in Accounts \ {b.acct, b.to} : ledger'[a] = ledger[a]
      BY <1>t, <2>1, <2>2
    <2>4. /\ ledger'[b.acct]["sent"] = ledger[b.acct]["sent"] + b.amount
          /\ \A a \in Accounts \ {b.acct} : ledger'[a]["sent"] = ledger[a]["sent"]
      BY <1>k, <2>2, <2>3
    <2>5. /\ ledger'[b.to]["received"] = ledger[b.to]["received"] + b.amount
          /\ \A a \in Accounts \ {b.to} : ledger'[a]["received"] = ledger[a]["received"]
      BY <1>k, <2>2, <2>3
    <2>6. ledger' \in [Accounts -> [Kinds -> Nat]]
      BY NextSafe DEF Safe, TypeOK
    <2> QED
      BY <1>t, <2>2, <2>4, <2>5, <2>6, TransferKeepsSettled
  <1>4. ASSUME NEW r \in Requests, NEW b \in Payloads, b = body[r],
               add_money(r), ~Rollback(r, "aborted")
        PROVE  Settled'
    BY <1>2, <1>4, AddMoneyWrites
  <1>5. ASSUME NEW r \in Requests, NEW b \in Payloads, b = body[r], pay_dues(r)
        PROVE  Settled'
    BY <1>2, <1>5, PayDuesWrites
  <1>6. ASSUME NEW r \in Requests, NEW b \in Payloads, b = body[r], pay_dues_upi(r)
        PROVE  Settled'
    BY <1>2, <1>6, PayDuesUpiWrites
  <1> QED
    BY <1>1, <1>3, <1>4, <1>5, <1>6, OnlyMoneyRequestsWrite

\* No transfer of wallet/service.py creates or destroys money, whatever fails
\* half-way and whatever runs beside it.
THEOREM TransfersConserveMoney == Spec => []TransfersBalanced
  <1>1. Init => Settled
    <2> SUFFICES ASSUME Init PROVE Settled
      OBVIOUS
    <2>1. Column(ledger, "sent") \in [Accounts -> {0}] /\ Column(ledger, "received") \in [Accounts -> {0}]
      BY DEF Init, Column, Kinds
    <2> QED
      BY <2>1, TotalOfZeros DEF Settled
  <1>2. Safe /\ Settled /\ [Next]_vars => Settled'
    BY SettledKeeps
  <1>3. Settled => TransfersBalanced
    BY DEF Settled, TransfersBalanced, Column
  <1> QED
    BY <1>1, <1>2, <1>3, AlwaysSafe, PTL DEF Spec

-----------------------------------------------------------------------------
(* Dues. A request past its check has seen no dues of the month, and keeps   *)
(* seeing none until it writes: under REPEATABLE READ because it looks at its *)
(* snapshot, under READ COMMITTED because it holds the wallet. A month that   *)
(* begins meanwhile has no dues in the table and in no snapshot.              *)

PaysDues(r) == stage[r] = "locked" /\ body[r].op \in {"dues", "dues_upi"}

Unbegun ==
    \A a \in Accounts, m \in Months : m > month =>
        dues[a][m] = 0 /\ \A r \in Requests : view[r].dues[a][m] = 0

SeenUnpaid == \A r \in Requests : PaysDues(r) => SeenDues(r)[body[r].acct][month] = 0

Checked == Safe /\ Unbegun /\ SeenUnpaid

\* The initial states satisfy the strengthened invariant.
LEMMA InitChecked == Init => Checked
  <1> SUFFICES ASSUME Init PROVE Checked
    OBVIOUS
  <1>1. Unbegun
    BY DEF Init, NoDues, NoView, Unbegun
  <1>2. SeenUnpaid
    BY DEF Init, SeenUnpaid, PaysDues
  <1> QED
    BY <1>1, <1>2, InitSafe DEF Checked

\* The dues of a snapshot stay what they are, are those of the table or are none.
LEMMA SnapshotsOfDues ==
    ASSUME TypeOK, [Next]_vars, NEW s \in Requests
    PROVE  view'[s].dues \in {view[s].dues, dues, NoDues}
  <1>v. view \in [Requests -> Views] /\ view[s] \in Views
    BY DEF TypeOK
  <1>1. ASSUME NEW r \in Requests, Authenticate(r) PROVE view'[s].dues \in {view[s].dues, dues, NoDues}
    <2>1. PICK d \in {dues, NoDues} : view' = [view EXCEPT ![r].dues = d]
      BY <1>1 DEF Authenticate
    <2> QED
      BY <1>v, <2>1 DEF Views
  <1>2. ASSUME NEW r \in Requests, NEW o, End(r, o) PROVE view'[s].dues \in {view[s].dues, dues, NoDues}
    BY <1>v, <1>2 DEF End, NoView
  <1>3. ASSUME NEW r \in Requests, LockWallet(r) PROVE view'[s].dues \in {view[s].dues, dues, NoDues}
    <2>1. CASE Rollback(r, "refused")
      BY <1>2, <2>1 DEF Rollback
    <2>2. CASE view' = [view EXCEPT ![r].balance = balance[body[r].acct]]
      BY <1>v, <2>2 DEF Views
    <2> QED
      BY <1>3, <2>1, <2>2 DEF LockWallet
  <1>4. ASSUME NEW r \in Requests, LockRecipient(r) PROVE view'[s].dues \in {view[s].dues, dues, NoDues}
    BY <1>2, <1>4 DEF LockRecipient, Rollback
  <1>5. ASSUME NEW r \in Requests,
               RefuseUnassessed(r) \/ setup_pin(r) \/ add_money(r) \/ pay_dues(r) \/ pay_dues_upi(r)
                 \/ send_money(r) \/ Abort(r)
        PROVE  view'[s].dues \in {view[s].dues, dues, NoDues}
    BY <1>2, <1>5 DEF RefuseUnassessed, setup_pin, add_money, pay_dues, pay_dues_upi, send_money,
                      Abort, Rollback
  <1>6. CASE NextMonth \/ UNCHANGED vars
    BY <1>6 DEF NextMonth, vars
  <1> QED
    BY <1>1, <1>3, <1>4, <1>5, <1>6 DEF Next, Step

\* A payment is the only step that writes dues: one of the current month, of an
\* account whose wallet the request holds.
LEMMA OnlyPaymentsWriteDues ==
    ASSUME Safe, [Next]_vars, dues' # dues
    PROVE  \E r \in Requests :
             /\ PaysDues(r) /\ stage'[r] = "done" /\ month' = month
             /\ body[r].acct \in Accounts /\ walletLock[body[r].acct] = r
             /\ \A a \in Accounts, m \in Months :
                  a # body[r].acct \/ m # month => dues'[a][m] = dues[a][m]
  <1>1. TypeOK /\ LockDiscipline
    BY DEF Safe
  <1>2. ASSUME NEW r \in Requests, ~(pay_dues(r) \/ pay_dues_upi(r)), Authenticate(r) \/ Step(r) \/ Abort(r)
        PROVE  FALSE
    BY <1>2 DEF Step, Authenticate, RefuseUnassessed, LockWallet, LockRecipient, setup_pin, add_money,
                send_money, Abort, Rollback, tables
  <1>3. ~NextMonth /\ ~UNCHANGED vars
    BY DEF NextMonth, tables, vars
  <1>4. PICK r \in Requests : pay_dues(r) \/ pay_dues_upi(r)
    BY <1>2, <1>3 DEF Next
  <1>5. PaysDues(r) /\ body[r] \in Payloads
    BY <1>1, <1>4 DEF pay_dues, pay_dues_upi, PaysDues, LockDiscipline, Held
  <1>b. PICK b \in Payloads : b = body[r]
    BY <1>5
  <1>6. b.acct \in Accounts /\ walletLock[b.acct] = r
    BY <1>1, <1>5, <1>b, BodyType DEF LockDiscipline, Held, PaysDues
  <1>7. /\ dues' = [dues EXCEPT ![b.acct] = [dues[b.acct] EXCEPT ![month] = dues[b.acct][month] + 1]]
        /\ End(r, "done")
    BY <1>1, <1>4, <1>b, PayDuesWrites, PayDuesUpiWrites DEF Safe
  <1>8. stage'[r] = "done" /\ month' = month
    BY <1>1, <1>7 DEF End, TypeOK
  <1>9. ASSUME NEW a \in Accounts, NEW m \in Months, a # b.acct \/ m # month
        PROVE  dues'[a][m] = dues[a][m]
    BY <1>1, <1>6, <1>7, <1>9 DEF TypeOK
  <1> QED
    BY <1>5, <1>b, <1>6, <1>8, <1>9

\* A request past its check was past it before, with the same body and snapshot, or has
\* just made it.
LEMMA PayersGoOn ==
    ASSUME Safe, [Next]_vars, NEW s \in Requests, PaysDues(s)'
    PROVE  \/ PaysDues(s) /\ body'[s] = body[s] /\ view'[s].dues = view[s].dues
           \/ /\ Allowed(s) /\ body[s].op \in {"dues", "dues_upi"} /\ stage[s] = "authenticated"
              /\ body'[s] = body[s] /\ view'[s].dues = view[s].dues /\ UNCHANGED <<dues, month>>
  <1>1. TypeOK /\ view \in [Requests -> Views] /\ view[s] \in Views
    BY DEF Safe, TypeOK
  <1>2. ASSUME NEW r \in Requests, NEW o \in Outcomes, End(r, o)
        PROVE  PaysDues(s) /\ body'[s] = body[s] /\ view'[s].dues = view[s].dues
    BY <1>1, <1>2 DEF End, TypeOK, PaysDues, Outcomes
  <1>3. ASSUME NEW r \in Requests, Authenticate(r)
        PROVE  PaysDues(s) /\ body'[s] = body[s] /\ view'[s].dues = view[s].dues
    BY <1>1, <1>3 DEF Authenticate, TypeOK, PaysDues
  <1>4. ASSUME NEW r \in Requests, LockWallet(r), ~Rollback(r, "refused")
        PROVE  \/ PaysDues(s) /\ body'[s] = body[s] /\ view'[s].dues = view[s].dues
               \/ /\ Allowed(s) /\ body[s].op \in {"dues", "dues_upi"} /\ stage[s] = "authenticated"
                  /\ body'[s] = body[s] /\ view'[s].dues = view[s].dues /\ UNCHANGED <<dues, month>>
    <2>1. /\ Allowed(r) /\ stage[r] = "authenticated" /\ stage' = [stage EXCEPT ![r] = "locked"]
          /\ view' = [view EXCEPT ![r].balance = balance[body[r].acct]]
          /\ UNCHANGED <<dues, month, body>>
      BY <1>4 DEF LockWallet, tables
    <2>2. view'[s].dues = view[s].dues
      BY <1>1, <2>1 DEF Views
    <2> QED
      BY <1>1, <2>1, <2>2 DEF TypeOK, PaysDues
  <1>5. ASSUME NEW r \in Requests, LockRecipient(r), ~Rollback(r, "refused")
        PROVE  PaysDues(s) /\ body'[s] = body[s] /\ view'[s].dues = view[s].dues
    BY <1>1, <1>5 DEF LockRecipient, TypeOK, PaysDues
  <1>6. ASSUME NEW r \in Requests,
               RefuseUnassessed(r) \/ setup_pin(r) \/ add_money(r) \/ pay_dues(r) \/ pay_dues_upi(r)
                 \/ send_money(r) \/ Abort(r)
        PROVE  PaysDues(s) /\ body'[s] = body[s] /\ view'[s].dues = view[s].dues
    BY <1>2, <1>6 DEF RefuseUnassessed, setup_pin, add_money, pay_dues, pay_dues_upi, send_money,
                      Abort, Rollback, Outcomes
  <1>7. CASE NextMonth \/ UNCHANGED vars
    BY <1>7 DEF NextMonth, vars, PaysDues
  <1> QED
    BY <1>2, <1>3, <1>4, <1>5, <1>6, <1>7 DEF Next, Step, Rollback, Outcomes

\* Every step keeps what was checked.
LEMMA NextChecked == Checked /\ [Next]_vars => Checked'
  <1> SUFFICES ASSUME Checked, [Next]_vars PROVE Checked'
    OBVIOUS
  <1>1. Safe' /\ TypeOK /\ TypeOK' /\ Safe /\ LockDiscipline
    BY NextSafe DEF Checked, Safe
  <1>2. month \in Months /\ month' \in Months /\ month <= month'
    <2>1. month' \in {month, month + 1}
      BY DEF Next, Step, Authenticate, RefuseUnassessed, LockWallet, LockRecipient, setup_pin, add_money,
             pay_dues, pay_dues_upi, send_money, Abort, NextMonth, Rollback, End, vars
    <2> QED
      BY <1>1, <2>1 DEF TypeOK, Months
  <1>3. Unbegun'
    <2> SUFFICES ASSUME NEW a \in Accounts, NEW m \in Months, m > month'
                 PROVE  dues'[a][m] = 0 /\ \A r \in Requests : view'[r].dues[a][m] = 0
      BY DEF Unbegun
    <2>1. m > month /\ m # month
      BY <1>2 DEF Months
    <2>2. dues[a][m] = 0 /\ \A r \in Requests : view[r].dues[a][m] = 0
      BY <2>1 DEF Checked, Unbegun
    <2>3. dues'[a][m] = 0
      BY <1>1, <2>1, <2>2, OnlyPaymentsWriteDues
    <2>4. NoDues[a][m] = 0
      BY DEF NoDues
    <2> QED
      BY <1>1, <2>2, <2>3, <2>4, SnapshotsOfDues
  <1>4. ASSUME NEW s \in Requests, PaysDues(s)' PROVE SeenDues(s)'[body'[s].acct][month'] = 0
    <2>1. body[s] \in Payloads /\ body'[s] = body[s] /\ view'[s].dues = view[s].dues
      BY <1>1, <1>4, PayersGoOn DEF LockDiscipline, Held, PaysDues
    <2>b. PICK b \in Payloads : b = body[s]
      BY <2>1
    <2>2. b.acct \in Accounts /\ dues \in [Accounts -> [Months -> Nat]] /\ view[s] \in Views
      BY <1>1, BodyType DEF TypeOK
    <2>3. SeenDues(s)[b.acct][month] = 0
      <3>1. CASE PaysDues(s)
        BY <2>b, <3>1 DEF Checked, SeenUnpaid
      <3>2. CASE Allowed(s) /\ body[s].op \in {"dues", "dues_upi"}
        <4>1. ~(SeenDues(s)[b.acct][month] > 0)
          BY <2>b, <3>2 DEF Allowed, dues_paid_this_month
        <4>2. SeenDues(s)[b.acct][month] \in Nat
          BY <1>2, <2>2 DEF SeenDues, Views
        <4> QED
          BY <4>1, <4>2
      <3> QED
        BY <1>1, <1>4, <3>1, <3>2, PayersGoOn
    <2>4. CASE month' # month
      <3>1. month' > month
        BY <1>2, <2>4 DEF Months
      <3>2. dues[b.acct][month'] = 0 /\ view[s].dues[b.acct][month'] = 0
        BY <1>2, <2>2, <3>1 DEF Checked, Unbegun
      <3>3. dues' = dues
        BY <1>1, <2>4, OnlyPaymentsWriteDues
      <3> QED
        BY <2>1, <2>b, <3>2, <3>3 DEF SeenDues
    <2>5. CASE month' = month /\ Isolation # "READ_COMMITTED"
      BY <2>1, <2>b, <2>3, <2>5 DEF SeenDues
    <2>6. CASE month' = month /\ Isolation = "READ_COMMITTED"
      <3>1. dues'[b.acct][month] = dues[b.acct][month]
        <4>1. CASE dues' = dues
          BY <4>1
        <4>2. CASE dues' # dues
          <5>1. PICK r \in Requests :
                  /\ PaysDues(r) /\ stage'[r] = "done"
                  /\ body[r].acct \in Accounts /\ walletLock[body[r].acct] = r
                  /\ \A a \in Accounts, m \in Months :
                       a # body[r].acct \/ m # month => dues'[a][m] = dues[a][m]
            BY <1>1, <4>2, OnlyPaymentsWriteDues
          <5>2. r # s /\ PaysDues(s)
            BY <1>1, <1>4, <4>2, <5>1, PayersGoOn DEF PaysDues
          <5>3. walletLock[b.acct] = s
            BY <1>1, <2>b, <5>2 DEF LockDiscipline, Held, PaysDues
          <5> QED
            BY <1>2, <2>2, <5>1, <5>2, <5>3
        <4> QED
          BY <4>1, <4>2
      <3> QED
        BY <2>1, <2>b, <2>3, <2>6, <3>1 DEF SeenDues
    <2> QED
      BY <2>4, <2>5, <2>6
  <1> QED
    BY <1>1, <1>3, <1>4 DEF Checked, SeenUnpaid

\* Under either isolation level the check of wallet/service.py:73 and :82 fails only
\* against a payment that overlapped: dues already paid are taken again by none that sees
\* them paid.
THEOREM DuesTwiceByRaceAlone == Spec => DuesTwiceOnlyByRace
  <1> DEFINE Again(a, m) == dues[a][m] > 0 /\ dues'[a][m] > dues[a][m]
             Overtaken(r, a, m) == /\ stage[r] = "locked" /\ stage'[r] = "done"
                                   /\ body[r].acct = a
                                   /\ SeenDues(r)[a][m] # dues[a][m]
  <1>1. ASSUME Checked, [Next]_vars, NEW a \in Accounts, NEW m \in Months, Again(a, m)
        PROVE  \E r \in Requests : Overtaken(r, a, m)
    <2>1. Safe /\ dues[a][m] \in Nat
      BY <1>1 DEF Checked, Safe, TypeOK
    <2>2. dues' # dues
      BY <1>1, <2>1
    <2>3. PICK r \in Requests :
             /\ PaysDues(r) /\ stage'[r] = "done"
             /\ \A x \in Accounts, n \in Months :
                  x # body[r].acct \/ n # month => dues'[x][n] = dues[x][n]
      BY <1>1, <2>1, <2>2, OnlyPaymentsWriteDues
    <2>4. body[r].acct = a /\ month = m
      BY <1>1, <2>1, <2>3
    <2>5. SeenDues(r)[a][m] = 0
      BY <1>1, <2>3, <2>4 DEF Checked, SeenUnpaid
    <2> QED
      BY <1>1, <2>1, <2>3, <2>4, <2>5 DEF PaysDues
  <1>2. Checked /\ [Next]_vars =>
          [\A a \in Accounts, m \in Months : Again(a, m) => \E r \in Requests : Overtaken(r, a, m)]_vars
    BY <1>1
  <1>3. Spec => []Checked
    BY InitChecked, NextChecked, PTL DEF Spec
  <1> QED
    BY <1>2, <1>3, PTL DEF Spec, DuesTwiceOnlyByRace
=============================================================================
