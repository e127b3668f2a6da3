# Nestora server: specifications and proofs

TLA+ modules of the Nestora back end (FastAPI, async SQLAlchemy, MySQL/InnoDB): the
parts where concurrent requests share money, places or permissions to enter, each in
a module of its own, and the community services - polls, events, invoices, reports,
people, catalogues and others - composed over one set of tables; the TLC runs that
check them on small instances, and TLAPS proofs of what matters most for every size. `PROJECT.json` lists components, runs, mutants, the
map from definitions to source lines, hazards, findings and theorems.

## 1. The system

### How a request runs

Each HTTP request gets one `AsyncSession` (`app/db/session.py`), shared by the
authentication dependency (`app/core/dependencies.py`) and the handler, so a request
is one MySQL transaction:

- its first statement is the authentication query. The engine sets no isolation
  level, so MySQL's REPEATABLE READ applies and that query fixes the snapshot that
  every later plain `SELECT` returns, its own writes aside;
- `SELECT ... FOR UPDATE` and the `WHERE` of an `UPDATE` read current rows and hold
  their locks to the end of the transaction; inserting a row with a foreign key
  needs the parent row;
- `UnitOfWork` (`app/db/unit_of_work.py`) commits at the end of the handler and rolls
  back on any exception; writes of a request are visible to others only then;
- InnoDB picks a deadlock victim or ends a lock wait by timeout; a lost connection
  or a stopped worker rolls back too. Nothing is retried by the server.

The hard behaviours all come from here: checks made on a snapshot older than a
lock, values computed in Python from a row that was read earlier, locks taken in
opposite orders, and statements that fail half-way.

### Components

| Component | State | Operations that change it | Interacts with | Hard parts |
|---|---|---|---|---|
| Event passes (`modules/events/pass_*`) | passes, transfers, check-ins, RSVP rows | book, share, check_in | wallets, events, notifications | snapshot counts under a lock, opposite lock orders, lost updates at the gate |
| Wallets (`modules/wallet`) | balance, PIN, transactions | setup_pin, add_money, pay_dues, pay_dues_upi, send_money | assessments, passes, amenities | dues once a month, two-wallet transfers, overflow, PIN changes |
| Visitors (`modules/visitor_management`) | visitors, visits, pre-approved passes, logs, deliveries | request, approve/reject, pre-approve, cancel, check-in/out (pass, log, walk-in), deliveries | notifications | everything is checked on the snapshot and written without a lock |
| Amenities (`modules/amenities`) | amenities, bookings | book, status, delete | wallets | two bookings of a slot, wallet creation, deactivation |
| Committees, board (`modules/committees`, `board_members`) | committees, seats, terms, account roles, chat | create, update, delete, assign, remove, appoint, end term | auth, users (role) | role derived from memberships that are not flushed; one role for two offices |
| Authentication (`modules/auth`) | sessions, access codes, accounts | login, logout, reset, codes | all | login against password change, code reuse |
| Daily job (`app/jobs`) | delivery ledger | run | notifications | retry and double start |
| Notifications (`modules/notifications`, `core/realtime.py`) | inbox rows, read marks, sockets | notify, mark, push after commit | every service | recipients computed apart from authorization, a stop between commit and push, cursors |
| Polls (`modules/polls`) | polls, options, votes, likes, comments | create, update, delete, vote, like, comment | notifications | concurrent votes, options replaced under a vote |
| Events (`modules/events/service.py`) | events, answers, likes, comments | create, update, delete, RSVP, clear, like, comment | notifications, passes | capacity, announced once |
| Announcements (`modules/announcements`) | announcements, likes, comments | create, update, delete, like, comment | notifications | audience in lists, notices and authorization |
| Marketplace (`modules/marketplace`) | items, images, favourites, views, reports, chat | create, update, delete, favourite, view, report, chat | sockets | SQL statements beside reads, the chat's recipient |
| Service requests, board tasks | tickets, tasks, threads | create, status, map, delete, message | notifications, sockets | display ids, who listens |
| Meetings (`modules/meetings`) | meetings, attendance | create, details, minutes, delete, attend | notifications | answers beyond those asked |
| Documents (`modules/documents`) | documents of associations and units | create, update, delete of each | storage | values written back from the snapshot |
| Invoices (`modules/invoices`) | invoices, lines | create, update, status, delete | vendors | transitions, totals, numbers |
| Reports (`modules/*_reports`, `balance_sheets`, `income_statements`, `chart_of_accounts`) | reports, sheets, statements, account codes | create, update, import, map, add | associations | totals against rows, export against import |
| People (`modules/users`, `employees`, `vendors`, `bank`) | people, logins, employees, vendors, bank accounts | create, update, delete | roles, units | doubles, masks taken for values |
| Profile (`modules/profile`) | own details, family, vehicles, pets, education, experience | update details, add, update, delete records | people, logins | written beside the checks of `users` |
| Onboarding (`modules/associations`) | associations, blocks, units, settings, plan | preview, onboard, settings, occupancy, subscription | people, roles | three readings of one workbook |
| Catalogues (`modules/entity_types`, `entities`, `subscriptions`, `features`, `roles`, `permissions`) | definitions, the feature tree, the permission matrix | create, update, delete, features of a plan, bulk update | people (role) | unique codes of deleted rows, cycles, roles deleted while given |
| Dashboard, mail templates, nearby places, health, seeds | views, independent rows | - | - | none shared |

What makes each correct: passes - every admission is accounted for and nobody enters
unsold; wallets - the balance is explained by the ledger, money is neither made nor
lost, dues are paid once; visitors - entries need an approval or a live pass;
amenities - one confirmed booking per slot; committees - the role agrees with the
memberships; sessions - none outlives a password change; the job - one reminder for
each document and date. For the community services: what belongs together is written
together, counts agree with rows, who is told or shown a thing may open it, nothing
changes that was not asked, and what is exported can be imported - and, where two
requests overlap, exactly which of these they may break. `PROJECT.json` lists the
hazards behind these, each at its line.

## 2. What is modelled

| Module | Models | Checked by |
|---|---|---|
| `EventPasses` | `pass_service.py` book, share, check_in over `pass_repository.py` | `EventPassesRR`, `EventPassesOversold` |
| `AdmissionRegister` | what a box office promises: each clerk sells within the capacity by its own note of the sales, people enter within the sales | refined by `EventPasses` (`ImplementsRegister`) |
| `Wallets` | `wallet/service.py` over `repository.py` | `Wallets`, `WalletsDuesTwice` |
| `VisitorGate` | `visitor_management/service.py` over `repository.py` | `VisitorGate`, `VisitorDecidedTwice` |
| `AmenityBookings` | `amenities/service.py` over `repository.py` | `AmenityBookings` |
| `AccountAccess` | `auth/service.py` and `router.py` over `repository.py` | `AccountAccess` |
| `Memberships` | `committees/service.py`, `board_members/service.py`, the role in `users/service.py` | `Memberships`, `MembershipsRoleLeft` |
| `Reminders` | `jobs/vehicle_document_reminders.py` as `scripts/jobs/run_daily.py` runs it, beside `profile` | `Reminders` |
| `Sums` | the SQL `SUM` over a table | used by `EventPasses`, `Wallets` and `AmenityBookings` |
| `UnitOfWork` | a request over shared tables: `db/unit_of_work.py`, `db/session.py`, `notifications/service.py`, `core/realtime.py` | extended by the modules below |
| `Polls`, `Events`, `Announcements`, `Marketplace`, `ServiceRequests`, `BoardTasks`, `Meetings`, `Documents` | `service.py` and `repository.py` of the module of that name, with the routers that decide who is pushed to | `Server` |
| `Finance`, `Invoices`, `Reports`, `Statements` | access and rounding; `invoices`; `delinquency_reports`, `prepaid_reports`, `vendor_aging_reports` and `financial_report_imports.py`; `balance_sheets`, `income_statements`, `chart_of_accounts` | `Server` |
| `Catalogues`, `Directory`, `Profile`, `Onboarding` | `entity_types`, `entities`, `subscriptions`, `features`, `roles`, `permissions`; `users`, `employees`, `vendors`, `bank`; `profile`; `associations` | `Server` |
| `Inbox` | `notifications/repository.py` and `router.py` | `Server` |
| `Server` | all of these over one database, with their properties | `Server` |
| `MC*` | instances for TLC | |
| `ServerProofs`, `TablesProofs`, `SumsTheorems`, `EventPassesProofs`, `WalletsProofs`, `VisitorGateProofs`, `AccountAccessProofs`, `AmenityBookingsProofs` | lemmas and theorems | tlapm |

### EventPasses

A request goes `idle -> authenticated -> ... -> done | refused | aborted`; `stage` is
how far it has come, `body` its payload, `view` what it has read (the snapshot, the
locked row, the buyer's pass). A booking takes the steps at which it may wait for a
lock: `BookAdmission` (event row, then the counts), `BookPayment` (wallet row),
`BookFindPass` (the buyer's pass `FOR UPDATE`), `BookCommit`. Share and check-in are
`LockPass` (the pass `FOR UPDATE`) and their commits, which need the event row through
the foreign keys of the rows they insert. Writes are made in the commit step: no other
transaction can see them earlier and the rows they touch are locked by then.
`Isolation` chooses what a plain `SELECT` sees; the runs take the default, the theorems hold for both
levels the code may meet, because it sets none and the server's setting decides. The tables are functions of keys with
the columns the properties tell apart; the ledger of a wallet is its sum by kind.
Left out: names, codes and notifications (rows of the same transaction that nothing
reads back), the event's own status and deadline (constant), and the gap locks of an
empty `FOR UPDATE` result, which could only add waits.

### Wallets

`LockWallet` is the `FOR UPDATE` read of the requester's wallet with every check of the
handler, `LockRecipient` the second lock of a transfer, then one commit action for each
handler. `RefuseUnassessed` is the refusal `pay_dues` gives before it locks. `month`
moves on at any time; `MaxBalance` is the limit of NUMERIC(12,2), and a statement that
exceeds it fails (MySQL's strict mode, the default) and rolls the transfer back.

### VisitorGate

Here no `SELECT` locks, and the writes of a handler come last, always log before pass,
so a request is `Begin` (which fixes what its `SELECT`s return, `seen`) and one step
that checks, writes and commits. Conditional `UPDATE`s (`check_in_visit`,
`check_out_visit`, `close_log`) read the current row. `permitted` stands for role, unit,
association and OTP checks, which visitors coming and going do not change; a check-in
may always fail for being outside its scheduled window. `approvals`, `entries`, `exits`
and a log's `by`, `closedBy` are history the properties need.

### AmenityBookings

A booking goes `authenticated -> locked -> done`: `LockWallet` reads the wallet `FOR
UPDATE` and `book` commits. A member without a wallet who pays by UPI takes the gap lock
instead (stage `gap`, holders in `gapLocks`, which any number of requests may share), and
`create_wallet`, the insert, waits for the other holders: two such requests wait for each
other until InnoDB ends one. The amenity and the bookings are those of the snapshot
(`view`). A manager's `create`, `update_status` and `delete` take no lock before the flush
and are one step; the flush writes only the columns that changed, and no `UPDATE` is sent
when the status read is the one asked for. The amount is `charges * hours`, where `hours`
is the client's and need not be `end - start`; an amount beyond NUMERIC(10,2)
(`MaxAmount`) fails the insert and rolls the debit back. Left out: locks on the gaps of
neighbouring keys, which could only add waits.

### AccountAccess

No `SELECT` locks here either. `Begin` is every read of a handler, on the snapshot, with
the checks it makes on them (a failed check answers at once); one finishing step then makes
all its writes, or none. What the database decides at the write stays in that step: the
unique e-mail address (`EmailTaken`) and the unique key of the wallet a new account gets
(`WalletClash`) fail the insert, and `create_member_account` asks for the association's
plan after its flush, so the refusal rolls the used code back. `UPDATE ... WHERE` statements
(ending sessions and reset links) read current rows: `reset_password` ends the sessions
committed by then, also those of a login that began later. Passwords are named by the
request that set them. `live` of a session or link merges revoked, consumed and expired;
the environment expires them (`ExpireSession`, `ExpireChallenge`) and changes the plan
(`PlanChanges`) at any time. A reset by link and one by OTP are one operation. Left out:
requests to correct a member's details, the service request filed beside a request for a
code, and what a session reads.

### Memberships

Its requests are called `Changes`, their bodies `Proposals` and how far one has come its
`phase`, so that one proof module can extend it beside `AccountAccess`.
`Read` decides: with `autoflush` off, what a handler changes does not show in its own
`SELECT`s, so the whole decision (rows to delete, revive and insert, roles to set) follows
from the snapshot and is kept in `decision`. One step per handler then writes it. Rows are
keyed by committee, member and copy, because nothing in the schema keeps a member from
having two; which of them a `SELECT` returns first is open (`OneEach`). `Copies` and
`Terms` bound the rows of a member. `disturbed` is history: the members whom two open
requests concerned at once, whose role an administrator set by hand, or one of whose terms
was ended while they were in a committee. Everybody else's role, seats and term agree.

`restored` is the query for other memberships as it runs: it finds the row that has only been
marked in memory, so nobody is ever restored (finding 4, `CommitteeRoleGivenBack`). `RolesAgree`
leaves that direction out: it asks that whoever has a seat or a term has the role, and that the
board's role comes with a term, not that a committee's role comes with a seat.

Observed, with no document that says otherwise: `end_term` does not ask whether the term is
active, so ending a past term again takes the role of a member who has since joined a committee.

Left out: dates (`update_member` changes nothing else), chat messages, deletion of users,
and moves of a member or a committee to another association.

### Reminders

A run of the job goes `idle -> dated -> working -> done | aborted` (`progress`): it takes the date
(`Start`), finds what is due on its snapshot (`FindDue`), and for each row (`at`, in an order
the query leaves open) inserts the delivery row and the notification (`Remind`) or finds the
key taken or the vehicle gone (`Skip`, `INSERT IGNORE` with no row). `made` are its
uncommitted rows: their keys make other runs wait, and their foreign keys make edits and
deletions of the vehicle wait. Retries and second schedulers are further runs.

- `create_notification` looks the account up on the snapshot that has just joined it, so
  it never answers None and the `DELETE` of the reservation is never reached: left out.
- The unique key names document and date, not the account: of an owner with two active
  accounts (see AccountAccess) one gets the reminder.
- `publish_pending_notifications` runs in the job's own process, whose `WebSocketManager`
  has no connections: the push reaches nobody, and owners see the reminder when they open
  the inbox. It changes no state here.
- "Remains eligible for the next run" (`vehicle_document_reminders.py:40`) holds for a run
  on the same date: a later day's query does not ask for earlier dates.

Left out: read marks of the inbox, the shared locks a duplicate key takes (they add waits
only), and accounts that change meanwhile.

### The community services: UnitOfWork and Server

Handlers of these services take no lock in a `SELECT`, and the session does not flush before
one (`autoflush` is off), so a handler decides everything on the snapshot. A request is
therefore `waiting -> open -> committed -> answered`, or `refused`, `aborted`, `lost`:

- `Begin` fixes the snapshot (`seen`), the whole database as committed then;
- one action for each handler (`create_poll`, `rsvp`, `invoice_status`, ...) makes its
  checks on `seen[r]` and its writes on `db` - `Decide`: `Commit`, `Refuse` for a failed
  check, `Abort` where the write meets the key of a row that has since been committed.
  That commit is one step is sound because the rows a flush changes stay locked up to it,
  and no handler here reads rows `FOR UPDATE` or after its flush. `Save` changes the columns that differ
  from those loaded, as the ORM does, on the current row: what another request changed in other
  columns survives, what it changed in the same ones is lost;
- keys of new rows are built from the request's name, as uuid4 keys are nobody else's;
- `Publish` sends the pushes of a committed request to the sockets open by then,
  `WorkerStops` stops before the last of them, `Connect`, `Disconnect` and `Tick` belong to
  the environment, `ConnectionLost` to any open request.

`db` is a record of tables, each a function of keys; accounts, roles, units and
associations of signed-in members and the boards they sit on (`SeatsOf`) are constants, except in `Directory`, `Onboarding` and
`Catalogues`, which write the tables `people`, `logins`, `roles` and so on. `missed[r]`, the
requests whose commits r did not see, is history: a property that holds "unless requests
overlapped" (`Raced`) names the hazard exactly, and says that nothing but the overlap breaks
it. Workbooks are sequences of rows of cells; the imports, exports, totals and distributions
(`Reports`, `Statements`) and the three readings of an onboarding workbook (`Onboarding`) are
operators over them. Money is in cents, percentages in hundredths.

Where a conversion matters it is modelled by what it does:

- the display id of a request is `<<DisplayName[user], n>>`. `_display_id` puts the initials of the
  association, the block and the sanitised unit number before the count of the unit's requests, and
  accounts of two units may have these in common: `DisplayName` need not be injective, and in
  `MCServer` it is not. So `NoDoubleUnlessRaced` asks for different ids within a unit only.
- an amount leaves in a workbook as `float(amount)`: `as_float` keeps it below `ExactBelow` and
  rounds it to an even number from there on, the shape of the error at the end of a float's digits.
  `reread` is what saving and `load_workbook(data_only=True)` make of a cell: a text that begins
  with `=` (`Formulas`) comes back as no value. `WorkbooksAgree` asks for the other cells.
- `Initials` are the first two letters of a role's name, by which employees are numbered; roles
  share them.
- `pass_price` replaces a price the request leaves out (`None`) by the fee, and no other.

Left out: names, texts and attachments (one column stands for those that no check reads),
pagination other than the inbox's, the upload itself, mail, and e-mail addresses compared
other than exactly.

Observed while translating, beside the findings below:

- an invoice that has lines cannot be given new ones: `update` clears the collection and adds lines
  numbered from 1 again, the flush inserts them before it deletes the old ones, and
  `uq_invoice_lines_order` refuses the insertion, so the request aborts;
- a pass with a price of 0 and a fee passes `validate_pass_settings`, whose message asks for a price
  greater than zero: the validator looks at the price or the fee, the column keeps the 0, and a
  booking costs nothing;
- two units whose numbers differ only in signs that `_display_segment` replaces, or whose
  associations have the same initials, give their requests the same display ids;
- an export loses a text that begins with `=`, and an import of it is refused when the column is
  a required one;
- accountants of an association are told of its requests and tasks, and the board and committee of
  messages in a request, which they may not open; the recipient of a marketplace
  chat message is not checked against the item; administrators edit the meetings of any
  association; the branch for board members in the documents of a unit is not reached;
- a report import ends at the first row that begins with "Total", whatever follows; an
  export with a charge category of its own cannot be imported, nor can that of a balance
  sheet or an income statement, whose layout is for readers;
- a chart uploaded with two columns runs past the end of the row; duplicates in the global
  list become duplicates in an association;
- onboarding makes a unit of each row, so a number repeated in a block leaves units
  without a homeowner, although `_validate_primary_homeowners` asks for one "for every
  imported unit"; a member named twice for the board, or without an e-mail address,
  aborts it;
- a margin beyond its column aborts a statement; the check for a used e-mail address
  skips logins without a person, and a profile takes any address or number, without a check and
  without its login; a person can be given an association without a unit of it;
- a feature may be made its own parent, although `features/messages.py:9` says it cannot:
  `_is_descendant` looks at the parents of the new parent only;
- the code of a deleted plan, feature or role cannot be used again, and a permission cannot
  be moved to a pair that was deleted: the unique key still has the row, and the request
  aborts.

## 3. Runs

- **EventPassesRR** - default isolation, two accounts (one a manager), one event, a pass
  already bought from a wallet (`BoughtSpec`), three requests among bookings by wallet and UPI, shares and check-ins, with prices,
  limits and balances small enough to be exceeded. All admissions are accounted for,
  payments match passes, nobody enters unsold, every request ends. The capacity is exceeded only by
  a booking whose count of the sales another booking overtook (`OversoldOnlyByRace`), the member's
  limit only by one that another booking of the member overtook, and even then the member has one
  bought pass (`OverLimitOnlyByRace`). The tables implement `AdmissionRegister`, whose clerks are
  the requests: the note of a booking is the count its transaction reads.
- **EventPassesOversold** - default isolation: capacity is exceeded (finding 1).
- **Wallets** - three requests by two members with wallets and one without, over two
  months: PIN change, top-up past the column's limit, dues, transfers both ways. Dues already paid
  are taken again only by a payment that another one of the account overtook (`DuesTwiceOnlyByRace`).
- **WalletsDuesTwice** - two payments of one month's dues (finding 2).
- **VisitorGate** - four requests over a pending visit, a single-entry pass, room for a
  new visit and a new multiple-entry pass, and three logs. Four are needed: approval,
  late approval and two entries. `LogIds` bounds the entries.
- **AmenityBookings** - three requests among bookings of overlapping slots by a member with
  a wallet and one without, an amount too large for its column, and a manager who creates,
  deactivates and deletes. Payments match bookings, a slot is shared only by requests that
  overlapped, a deleted amenity stays deleted, every request ends.
- **AccountAccess** - concurrent logins, logouts, resets, account creations and decisions on
  a code request, over an active account with a session and a reset link, an account not
  yet claimed and a fresh code. No
  session open at a password change survives it, an account has one reset link in force,
  a used code has its account and wallet, an approved request its code.
- **Memberships** - four requests over a homeowner, a committee member with a past term and
  a board member, two committees and room for a third. Two requests overlap and two more
  see what they left; two copies and two terms per member let duplicates show. No request
  waits for another here, so there is no liveness to check.
- **MembershipsRoleLeft** - the same requests: a member who leaves the last committee keeps its
  role (finding 4).
- **Reminders** - two runs over two days, two vehicles, one with two documents and one whose
  owner has two accounts, and owners who change dates and delete. Two runs are a retry after
  a crash, a run on the next day, or two at once that lock in opposite orders.
- **Server** - the community services: for each of sixteen groups (polls, events,
  announcements, marketplace, service requests, tasks, meetings, documents, invoices,
  reports, statements, people, profiles, onboarding, catalogues, inbox) single requests, pairs
  and some triples that meet at a thing, over opening tables with one row of each state a check
  asks for, for a community with every role and a neighbour association. Two requests
  overlap or follow each other, and a third sees what they left.
  - *Lost or doubled under an overlap, and only then*: `VotesStand`,
    `AnnouncedOnce`, `SeatsHeldUnlessRaced`, `OneRowPerMember`, `WholeUnlessRaced`,
    `NoDoubleUnlessRaced`. Each exception is reached: without it TLC finds the race.
  - *Two queries for one rule*: `ToldMayOpen` (recipients of notices and pushes against
    authorization), `ListedMayOpen` (lists against authorization), `PagesCoverInbox`
    (cursor against order).
  - *What an edit may not do*: `InvoicesSettled`, `OnlyAskedChanges`.
  - *Calculations against a reference*: `DistributionsAddUp`, `WorkbooksAgree`.
  - *Rows name rows of their association*: `TypeOK`. Its part that could fail is the account an item
    of a balance sheet names: a chart of another association is in the tables, and only
    `validate_chart_accounts` keeps its accounts out.
- **VisitorDecidedTwice** - a late decision on a decided visit (finding 3).

Why these bounds: a hazard here is a race of two requests, seen by a third (a second
share, a later check-in); each run has enough requests for the race and what follows
it, and every action and every refusal occurs. In `Server` the workloads are listed rather
than generated, since most requests never touch a common row; `LastTime = 1` and
`EditWindow = 0` let the clock pass each deadline once, one browser (`Browsers`) suffices
because pushes to different accounts do not interact, `DayAhead` and `IdOrder` fix the due
dates and the order of keys. `Timed` and `Pushing` name the requests beside which the clock
goes on and sockets open: those that read the time or whose inbox is ordered by it, and one
push of each shape, since a socket shows in nothing but `pushed`. `Formulas` has a text for each kind of column
that may begin with `=`, and `ExactBelow = 50` puts an amount of the workloads on either side; a board
member with a seat in each association lets the marketplace's scope differ from the home association. `CHECK_DEADLOCK FALSE` is set because
requests are finite and end; stuck requests would violate `EveryRequestEnds`.
Symmetry is used only where no liveness is checked.

**Fairness.** `WF(Step(r))`: the event loop and MySQL keep executing a request whose
next lock is free. `WF(LockWaitEnds(r))`: a request that waits for a lock for ever is
ended, by InnoDB's deadlock detection or `innodb_lock_wait_timeout`. Arrival and other
aborts are not fair. `Server` states safety only: its requests wait for nothing the
model has, and a push that a stopped worker loses is not sent again.

### Findings

1. `pass_service.py:44` says the event lock keeps concurrent bookings within capacity.
   The counts after it read the snapshot fixed at authentication, so the second booking
   does not see the first (`EventPassesOversold`).
2. `wallet/service.py:74`, `:83` refuse dues "already paid for this month", but the check
   reads the same kind of snapshot: two concurrent payments pass (`WalletsDuesTwice`).
3. `visitor_management/messages.py:11` says a request "already processed" is refused;
   `approve` checks in the snapshot and updates by id (`VisitorDecidedTwice`).
4. `committees/service.py:120`, `:149` and `:265` make a homeowner again of whoever has no
   membership left. Each marks the row deleted in memory and asks before the flush (`autoflush` is
   off), so the query finds the row that goes, and the role stays. The member is then refused
   everywhere: only a homeowner can be appointed (`MembershipsRoleLeft`). With the flush before the
   query the property holds.

## 4. Proofs

All are safety results, for any number of requests, accounts, events, passes and
payloads that satisfy the modules' named assumptions (which TLC evaluates in every run).

- **EventPassesProofs.** `TypeCorrect` and `LocksProtectReads` from `Locked`, the
  conjunction of `TypeOK` and `LockDiscipline`: balances stay non-negative only because
  the wallet that could pay is locked until it is debited, and `remaining` because the
  row a share read is locked. No theorem assumes an isolation level. `OversoldByRaceAlone` and
  `OverLimitByRaceAlone` rest on `Fitting`: a booking past its check fits the counts that its
  transaction reads, its snapshot stays what it was, and it alone may sell for the event it holds.
  A sale beyond the capacity therefore has a count that differs from the rows. Under READ
  COMMITTED the count is that of the rows, so there the capacity and the limit hold outright. `Solo`: a
  booking that found no pass of its buyer holds the event, so there is none until it draws one
  (`OnePassPerBuyer`). The module further proves `AdmissionsAlwaysAccounted` (`Accounted`: what
  a share takes from one row it puts on the row it draws), `AdmittedNeverExceedsSold`
  (`Kept`: what the passes of an event have left or used sums to what was sold) and
  `PaymentsAlwaysMatch` (`Paid`), all with lemmas on sums over rows (`SumsTheorems`). Three lemmas say once what a committed booking, share and
  check-in write (`BookCommitWrites`, `ShareCommitWrites`, `CheckInCommitWrites`), and `OnlyCommitsWrite` that
  nothing else writes. `RegisterImplemented` puts them together: the initial state maps to a
  register nobody has entered by, a booking to `Sell` by the note of its transaction, a check-in to
  `Enter`, and every other step to a stutter or to a clerk who looks the sales up.
- **WalletsProofs.** `Safe` (types and lock discipline) is inductive; from it follow
  `BalancesExplained`, `RepliesAreExact`, `DebitsUnderPinInForce`, and, with `Settled` (equal
  totals over a finite set of accounts), `TransfersConserveMoney`. `DuesTwiceByRaceAlone`
  bounds finding 2 under either isolation level: whoever is past the check found the month unpaid in
  what its transaction reads (`Checked`), also when another month begins meanwhile; so a month
  paid twice has a second payment whose reading another payment of the account overtook.
- **VisitorGateProofs.** `GateInvariant`: an approved visit has an approval left, a
  checked-in one an exit left; logs belong to existing passes that are not active
  single-entry passes; and a request that saw an active single-entry pass saw no log.
  The last is why only overlapping requests can re-enter. The late decision of finding 3
  is why entries are counted against approvals rather than forbidden after the first.
- **AccountAccessProofs.** `AccessInvariant`: types, which rows belong to which account, one
  live link, codes that match accounts and requests, and what an open request knows
  (`Knows`): an account found active is so still, and one found waiting to be claimed has a
  wallet if another request has claimed it since. Then the duplicate wallet key fails the
  second claim, which would else set a password under the sessions of the first.
- **AmenityBookingsProofs.** `BookingInv`: a booking past its check found the slot free among the
  bookings of its snapshot, and those stay as they were (`FoundFree`); it holds the wallet's row,
  which carries the payment until it writes, or the gap, in which there is neither a row nor
  another's lock (`WalletHeld`: of several that hold one gap only the last inserts, and it pays by
  UPI); the amounts of an account add up to its transactions. From it `PaymentsAlwaysMatch`,
  `SlotsSharedOnlyByRaces` and, since no row of an amenity is lost, `DeletedAmenitiesStay`. The
  attempt added to `AmenityConstants` that a deleted amenity is a row.
- **AccountAccessProofs**, at its end, for `Memberships`, under names of its own: `MembershipInvariant`: besides `RolesAgree`, two open requests
  concern a common member only if that member is `disturbed` (`Apart`); each decision has
  the shape of its handler (`Shape`); and what it found of a member who is not disturbed
  holds until it writes (`StillFound`). `StepKeeps` does the common part once, so each
  handler only shows that it touches its own members and leaves them in agreement.
- **VisitorGateProofs**, at its end, for the job of `Reminders` (which shares nothing with the gate, its
  names included): `ReminderInvariant`: keys are unique among notifications and uncommitted
  rows (`UniqueKeys`); a notification whose vehicle exists has its delivery row, so a
  deletion, which takes the rows along, opens no way to a second reminder
  (`RowsNameNotices`); what a run has dealt with has its reminder (`DealtWith`), because a
  key is skipped only when its row is committed or the run's own.

- **ServerProofs.** The handlers of all services, one after the other. What a handler may
  write is stated once as a footprint: it leaves a group of tables alone, or it puts one row
  under its own request's key, or it changes a row in named columns. Commits only grow the
  sets of committed and of overlapping requests (`OnGrows`), so an exception that a property
  grants stays granted. From there each result has an invariant of its own:
  - `MemberRowsDiffer`, from `RowsInv`: an open request's snapshot lacks no rows but those of
    requests in `missed`; a row belongs to its key's request and keeps member and thing; a
    request that has not committed has no row. A handler either leaves the five tables' rows
    alone (`Keeps`) or adds one row that its snapshot did not have (`Grows`).
  - `PollsAndEventsAnnouncedOnce`, from `AnnouncedInvariant`: what a notice is
    about is there and published, in the tables and in every snapshot, unless an edit took it
    back; a notice that a snapshot lacks is of a request it missed (`Settled`, `Reads`). So
    whoever announces a thing again overlapped the first or followed such an edit.
  - `ListsMayBeOpened`, from `ProfilesInvariant` (a login is a person's or an employee's; a
    record is in one of the tables the profile lists). The rest compares the filter of each
    list with the authorization of its thing, for every account and row.
  - `SeatsHeld`, from `SeatsInvariant` and `AttendInvariant`. Answers to an event that did not
    race are in every later snapshot, so the count a handler checks is the count it adds to;
    the capacity is in the snapshot what it is in the table unless an edit of the event
    committed. Members who answered to a meeting are of those asked, one answer each, because
    a meeting never changes its association and an association's members are fixed.
  - `ToldMayBeOpened`, from `ToldInvariant`: every row of the seven kinds of things has the columns
    its authorization reads (`AuthorizedBy`), with values a service gives (`Rightful`); a snapshot
    shows each thing as the table has it, or lacks an edit or a deletion by a request in `missed`;
    and whoever a notice or push names may open its thing, unless `ToldBesides` grants it or the
    thing was edited or deleted by another request. A commit keeps this when it keeps its things
    (`ThingsKept`) and tells well (`TellsWell`); each telling handler has a lemma that compares its
    query for recipients with the authorization of the thing (`...Well`). The attempt showed which
    recipients may not open what they are told of; all are in `ToldBesides`: board members told of
    events for "Board Members", which `_audience_role_codes` includes and `event_audiences` does not;
    board and committee members and resident administrators asked or told as participants of a
    service request; managers whose role is not an administrator's; residents of a unit of another
    association than their own; and the receiver of a chat message that the owner of an item begins.
    TLC reaches each.
  - `OnlyWhatWasAsked`, from `AskedInvariant`: a request that missed no commit sees the tables as
    they are, so columns that `update_unit_document` writes back from its snapshot are no change,
    and an UPDATE of the columns that differ from the loaded row (`Changed`) leaves the others. For
    the matrix of a role the attempt corrected the property: of a feature that the request lists
    twice the last line counts (`LastWord`), and only because the unique key refuses the second
    insertion is a new row that line's (`MatrixGrants`). `OpeningAsked` and the keys of `AskedInv` say
    that a new row never takes the place of an old one.
  - `PagesCoverEveryInbox`, from `InboxInvariant` (each notice has a time and a key of its own, so
    the rows of an inbox have one order). A page is given by how many rows are before its last one;
    that such a row exists, that the pages after it are those of the rest of the inbox, and that
    the walk a client makes ends, are shown for pages of any size and inboxes of any length, along
    `StepByStep`, because the walk is a recursive function.

  Assumptions, all on the opening tables and the shape of bodies: `OpeningRows` (one row per
  member and thing), `OpeningAnnounced` (opening notices are of published things),
  `OpeningRecords`, `OpeningSeats` (opening events have room for their answers), `Payloads`
  (the fields that the schema of an operation requires), `OpeningTold` (opening things have their
  columns, opening notices are of things their recipients may open), `OpeningAsked` (documents, items, bank
  accounts, permissions and features of plans have their columns), `SeatsAtHome` (who sits on a board
  sits on that of the home association: `board_members/service.py` adds no other), `OpeningInbox`
  (opening notices have times and keys of their own) and `Limits` (`notifications/router.py` refuses page sizes below 1).

- **TablesProofs.** What the tables of the community services hold, for any tables and workloads.
  It repeats the frame lemmas of `ServerProofs` (steps, commits, footprints) instead of extending that
  module: the two are about different tables, and tlapm's time grows with what is in scope.
  `Footprints` says once which tables each service may write. From there:
  - `DistributionsMakeUpTheWhole`, from `ReportsInvariant`: every row of a report
    has the cells that its service wrote or that an import read (`RowsWell`), with numbers where the
    columns have numbers. From there `AddUp`: the sums per category and status (`SumByKey`) and per
    bucket make up the total, because a number of days is in exactly one of the buckets
    (`BucketsPartition`, which the inclusive bounds must give), and rounded percentages are off by at
    most half a unit for each slice (`Rounded`, `SharesOfTotal`). The attempt showed what the model had
    left out: an edit through the route of another kind of report is refused, and an import accepts no
    more than 36500 days, the end of the last bucket.
  - `CountsOfPollsStand`, from `VotesInvariant`: a snapshot shows the options of a poll unless it
    missed an edit, and the votes of an account unless it missed a vote of that account or an edit;
    so the rows a vote replaces are all the account has, and in a poll that was not `Disturbed`
    each vote is for an option of the poll, one of each voter where it takes one choice. The sum
    of the options' counts is then the number of votes (`SumOfCounts`).
  - `RowsStayWhole`: what belongs together stays together unless its edits overlapped, the
    conjunction `WholeUnlessRaced` as TLC checks it. Most of it is one argument. `Watched` lists the
    things whose columns or rows are written together (a poll and its options, a mapped request, a
    paid invoice and its payment, a report and its totals, an event's pass settings, a plan and its
    period, a person and the unit, an association and its assessment rules), and for each the operations that
    rewrite them. `TogetherInvariant`: such a thing is whole or two of those operations overlapped on it, and an open
    snapshot shows its columns as they are or has missed one of them. So an edit that missed none validates what it
    then writes; one that did overlaps with what it missed, and the exception holds. Each handler has a lemma that
    it rewrites what it names (`Rewritten`) and leaves the rest (`...Together`). `PlacesInv` adds
    that units stay in their blocks and blocks in their associations.
  - What no overlap can break has invariants of its own. `EditsInvariant`: images, fines and lines of
    balance sheets are deleted by statements over the rows there are, not those of the snapshot, so
    one edit's rows remain. `AmountsInvariant`: an invoice takes lines once, because the unique key
    of a line's order refuses the second set, so its totals are those of its lines to the rounding of
    each (`SumOfRounded`).
  - `CataloguesStayWhole`. `FeaturesInvariant`: the check that refuses a parent within the branch of
    a feature is right as long as it sees the parents there are. It rests on facts about `branch`,
    the closure that `_descendants` computes (`NoLoop`: of two features one is not below the other):
    a new feature has nothing below it, a deleted one is in no branch, and a new parent from
    outside a branch closes no loop. `RolesInvariant`: who gives a role
    and who deletes it each look, so only an overlap leaves a login without one.
  - `PeopleStayWhole`, from `AddressesInvariant`: an edit of a person changes the address of the login with
    it, both by the columns that differ from the snapshot; an edit of the profile changes one of the two,
    and is the only operation that parts them, overlap or not.
  - `InvoicesAreSettled`, from `SettledInvariant`: a request that missed no commit sees the tables there
    are, so that a status is only left as `validate_transition` has it, paid for nothing but paid; and
    a total is no less than nought, as a discount is no more than the lines. Sums of such
    totals grow with their rows (`SumOfFewerRows`). That lines and totals stay once there are lines is `AmountsKept`.

  The attempts corrected the model and a property. In `_validate_primary_homeowners` the conjuncts on
  an owner's line were not aligned, so that the first two, its unit and its primary flag, had become
  hypotheses of the third instead of checks; a workbook with a stray owner's line is now refused.
  `TicketsWhole` asked more of a mapped
  request than the code gives: an edit of a person may leave the resident in a unit of another association,
  and the request then takes the association of either. `PeopleWhole` excused every person when
  any profile was edited; it now excuses the person whose own login did so. `InvoicesSettled` did not hold:
  a paid invoice without lines, from before there were lines, takes an edit that stays paid, and
  its new total may be lower. TLC shows this once the workload has it (a pair of `InvoiceWorkloads`);
  the property now names that case.

  Assumptions: `OpeningReports` (rows of opening reports have their cells), `OpeningVotes` (opening votes
  are for options of their poll), and that the opening tables are whole and have their columns:
  `OpeningWhole`, `OpeningOptions`, `OpeningPlaces`, `OpeningEdits`, `OpeningAmounts`, `OpeningTotals`, `OpeningFeatures`,
  `OpeningRoles`, `OpeningAddresses`. Each of these also says that no opening row has a key that a
  request will draw (keys are uuid4). `Period` and `NewKeys` say that NULL is neither a time nor a new key.

- **SumsTheorems.** Sums over rows: `Total`, the units the rows hold, and `Sum`, the recursive
  function that adds them row by row (the counts of rows per key, over all keys, add up to the
  number of rows: `SumOfCounts`); and three facts about numbers whose library versions take an
  operator: a set of naturals has a least member, a set of numbers up to a bound a greatest, and
  what holds of 0 and passes from each number to the next holds of all (`StepByStep`, of a set of
  numbers instead of a predicate). They follow from `WFMin` of the library. Sums over a sequence do not
  depend on the order of its rows (`Orderless`), so that a sum is split by a key (`SumByKey`), by
  condition (`SumOfPart`, `SumOfMore`) and into amounts (`SumOfPairs`), the sums down the columns of a
  table make those along its rows (`SumOfTable`), amounts rounded one by one are off by half a unit each
  (`SumOfRounded`), and sums of naturals grow with their rows (`SumOfFewerRows`).

Only model-checked: liveness (`EveryRequestEnds`, `EveryRunEnds`), which no installed prover reaches;
of `Server` its type invariant `TypeOK`, `NoDoubleUnlessRaced`, whose tables each need an
inductive invariant over three kinds of overlap, and `WorkbooksAgree`, which compares two readings of a
finite list of workbooks and does not depend on the state.

## 5. Not modelled, and the plan

Left, in this order:

1. Visitors: the address book (`save_visitor` and the lookup by number) and deliveries.
2. Requests to correct a member's details (`update_requests`).
3. Documents: the object store, where an object and its row can part when a request fails
   between them.
4. Status and deadline of an event beside its bookings (`EventPasses` holds both constant).

Theorems to follow: the parts of `NoDoubleUnlessRaced`, display ids and codes first.

Out of scope: the dashboard and nearby places (reads only), mail templates (text), health,
seeds and migrations. They are listed with their reasons in `PROJECT.json`.
