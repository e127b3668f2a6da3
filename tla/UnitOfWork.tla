---------------------------- MODULE UnitOfWork ----------------------------
(* A request over the shared tables: app/db/session.py, app/db/unit_of_work.py *)
(* and the authentication query of app/core/dependencies.py, with the inbox     *)
(* rows a request adds and the pushes it sends once it has committed            *)
(* (app/modules/notifications/service.py, app/core/realtime.py).                *)
(*                                                                           *)
(* The first SELECT fixes the snapshot (REPEATABLE READ); the session does not  *)
(* flush before a SELECT, so a handler decides on the snapshot alone. What it   *)
(* writes becomes visible when it commits. Keys of new rows are the request's,  *)
(* as uuid4 keys are nobody else's.                                          *)
EXTENDS Integers, FiniteSets, Sequences, Sums

CONSTANTS
    Workloads,      \* functions from requests to bodies: requests that may come together
    OpeningTables,  \* the tables before the first request
    LastTime,       \* bounds the clock
    EditWindow,     \* how long a board member may edit what was posted
    Accounts, RoleOf, HomeOf, Manages,
                    \* accounts.role, the member's association, admin_associations
    SeatsOf,        \* the associations whose board an account is an active member of
    UnitOf,         \* the member's unit or None
    UnitHome,       \* the association of a unit, through its block
    Browsers,       \* accounts that open a socket
    Timed, Pushing, \* kinds of requests beside which the clock goes on and sockets open
    None

VARIABLES
    db,             \* the committed tables, by name
    now,
    stage,          \* how far a request has come
    body,           \* what it asks for
    seen,           \* its snapshot while it is open
    missed,         \* history: the requests whose commits its snapshot did not show
    sockets,        \* accounts with an open socket
    pushed          \* history: <<notice, account>> pairs sent over a socket

vars == <<db, now, stage, body, seen, missed, sockets, pushed>>

Requests == DOMAIN body

RoleCodes == {"super_admin", "admin", "accountant", "board_member", "committee_member",
              "homeowner", "tenant", "security", "csr"}

ASSUME Directory ==
    /\ RoleOf \in [Accounts -> RoleCodes]
    /\ LastTime \in Nat
    /\ EditWindow \in Nat

Init ==
    /\ db = OpeningTables
    /\ now = 0
    /\ body \in Workloads
    /\ stage = [r \in Requests |-> "waiting"]
    /\ seen = [r \in Requests |-> None]
    /\ missed = [r \in Requests |-> {}]
    /\ sockets = {}
    /\ pushed = {}

\* The authentication query.
Begin(r) ==
    /\ stage[r] = "waiting"
    /\ stage' = [stage EXCEPT ![r] = "open"]
    /\ seen' = [seen EXCEPT ![r] = db]
    /\ UNCHANGED <<db, now, body, missed, sockets, pushed>>

Some(kinds) == \E r \in Requests : body[r].op \in kinds

Asks(r, op) == stage[r] = "open" /\ body[r].op = op

\* What r sends once it has committed: its notices to their recipients, and the frame
\* its router addresses.
Deliveries(tables, r) ==
    {d \in (tables.notifications \cup tables.frames) \X Accounts : d[1].by = r /\ d[2] \in d[1].to}

Ends(r, how) ==
    /\ stage[r] = "open"
    /\ stage' = [stage EXCEPT ![r] = how]
    /\ seen' = [seen EXCEPT ![r] = None]
    /\ UNCHANGED <<now, body, sockets, pushed>>

Commit(r, tables) ==
    /\ Ends(r, IF Deliveries(tables, r) = {} THEN "answered" ELSE "committed")
    /\ db' = tables
    /\ missed' = [q \in Requests |-> IF stage[q] = "open" /\ q # r THEN missed[q] \cup {r}
                                     ELSE missed[q]]

\* An HTTPException: UnitOfWork rolls back.
Refuse(r) == Ends(r, "refused") /\ UNCHANGED <<db, missed>>

\* A duplicate key, a failed constraint, a deadlock victim, a lost connection.
Abort(r) == Ends(r, "aborted") /\ UNCHANGED <<db, missed>>

\* How a handler ends: its checks pass on the snapshot, its writes meet the keys of
\* the committed rows.
Decide(r, allowed, duplicate, tables) ==
    \/ allowed /\ ~duplicate /\ Commit(r, tables)
    \/ allowed /\ duplicate /\ Abort(r)
    \/ ~allowed /\ Refuse(r)

Overlapped(r, q) == q \in missed[r] \/ r \in missed[q]

Committed(r) == stage[r] \in {"committed", "answered", "lost"}
-----------------------------------------------------------------------------
(* Writing rows *)

\* INSERT into a table that is a function of its keys.
With(table, rows) ==
    [k \in DOMAIN table \cup DOMAIN rows |-> IF k \in DOMAIN rows THEN rows[k] ELSE table[k]]

\* UPDATE by primary key: the flush sends the columns that differ from what was loaded.
Changed(row, loaded, wanted) ==
    [f \in DOMAIN row |-> IF wanted[f] # loaded[f] THEN wanted[f] ELSE row[f]]

Save(table, loaded, k, wanted) == [table EXCEPT ![k] = Changed(@, loaded[k], wanted)]

\* The same for one column of a set of rows.
Mark(table, loaded, deleted) ==
    [k \in DOMAIN table |->
       IF k \in DOMAIN deleted /\ loaded[k].deleted # deleted[k]
       THEN [table[k] EXCEPT !.deleted = deleted[k]] ELSE table[k]]

Delete(table, loaded, keys) == Mark(table, loaded, [k \in keys |-> TRUE])

IsLive(table, k) == k \in DOMAIN table /\ ~table[k].deleted

Live(table) == {k \in DOMAIN table : IsLive(table, k)}

\* INSERT by a primary key that is not the request's own: another request may have
\* taken it since.
Taken(table, loaded, keys) == (keys \ DOMAIN loaded) \cap DOMAIN table # {}

\* A like: the row is inserted once and its flag turned from then on.
Toggle(table, loaded, k) ==
    IF k \in DOMAIN loaded THEN Mark(table, loaded, [x \in {k} |-> ~loaded[k].deleted])
    ELSE With(table, [x \in {k} |-> [deleted |-> FALSE]])
-----------------------------------------------------------------------------
(* Who may do what *)

association_exists(tables, association) == IsLive(tables.associations, association)

\* The association of a board member, the associations of an administrator, any for
\* a super administrator.
_require_association_access(account, association) ==
    CASE RoleOf[account] = "super_admin" -> TRUE
      [] RoleOf[account] = "admin" -> association \in Manages[account]
      [] RoleOf[account] = "board_member" -> association = HomeOf[account]
      [] OTHER -> FALSE

MayView(account, association) ==
    CASE RoleOf[account] = "super_admin" -> TRUE
      [] RoleOf[account] = "admin" -> association \in Manages[account]
      [] OTHER -> association = HomeOf[account]

_check_window(account, created) ==
    RoleOf[account] = "board_member" => now - created <= EditWindow
-----------------------------------------------------------------------------
(* Notices and pushes *)

Message(r, about, to) == [by |-> r, about |-> about, to |-> to \cap Accounts, at |-> now]

\* notify_accounts: one payload, one inbox row for each account there is.
NotifyAll(notifications, r, about, to) ==
    notifications \cup {m \in {Message(r, about, to)} : m.to # {}}

\* The same where the caller passes the sender, who is left out.
Notify(notifications, r, about, to) == NotifyAll(notifications, r, about, to \ {body[r].by})

_audience_role_codes(audience) ==
    CASE audience = "All" -> {"homeowner", "tenant", "board_member", "committee_member"}
      [] audience = "Homeowners" -> {"homeowner", "tenant"}
      [] audience = "Committee Members" -> {"committee_member"}
      [] audience = "Board Members" -> {"board_member"}
      [] OTHER -> {}

\* The audience of every association.
AudienceAnywhere(association, audience) ==
    {a \in Accounts : UnitOf[a] # None /\ RoleOf[a] \in _audience_role_codes(audience)}

\* notify_association_audience
Audience(association, audience) ==
    {a \in Accounts : /\ UnitOf[a] # None /\ UnitHome[UnitOf[a]] = association
                      /\ RoleOf[a] \in _audience_role_codes(audience)}

\* publish_pending_notifications: after the commit, over the sockets open by then.
Publish(r) ==
    /\ stage[r] = "committed"
    /\ stage' = [stage EXCEPT ![r] = "answered"]
    /\ pushed' = pushed \cup {d \in Deliveries(db, r) : d[2] \in sockets}
    /\ UNCHANGED <<db, now, body, seen, missed, sockets>>

\* The worker stops between the commit and the last push; its sockets close.
WorkerStops(r) ==
    /\ stage[r] = "committed"
    /\ stage' = [stage EXCEPT ![r] = "lost"]
    /\ \E sent \in SUBSET {d \in Deliveries(db, r) : d[2] \in sockets} : pushed' = pushed \cup sent
    /\ sockets' = {}
    /\ UNCHANGED <<db, now, body, seen, missed>>

\* WebSocketManager.connect and disconnect
Connect(a) ==
    /\ a \notin sockets /\ Some(Pushing)
    /\ sockets' = sockets \cup {a}
    /\ UNCHANGED <<db, now, stage, body, seen, missed, pushed>>

Disconnect(a) ==
    /\ a \in sockets
    /\ sockets' = sockets \ {a}
    /\ UNCHANGED <<db, now, stage, body, seen, missed, pushed>>

Tick ==
    /\ now < LastTime /\ Some(Timed)
    /\ now' = now + 1
    /\ UNCHANGED <<db, stage, body, seen, missed, sockets, pushed>>
=============================================================================
