------------------------------- MODULE Events -------------------------------
(* Publishing events, answers to invitations, likes and comments               *)
(* (app/modules/events/service.py). Passes are the subject of EventPasses.     *)
EXTENDS UnitOfWork

CONSTANT NoLimit    \* an event without max_capacity

EVENT_MANAGER_ROLES == {"super_admin", "admin", "board_member"}
EVENT_RSVP_ROLES == RoleCodes \ {"accountant", "security", "csr"}

event_published(status) == status \in {"Published", "published"}

\* Each time it is saved as published.
announces_again(old, new) == event_published(new)

\* An event is announced when it becomes published.
announces(old, new) == ~event_published(old) /\ event_published(new)

event_audiences(role) ==
    CASE role \in {"homeowner", "tenant"} -> {"All", "Homeowners"}
      [] role = "committee_member" -> {"All", "Committee Members"}
      [] OTHER -> {"All"}

\* EventCreateRequest: a pass needs a paid event and a price, its own or the fee. A price
\* of 0 passes with a fee, as none does; the column takes the fee only where there is none.
charge(c) == IF c.price \in {None, 0} THEN c.fee ELSE c.price
validate_pass_settings(c) == c.has_pass => c.is_paid /\ charge(c) > 0
pass_price(c) == IF c.has_pass THEN IF c.price = None THEN c.fee ELSE c.price ELSE None
event_columns(c) == [c EXCEPT !.price = pass_price(c)]

event_get(tables, event) == IsLive(tables.events, event)

_authorized_event(tables, event, account) ==
    /\ event_get(tables, event)
    /\ RoleOf[account] \notin {"super_admin", "admin"} =>
          /\ HomeOf[account] = tables.events[event].association
          /\ tables.events[event].audience \in event_audiences(RoleOf[account])

_manager_event(tables, event, account) ==
    /\ RoleOf[account] \in EVENT_MANAGER_ROLES
    /\ event_get(tables, event)
    /\ _require_association_access(account, tables.events[event].association)

\* What GET /events returns: drafts too, and every audience to the board.
event_list(tables, account) ==
    {e \in Live(tables.events) :
        /\ MayView(account, tables.events[e].association)
        /\ RoleOf[account] \notin {"super_admin", "admin", "board_member"} =>
              tables.events[e].audience \in event_audiences(RoleOf[account])}

\* A row that was taken back is not found again.
rsvp_rows_live(tables, event, account) ==
    {k \in Live(tables.rsvps) : tables.rsvps[k].event = event /\ tables.rsvps[k].by = account}

rsvp_rows(tables, event, account) ==
    {k \in DOMAIN tables.rsvps : tables.rsvps[k].event = event /\ tables.rsvps[k].by = account}

going(tables, event) ==
    {k \in Live(tables.rsvps) : tables.rsvps[k].event = event /\ tables.rsvps[k].status = "going"}
going_count(tables, event) == Cardinality(going(tables, event))

\* Whether an event has no place for one who was not going: and one place too late.
full_after(tables, event) ==
    /\ tables.events[event].capacity # NoLimit
    /\ going_count(tables, event) > tables.events[event].capacity

full(tables, event) ==
    /\ tables.events[event].capacity # NoLimit
    /\ going_count(tables, event) >= tables.events[event].capacity
-----------------------------------------------------------------------------
create_event(r) ==
    LET b == body[r]
        association == IF b.association = None /\ RoleOf[b.by] = "board_member"
                       THEN HomeOf[b.by] ELSE b.association
        row == With(event_columns(b.columns),
                    [association |-> association, created |-> now, deleted |-> FALSE])
    IN  /\ Asks(r, "create_event")
        /\ Decide(r,
             /\ validate_pass_settings(b.columns)
             /\ RoleOf[b.by] \in EVENT_MANAGER_ROLES
             /\ association_exists(seen[r], association)
             /\ _require_association_access(b.by, association)
             /\ b.columns.starts <= b.columns.ends, FALSE,
             [db EXCEPT !.events = With(@, [k \in {r} |-> row]),
                        !.notifications = IF b.notify /\ event_published(row.status)
                                          THEN Notify(@, r, <<"event", r>>,
                                                      Audience(association, row.audience))
                                          ELSE @])

update_event(r) ==
    LET b == body[r]
        old == seen[r].events[b.event]
        new == With(old, event_columns(b.columns))
    IN  /\ Asks(r, "update_event")
        /\ Decide(r,
             /\ validate_pass_settings(b.columns)
             /\ _manager_event(seen[r], b.event, b.by)
             /\ _check_window(b.by, old.created)
             /\ b.columns.starts <= b.columns.ends, FALSE,
             [db EXCEPT !.events = Save(@, seen[r].events, b.event, new),
                        !.notifications = IF b.notify /\ announces(old.status, new.status)
                                          THEN Notify(@, r, <<"event", b.event>>,
                                                      Audience(old.association, new.audience))
                                          ELSE @])

delete_event(r) ==
    LET b == body[r]
    IN  /\ Asks(r, "delete_event")
        /\ Decide(r,
             /\ _manager_event(seen[r], b.event, b.by)
             /\ _check_window(b.by, seen[r].events[b.event].created), FALSE,
             [db EXCEPT !.events = Delete(@, seen[r].events, {b.event})])

\* The places are counted in the snapshot, for who is not going already. An answer has
\* no key of its own: with two rows of the account the query returns either.
rsvp(r) ==
    LET b == body[r]
        tables == seen[r]
        mine == rsvp_rows(tables, b.event, b.by)
        Row == [event |-> b.event, by |-> b.by, status |-> b.status, deleted |-> FALSE]
    IN  /\ Asks(r, "rsvp")
        /\ \E row \in IF mine = {} THEN {r} ELSE mine :
             Decide(r,
               /\ RoleOf[b.by] \in EVENT_RSVP_ROLES
               /\ _authorized_event(tables, b.event, b.by)
               /\ ~(b.status = "going" /\ row \notin going(tables, b.event) /\ full(tables, b.event)), FALSE,
               [db EXCEPT !.rsvps = IF mine = {} THEN With(@, [k \in {r} |-> Row])
                                    ELSE Save(@, tables.rsvps, row, Row)])

clear_rsvp(r) ==
    LET mine == rsvp_rows(seen[r], body[r].event, body[r].by)
    IN  /\ Asks(r, "clear_rsvp")
        /\ IF mine = {} THEN Commit(r, db)
           ELSE \E row \in mine :
                  Commit(r, [db EXCEPT !.rsvps = Delete(@, seen[r].rsvps, {row})])

toggle_event_like(r) ==
    LET mine == <<body[r].event, body[r].by>>
    IN  /\ Asks(r, "like_event")
        /\ Decide(r, _authorized_event(seen[r], body[r].event, body[r].by),
             Taken(db.eventLikes, seen[r].eventLikes, {mine}),
             [db EXCEPT !.eventLikes = Toggle(@, seen[r].eventLikes, mine)])

add_event_comment(r) ==
    LET b == body[r]
    IN  /\ Asks(r, "comment_event")
        /\ Decide(r, _authorized_event(seen[r], b.event, b.by), FALSE,
             [db EXCEPT !.eventComments = With(@, [k \in {r} |-> [event |-> b.event, by |-> b.by]])])

EventStep(r) ==
    \/ create_event(r) \/ update_event(r) \/ delete_event(r)
    \/ rsvp(r) \/ clear_rsvp(r) \/ toggle_event_like(r) \/ add_event_comment(r)
-----------------------------------------------------------------------------
EventRow == [title : STRING, audience : STRING, status : STRING, starts : Nat, ends : Nat,
             capacity : Nat \cup {NoLimit}, is_paid : BOOLEAN, has_pass : BOOLEAN,
             fee : Nat, price : Nat \cup {None},
             association : DOMAIN db.associations, created : Nat, deleted : BOOLEAN]

EventsTypeOK ==
    /\ \A e \in DOMAIN db.events : db.events[e] \in EventRow
    /\ \A k \in DOMAIN db.rsvps :
          /\ db.rsvps[k].event \in DOMAIN db.events
          /\ db.rsvps[k].status \in {"going", "maybe", "not_going"}
=============================================================================
