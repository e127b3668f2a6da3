------------------------------- MODULE Inbox -------------------------------
(* The inbox of an account: pages, the unread count and read marks              *)
(* (app/modules/notifications/repository.py and router.py). The marks are SQL    *)
(* UPDATEs: they act on the committed rows, also on those the snapshot misses.  *)
EXTENDS UnitOfWork

\* Rows of notification_recipients of an account; db.read holds those with a read_at.
inbox(tables, account) == {n \in tables.notifications : account \in n.to}
unread(tables, account) == {n \in inbox(tables, account) : <<n, account>> \notin tables.read}
unread_count(tables, account) == Cardinality(unread(tables, account))

CONSTANTS
    IdOrder,            \* the order of the notices' uuid4 keys
    PageSizes           \* the limits a client may give

ASSUME Limits == PageSizes \subseteq Nat \ {0}

\* ORDER BY created_at DESC, id DESC
Later(m, n) == m.at > n.at \/ (m.at = n.at /\ IdOrder[m.by] > IdOrder[n.by])

\* The rows before a cursor that is a time alone.
page_by_time(tables, account, limit, cursor) ==
    LET rows == {n \in inbox(tables, account) : \A c \in cursor : c.at > n.at}
    IN  {n \in rows : Cardinality({m \in rows : Later(m, n)}) < limit}

\* The rows of a page: the latest `limit` of those before the cursor, which is the last row
\* of a page, or none at first.
page(tables, account, limit, cursor) ==
    LET rows == {n \in inbox(tables, account) : \A c \in cursor : Later(c, n)}
    IN  {n \in rows : Cardinality({m \in rows : Later(m, n)}) < limit}

\* The last row of the page, when one more row was found.
next_cursor(tables, account, limit, cursor) ==
    LET shown == page(tables, account, limit, cursor)
        rest == {n \in inbox(tables, account) : \A m \in shown : Later(m, n)}
    IN  IF rest = {} THEN {} ELSE {n \in shown : \A m \in shown \ {n} : Later(m, n)}
-----------------------------------------------------------------------------
mark_read(r) ==
    LET b == body[r]
        row == {n \in unread(db, b.by) : n.by = b.notice}
    IN  /\ Asks(r, "mark_read")
        /\ Decide(r, row # {}, FALSE, [db EXCEPT !.read = @ \cup (row \X {b.by})])

mark_all_read(r) ==
    /\ Asks(r, "mark_all_read")
    /\ Commit(r, [db EXCEPT !.read = @ \cup (inbox(db, body[r].by) \X {body[r].by})])

InboxStep(r) == mark_read(r) \/ mark_all_read(r)
-----------------------------------------------------------------------------
InboxTypeOK ==
    /\ \A n \in db.notifications : n.to \subseteq Accounts /\ n.at \in 0..now
    /\ db.read \subseteq {d \in db.notifications \X Accounts : d[2] \in d[1].to}
=============================================================================
