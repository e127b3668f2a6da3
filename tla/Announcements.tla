---------------------------- MODULE Announcements ----------------------------
(* Announcements, their likes and comments (app/modules/announcements).        *)
EXTENDS UnitOfWork

ANNOUNCEMENT_MANAGER_ROLES == {"super_admin", "admin", "board_member"}

\* What the role may read: the board anything, others what is addressed to them.
_audiences_for_role(role, audience) ==
    CASE role \in {"super_admin", "admin", "board_member"} -> TRUE
      [] role \in {"homeowner", "tenant"} -> audience \in {"All", "Homeowners"}
      [] role = "committee_member" -> audience \in {"All", "Committee Members"}
      [] OTHER -> audience = "All"

announcement_model(tables, announcement) == IsLive(tables.announcements, announcement)

_authorized_announcement(tables, announcement, account) ==
    /\ announcement_model(tables, announcement)
    /\ MayView(account, tables.announcements[announcement].association)
    /\ _audiences_for_role(RoleOf[account], tables.announcements[announcement].audience)

_authorized_manager_announcement(tables, announcement, account) ==
    /\ announcement_model(tables, announcement)
    /\ RoleOf[account] \in ANNOUNCEMENT_MANAGER_ROLES
    /\ MayView(account, tables.announcements[announcement].association)

\* What GET /announcements returns.
announcement_list(tables, account) ==
    {x \in Live(tables.announcements) :
        /\ MayView(account, tables.announcements[x].association)
        /\ _audiences_for_role(RoleOf[account], tables.announcements[x].audience)}

likes_of(tables, announcement, account) ==
    {k \in DOMAIN tables.likes :
        tables.likes[k].announcement = announcement /\ tables.likes[k].by = account}
-----------------------------------------------------------------------------
create_announcement(r) ==
    LET b == body[r]
        association == IF b.association = None /\ RoleOf[b.by] = "board_member"
                       THEN HomeOf[b.by] ELSE b.association
        row == With(b.columns, [association |-> association, created |-> now, deleted |-> FALSE])
    IN  /\ Asks(r, "create_announcement")
        /\ Decide(r,
             /\ RoleOf[b.by] \in ANNOUNCEMENT_MANAGER_ROLES
             /\ association_exists(seen[r], association)
             /\ MayView(b.by, association), FALSE,
             [db EXCEPT !.announcements = With(@, [k \in {r} |-> row]),
                        !.notifications = Notify(@, r, <<"announcement", r>>,
                                                 Audience(association, row.audience))])

update_announcement(r) ==
    LET b == body[r]
        old == seen[r].announcements[b.announcement]
    IN  /\ Asks(r, "update_announcement")
        /\ Decide(r,
             /\ _authorized_manager_announcement(seen[r], b.announcement, b.by)
             /\ _check_window(b.by, old.created), FALSE,
             [db EXCEPT !.announcements = Save(@, seen[r].announcements, b.announcement,
                                               With(old, b.columns))])

delete_announcement(r) ==
    LET b == body[r]
    IN  /\ Asks(r, "delete_announcement")
        /\ Decide(r,
             /\ _authorized_manager_announcement(seen[r], b.announcement, b.by)
             /\ _check_window(b.by, seen[r].announcements[b.announcement].created), FALSE,
             [db EXCEPT !.announcements = Delete(@, seen[r].announcements, {b.announcement})])

\* A like has a key of its own: the query returns any row of the account.
toggle_like(r) ==
    LET b == body[r]
        mine == likes_of(seen[r], b.announcement, b.by)
        Row == [announcement |-> b.announcement, by |-> b.by, deleted |-> FALSE]
    IN  /\ Asks(r, "like_announcement")
        /\ \E like \in IF mine = {} THEN {r} ELSE mine :
             Decide(r, _authorized_announcement(seen[r], b.announcement, b.by), FALSE,
               [db EXCEPT !.likes = IF mine = {} THEN With(@, [k \in {r} |-> Row])
                                    ELSE Toggle(@, seen[r].likes, like)])

add_announcement_comment(r) ==
    LET b == body[r]
    IN  /\ Asks(r, "comment_announcement")
        /\ Decide(r, _authorized_announcement(seen[r], b.announcement, b.by), FALSE,
             [db EXCEPT !.announcementComments =
                  With(@, [k \in {r} |-> [announcement |-> b.announcement, by |-> b.by]])])

AnnouncementStep(r) ==
    \/ create_announcement(r) \/ update_announcement(r) \/ delete_announcement(r)
    \/ toggle_like(r) \/ add_announcement_comment(r)
-----------------------------------------------------------------------------
AnnouncementRow == [title : STRING, audience : STRING, pinned : BOOLEAN,
                    association : DOMAIN db.associations, created : Nat, deleted : BOOLEAN]

AnnouncementsTypeOK ==
    /\ \A x \in DOMAIN db.announcements : db.announcements[x] \in AnnouncementRow
    /\ \A k \in DOMAIN db.likes : db.likes[k].announcement \in DOMAIN db.announcements
=============================================================================
