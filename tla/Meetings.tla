------------------------------ MODULE Meetings ------------------------------
(* Meetings of an association, who is invited and who answers                  *)
(* (app/modules/meetings).                                                   *)
EXTENDS UnitOfWork

CONSTANTS
    BlockOf,    \* the block of a unit
    DayAhead    \* 24 hours of the clock: editing and answers end so long before a meeting

MEETING_EDITOR_ROLES == {"super_admin", "admin"}
MEETING_CREATOR_ROLES == {"super_admin", "admin", "board_member"}
MEETING_RSVP_ROLES == {"board_member", "committee_member", "homeowner", "tenant"}
MeetingAudiences == {"Board Members", "Committee Member", "Homeowner"}

\* member_context: the association and the block of the member's unit
meeting_home(account) == IF UnitOf[account] = None THEN None ELSE UnitHome[UnitOf[account]]
meeting_block(account) == IF UnitOf[account] = None THEN None ELSE BlockOf[UnitOf[account]]

block_belongs(block, association) ==
    \E u \in DOMAIN UnitHome : BlockOf[u] = block /\ UnitHome[u] = association

organizer_belongs(account, association) ==
    /\ account \in Accounts
    /\ CASE RoleOf[account] = "super_admin" -> TRUE
         [] RoleOf[account] = "admin" -> association \in Manages[account]
         [] RoleOf[account] = "board_member" -> meeting_home(account) = association
         [] OTHER -> FALSE

_require_create_access(account, association) ==
    CASE RoleOf[account] = "super_admin" -> TRUE
      [] RoleOf[account] = "admin" -> association \in Manages[account]
      [] RoleOf[account] = "board_member" -> association = meeting_home(account)
      [] OTHER -> FALSE

meeting_get(tables, meeting) == IsLive(tables.meetings, meeting)

\* What GET /meetings returns: all of their associations to managers and to the board,
\* to others what is addressed to them and to their block.
meeting_list(tables, account) ==
    {m \in Live(tables.meetings) :
        LET meeting == tables.meetings[m]
            for_me == \/ RoleOf[account] = "board_member"
                      \/ /\ meeting.audience = IF RoleOf[account] = "committee_member"
                                               THEN "Committee Member" ELSE "Homeowner"
                         /\ meeting.block \in {None, meeting_block(account)}
        IN  /\ association_exists(tables, meeting.association)
            /\ CASE RoleOf[account] = "super_admin" -> TRUE
                 [] RoleOf[account] \in {"admin", "accountant"} -> meeting.association \in Manages[account]
                 [] RoleOf[account] \in MEETING_RSVP_ROLES ->
                      meeting.association = meeting_home(account) /\ for_me
                 [] OTHER -> FALSE}

\* notify_association_audience with a target block
invited(meeting) ==
    {a \in Audience(meeting.association,
                    CASE meeting.audience = "Homeowner" -> "Homeowners"
                      [] meeting.audience = "Committee Member" -> "Committee Members"
                      [] OTHER -> meeting.audience) : meeting.block \in {None, meeting_block(a)}}

\* attendance_stats of the list: answers given and accounts that gave none
answers(tables, meeting, status) ==
    Cardinality({k \in DOMAIN tables.attendance : tables.attendance[k].meeting = meeting
                                                  /\ tables.attendance[k].status = status})
_eligible_count(association) == Cardinality(Audience(association, "All"))
-----------------------------------------------------------------------------
create_meeting(r) ==
    LET b == body[r]
        association == IF b.association = None /\ RoleOf[b.by] = "board_member"
                       THEN meeting_home(b.by) ELSE b.association
        meeting == With(b.columns, [association |-> association, created |-> now, minutes |-> None,
                                    status |-> "Scheduled", deleted |-> FALSE])
    IN  /\ Asks(r, "create_meeting")
        /\ Decide(r,
             /\ RoleOf[b.by] \in MEETING_CREATOR_ROLES
             /\ association_exists(seen[r], association)
             /\ _require_create_access(b.by, association)
             /\ b.columns.block # None => block_belongs(b.columns.block, association)
             /\ organizer_belongs(b.columns.organizer, association), FALSE,
             [db EXCEPT !.meetings = With(@, [k \in {r} |-> meeting]),
                        !.notifications = Notify(@, r, <<"meeting", r>>, invited(meeting))])

\* An administrator edits, closes and deletes meetings of any association.
update_details(r) ==
    LET b == body[r]
        old == seen[r].meetings[b.meeting]
    IN  /\ Asks(r, "update_meeting")
        /\ Decide(r,
             /\ RoleOf[b.by] \in MEETING_EDITOR_ROLES
             /\ meeting_get(seen[r], b.meeting)
             /\ old.at - now >= DayAhead
             /\ now - old.created <= EditWindow
             /\ b.columns.block # None => block_belongs(b.columns.block, old.association)
             /\ organizer_belongs(b.columns.organizer, old.association), FALSE,
             [db EXCEPT !.meetings = Save(@, seen[r].meetings, b.meeting, With(old, b.columns))])

add_minutes(r) ==
    LET b == body[r]
        old == seen[r].meetings[b.meeting]
    IN  /\ Asks(r, "meeting_minutes")
        /\ Decide(r,
             /\ RoleOf[b.by] \in MEETING_EDITOR_ROLES
             /\ meeting_get(seen[r], b.meeting), FALSE,
             [db EXCEPT !.meetings = Save(@, seen[r].meetings, b.meeting,
                           [old EXCEPT !.minutes = b.minutes, !.status = "Completed"])])

delete_meeting(r) ==
    /\ Asks(r, "delete_meeting")
    /\ Decide(r,
         /\ RoleOf[body[r].by] \in MEETING_EDITOR_ROLES
         /\ meeting_get(seen[r], body[r].meeting), FALSE,
         [db EXCEPT !.meetings = Delete(@, seen[r].meetings, {body[r].meeting})])

\* Answered from outside the audience too; completed meetings are not asked about.
update_attendance(r) ==
    LET b == body[r]
        loaded == seen[r].attendance
        mine == {k \in DOMAIN loaded : loaded[k].meeting = b.meeting /\ loaded[k].by = b.by}
        Row == [meeting |-> b.meeting, by |-> b.by, status |-> b.status]
    IN  /\ Asks(r, "attend_meeting")
        /\ \E k \in IF mine = {} THEN {r} ELSE mine :
             Decide(r,
               /\ RoleOf[b.by] \in MEETING_RSVP_ROLES
               /\ b.status \in {"Yes", "No", "Maybe"}
               /\ meeting_get(seen[r], b.meeting)
               /\ meeting_home(b.by) = seen[r].meetings[b.meeting].association
               /\ seen[r].meetings[b.meeting].at - now >= DayAhead, FALSE,
               [db EXCEPT !.attendance = IF mine = {} THEN With(@, [x \in {r} |-> Row])
                                         ELSE Save(@, loaded, k, Row)])

MeetingStep(r) ==
    \/ create_meeting(r) \/ update_details(r) \/ add_minutes(r)
    \/ delete_meeting(r) \/ update_attendance(r)
-----------------------------------------------------------------------------
MeetingsTypeOK ==
    /\ \A m \in DOMAIN db.meetings :
          LET meeting == db.meetings[m]
          IN  /\ meeting.association \in DOMAIN db.associations
              /\ meeting.audience \in MeetingAudiences /\ meeting.at \in Nat
              /\ meeting.organizer \in Accounts /\ meeting.status \in {"Scheduled", "Completed"}
    /\ \A k \in DOMAIN db.attendance : db.attendance[k].meeting \in DOMAIN db.meetings
=============================================================================
