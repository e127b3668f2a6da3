--------------------------- MODULE ServiceRequests ---------------------------
(* Tickets of residents, their status, their assignment to a unit and the       *)
(* message thread of each (app/modules/service_requests).                     *)
EXTENDS UnitOfWork

CONSTANT
    DisplayName     \* of a resident's account: initials of the association, block and unit number as
                    \* _display_segment leaves them, which accounts of two units may have in common

ADMIN_ROLE_CODES == {"super_admin", "admin"}
ServiceStatuses == {"New", "In Progress", "Complete", "Cancel"}

\* Administrators manage theirs, a super administrator all.
_require_admin_association(account, association) ==
    /\ RoleOf[account] \in ADMIN_ROLE_CODES
    /\ RoleOf[account] = "admin" => association \in Manages[account]

\* resident_context: the account has a row in user_details
IsResident(account) == account \in Accounts /\ HomeOf[account] # None

_resident_can_access(request, account) ==
    \/ request.user = account
    \/ /\ UnitOf[account] # None
       /\ request.unit = UnitOf[account] /\ request.association = HomeOf[account]

_authorized_request(tables, key, account) ==
    /\ IsLive(tables.serviceRequests, key)
    /\ LET request == tables.serviceRequests[key]
       IN  CASE RoleOf[account] = "super_admin" -> TRUE
             [] RoleOf[account] = "admin" ->
                  request.association = None \/ request.association \in Manages[account]
             [] RoleOf[account] = "security" ->
                  HomeOf[account] # None /\ request.association = HomeOf[account]
             [] OTHER -> _resident_can_access(request, account)

\* What GET /service-requests returns.
service_list(tables, account) ==
    {k \in Live(tables.serviceRequests) :
        LET request == tables.serviceRequests[k]
        IN  CASE RoleOf[account] = "super_admin" -> TRUE
              [] RoleOf[account] = "admin" -> request.association \in Manages[account] \cup {None}
              [] RoleOf[account] = "security" ->
                   request.association \in {HomeOf[account]} \ {None}
              [] OTHER -> \/ request.user = account
                          \/ /\ UnitOf[account] # None
                             /\ <<request.unit, request.association>>
                                  = <<UnitOf[account], HomeOf[account]>>}

AdminsOf(association) == {a \in Accounts : association \in Manages[a]}

\* Who gets the frame of a message.
participant_account_ids(request) ==
    {a \in Accounts :
        \/ request.user = a /\ IsResident(a)
        \/ /\ request.unit # None /\ request.association # None
           /\ UnitOf[a] = request.unit /\ HomeOf[a] = request.association
        \/ request.association # None /\
             \/ request.association \in Manages[a]
             \/ /\ RoleOf[a] \in {"security", "board_member", "committee_member"}
                /\ HomeOf[a] = request.association
        \/ RoleOf[a] = "super_admin"}

\* One more than the requests the unit has, or than all without a unit.
next_display_sequence(tables, unit) ==
    1 + Cardinality({k \in DOMAIN tables.serviceRequests :
                        unit = None \/ tables.serviceRequests[k].unit = unit})

_display_id(tables, user) == <<DisplayName[user], next_display_sequence(tables, UnitOf[user])>>
-----------------------------------------------------------------------------
\* user # None: an administrator files it for a resident. Only an administrator's
\* association is compared.
create_service_request(r) ==
    LET b == body[r]
        is_admin == RoleOf[b.by] \in ADMIN_ROLE_CODES
        user == IF b.user # None THEN b.user ELSE b.by
        row == [user |-> user, association |-> HomeOf[user], unit |-> UnitOf[user],
                display |-> _display_id(seen[r], user),
                status |-> IF b.user # None THEN "In Progress" ELSE "New", deleted |-> FALSE]
        about == <<"request", r>>
    IN  /\ Asks(r, "create_service")
        /\ Decide(r,
             /\ b.user # None => is_admin
             /\ IsResident(user)
             /\ is_admin => /\ _require_admin_association(b.by, HomeOf[user])
                            /\ b.association \in {None, HomeOf[user]}, FALSE,
             [db EXCEPT !.serviceRequests = With(@, [k \in {r} |-> row]),
                        !.notifications = NotifyAll(@, r, about,
                             IF b.user # None THEN {user} ELSE AdminsOf(HomeOf[user]))])

update_service_status(r) ==
    LET b == body[r]
        old == seen[r].serviceRequests[b.request]
    IN  /\ Asks(r, "service_status")
        /\ Decide(r,
             /\ RoleOf[b.by] \in ADMIN_ROLE_CODES
             /\ _authorized_request(seen[r], b.request, b.by), FALSE,
             [db EXCEPT !.serviceRequests = Save(@, seen[r].serviceRequests, b.request,
                                                 [old EXCEPT !.status = b.status]),
                        !.notifications = NotifyAll(@, r, <<"request", b.request>>,
                                                 {a \in {old.user} : IsResident(a)})])

\* map: the old association is not asked for.
map_service_request(r) ==
    LET b == body[r]
        old == seen[r].serviceRequests[b.request]
    IN  /\ Asks(r, "map_service")
        /\ Decide(r,
             /\ IsLive(seen[r].serviceRequests, b.request)
             /\ _require_admin_association(b.by, b.association)
             /\ UnitHome[b.unit] = b.association
             /\ IsResident(b.user) /\ UnitOf[b.user] = b.unit, FALSE,
             [db EXCEPT !.serviceRequests = Save(@, seen[r].serviceRequests, b.request,
                           [old EXCEPT !.association = b.association, !.unit = b.unit,
                                       !.user = b.user]),
                        !.notifications = NotifyAll(@, r, <<"request", b.request>>, {b.user})])

delete_service_request(r) ==
    /\ Asks(r, "delete_service")
    /\ Decide(r,
         /\ RoleOf[body[r].by] \in ADMIN_ROLE_CODES
         /\ _authorized_request(seen[r], body[r].request, body[r].by), FALSE,
         [db EXCEPT !.serviceRequests = Delete(@, seen[r].serviceRequests, {body[r].request})])

send_service_message(r) ==
    LET b == body[r]
        request == seen[r].serviceRequests[b.request]
        resident == {a \in {request.user} : IsResident(a)}
        to == CASE resident # {b.by} -> resident
                [] resident = {b.by} /\ request.association # None -> AdminsOf(request.association)
                [] OTHER -> {}
    IN  /\ Asks(r, "service_message")
        /\ Decide(r, _authorized_request(seen[r], b.request, b.by), FALSE,
             [db EXCEPT !.serviceMessages = With(@, [k \in {r} |->
                                                    [request |-> b.request, by |-> b.by]]),
                        !.frames = @ \cup {Message(r, <<"request", b.request, "message">>, participant_account_ids(request))},
                        !.notifications = NotifyAll(@, r, <<"request", b.request>>, to)])

ServiceStep(r) ==
    \/ create_service_request(r) \/ update_service_status(r) \/ map_service_request(r)
    \/ delete_service_request(r) \/ send_service_message(r)
-----------------------------------------------------------------------------
ServiceTypeOK ==
    \A k \in DOMAIN db.serviceRequests :
        LET request == db.serviceRequests[k]
        IN  /\ request.user \in Accounts \cup {None}
            /\ request.association \in DOMAIN db.associations \cup {None}
            /\ request.status \in ServiceStatuses
            /\ request.display[2] \in Nat \ {0}
=============================================================================
