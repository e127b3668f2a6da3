----------------------------- MODULE Onboarding -----------------------------
(* An association with its units and people from one workbook, its settings and    *)
(* its subscription (app/modules/associations). A cell is a string, "" where it    *)
(* is blank; the city of a workbook and a day are keys and numbers.               *)
EXTENDS Directory

TermDays == 365
-----------------------------------------------------------------------------
(* What a workbook says *)

blank(cell) == cell = ""
named(row) == ~blank(row.block) /\ ~blank(row.number)
unit_rows(b) == {i \in DOMAIN b.units : named(b.units[i])}
unit_key(row) == <<row.block, row.number>>
unit_keys(b) == {unit_key(b.units[i]) : i \in unit_rows(b)}

\* The last row of a number in a block; unit_map of the code.
unit_row(b, key) == Sets!Max({i \in unit_rows(b) : unit_key(b.units[i]) = key})

\* The unit count of the preview.
workbook_metrics(b) == Cardinality({<<b.units[i].block, b.units[i].floor, b.units[i].number>> : i \in unit_rows(b)})

_validate_unit_structure(tables, b) ==
    \/ tables.entityTypes[tables.entities[b.entity].type].name = "condominium"
    \/ \A i \in DOMAIN b.units : blank(b.units[i].floor)

_validate_primary_homeowners(b) ==
    /\ \A j \in DOMAIN b.owners : /\ unit_key(b.owners[j]) \in unit_keys(b)
                                  /\ b.owners[j].primary \in {"yes", "no"}
                                  /\ b.owners[j].primary = "yes" => ~blank(b.owners[j].email)
    /\ \A key \in unit_keys(b) :
          Cardinality({j \in DOMAIN b.owners : /\ unit_key(b.owners[j]) = key
                                               /\ b.owners[j].primary = "yes"}) = 1

\* The people of the workbook: its owners, and the tenants named with an address.
rented_out(b) == {j \in DOMAIN b.owners : b.owners[j].rented = "yes"}
home(r, j) == <<r, unit_row(body[r], unit_key(body[r].owners[j]))>>
resident(r, j, email, phone, code) ==
    [email |-> email, phone |-> phone, role |-> CHOOSE k \in role_with(seen[r], code) : TRUE, association |-> r, unit |-> home(r, j),
     code |-> "active", deleted |-> FALSE]

imported_people(r) ==
    LET owners == body[r].owners
        tenants == {j \in rented_out(body[r]) : ~blank(owners[j].tenant_email)}
    IN  With([k \in {<<r, "owner", j>> : j \in DOMAIN owners} |->
                resident(r, k[3], owners[k[3]].email, owners[k[3]].phone, "homeowner")],
             [k \in {<<r, "tenant", j>> : j \in tenants} |->
                resident(r, k[3], owners[k[3]].tenant_email, owners[k[3]].tenant_phone, "tenant")])

_validate_workbook_contacts(tables, people) ==
    \A p \in DOMAIN people :
        LET email == people[p].email
            phone == people[p].phone
        IN  /\ ~blank(email) => /\ ~employee_email_exists(tables, email)
                                /\ \A q \in DOMAIN people \ {p} : people[q].email # email
            /\ ~phone_exists(tables, phone, None)
            /\ ~blank(phone) => \A q \in DOMAIN people \ {p} : people[q].phone # phone

\* The owner a row of the board names: of that name, in the unit named if one lives there,
\* else the only one.
board_member(b, i) ==
    LET row == b.board[i]
        named_so == {j \in DOMAIN b.owners : b.owners[j].name = row.name}
        there == {j \in named_so : unit_key(b.owners[j]) = unit_key(row)}
    IN  CASE there # {} -> Sets!Min(there)
          [] there = {} /\ Cardinality(named_so) = 1 -> CHOOSE j \in named_so : TRUE
          [] OTHER -> None

board_rows(tables, b) ==
    IF role_with(tables, "board_member") # {} THEN {i \in DOMAIN b.board : board_member(b, i) # None} ELSE {}

plan_usable(tables, plan) == IsLive(tables.plans, plan) /\ tables.plans[plan].active
-----------------------------------------------------------------------------
\* One unit for each row, however often it names one; people live in the last of them.
\* A board member gets a login that registration will activate, under the address of the
\* workbook, blank or not.
onboard(r) ==
    LET b == body[r]
        people == imported_people(r)
        trial == IF b.plan = None THEN 0 ELSE seen[r].plans[b.plan].trial
        association == [plan |-> b.plan, status |-> "Active", payment |-> None,
                        start |-> IF b.plan = None THEN None ELSE now,
                        end |-> IF trial = 0 THEN None ELSE now + trial, end_date |-> None,
                        deleted |-> FALSE]
        unit(i) == [block |-> <<r, b.units[i].block>>, number |-> b.units[i].number,
                    floor |-> b.units[i].floor,
                    rented |-> \E j \in rented_out(b) : home(r, j) = <<r, i>>]
        members == {board_member(b, i) : i \in board_rows(seen[r], b)}
        login(j) == [person |-> <<r, "owner", j>>, employee |-> None, email |-> b.owners[j].email,
                     role |-> CHOOSE k \in role_with(seen[r], "board_member") : TRUE, manages |-> {}, active |-> FALSE]
    IN  /\ Asks(r, "onboard")
        /\ Decide(r,
             /\ RoleOf[b.by] \in DIRECTORY_ROLES
             /\ IsLive(seen[r].entities, b.entity)
             /\ b.plan # None => plan_usable(seen[r], b.plan)
             /\ _validate_unit_structure(seen[r], b)
             /\ _validate_primary_homeowners(b)
             /\ _validate_workbook_contacts(seen[r], people)
             /\ b.city \in seen[r].cities
             /\ role_with(seen[r], "homeowner") # {} /\ role_with(seen[r], "tenant") # {},
             \/ \E j \in members : email_taken(db, None, b.owners[j].email)
             \/ \E j, k \in members : j # k /\ b.owners[j].email = b.owners[k].email,
             [db EXCEPT !.associations = With(@, [k \in {r} |-> association]),
                        !.blocks = With(@, [k \in {<<r, key[1]>> : key \in unit_keys(b)} |->
                                              [association |-> r, name |-> k[2]]]),
                        !.units = With(@, [k \in {<<r, i>> : i \in unit_rows(b)} |-> unit(k[2])]),
                        !.people = With(@, people),
                        !.logins = With(@, [k \in {<<r, "login", j>> : j \in members} |-> login(k[3])]),
                        !.boardTerms = With(@, [k \in {<<r, i>> : i \in board_rows(seen[r], b)} |->
                                                  [login |-> <<r, "login", board_member(b, k[2])>>,
                                                   association |-> r, ends |-> now + TermDays]])])
-----------------------------------------------------------------------------
_require_settings_access(account, association) ==
    \/ RoleOf[account] = "super_admin"
    \/ RoleOf[account] = "admin" /\ association \in Manages[account]

rules_of(table, association) == {k \in DOMAIN table : table[k].association = association}

\* Statements of their own for each part, on the rows there are; whether there is a rule
\* to update is read from the snapshot.
update_settings(r) ==
    LET b == body[r]
        old == rules_of(db.assessmentRules, b.association)
        rule == [association |-> b.association, amount |-> b.assessment]
        rules == IF rules_of(seen[r].assessmentRules, b.association) # {}
                 THEN With(db.assessmentRules, [k \in old |-> rule])
                 ELSE With(db.assessmentRules, [k \in {r} |-> rule])
        fines == With([k \in DOMAIN db.fineRules \ rules_of(db.fineRules, b.association) |-> db.fineRules[k]],
                      [k \in {<<r, i>> : i \in DOMAIN b.fines} |->
                         [association |-> b.association, type |-> b.fines[k[2]]]])
    IN  /\ Asks(r, "update_settings")
        /\ Decide(r, /\ _require_settings_access(b.by, b.association)
                     /\ association_exists(seen[r], b.association), FALSE,
             [db EXCEPT !.associations[b.association].end_date = IF b.names_end THEN b.end_date ELSE @,
                        !.assessmentRules = IF b.assessment = None THEN @ ELSE rules,
                        !.fineRules = IF b.names_fines THEN fines ELSE @])

\* Of a deleted association too.
set_unit_occupancy(r) ==
    LET b == body[r]
    IN  /\ Asks(r, "unit_occupancy")
        /\ Decide(r, /\ _require_settings_access(b.by, b.association)
                     /\ b.home \in units_of(db, b.association), FALSE,
             [db EXCEPT !.units[b.home].rented = b.rented])

\* What the request leaves out is cleared; a plan fills in its period again, or makes the
\* association active.
update_subscription(r) ==
    LET b == body[r]
        old == seen[r].associations[b.association]
        asked == [old EXCEPT !.plan = b.plan, !.status = b.status, !.payment = b.payment,
                             !.start = b.start, !.end = b.end]
        start == Given(b.start, now)
        trial == seen[r].plans[b.plan].trial
        new == CASE b.plan = None -> asked
                 [] b.plan # None /\ trial > 0 /\ b.payment # "Paid" ->
                       [asked EXCEPT !.start = start, !.end = Given(@, start + trial)]
                 [] OTHER -> [asked EXCEPT !.start = start,
                                           !.status = IF @ = "Inactive" THEN @ ELSE "Active"]
    IN  /\ Asks(r, "update_subscription")
        /\ Decide(r, /\ RoleOf[b.by] = "super_admin"
                     /\ association_exists(seen[r], b.association)
                     /\ b.plan # None => plan_usable(seen[r], b.plan), FALSE,
             [db EXCEPT !.associations = Save(@, seen[r].associations, b.association, new)])
-----------------------------------------------------------------------------
OnboardingStep(r) == onboard(r) \/ update_settings(r) \/ set_unit_occupancy(r) \/ update_subscription(r)

OnboardingTypeOK ==
    /\ \A u \in DOMAIN db.units : db.units[u].block \in DOMAIN db.blocks
    /\ \A k \in DOMAIN db.blocks : db.blocks[k].association \in DOMAIN db.associations
    /\ \A k \in DOMAIN db.boardTerms : db.boardTerms[k].login \in DOMAIN db.logins
    /\ \A a \in DOMAIN db.associations : db.associations[a].plan \in DOMAIN db.plans \cup {None}
=============================================================================
