-------------------------------- MODULE Profile --------------------------------
(* What members and employees keep about themselves (app/modules/profile). The    *)
(* requester is a login of Directory. Statements write the current rows; the     *)
(* checks before them read the snapshot.                                       *)
EXTENDS Directory

MEMBER_TABLES == {"vehicles", "pets"}
EMPLOYEE_TABLES == {"employee_education", "employee_experience"}

\* The row of a login's person, or else of its employee.
own_row(login) ==
    IF login.person # None THEN <<"people", login.person>> ELSE <<"employees", login.employee>>

\* An address or number is written without a look at other rows or at the login.
update_user_details(r) ==
    LET b == body[r]
        own == own_row(seen[r].logins[b.login])
    IN  /\ Asks(r, "update_user_details")
        /\ Decide(r, own[2] # None, FALSE,
             [db EXCEPT ![own[1]][own[2]].email = Given(b.email, @), ![own[1]][own[2]].phone = Given(b.phone, @)])
-----------------------------------------------------------------------------
(* The tables of records, which the service and repository treat alike *)

owner_in(table, login) == IF table \in EMPLOYEE_TABLES THEN login.employee ELSE login.person

owned(tables, record, table, login) ==
    /\ owner_in(table, login) # None
    /\ record \in DOMAIN tables.profileRecords
    /\ tables.profileRecords[record].table = table
    /\ tables.profileRecords[record].owner = owner_in(table, login)

\* Family members too, who are only added.
insert_record(r) ==
    LET b == body[r]
        owner == owner_in(b.table, seen[r].logins[b.login])
    IN  /\ Asks(r, "insert_record")
        /\ Decide(r, owner # None, FALSE,
             [db EXCEPT !.profileRecords = With(@, [k \in {r} |-> [table |-> b.table, owner |-> owner, text |-> b.text]])])

\* An UPDATE or DELETE by a key that is gone changes nothing, and is answered as done.
ChangeRecord(r, records) ==
    LET b == body[r]
    IN  Decide(r, owned(seen[r], b.record, b.table, seen[r].logins[b.login]), FALSE,
               [db EXCEPT !.profileRecords = IF b.record \in DOMAIN @ THEN records ELSE @])

update_record(r) ==
    /\ Asks(r, "update_record")
    /\ ChangeRecord(r, [db.profileRecords EXCEPT ![body[r].record].text = body[r].text])

delete_record(r) ==
    LET records == db.profileRecords
    IN  /\ Asks(r, "delete_record")
        /\ ChangeRecord(r, [k \in DOMAIN records \ {body[r].record} |-> records[k]])

\* Vehicles and pets of everybody in the unit; of a person whose row is deleted, or who
\* has no unit, the own ones.
profile_data(tables, login) ==
    LET person == IF IsLive(tables.people, login.person) THEN {login.person} ELSE {}
        housemates == {p \in Live(tables.people) : \E q \in person : /\ tables.people[q].unit # None
                                                                     /\ tables.people[p].unit = tables.people[q].unit}
        Of(table, owners) == {k \in DOMAIN tables.profileRecords : /\ tables.profileRecords[k].table = table
                                                                   /\ tables.profileRecords[k].owner \in owners}
    IN  IF login.employee # None THEN UNION {Of(t, {login.employee}) : t \in EMPLOYEE_TABLES}
        ELSE Of("family_members", {login.person})
             \cup UNION {Of(t, IF housemates = {} THEN {login.person} ELSE housemates) : t \in MEMBER_TABLES}
-----------------------------------------------------------------------------
ProfileStep(r) ==
    \/ update_user_details(r) \/ insert_record(r) \/ update_record(r) \/ delete_record(r)

\* A record is of somebody there is, and of the kind that has such records.
ProfileTypeOK ==
    \A k \in DOMAIN db.profileRecords :
        LET record == db.profileRecords[k]
        IN  record.owner \in IF record.table \in EMPLOYEE_TABLES THEN DOMAIN db.employees ELSE DOMAIN db.people
=============================================================================
