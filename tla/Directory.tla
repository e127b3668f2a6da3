------------------------------ MODULE Directory ------------------------------
(* People and employees with their logins, vendors, and the bank accounts of     *)
(* associations (app/modules/users, employees, vendors and bank). An e-mail       *)
(* address and a telephone number are in their normalized form, a name in lower    *)
(* case. The accounts that send requests are not among the rows edited here.    *)
EXTENDS Catalogues

CONSTANT Initials   \* the first two letters of the name of a role

Sets == INSTANCE FiniteSetsExt

DIRECTORY_ROLES == {"super_admin", "admin"}
RESIDENT_ROLE_CODES == {"homeowner", "tenant", "board_member", "committee_member"}

\* People alone.
email_of_person(tables, email, excluding) ==
    \E p \in Live(tables.people) \ {excluding} : tables.people[p].email = email

\* Logins of employees and of the system have no person: without one to leave out they
\* are left out.
email_exists(tables, email, excluding) ==
    \/ \E p \in Live(tables.people) \ {excluding} : tables.people[p].email = email
    \/ \E e \in Live(tables.employees) : tables.employees[e].email = email
    \/ \E l \in DOMAIN tables.logins : tables.logins[l].person # excluding /\ tables.logins[l].email = email

phone_exists(tables, phone, excluding) ==
    /\ phone # ""
    /\ \/ \E p \in Live(tables.people) \ {excluding} : tables.people[p].phone = phone
       \/ \E e \in Live(tables.employees) : tables.employees[e].phone = phone

units_of(tables, association) ==
    {u \in DOMAIN tables.units : tables.blocks[tables.units[u].block].association = association}

find_unit(tables, association, block, number) ==
    {u \in units_of(tables, association) : /\ tables.blocks[tables.units[u].block].name = block
                                           /\ tables.units[u].number = number}

active_role(tables, role) == role_exists(tables, role) /\ tables.roles[role].active

login_of(tables, person) == {l \in DOMAIN tables.logins : tables.logins[l].person = person}

\* accounts.email is unique.
email_taken(tables, login, email) ==
    \E l \in DOMAIN tables.logins \ {login} : tables.logins[l].email = email
-----------------------------------------------------------------------------
create_user(r) ==
    LET b == body[r]
        user == [email |-> b.email, phone |-> b.phone, role |-> b.role, association |-> b.association,
                 unit |-> b.home, code |-> "active", deleted |-> FALSE]
    IN  /\ Asks(r, "create_user")
        /\ Decide(r,
             /\ RoleOf[b.by] \in DIRECTORY_ROLES
             /\ ~email_exists(seen[r], b.email, None)
             /\ ~phone_exists(seen[r], b.phone, None)
             /\ association_exists(seen[r], b.association)
             /\ active_role(seen[r], b.role)
             /\ role_code(seen[r], b.role) \in RESIDENT_ROLE_CODES => b.home # None
             /\ b.home # None => b.home \in units_of(seen[r], b.association), FALSE,
             [db EXCEPT !.people = With(@, [k \in {<<r, "user", 1>>} |-> user])])

\* The unit an edit names: by key, or by block and number in the association named.
units_named(tables, b, person) ==
    LET association == IF b.association # None THEN b.association ELSE person.association
    IN  CASE b.home # None -> {b.home} \cap units_of(tables, association)
          [] b.home = None /\ None \notin {b.association, b.block, b.number} ->
                find_unit(tables, b.association, b.block, b.number)
          [] OTHER -> {person.unit}

Given(value, otherwise) == IF value # None THEN value ELSE otherwise

\* The login takes the role and the address too. The association is written without
\* its unit where the edit names none.
update_user(r) ==
    LET b == body[r]
        old == seen[r].people[b.person]
        logins == login_of(seen[r], b.person)
        new(unit) == [old EXCEPT !.email = Given(b.email, @), !.phone = Given(b.phone, @),
                                 !.role = Given(b.role, @), !.unit = unit,
                                 !.association = Given(b.association, @)]
        saved == [l \in DOMAIN db.logins |->
                    IF l \notin logins THEN db.logins[l]
                    ELSE Changed(db.logins[l], seen[r].logins[l],
                                 [seen[r].logins[l] EXCEPT !.role = Given(b.role, @), !.email = Given(b.email, @)])]
        allowed == /\ RoleOf[b.by] \in DIRECTORY_ROLES
                   /\ IsLive(seen[r].people, b.person)
                   /\ b.email \notin {None, old.email} => ~email_exists(seen[r], b.email, b.person)
                   /\ b.phone \notin {None, old.phone} => ~phone_exists(seen[r], b.phone, b.person)
                   /\ b.association # None => association_exists(seen[r], b.association)
                   /\ b.role # None => active_role(seen[r], b.role)
        role == Given(b.role, old.role)
        fits(unit) == active_role(seen[r], role) /\ role_code(seen[r], role) \in RESIDENT_ROLE_CODES => unit # None
    IN  /\ Asks(r, "update_user")
        /\ \/ /\ allowed
              /\ \E unit \in {u \in units_named(seen[r], b, old) : fits(u)} :
                    Decide(r, TRUE, \E l \in logins : email_taken(db, l, saved[l].email),
                           [db EXCEPT !.people = Save(@, seen[r].people, b.person, new(unit)), !.logins = saved])
           \/ /\ allowed => {u \in units_named(seen[r], b, old) : fits(u)} = {}
              /\ Refuse(r)

delete_user(r) ==
    LET b == body[r]
    IN  /\ Asks(r, "delete_user")
        /\ Decide(r, RoleOf[b.by] \in DIRECTORY_ROLES /\ IsLive(seen[r].people, b.person), FALSE,
             [db EXCEPT !.people = Delete(@, seen[r].people, {b.person})])
-----------------------------------------------------------------------------
\* Here the e-mail address of any login is taken.
employee_email_exists(tables, email) ==
    email_exists(tables, email, None) \/ email_taken(tables, None, email)

\* NTAD#3: numbers run on for all roles whose names begin alike.
next_employee_number(tables, role) ==
    LET prefix == Initials[tables.roles[role].name]
        given == {tables.employees[e].number[2] :
                    e \in {d \in DOMAIN tables.employees : tables.employees[d].number[1] = prefix}}
    IN  <<prefix, 1 + Sets!Max(given \cup {0})>>

create_employee(r) ==
    LET b == body[r]
        number == next_employee_number(seen[r], b.role)
        employee == [number |-> number, email |-> b.email, phone |-> b.phone, deleted |-> FALSE]
        login == [person |-> None, employee |-> r, email |-> b.email, role |-> b.role,
                  manages |-> b.associations, active |-> TRUE]
    IN  /\ Asks(r, "create_employee")
        /\ Decide(r,
             /\ RoleOf[b.by] \in DIRECTORY_ROLES
             /\ ~employee_email_exists(seen[r], b.email)
             /\ ~phone_exists(seen[r], b.phone, None)
             /\ active_role(seen[r], b.role)
             /\ \A a \in b.associations : association_exists(seen[r], a)
             /\ b.city \in seen[r].cities,
             \/ \E e \in DOMAIN db.employees : db.employees[e].number = number
             \/ email_taken(db, None, b.email),
             [db EXCEPT !.employees = With(@, [k \in {r} |-> employee]),
                        !.logins = With(@, [k \in {<<r, "login", 1>>} |-> login])])

\* The role by what changed, the associations whatever they were.
update_employee(r) ==
    LET b == body[r]
        login == seen[r].logins[b.login]
        saved == Save(db.logins, seen[r].logins, b.login, [login EXCEPT !.role = b.role])
    IN  /\ Asks(r, "update_employee")
        /\ Decide(r,
             /\ RoleOf[b.by] \in DIRECTORY_ROLES
             /\ b.login \in DOMAIN seen[r].logins
             /\ IsLive(seen[r].employees, login.employee)
             /\ active_role(seen[r], b.role)
             /\ \A a \in b.associations : association_exists(seen[r], a), FALSE,
             [db EXCEPT !.logins = [saved EXCEPT ![b.login].manages = b.associations]])
-----------------------------------------------------------------------------
vendor_name_exists(tables, name, excluding) ==
    \E v \in Live(tables.vendors) \ {excluding} : tables.vendors[v].name = name

VendorAllowed(r, excluding) ==
    /\ RoleOf[body[r].by] \in DIRECTORY_ROLES
    /\ ~vendor_name_exists(seen[r], body[r].name, excluding)
    /\ body[r].city \in seen[r].cities \cup {None}

create_vendor(r) ==
    LET b == body[r]
    IN  /\ Asks(r, "create_vendor")
        /\ Decide(r, VendorAllowed(r, None), FALSE,
             [db EXCEPT !.vendors = With(@, [k \in {r} |-> [name |-> b.name, active |-> b.active, deleted |-> FALSE]])])

update_vendor(r) ==
    LET b == body[r]
        new == [seen[r].vendors[b.vendor] EXCEPT !.name = b.name, !.active = b.active]
    IN  /\ Asks(r, "update_vendor")
        /\ Decide(r, IsLive(seen[r].vendors, b.vendor) /\ VendorAllowed(r, b.vendor), FALSE,
             [db EXCEPT !.vendors = Save(@, seen[r].vendors, b.vendor, new)])

delete_vendor(r) ==
    LET b == body[r]
    IN  /\ Asks(r, "delete_vendor")
        /\ Decide(r, RoleOf[b.by] \in DIRECTORY_ROLES /\ IsLive(seen[r].vendors, b.vendor), FALSE,
             [db EXCEPT !.vendors = Delete(@, seen[r].vendors, {b.vendor})])
-----------------------------------------------------------------------------
BANK_ROLES == {"super_admin", "admin", "accountant"}
Hidden == "****"

can_access_association(tables, account, association) ==
    /\ RoleOf[account] = "super_admin" \/ association \in Manages[account]
    /\ association_exists(tables, association)

bank_list(tables, account) ==
    {k \in Live(tables.bankAccounts) :
        /\ RoleOf[account] \in BANK_ROLES
        /\ can_access_association(tables, account, tables.bankAccounts[k].association)}

\* What a form shows of a number, and takes as no change.
mask_secret(number) == [digits |-> number.digits, masked |-> TRUE]

\* A secret that is not given or is the mask stays; and one that is not given.
given_secret(given, stored) == IF given = None THEN stored ELSE given
kept_secret(given, stored) == IF given \in {None, Hidden} THEN stored ELSE given

BankWritable(r, association) ==
    /\ RoleOf[body[r].by] \in BANK_ROLES
    /\ can_access_association(seen[r], body[r].by, association)

create_bank_account(r) ==
    LET b == body[r]
        row == [association |-> b.association, holder |-> b.holder, number |-> b.number,
                api_key |-> b.api_key, deleted |-> FALSE]
    IN  /\ Asks(r, "create_bank")
        /\ Decide(r, BankWritable(r, b.association), FALSE,
             [db EXCEPT !.bankAccounts = With(@, [k \in {r} |-> row])])

\* The api_key stands for the three secrets, which are written alike.
update_bank_account(r) ==
    LET b == body[r]
        new == [seen[r].bankAccounts[b.bank] EXCEPT
                  !.association = b.association, !.holder = b.holder,
                  !.number = IF b.number.masked THEN @ ELSE b.number,
                  !.api_key = kept_secret(b.api_key, @)]
    IN  /\ Asks(r, "update_bank")
        /\ Decide(r, b.bank \in bank_list(seen[r], b.by) /\ BankWritable(r, b.association), FALSE,
             [db EXCEPT !.bankAccounts = Save(@, seen[r].bankAccounts, b.bank, new)])

delete_bank_account(r) ==
    LET b == body[r]
    IN  /\ Asks(r, "delete_bank")
        /\ Decide(r, b.bank \in bank_list(seen[r], b.by), FALSE,
             [db EXCEPT !.bankAccounts = Delete(@, seen[r].bankAccounts, {b.bank})])
-----------------------------------------------------------------------------
DirectoryStep(r) ==
    \/ create_user(r) \/ update_user(r) \/ delete_user(r)
    \/ create_employee(r) \/ update_employee(r)
    \/ create_vendor(r) \/ update_vendor(r) \/ delete_vendor(r)
    \/ create_bank_account(r) \/ update_bank_account(r) \/ delete_bank_account(r)

\* Columns that name rows name rows there are; the unique keys of the tables hold.
DirectoryTypeOK ==
    /\ \A p \in DOMAIN db.people : /\ db.people[p].association \in DOMAIN db.associations
                                   /\ db.people[p].unit \in DOMAIN db.units \cup {None}
    /\ \A l \in DOMAIN db.logins :
          LET login == db.logins[l]
          IN  /\ login.person \in DOMAIN db.people \cup {None}
              /\ login.employee \in DOMAIN db.employees \cup {None}
              /\ ~email_taken(db, l, login.email)
    /\ \A d, e \in DOMAIN db.employees : d # e => db.employees[d].number # db.employees[e].number
    /\ \A k \in DOMAIN db.bankAccounts : db.bankAccounts[k].association \in DOMAIN db.associations
=============================================================================
