------------------------------ MODULE MCServer ------------------------------
(* Server on a small community: one association with its administrator, a board  *)
(* and a committee member, two residents of one unit and a guard; another        *)
(* association with one resident; a deleted one; a resident whom an edit left in   *)
(* the unit of another association and one whom an edit made an administrator.    *)
(* A workload is one to three requests that come together.                     *)
EXTENDS Server, TLC

MCAccounts == {"adm", "acc", "sup", "brd", "own", "ten", "com", "sec", "out", "old", "mov", "res"}
MCRoleOf == [adm |-> "admin", acc |-> "accountant", sup |-> "super_admin", brd |-> "board_member", own |-> "homeowner",
             ten |-> "tenant", com |-> "committee_member", sec |-> "security", out |-> "homeowner",
             old |-> "board_member", mov |-> "homeowner", res |-> "admin"]
MCHomeOf == [adm |-> None, acc |-> None, sup |-> None, brd |-> "A1", own |-> "A1",
             ten |-> "A1", com |-> "A1", sec |-> "A1", out |-> "A2", old |-> "A3", mov |-> "A2", res |-> "A1"]
MCManages == [a \in MCAccounts |-> CASE a = "adm" -> {"A1", "A3"} [] a = "acc" -> {"A1"} [] OTHER -> {}]
MCUnitOf == [adm |-> None, acc |-> None, sup |-> None, brd |-> "u1", own |-> "u2",
             ten |-> "u2", com |-> "u3", sec |-> None, out |-> "u4", old |-> "u5", mov |-> "u3", res |-> "u3"]
\* u1 is number 1/2 of block b, u3 its number 1-2.
MCDisplayName ==
    [a \in MCAccounts |->
        <<MCHomeOf[a], CASE MCUnitOf[a] = None -> "NA" [] MCUnitOf[a] = "u3" -> "u1" [] OTHER -> MCUnitOf[a]>>]
MCUnitHome == [u1 |-> "A1", u2 |-> "A1", u3 |-> "A1", u4 |-> "A2", u5 |-> "A3"]
MCBlockOf == [u1 |-> "b1", u2 |-> "b2", u3 |-> "b1", u4 |-> "b3", u5 |-> "b4"]
MCSeatsOf == [a \in MCAccounts |-> IF a = "brd" THEN {"A1", "A2"} ELSE {}]
MCIdOrder == [n0 |-> 2, r1 |-> 3, r2 |-> 1, r3 |-> 4]

Nothing == [x \in {} |-> x]
Row(columns, more) == With(columns, more)
-----------------------------------------------------------------------------
(* The opening tables *)

Poll(visibility, status, multiple, ends) ==
    [question |-> "old", visibility |-> visibility, status |-> status, multiple |-> multiple,
     ends |-> ends, association |-> "A1", created |-> 0, deleted |-> FALSE]

Option(o) == [poll |-> o[1], text |-> o[2], deleted |-> FALSE]
Options(poll) == {<<poll, "x">>, <<poll, "y">>}

EventOf(audience, status, capacity, association) ==
    [title |-> "old", audience |-> audience, status |-> status, starts |-> 1, ends |-> 1,
     capacity |-> capacity, is_paid |-> FALSE, has_pass |-> FALSE, fee |-> 0, price |-> None,
     association |-> association, created |-> 0, deleted |-> FALSE]

Answer(event, by, status) == [event |-> event, by |-> by, status |-> status, deleted |-> FALSE]

Announcement(audience) ==
    [title |-> "old", audience |-> audience, pinned |-> FALSE, association |-> "A1",
     created |-> 0, deleted |-> FALSE]

Ticket(user, unit, number) ==
    [user |-> user, association |-> "A1", unit |-> unit, display |-> <<MCDisplayName[user], number>>,
     status |-> "New", deleted |-> FALSE]

Task(association, supervisor) ==
    [association |-> association, creator |-> "adm", supervisor |-> supervisor, status |-> "New",
     deleted |-> FALSE]

MeetingOf(audience, block, at) ==
    [title |-> "old", audience |-> audience, block |-> block, organizer |-> "adm", at |-> at,
     association |-> "A1", created |-> 0, minutes |-> None, status |-> "Scheduled", deleted |-> FALSE]

DocumentOf(association) ==
    [title |-> "old", visibility |-> {"public"}, association |-> association, deleted |-> FALSE]

UnitDocument(by, unit) ==
    [association |-> UnitHome[unit], unit |-> unit, by |-> by, name |-> "old", file |-> "old", board |-> FALSE,
     deleted |-> FALSE]

Invoice(number, status, amount) ==
    [association |-> "A1", vendor |-> "v1", number |-> number, issue |-> 0, subtotal |-> amount,
     discount |-> 0, tax |-> 0, grand_total |-> amount, status |-> status, payment |-> None,
     deleted |-> FALSE]

DueRow(member, category, outstanding, days) ==
    [member |-> Text(member), unit |-> Text("u1"), block |-> None, category |-> Text(category),
     outstanding |-> Number(outstanding), days |-> Number(days), paid |-> None]
PrepaidRow(member, prepaid, used, expiry) ==
    [member |-> Text(member), unit |-> Text("u1"), block |-> Text("b"), category |-> Text("Other"),
     prepaid |-> Number(prepaid), used |-> Number(used), expiry |-> Date(expiry)]
AgingRow(vendor, invoice, current, d30, over) ==
    [vendor |-> Text(vendor), category |-> Text("Other"), invoice |-> Text(invoice), date |-> Date(0),
     current |-> Number(current), d30 |-> Number(d30), d60 |-> Number(0), d90 |-> Number(0),
     over |-> Number(over)]
Report(kind, billed, collected, rows) ==
    With(header(kind, "p1", rows, billed, collected), [kind |-> kind, association |-> "A1", rows |-> rows])
DueRows == <<DueRow("m", "Maintenance", 1, 30), DueRow("n", "Other", 2, 31), DueRow("total", "Other", 3, 90)>>

ChartRow(code) == chart_row(IF code = "c2" THEN "A3" ELSE "A1", IF code = "c3" THEN "300" ELSE "100", None)
SheetItem(section, amount, account) == [section |-> section, amount |-> amount, account |-> account]
SheetItems(amount) ==
    <<SheetItem("current_asset", amount, <<"c1", "", 0>>), SheetItem("current_liability", amount - 1, None),
      SheetItem("equity", 1, None)>>
\* The rows the directory edits are not the accounts that ask.
PersonRow(email, phone, role, unit) ==
    [email |-> email, phone |-> phone, role |-> role, association |-> "A1", unit |-> <<"A1", unit>>,
     code |-> "active", deleted |-> FALSE]
Login(person, employee, email, role, manages) ==
    [person |-> person, employee |-> employee, email |-> email, role |-> role, manages |-> manages, active |-> TRUE]
P(i) == <<"p", "user", i>>
AssociationRow(deleted) ==
    [plan |-> None, status |-> "Active", payment |-> None, start |-> None, end |-> None, end_date |-> None,
     deleted |-> deleted]
Plan(name, trial, active) ==
    [name |-> name, code |-> name, country |-> "US", trial |-> trial, active |-> active, deleted |-> FALSE]
Named(name) == [name |-> name, deleted |-> FALSE]
RoleRow(code, deleted) == [name |-> code, code |-> code, active |-> ~deleted, deleted |-> deleted]
RoleCodeSet == {"homeowner", "tenant", "board_member", "admin", "adviser", "super_admin", "csr", "guest"}
MCInitials ==
    [name \in RoleCodeSet \cup {"guard", "visitor", "renter"} |->
        CASE name \in {"admin", "adviser"} -> "AD" [] name \in {"guest", "guard"} -> "GU" [] OTHER -> name]
Feature(name, parent) == [name |-> name, code |-> name, parent |-> parent, active |-> TRUE, deleted |-> FALSE]
Grant(role, feature, deleted) == [role |-> role, feature |-> feature, flags |-> {"view"}, deleted |-> deleted]
Digits(digits) == [digits |-> digits, masked |-> FALSE]

Entry(type, current) == [type |-> type, current |-> current, previous |-> 1]
Statement(period, items) == statement_row([association |-> "A1", period |-> period], items)

MCOpeningTables ==
    [associations |-> [A1 |-> AssociationRow(FALSE), A2 |-> With(AssociationRow(FALSE), [plan |-> "g2", start |-> 0]), A3 |-> AssociationRow(TRUE)],
     blocks |-> [k \in {<<"A1", "b">>, <<"A2", "b">>} |-> [association |-> k[1], name |-> "b"]],
     units |-> [k \in {<<"A1", 1>>, <<"A1", 2>>, <<"A2", 1>>} |->
                  [block |-> <<k[1], "b">>, number |-> IF k[2] = 1 THEN "1" ELSE "2", floor |-> "", rented |-> FALSE]],
     people |-> [k \in {P(1), P(2)} |-> IF k = P(1) THEN PersonRow("e1", "1", "homeowner", 1)
                                                   ELSE PersonRow("e2", "", "tenant", 2)],
     logins |-> [k \in {<<"p", "login", 1>>, <<"e", "login", 1>>, <<"s", "login", 1>>} |->
                   CASE k[1] = "p" -> Login(P(1), None, "e1", "homeowner", {})
                     [] k[1] = "e" -> Login(None, "e0", "e5", "admin", {"A1"})
                     [] OTHER -> Login(None, None, "e6", "super_admin", {})],
     employees |-> [e0 |-> [number |-> <<"AD", 1>>, email |-> "e5", phone |-> "5", deleted |-> FALSE]],
     cities |-> {"c"},
     roles |-> [c \in RoleCodeSet |-> RoleRow(c, c = "guest")],
     entityTypes |-> [k1 |-> Named("condominium"), k2 |-> Named("townhouse")],
     entities |-> [n1 |-> Row(Named("n"), [type |-> "k1"]), n2 |-> Row(Named("n"), [type |-> "k2"])],
     plans |-> [g1 |-> Plan("basic", 1, TRUE), g2 |-> Plan("plus", 0, TRUE), g3 |-> Plan("old", 1, FALSE)],
     planFeatures |-> [k \in {<<"g1", "f1">>} |-> [deleted |-> FALSE]],
     features |-> [f1 |-> Feature("f", None), f2 |-> Feature("g", None), f3 |-> Feature("h", "f2")],
     permissions |-> [k \in {<<"x", 1>>, <<"x", 2>>} |-> Grant("csr", IF k[2] = 1 THEN "f1" ELSE "f2", k[2] = 2)],
     profileRecords |-> [v0 |-> [table |-> "vehicles", owner |-> P(1), text |-> "old"],
                         d0 |-> [table |-> "employee_education", owner |-> "e0", text |-> "old"]],
     boardTerms |-> Nothing, assessmentRules |-> Nothing,
     fineRules |-> [k \in {<<"f", 1>>, <<"f", 2>>} |-> [association |-> "A1", type |-> "late"]],
     bankAccounts |-> [k0 |-> [association |-> "A1", holder |-> "old", number |-> Digits("1"), api_key |-> "s", deleted |-> FALSE]],
     polls |-> [pS |-> Poll("All", "Published", FALSE, 1),
                pM |-> Poll("Homeowners", "Published", TRUE, 0),
                pD |-> Poll("Committee Members", "Draft", FALSE, 1)],
     pollOptions |-> [o \in Options("pS") \cup Options("pM") \cup Options("pD") |-> Option(o)],
     pollVotes |-> [v \in {<<"pS", <<"pS", "x">>, "own">>} |-> [deleted |-> FALSE]],
     pollLikes |-> [l \in {<<"pS", "own">>} |-> [deleted |-> FALSE]],
     pollComments |-> Nothing,
     events |-> [eP |-> With(EventOf("All", "Published", 1, "A1"), [is_paid |-> TRUE, fee |-> 2]),
                 eD |-> EventOf("Homeowners", "Draft", NoLimit, "A1"),
                 eB |-> EventOf("Board Members", "Published", NoLimit, "A1")],
     rsvps |-> [k0 |-> Answer("eP", "com", "maybe"), k1 |-> Answer("eD", "own", "going"), k2 |-> Answer("eD", "ten", "going")],
     eventLikes |-> Nothing, eventComments |-> Nothing,
     announcements |-> [aA |-> Announcement("All"), aB |-> Announcement("Board Members")],
     likes |-> [l0 |-> [announcement |-> "aA", by |-> "own", deleted |-> FALSE]],
     announcementComments |-> Nothing,
     items |-> [i0 |-> [title |-> "old", price |-> 1, status |-> "Active", owner |-> "own",
                        association |-> "A1", deleted |-> FALSE],
               i1 |-> [title |-> "old", price |-> 1, status |-> "Active", owner |-> "out",
                        association |-> "A2", deleted |-> FALSE]],
     images |-> [k \in {<<"i0", "u">>, <<"i0", "v">>} |-> [item |-> "i0", deleted |-> FALSE]],
     favorites |-> [f0 |-> [item |-> "i0", by |-> "ten", deleted |-> FALSE]],
     views |-> Nothing, reports |-> {},
     chat |-> [m0 |-> [item |-> "i0", from |-> "ten", to |-> "own", at |-> 0]],
     frames |-> {},
     serviceRequests |-> [s1 |-> Ticket("own", "u2", 1), s2 |-> Ticket("ten", "u2", 2),
                          s3 |-> Ticket("com", "u3", 1)],
     serviceMessages |-> Nothing,
     boardTasks |-> [tA |-> Task("A1", "brd"), tD |-> Task("A3", "old")],
     taskMessages |-> Nothing,
     meetings |-> [mH |-> MeetingOf("Homeowner", "b2", 2), mB |-> MeetingOf("Board Members", None, 0),
                  mA |-> With(MeetingOf("Homeowner", None, 2), [association |-> "A2", organizer |-> "sup"])],
     attendance |-> [k0 |-> [meeting |-> "mH", by |-> "ten", status |-> "No"]],
     documents |-> [d1 |-> DocumentOf("A1"), d2 |-> DocumentOf("A3")],
     unitDocuments |-> [w1 |-> UnitDocument("own", "u2"), w2 |-> UnitDocument("ten", "u2"), w3 |-> UnitDocument("old", "u5")],
     vendors |-> [v1 |-> [name |-> "v", active |-> TRUE, deleted |-> FALSE], v2 |-> [name |-> "w", active |-> FALSE, deleted |-> FALSE]],
     invoices |-> [q0 |-> Invoice(<<"own", 0>>, "pending", 7), q1 |-> Invoice(<<"INV", 1>>, "overdue", 4)],
     invoiceLines |-> [k \in {<<"q1", 1>>} |-> [invoice |-> "q1", order |-> 1, amount |-> 4]],
     financialReports |-> [t1 |-> Report("delinquency", 9, 4, DueRows),
                  t2 |-> Report("prepaid", 0, 0, <<PrepaidRow("m", 3, 1, 0), PrepaidRow("n", 2, 2, 1)>>),
                  t3 |-> Report("vendor_aging", 0, 0, <<AgingRow("v", "i", 1, 1, 1), AgingRow("w", "i", 0, 0, 0)>>)],
     globalChart |-> [g \in {<<"g", 1>>, <<"g", 2>>} |-> [code |-> IF g[2] = 1 THEN "100" ELSE "200"]],
     chart |-> [c \in {<<"c1", "", 0>>, <<"c2", "", 0>>, <<"c3", "", 0>>} |-> ChartRow(c[1])],
     balanceSheets |-> [h0 |-> [association |-> "A1", on |-> 0, health |-> "Stable", items |-> SheetItems(1)]],
     incomeStatements |-> [y0 |-> Statement("p1", <<Entry("income", 8), Entry("expense", 5)>>)],
     notifications |-> {[by |-> "n0", about |-> <<"system", "n0">>, to |-> {"own", "ten"}, at |-> 0]},
     read |-> {}]
-----------------------------------------------------------------------------
(* Requests *)

Names == <<"r1", "r2", "r3">>
Load(bodies) == [r \in {Names[i] : i \in DOMAIN bodies} |->
                   bodies[CHOOSE i \in DOMAIN bodies : Names[i] = r]]
\* One of these at a time; any two of these, one of them twice too.
Alone(bodies) == {Load(<<bodies[i]>>) : i \in DOMAIN bodies}
Pairs(bodies) == {Load(<<bodies[i], bodies[j]>>) : <<i, j>> \in
                    {p \in (DOMAIN bodies) \X (DOMAIN bodies) : p[1] <= p[2]}}

EditPoll(by, poll, columns, options) ==
    [op |-> "update_poll", by |-> by, poll |-> poll, columns |-> columns, options |-> options]
Vote(by, poll, options) == [op |-> "vote_poll", by |-> by, poll |-> poll, options |-> options]
At(op, by, about, key) == [op |-> op, by |-> by] @@ (about :> key)

PollColumns(visibility, status, multiple) ==
    [question |-> "new", visibility |-> visibility, status |-> status, multiple |-> multiple,
     ends |-> 1]
NewPoll(by, association, status) ==
    [op |-> "create_poll", by |-> by, association |-> association,
     columns |-> PollColumns("Homeowners", status, FALSE), options |-> {"x", "y"}]
sX == <<"pS", "x">>
sY == <<"pS", "y">>

PollWorkloads ==
    Pairs(<<Vote("own", "pS", {sX}), Vote("own", "pS", {sY}), Vote("ten", "pS", {sX}),
            EditPoll("adm", "pS", PollColumns("All", "Published", FALSE), {"x", "z"}),
            EditPoll("brd", "pS", PollColumns("Homeowners", "Published", TRUE), {"x"}),
            At("delete_poll", "adm", "poll", "pS"),
            At("like_poll", "own", "poll", "pS"), At("like_poll", "ten", "poll", "pS")>>)
    \cup Pairs(<<EditPoll("adm", "pD", PollColumns("Homeowners", "published", FALSE), {"x"}),
                 EditPoll("sup", "pD", PollColumns("Committee Members", "Published", FALSE), {"y"}),
                 EditPoll("adm", "pD", PollColumns("All", "Draft", FALSE), {"y"}),
                 Vote("com", "pD", {<<"pD", "x">>})>>)
    \cup Alone(<<Vote("own", "pM", {<<"pM", "x">>, <<"pM", "y">>}), Vote("com", "pM", {<<"pM", "x">>}),
                 Vote("sec", "pS", {sX}), Vote("out", "pS", {sX}), Vote("own", "pS", {sX, sY}),
                 NewPoll("brd", None, "Published"), NewPoll("adm", "A3", "Published"),
                 NewPoll("own", "A1", "Published"), NewPoll("adm", "A1", "Draft"),
                 At("comment_poll", "own", "poll", "pM"), At("delete_poll", "brd", "poll", "pS")>>)
    \cup {Load(<<Vote("own", "pM", {<<"pM", "x">>, <<"pM", "y">>}), Vote("own", "pM", {<<"pM", "x">>}),
                 EditPoll("adm", "pM", PollColumns("Homeowners", "Published", FALSE), {"x", "y"})>>),
          Load(<<Vote("own", "pS", {sY}), Vote("ten", "pS", {sY}),
                 EditPoll("adm", "pS", PollColumns("All", "Published", TRUE), {"x", "z"})>>)}
    \cup {Load(<<EditPoll("adm", "pD", PollColumns("All", "Published", FALSE), {"x"}),
                 EditPoll("adm", "pD", PollColumns("All", "Draft", FALSE), {"x"}),
                 EditPoll("sup", "pD", PollColumns("All", "Published", FALSE), {"y"})>>)}

\* name, then the fields in which a request differs
EventColumns(audience, status, capacity, is_paid, has_pass, fee, price) ==
    [title |-> "new", audience |-> audience, status |-> status, starts |-> 1, ends |-> 1,
     capacity |-> capacity, is_paid |-> is_paid, has_pass |-> has_pass, fee |-> fee, price |-> price]
Free(audience, status, capacity) == EventColumns(audience, status, capacity, FALSE, FALSE, 0, None)
Paid(price) == EventColumns("All", "Published", 1, TRUE, TRUE, 2, price)
EditEvent(by, event, columns) ==
    [op |-> "update_event", by |-> by, event |-> event, columns |-> columns, notify |-> TRUE]
NewEvent(by, association, columns) ==
    [op |-> "create_event", by |-> by, association |-> association, columns |-> columns,
     notify |-> TRUE]
Rsvp(by, event, status) == [op |-> "rsvp", by |-> by, event |-> event, status |-> status]

EventWorkloads ==
    Pairs(<<Rsvp("own", "eP", "going"), Rsvp("ten", "eP", "going"), Rsvp("com", "eP", "going"),
            Rsvp("com", "eP", "not_going"), At("clear_rsvp", "com", "event", "eP"),
            EditEvent("adm", "eP", Free("Homeowners", "Published", 2)),
            EditEvent("adm", "eP", Paid(None)),
            At("like_event", "own", "event", "eP")>>)
    \cup Pairs(<<EditEvent("adm", "eD", Free("Homeowners", "Published", NoLimit)),
                 EditEvent("sup", "eD", Free("Committee Members", "published", NoLimit)),
                 EditEvent("brd", "eD", Free("All", "Draft", NoLimit)),
                 At("delete_event", "adm", "event", "eD")>>)
    \cup Alone(<<EditEvent("adm", "eD", Free("Homeowners", "Draft", 1)), Rsvp("out", "eP", "going"), Rsvp("sec", "eP", "going"), Rsvp("brd", "eB", "going"),
                 NewEvent("adm", "A1", Paid(3)), NewEvent("adm", "A1", Paid(0)), NewEvent("brd", None, Free("Board Members", "Published", 1)),
                 NewEvent("sup", "A1", Free("Board Members", "Published", 1)),
                 NewEvent("adm", "A1", EventColumns("All", "Published", 1, FALSE, TRUE, 2, None)),
                 NewEvent("own", "A1", Free("All", "Published", 1)),
                 NewEvent("adm", "A2", Free("All", "Published", 1)),
                 At("delete_event", "brd", "event", "eP"), At("comment_event", "own", "event", "eP")>>)

AnnouncementColumns(audience) == [title |-> "new", audience |-> audience, pinned |-> TRUE]
EditAnnouncement(by, audience) ==
    [op |-> "update_announcement", by |-> by, announcement |-> "aA",
     columns |-> AnnouncementColumns(audience)]
NewAnnouncement(by, association, audience) ==
    [op |-> "create_announcement", by |-> by, association |-> association,
     columns |-> AnnouncementColumns(audience)]

AnnouncementWorkloads ==
    Pairs(<<At("like_announcement", "own", "announcement", "aA"),
            At("like_announcement", "ten", "announcement", "aA"),
            EditAnnouncement("adm", "Homeowners"), EditAnnouncement("brd", "Board Members"),
            At("delete_announcement", "brd", "announcement", "aA")>>)
    \cup Alone(<<NewAnnouncement("brd", None, "Board Members"), NewAnnouncement("adm", "A1", "Homeowners"),
                 NewAnnouncement("adm", "A1", "Committee Members"), NewAnnouncement("sup", "A2", "All"),
                 NewAnnouncement("adm", "A2", "All"),
                 At("like_announcement", "own", "announcement", "aB"),
                 At("comment_announcement", "com", "announcement", "aA")>>)
    \cup {Load(<<At("like_announcement", "ten", "announcement", "aA"),
                 At("like_announcement", "ten", "announcement", "aA"),
                 At("like_announcement", "ten", "announcement", "aA")>>)}
-----------------------------------------------------------------------------
EditItem(by, columns, images) ==
    [op |-> "update_item", by |-> by, item |-> "i0", columns |-> columns, images |-> images]
NewItem(by, association) ==
    [op |-> "create_item", by |-> by, association |-> association, images |-> {"u"},
     columns |-> [title |-> "new", price |-> 2, status |-> "Active"]]
Chat(by, to) == [op |-> "chat_item", by |-> by, item |-> "i0", to |-> to]

MarketWorkloads ==
    Pairs(<<EditItem("own", [title |-> "new"], {"v", "w"}), EditItem("adm", [price |-> 2], {"w"}),
            EditItem("own", Nothing, {}), EditItem("adm", [status |-> "Sold"], None),
            At("delete_item", "own", "item", "i0"), At("favorite_item", "ten", "item", "i0"),
            At("favorite_item", "com", "item", "i0"), At("view_item", "ten", "item", "i0"),
            Chat("com", None), Chat("own", None)>>)
    \cup Alone(<<NewItem("ten", None), NewItem("adm", None), NewItem("sup", None), NewItem("own", "A2"),
                 NewItem("brd", None), NewItem("brd", "A2"), At("view_item", "brd", "item", "i1"),
                 Chat("own", "com"), Chat("own", "own"), Chat("own", "out"), At("report_item", "com", "item", "i0"),
                 At("view_item", "out", "item", "i0"), EditItem("ten", [price |-> 2], None)>>)

NewTicket(by, user) == [op |-> "create_service", by |-> by, user |-> user, association |-> None]
MapTicket(by, request, association, unit, user) ==
    [op |-> "map_service", by |-> by, request |-> request, association |-> association,
     unit |-> unit, user |-> user]
TicketStatus(by, request, status) ==
    [op |-> "service_status", by |-> by, request |-> request, status |-> status]

ServiceWorkloads ==
    Pairs(<<NewTicket("own", None), NewTicket("adm", "ten"), NewTicket("com", None),
            MapTicket("adm", "s2", "A1", "u3", "com"), MapTicket("sup", "s2", "A2", "u4", "out"),
            TicketStatus("adm", "s2", "Complete"), At("delete_service", "adm", "request", "s2"),
            At("service_message", "ten", "request", "s2")>>)
    \cup Alone(<<At("service_message", "adm", "request", "s2"), At("service_message", "own", "request", "s2"),
                 At("service_message", "com", "request", "s2"), At("service_message", "sec", "request", "s2"),
                 TicketStatus("ten", "s2", "Complete"), NewTicket("adm", "out"), NewTicket("adm", "res"), NewTicket("adm", None),
                 NewTicket("ten", "own"), NewTicket("brd", None), [NewTicket("adm", "ten") EXCEPT !.association = "A2"],
                 [NewTicket("adm", "ten") EXCEPT !.association = "A1"], MapTicket("adm", "s2", "A1", "u3", "own"), MapTicket("adm", "s2", "A1", "u3", "mov")>>)

NewTask(by, association, supervisor) ==
    [op |-> "create_task", by |-> by, association |-> association, supervisor |-> supervisor]
TaskStatus(by, status) == [op |-> "task_status", by |-> by, task |-> "tA", status |-> status]

TaskWorkloads ==
    Pairs(<<TaskStatus("brd", "Completed"), TaskStatus("adm", "Cancelled"),
            At("delete_task", "adm", "task", "tA"), At("task_message", "brd", "task", "tA")>>)
    \cup Alone(<<NewTask("brd", None, "brd"), NewTask("adm", "A1", "brd"), NewTask("adm", "A1", "own"),
                 NewTask("adm", "A3", "brd"), At("task_message", "adm", "task", "tD"),
                 At("task_message", "own", "task", "tA"), At("delete_task", "brd", "task", "tA")>>)

NewMeeting(by, association, audience, block, organizer) ==
    [op |-> "create_meeting", by |-> by, association |-> association,
     columns |-> [title |-> "new", audience |-> audience, block |-> block, organizer |-> organizer, at |-> 2]]
EditMeeting(by, meeting, audience, block, at) ==
    [op |-> "update_meeting", by |-> by, meeting |-> meeting,
     columns |-> [title |-> "new", audience |-> audience, block |-> block, organizer |-> "adm", at |-> at]]
AttendAt(meeting, by, status) == [op |-> "attend_meeting", by |-> by, meeting |-> meeting, status |-> status]
Attend(by, status) == AttendAt("mH", by, status)

MeetingWorkloads ==
    Pairs(<<Attend("own", "Yes"), Attend("own", "No"), Attend("ten", "Maybe"),
            EditMeeting("adm", "mH", "Board Members", None, 0),
            [op |-> "meeting_minutes", by |-> "adm", meeting |-> "mH", minutes |-> "said"],
            At("delete_meeting", "sup", "meeting", "mH")>>)
    \cup Pairs(<<AttendAt("mA", "out", "Yes"), AttendAt("mA", "out", "No")>>)
    \cup Alone(<<Attend("out", "Yes"), Attend("sec", "Yes"), EditMeeting("brd", "mH", "Homeowner", None, 2),
                 EditMeeting("adm", "mB", "Homeowner", None, 2),
                 NewMeeting("brd", None, "Homeowner", "b2", "brd"), NewMeeting("adm", "A1", "Committee Member", "b1", "sup"),
                 NewMeeting("adm", "A1", "Board Members", None, "adm"), NewMeeting("adm", "A1", "Homeowner", "b3", "adm"),
                 NewMeeting("adm", "A1", "Homeowner", None, "own"), NewMeeting("own", "A1", "Homeowner", None, "adm"),
                 NewMeeting("adm", "A2", "Homeowner", None, "adm")>>)

EditUnitDocument(by, document, file, board) ==
    [op |-> "update_unit_document", by |-> by, unit_document |-> document, name |-> "new", file |-> file, board |-> board]
NewUnitDocument(by, association, unit) ==
    [op |-> "create_unit_document", by |-> by, association |-> association, unit |-> unit, name |-> "new",
     file |-> "new", board |-> FALSE]
EditDocument(by, visibility) ==
    [op |-> "update_document", by |-> by, document |-> "d1",
     columns |-> [title |-> "new", visibility |-> visibility]]
NewDocument(by, association) ==
    [op |-> "create_document", by |-> by, association |-> association,
     columns |-> [title |-> "new", visibility |-> {"committee"}]]

DocumentWorkloads ==
    Pairs(<<EditUnitDocument("own", "w1", "new", TRUE), EditUnitDocument("own", "w1", None, None),
            EditUnitDocument("adm", "w1", "other", None), At("delete_unit_document", "own", "unit_document", "w1")>>)
    \cup Pairs(<<EditDocument("adm", {"residents"}), EditDocument("brd", {}),
                 At("delete_document", "acc", "document", "d1")>>)
    \cup Alone(<<NewDocument("brd", "A1"), NewDocument("adm", "A2"), NewDocument("own", "A1"),
                 NewUnitDocument("ten", None, None), NewUnitDocument("own", None, "u1"),
                 NewUnitDocument("adm", "A1", "u3"), NewUnitDocument("adm", None, "u3"),
                 EditUnitDocument("ten", "w2", None, FALSE), EditUnitDocument("ten", "w1", "new", TRUE),
                 At("delete_unit_document", "com", "unit_document", "w1")>>)
-----------------------------------------------------------------------------
Line(quantity, rate) == [quantity |-> quantity, rate |-> rate]
InvoiceBody(op, by, number, status, payment, lines) ==
    [op |-> op, by |-> by, association |-> "A1", vendor |-> "v1", number |-> number, issue |-> 0, due |-> 1,
     lines |-> lines, discount_type |-> "percentage", discount_value |-> 10, tax_rate |-> 5,
     status |-> status, payment |-> payment]
NewInvoice(by, number, status, payment) ==
    InvoiceBody("create_invoice", by, number, status, payment, <<Line(50, 1), Line(50, 1), Line(150, 30)>>)
EditInvoice(by, invoice, status, lines) ==
    With(InvoiceBody("update_invoice", by, None, status, None, lines), [invoice |-> invoice])
InvoiceStatus(by, invoice, status, payment) ==
    [op |-> "invoice_status", by |-> by, association |-> "A1", invoice |-> invoice, status |-> status,
     payment |-> payment]

InvoiceWorkloads ==
    Pairs(<<EditInvoice("acc", "q0", "pending", <<Line(100, 5)>>), EditInvoice("adm", "q0", "overdue", <<Line(100, 6), Line(100, 1)>>),
            InvoiceStatus("adm", "q0", "paid", 1), InvoiceStatus("acc", "q0", "cancelled", None),
            [op |-> "delete_invoice", by |-> "adm", association |-> "A1", invoice |-> "q0"],
            NewInvoice("adm", None, "pending", None), NewInvoice("acc", <<"INV", 3>>, "paid", 0)>>)
    \cup Alone(<<EditInvoice("adm", "q1", "paid", <<Line(100, 5)>>), InvoiceStatus("adm", "q1", "pending", None),
                 NewInvoice("sup", <<"INV", 1>>, "pending", None), NewInvoice("own", None, "pending", None),
                 With(NewInvoice("adm", None, "pending", None), [vendor |-> "v2"]),
                 With(NewInvoice("adm", None, "pending", None), [association |-> "A2"]),
                 With(NewInvoice("adm", None, "pending", None), [discount_type |-> "flat", discount_value |-> 90])>>)
    \cup Pairs(<<InvoiceStatus("adm", "q0", "paid", 1),
                With(InvoiceBody("update_invoice", "acc", None, "paid", 1, <<Line(100, 5)>>), [invoice |-> "q0"])>>)
    \cup {Load(<<InvoiceStatus("adm", "q1", "paid", 1), EditInvoice("acc", "q1", "cancelled", <<Line(100, 1)>>),
                 InvoiceStatus("acc", "q1", "cancelled", None)>>)}

NewReport(by, kind, period, billed, collected, rows) ==
    [op |-> "create_report", by |-> by, kind |-> kind, association |-> "A1", period |-> period,
     billed |-> billed, collected |-> collected, rows |-> rows]
EditReport(by, report, kind, period, billed, collected, rows) ==
    [op |-> "update_report", by |-> by, report |-> report, kind |-> kind, association |-> "A1", period |-> period,
     billed |-> billed, collected |-> collected, rows |-> rows]
ImportReport(by, kind, sheet) ==
    [op |-> "import_report", by |-> by, kind |-> kind, association |-> "A1", period |-> "p2", sheet |-> sheet]

\* The template filled in: its last row begins with a total.
DueSheet(category) ==
    <<<<Text("total billed amount"), Number(5)>>, <<Text("total collected amount"), Number(5)>>, <<Text("options")>>,
      <<Text("member name"), Text("unit number"), Text("block"), Text("charge category"), Text("outstanding amount"),
        Text("days overdue"), Text("last payment date")>>,
      <<Text("m"), Text("u1"), None, Text(category), Number(1), Number(45), None>>, <<None, None>>,
      <<Text("n"), Text("u1"), Text("b"), Text("Other"), Number(2), Number(60), Date(0)>>,
      <<Text("total"), Text("u1"), None, Text("Other"), Number(3), Number(1), None>>>>
PrepaidSheet(used) ==
    <<<<Text("member name"), Text("unit number"), Text("block"), Text("category"), Text("prepaid amount"),
        Text("used amount"), Text("expiry date")>>,
      <<Text("m"), Text("u1"), None, Text("Other"), Number(2), Number(used), Date(1)>>>>

ReportWorkloads ==
    Pairs(<<EditReport("adm", "t1", "delinquency", "p1", 20, 15, <<DueRow("m", "Fine", 7, 1)>>),
            EditReport("acc", "t1", "delinquency", "p1", 9, 8, <<DueRow("m", "Other", 4, 75), DueRow("n", "Other", 2, 30)>>),
            EditReport("adm", "t1", "delinquency", "p2", 5, 4, <<DueRow("m", "Other", 0, 0)>>),
            NewReport("sup", "delinquency", "p2", 3, 2, <<DueRow("n", "Utilities", 1, 91), DueRow("o", "Utilities", 1, 0)>>),
            ImportReport("acc", "delinquency", DueSheet("Late Fee"))>>)
    \cup Pairs(<<EditReport("adm", "t2", "prepaid", "p1", 0, 0, <<PrepaidRow("m", 5, 5, 1)>>),
                 EditReport("acc", "t2", "prepaid", "p1", 0, 0, <<PrepaidRow("m", 5, 2, 1)>>),
                 ImportReport("adm", "prepaid", PrepaidSheet(2))>>)
    \cup Alone(<<EditReport("adm", "t3", "vendor_aging", "p2", 0, 0, <<AgingRow("v", "i", 2, 0, 1), AgingRow("v", "j", 1, 0, 0), AgingRow("w", "i", 1, 1, 1)>>),
                 NewReport("adm", "vendor_aging", "p2", 0, 0, <<AgingRow("v", "i", 1, 0, 0), AgingRow("v", "i", 2, 0, 0)>>),
                 NewReport("adm", "prepaid", "p1", 0, 0, <<PrepaidRow("m", 1, 0, 1)>>),
                 NewReport("own", "prepaid", "p2", 0, 0, <<PrepaidRow("m", 1, 0, 1)>>),
                 NewReport("adm", "delinquency", "p2", 1, 2, <<DueRow("m", "Other", 1, 1)>>),
                 NewReport("adm", "delinquency", "p2", 53, 51,
                           <<[DueRow("m", "Other", 51, 1) EXCEPT !.block = Text("=b")], [DueRow("n", "Other", 50, 60) EXCEPT !.paid = Date(1)]>>),
                 NewReport("adm", "prepaid", "p2", 0, 0, <<PrepaidRow("m", 53, 51, 1), PrepaidRow("=m", 52, 1, 1)>>),
                 NewReport("adm", "vendor_aging", "p2", 0, 0, <<AgingRow("v", "i", 51, 52, 53)>>),
                 NewReport("adm", "vendor_aging", "p2", 0, 0, <<AgingRow("v", "=i", 1, 1, 1)>>),
                 ImportReport("adm", "delinquency", DueSheet("Fine")), ImportReport("adm", "prepaid", PrepaidSheet(3)),
                 ImportReport("adm", "vendor_aging", PrepaidSheet(1)),
                 EditReport("adm", "t2", "delinquency", "p1", 1, 1, <<DueRow("m", "Other", 1, 1)>>)>>)

ChartCode(op, by, association, row, code) ==
    [op |-> op, by |-> by, association |-> association, row |-> row, code |-> code]
Upload(width, code) ==
    [op |-> "upload_chart", by |-> "acc", width |-> width,
     rows |-> <<[code |-> code, name |-> "n"], [code |-> None, name |-> "n"]>>]
MapChart(by, association) == [op |-> "map_chart", by |-> by, association |-> association]
SheetBody(op, by, on, items) ==
    [op |-> op, by |-> by, association |-> "A1", on |-> on, health |-> "Good", items |-> items,
     balance_sheet |-> "h0"]
SheetRow(section, code, amount, health) ==
    <<Text(section), IF code = None THEN None ELSE Text(code), Text("n"), Number(amount), health, None>>
ImportSheet(rows) ==
    [op |-> "import_sheet", by |-> "adm", association |-> "A1", on |-> 2, sheet |-> <<template_headings>> \o rows]
StatementBody(op, by, period, items) ==
    [op |-> op, by |-> by, association |-> "A1", period |-> period, items |-> items, statement |-> "y0"]
ImportStatement(types) ==
    [op |-> "import_statement", by |-> "acc", association |-> "A1", period |-> "p3",
     sheet |-> <<<<None>>>> \o [i \in DOMAIN types |-> <<Text(types[i]), Text("n"), Number(i), Number(0)>>]]

StatementWorkloads ==
    Pairs(<<ChartCode("add_chart", "acc", "A1", None, "200"), ChartCode("update_chart", "adm", "A1", <<"c3", "", 0>>, "200"),
            ChartCode("delete_chart", "adm", "A1", <<"c3", "", 0>>, None), ChartCode("add_chart", "adm", "A1", None, "100"),
            SheetBody("create_sheet", "adm", 1, <<SheetItem("current_asset", 2, <<"c3", "", 0>>), SheetItem("equity", 2, None)>>)>>)
    \cup Pairs(<<MapChart("sup", "A2"), ChartCode("add_chart", "sup", "A2", None, "100"), Upload(4, "100")>>)
    \cup Pairs(<<SheetBody("update_sheet", "adm", 1, SheetItems(4)), SheetBody("update_sheet", "acc", 0, SheetItems(3)),
                 SheetBody("create_sheet", "acc", 1, SheetItems(2)),
                 ImportSheet(<<SheetRow("current_assets", "100", 3, Text("Good")), SheetRow("equity", None, 3, None)>>)>>)
    \cup Pairs(<<StatementBody("update_statement", "adm", "p1", <<Entry("income", 3), Entry("expense", 4)>>),
                 StatementBody("update_statement", "acc", "p2", <<Entry("income", 8), Entry("expense", 2)>>),
                 StatementBody("create_statement", "acc", "p2", <<Entry("expense", 2)>>), ImportStatement(<<"income", "expense">>)>>)
    \cup Alone(<<Upload(2, "400"), MapChart("adm", "A1"), MapChart("own", "A1"), SheetBody("create_sheet", "adm", 1, <<>>),
                 SheetBody("create_sheet", "adm", 1, <<SheetItem("equity", 2, None)>>),
                 SheetBody("create_sheet", "adm", 1, <<SheetItem("current_asset", 0, <<"c2", "", 0>>)>>),
                 ImportSheet(<<SheetRow("current_assets", "900", 0, None)>>), ImportSheet(<<SheetRow("goodwill", None, 0, None)>>),
                 ImportSheet(<<SheetRow("equity", None, 0, Text("Good")), SheetRow("equity", None, 0, Text("Stable"))>>),
                 ImportStatement(<<"income", "surplus">>), StatementBody("create_statement", "own", "p2", <<>>),
                 StatementBody("create_statement", "adm", "p2", <<Entry("income", 1), Entry("expense", 20000)>>)>>)

NewUser(by, email, phone, unit) ==
    [op |-> "create_user", by |-> by, email |-> email, phone |-> phone, role |-> "homeowner", association |-> "A1",
     home |-> unit]
EditUser(email, phone, association, unit, block, number, role) ==
    [op |-> "update_user", by |-> "adm", person |-> P(1), email |-> email, phone |-> phone, association |-> association,
     home |-> unit, block |-> block, number |-> number, role |-> role]
NewEmployee(by, email, phone, role) ==
    [op |-> "create_employee", by |-> by, email |-> email, phone |-> phone, role |-> role, associations |-> {"A1"},
     city |-> "c"]
EditEmployee(login, role, associations) ==
    [op |-> "update_employee", by |-> "sup", login |-> login, role |-> role, associations |-> associations]
VendorBody(op, by, vendor, name) ==
    [op |-> op, by |-> by, vendor |-> vendor, name |-> name, active |-> TRUE, city |-> None]
BankBody(op, by, association, number, api_key) ==
    [op |-> op, by |-> by, bank |-> "k0", association |-> association, holder |-> "new", number |-> number,
     api_key |-> api_key]

DirectoryWorkloads ==
    Pairs(<<NewUser("adm", "e3", "3", <<"A1", 1>>), EditUser("e3", None, None, None, None, None, None),
            EditUser(None, "3", "A2", <<"A2", 1>>, None, None, None), EditUser(None, None, None, <<"A1", 2>>, None, None, None),
            EditUser(None, None, "A2", None, None, None, "tenant"), EditUser(None, None, "A1", None, "b", "2", "board_member"),
            [op |-> "delete_user", by |-> "adm", person |-> P(1)],
            NewEmployee("sup", "e3", "4", "admin"), NewEmployee("adm", "e4", "3", "adviser")>>)
    \cup Pairs(<<EditEmployee(<<"e", "login", 1>>, "tenant", {"A2"}), EditEmployee(<<"e", "login", 1>>, "admin", {})>>)
    \cup Pairs(<<VendorBody("create_vendor", "adm", None, "x"), VendorBody("update_vendor", "sup", "v1", "x"),
                 VendorBody("update_vendor", "adm", "v2", "v"), At("delete_vendor", "adm", "vendor", "v1")>>)
    \cup Pairs(<<BankBody("update_bank", "acc", "A1", Digits("2"), Hidden), BankBody("update_bank", "adm", "A1", mask_secret(Digits("1")), "t"),
                 BankBody("create_bank", "acc", "A1", Digits("3"), "t"), At("delete_bank", "adm", "bank", "k0")>>)
    \cup Alone(<<NewUser("adm", "e1", "3", <<"A1", 1>>), NewUser("adm", "e6", "1", <<"A1", 1>>), NewUser("adm", "e6", "", <<"A1", 1>>),
                 NewUser("adm", "e5", "", <<"A1", 1>>), NewUser("adm", "e3", "", <<"A2", 1>>), NewUser("acc", "e3", "", <<"A1", 1>>),
                 EditUser("e2", None, None, None, None, None, None), EditUser("e6", None, None, None, None, None, None),
                 EditUser(None, None, "A1", None, "b", "9", None), EditUser(None, None, "A3", None, None, None, None),
                 NewEmployee("adm", "e6", "7", "admin"), EditEmployee(<<"p", "login", 1>>, "admin", {}),
                 BankBody("update_bank", "adm", "A2", Digits("2"), None), BankBody("create_bank", "own", "A1", Digits("2"), "t")>>)

Own(op, login, table, record) ==
    [op |-> op, by |-> "self", login |-> <<login, "login", 1>>, table |-> table, record |-> record, text |-> "new"]
Details(login, email, phone) ==
    [op |-> "update_user_details", by |-> "self", login |-> <<login, "login", 1>>, email |-> email, phone |-> phone]

ProfileWorkloads ==
    Pairs(<<Details("p", "e3", None), Details("p", "e2", "5"), Details("e", "e4", "1"), NewUser("adm", "e3", "3", <<"A1", 1>>),
            EditUser("e4", None, None, <<"A1", 2>>, None, None, None), [op |-> "delete_user", by |-> "adm", person |-> P(1)]>>)
    \cup Pairs(<<Own("update_record", "p", "vehicles", "v0"), Own("delete_record", "p", "vehicles", "v0"),
                 Own("insert_record", "p", "pets", None), [op |-> "delete_user", by |-> "adm", person |-> P(1)]>>)
    \cup Alone(<<Details("s", "e3", None), Own("insert_record", "p", "family_members", None), Own("insert_record", "p", "employee_experience", None),
                 Own("update_record", "e", "employee_education", "d0"), Own("delete_record", "e", "employee_education", "d0"),
                 Own("delete_record", "e", "vehicles", "v0"), Own("update_record", "p", "pets", "v0")>>)

UnitLine(block, floor, number) == [block |-> block, floor |-> floor, number |-> number]
OwnerLine(number, name, email, primary, tenant_email) ==
    [block |-> "b", number |-> number, name |-> name, email |-> email, phone |-> IF email = "e8" THEN "8" ELSE "",
     primary |-> primary, rented |-> IF tenant_email # "" THEN "yes" ELSE "", tenant_email |-> tenant_email, tenant_phone |-> ""]
BoardLine(number, name) == [block |-> "b", number |-> number, name |-> name]
Onboard(entity, plan, units, owners, board) ==
    [op |-> "onboard", by |-> "sup", entity |-> entity, plan |-> plan, city |-> "c", units |-> units, owners |-> owners,
     board |-> board]
TwoUnits == <<UnitLine("b", "", "1"), UnitLine("b", "", "2"), UnitLine("", "", "9")>>
TwoOwners == <<OwnerLine("1", "x", "e8", "yes", "e9"), OwnerLine("2", "y", "e3", "yes", ""), OwnerLine("2", "x", "", "no", "")>>

Settings(by, association, assessment, fines) ==
    [op |-> "update_settings", by |-> by, association |-> association, names_end |-> assessment = None, end_date |-> 1,
     assessment |-> assessment, names_fines |-> fines # <<>>, fines |-> fines]
Occupancy(by, unit) ==
    [op |-> "unit_occupancy", by |-> by, association |-> "A1", home |-> unit, rented |-> TRUE]
Subscribe(by, plan, start, payment, status) ==
    [op |-> "update_subscription", by |-> by, association |-> "A1", plan |-> plan, start |-> start, end |-> None,
     payment |-> payment, status |-> status]

OnboardingWorkloads ==
    Pairs(<<Onboard("n2", "g1", TwoUnits, TwoOwners, <<BoardLine("2", "x"), BoardLine("", "y")>>),
            NewUser("adm", "e8", "3", <<"A1", 1>>), NewEmployee("adm", "e3", "8", "admin")>>)
    \cup Pairs(<<Settings("adm", "A1", 5, <<"late", "noise">>), Settings("sup", "A1", 6, <<"pets">>), Settings("adm", "A1", None, <<>>)>>)
    \cup Pairs(<<Subscribe("sup", "g1", None, None, "Inactive"), Subscribe("sup", "g2", None, "Paid", None),
                 Subscribe("sup", None, None, None, None), Settings("adm", "A1", None, <<>>)>>)
    \cup Pairs(<<With(Subscribe("sup", "g1", 0, "Paid", "Active"), [association |-> "A2"]),
                 With(Subscribe("sup", None, None, None, "Inactive"), [association |-> "A2"])>>)
    \cup Alone(<<Onboard("n1", None, <<UnitLine("b", "f", "1"), UnitLine("b", "g", "1")>>, <<OwnerLine("1", "x", "e8", "yes", "")>>, <<>>),
                 Onboard("n2", None, <<UnitLine("b", "f", "1")>>, <<OwnerLine("1", "x", "e8", "yes", "")>>, <<>>),
                 Onboard("n1", None, TwoUnits, TwoOwners \o <<OwnerLine("9", "z", "", "no", "")>>, <<>>),
                 Onboard("n1", "g3", TwoUnits, TwoOwners, <<>>), Onboard("n1", None, TwoUnits, Tail(TwoOwners), <<>>),
                 Onboard("n1", None, TwoUnits, <<OwnerLine("1", "x", "e3", "yes", ""), OwnerLine("2", "y", "e3", "yes", "")>>, <<>>),
                 Onboard("n1", None, TwoUnits, TwoOwners \o <<OwnerLine("1", "z", "", "no", "")>>,
                         <<BoardLine("2", "x"), BoardLine("1", "z"), BoardLine("2", "w")>>),
                 Occupancy("adm", <<"A1", 1>>), Occupancy("adm", <<"A2", 1>>), Occupancy("acc", <<"A1", 1>>),
                 Settings("adm", "A2", 5, <<>>), Settings("adm", "A3", 5, <<>>), Subscribe("adm", "g1", 0, None, None),
                 Subscribe("sup", "g3", 0, None, None), Subscribe("sup", "g1", 0, "Due", "Active")>>)

Entered(op, by, entry, columns) == [op |-> op, by |-> by, entry |-> entry, columns |-> columns]
TypeBody(op, by, entry, name) == Entered(op, by, entry, [name |-> name])
EntityBody(op, entry, name, type) == Entered(op, "adm", entry, [name |-> name, type |-> type])
PlanBody(op, entry, name, code) ==
    Entered(op, "sup", entry, [name |-> name, code |-> code, country |-> "US", trial |-> 0, active |-> TRUE])
FeatureBody(op, entry, name, parent) ==
    Entered(op, "adm", entry, [name |-> name, code |-> name, parent |-> parent, active |-> TRUE])
RoleBody(op, entry, name, code) == Entered(op, "adm", entry, [name |-> name, code |-> code, active |-> code # "renter"])
Drop(op, entry) == [op |-> op, by |-> "sup", entry |-> entry]
PlanFeatures(plan, features) == [op |-> "set_features", by |-> "sup", entry |-> plan, features |-> features]
Permission(op, permission, role, feature, flags) ==
    [op |-> op, by |-> "adm", permission |-> permission, role |-> role, feature |-> feature, flags |-> flags]
Matrix(role, grants) == [op |-> "bulk_permissions", by |-> "adm", role |-> role, grants |-> grants]
May(feature, flags) == [feature |-> feature, flags |-> flags]

CatalogueWorkloads ==
    Pairs(<<TypeBody("create_entity_type", "adm", None, "villa"), TypeBody("update_entity_type", "sup", "k2", "villa"),
            Drop("delete_entity_type", "k1")>>)
    \cup Pairs(<<EntityBody("create_entity", None, "m", "k2"), EntityBody("update_entity", "n2", "m", "k2"), Drop("delete_entity", "n1")>>)
    \cup Pairs(<<PlanBody("create_plan", None, "pro", None), PlanBody("update_plan", "g1", "pro", "basic"), Drop("delete_plan", "g1"),
                 PlanFeatures("g1", {"f2", "f3"}), PlanFeatures("g1", {"f1", "f3"}), Drop("delete_feature", "f3")>>)
    \cup Pairs(<<FeatureBody("update_feature", "f1", "f", "f3"), FeatureBody("update_feature", "f2", "g", "f1"),
                 FeatureBody("create_feature", None, "i", "f2"), FeatureBody("update_feature", "f3", "i", None),
                 Drop("delete_feature", "f2")>>)
    \cup Pairs(<<RoleBody("create_role", None, "guard", "guard"), RoleBody("update_role", "csr", "guard", "csr"), Drop("delete_role", "csr"),
                 EditEmployee(<<"e", "login", 1>>, "csr", {}), Matrix("csr", <<May("f2", {"view"})>>)>>)
    \cup Pairs(<<Permission("create_permission", None, "csr", "f2", {"view", "delete"}), Permission("create_permission", None, "csr", "f3", {}),
                 Permission("update_permission", <<"x", 1>>, "csr", "f3", {"view"}), Permission("delete_permission", <<"x", 1>>, None, None, {}),
                 Matrix("csr", <<May("f2", {"update"}), May("f3", {"view"}), May("f1", {})>>), Matrix("csr", <<May("f1", {"update"})>>)>>)
    \cup Alone(<<TypeBody("create_entity_type", "brd", None, "villa"), EntityBody("create_entity", None, "n", "k2"),
                 PlanBody("create_plan", None, "old", "x"), PlanFeatures("g2", {"f1", "f9"}), FeatureBody("update_feature", "f2", "g", "f3"),
                 FeatureBody("update_feature", "f1", "f", "f1"), RoleBody("create_role", None, "visitor", "guest"),
                 Drop("delete_role", "admin"), Permission("update_permission", <<"x", 1>>, "csr", "f2", {"view"}),
                 Matrix("csr", <<May("f3", {"view"}), May("f3", {"update"})>>), Matrix("guest", <<>>),
                 Matrix("csr", <<May("f1", {"view"}), May("f1", {"update"}), May("f1", {})>>)>>)
    \cup {Load(<<TypeBody("update_entity_type", "sup", "k2", "condominium"), Drop("delete_entity_type", "k1"),
                 Onboard("n2", None, <<UnitLine("b", "", "1")>>, <<OwnerLine("1", "x", "", "yes", "")>>, <<>>)>>),
          Load(<<RoleBody("update_role", "tenant", "tenant", "renter"), EditUser(None, None, "A1", None, "b", "9", "tenant")>>)}

MarkRead(by) == [op |-> "mark_read", by |-> by, notice |-> "n0"]
MarkAll(by) == [op |-> "mark_all_read", by |-> by]

InboxWorkloads ==
    Pairs(<<MarkRead("own"), MarkAll("own"), MarkAll("ten")>>)
    \cup Alone(<<MarkRead("com")>>)
    \cup Pairs(<<MarkAll("own"), NewAnnouncement("adm", "A1", "Homeowners"), NewPoll("adm", "A1", "Published")>>)
    \cup Pairs(<<Chat("com", None), At("service_message", "adm", "request", "s1"), MarkRead("own"), MarkAll("ten")>>)

\* A socket shows in what is pushed alone, so it opens beside one push of each shape: notices
\* to an audience, a frame to one account, frames to the listeners of a thread. The clock goes
\* on where a request reads it or the inbox is ordered by it.
MCPushing == {"create_poll", "chat_item", "task_message"}
MCTimed == {"update_poll", "vote_poll", "delete_poll", "update_event", "delete_event", "update_announcement",
            "delete_announcement", "update_meeting", "attend_meeting", "create_report", "update_report", "import_report",
            "onboard", "update_subscription", "mark_read", "mark_all_read"}

MCWorkloads == PollWorkloads \cup EventWorkloads \cup AnnouncementWorkloads \cup MarketWorkloads
               \cup ServiceWorkloads \cup TaskWorkloads \cup MeetingWorkloads \cup DocumentWorkloads
               \cup InvoiceWorkloads \cup ReportWorkloads \cup StatementWorkloads \cup DirectoryWorkloads \cup ProfileWorkloads
               \cup OnboardingWorkloads \cup CatalogueWorkloads \cup InboxWorkloads
=============================================================================
