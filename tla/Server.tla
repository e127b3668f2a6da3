------------------------------- MODULE Server -------------------------------
(* The community services behind one database: requests of any of them come in   *)
(* together, each in a unit of work of its own (app/main.py mounts their        *)
(* routers), and share the inbox and the sockets.                            *)
EXTENDS Polls, Events, Announcements, Marketplace, ServiceRequests, BoardTasks, Meetings,
        Documents, Invoices, Statements, Onboarding, Profile, Inbox

Step(r) ==
    \/ PollStep(r) \/ EventStep(r) \/ AnnouncementStep(r) \/ MarketStep(r)
    \/ ServiceStep(r) \/ BoardTaskStep(r) \/ MeetingStep(r) \/ DocumentStep(r)
    \/ InvoiceStep(r) \/ ReportStep(r) \/ StatementStep(r)
    \/ CatalogueStep(r) \/ DirectoryStep(r) \/ ProfileStep(r) \/ OnboardingStep(r) \/ InboxStep(r)

\* The client or the database hangs up before the handler ends.
ConnectionLost(r) == stage[r] = "open" /\ Abort(r)

Next ==
    \/ \E r \in Requests : \/ Begin(r) \/ Step(r) \/ ConnectionLost(r)
                           \/ Publish(r) \/ WorkerStops(r)
    \/ \E a \in Browsers : Connect(a) \/ Disconnect(a)
    \/ Tick

Spec == Init /\ [][Next]_vars
-----------------------------------------------------------------------------
StageOK == stage \in [Requests -> {"waiting", "open", "refused", "aborted",
                                   "committed", "answered", "lost"}]

\* Every row has the columns of its table and refers to rows there are.
TypeOK ==
    /\ StageOK /\ now \in 0..LastTime
    /\ sockets \subseteq Browsers
    /\ PollsTypeOK /\ EventsTypeOK /\ AnnouncementsTypeOK /\ MarketTypeOK
    /\ ServiceTypeOK /\ BoardTasksTypeOK /\ MeetingsTypeOK /\ DocumentsTypeOK
    /\ InvoicesTypeOK /\ ReportsTypeOK /\ StatementsTypeOK
    /\ CataloguesTypeOK /\ DirectoryTypeOK /\ ProfileTypeOK /\ OnboardingTypeOK /\ InboxTypeOK
-----------------------------------------------------------------------------
(* What concurrent requests may do to a row, and what only overlapping ones may *)

\* Committed requests of a kind that name a row in their path, as <<"poll", p>>.
On(about, ops) ==
    {q \in Requests : /\ Committed(q) /\ body[q].op \in ops
                      /\ about[1] \in DOMAIN body[q] /\ body[q][about[1]] = about[2]}

Raced(requests) == \E q, r \in requests : q # r /\ Overlapped(q, r)

Edits == {"update_poll", "update_event", "update_announcement", "update_item", "map_service",
          "update_meeting"}
Deletes == {"delete_poll", "delete_event", "delete_announcement", "delete_item",
            "delete_service", "delete_task", "delete_meeting"}

\* The counts of a poll's options add up to its votes, and where it takes one choice to
\* its voters, unless requests that replace votes - two edits, an edit and a vote, two votes
\* of one account - overlapped: vote_poll and update_poll mark the rows they see as deleted
\* and add theirs, without a lock.
VotesStand ==
    \A p \in Live(db.polls) :
        LET edits == On(<<"poll", p>>, {"update_poll"})
            votes == On(<<"poll", p>>, {"vote_poll"})
        IN  \/ Sum([o \in poll_options(db, p) |-> vote_count(db, o)])
                 = IF db.polls[p].multiple THEN Cardinality(poll_votes(db, p)) ELSE total_votes(db, p)
            \/ \E a \in Accounts : Raced(edits \cup {q \in votes : body[q].by = a})

\* A poll or an event is announced once: again only after an edit took it back, or by two
\* edits that both found it unpublished.
AnnouncedOnce ==
    \A m, n \in db.notifications :
        m # n /\ m.about = n.about /\ m.about[1] \in {"poll", "event"} =>
            \/ Overlapped(m.by, n.by)
            \/ \E q \in On(m.about, {"update_poll", "update_event"}) : ~published(body[q].columns.status)

MayOpen(tables, account, about) ==
    CASE about[1] = "poll" -> _authorized_poll(tables, about[2], account)
      [] about[1] = "event" -> _authorized_event(tables, about[2], account)
      [] about[1] = "announcement" -> _authorized_announcement(tables, about[2], account)
      [] about[1] = "item" -> _authorized_item(tables, about[2], account)
      [] about[1] = "request" -> _authorized_request(tables, about[2], account)
      [] about[1] = "task" -> _authorized_task(tables, about[2], account)
      [] about[1] = "meeting" -> about[2] \in meeting_list(tables, account)
      [] OTHER -> TRUE

\* Where the code tells more than it lets open: events/service.py lets the board answer
\* what is for all; the queries for the listeners of a thread and for the administrators of
\* an association name members of the board, and whoever has the association among its own,
\* by whatever role; a resident whom update_user made an administrator is told of its
\* request; the owner of an item writes to anybody (marketplace/service.py, send_chat); and
\* an audience is of the association of the unit, where polls, events and announcements are
\* opened by that of the person.
ToldBesides(tables, account, about) ==
    \/ about[1] = "event" /\ RoleOf[account] = "board_member"
       /\ tables.events[about[2]].audience = "Board Members"
    \/ about[1] = "request" /\ Len(about) = 3 /\ RoleOf[account] \in {"board_member", "committee_member"}
    \/ about[1] \in {"request", "task"} /\ Manages[account] # {} /\ RoleOf[account] \notin ADMIN_ROLE_CODES
    \/ about[1] = "request" /\ RoleOf[account] = "admin" /\ HomeOf[account] # None
    \/ /\ about[1] = "item"
       /\ \E k \in DOMAIN tables.chat :
             LET message == tables.chat[k]
             IN  /\ message.item = about[2] /\ message.to = account
                 /\ message.from = tables.items[about[2]].owner
    \/ about[1] \in {"poll", "event", "announcement", "request"} /\ UnitOf[account] # None
       /\ UnitHome[UnitOf[account]] # HomeOf[account]

\* Who is told of a thing, in the inbox or over a socket, may open it, until an edit or
\* deletion changes that. The recipients are computed by queries of their own, apart
\* from the authorization of the thing.
ToldMayOpen ==
    \A n \in db.notifications \cup db.frames : \A a \in n.to :
        \/ MayOpen(db, a, n.about)
        \/ ToldBesides(db, a, n.about)
        \/ On(n.about, Edits \cup Deletes) \ {n.by} # {}

\* What a list shows its reader the reader may open; the document or the record of a profile
\* that a reader may change is in the reader's list, and the board sees what a tenant filed:
\* list filters and authorization are written apart in every module. Events are listed to the
\* board whoever they are for.
ListedMayOpen ==
    /\ \A l \in DOMAIN db.logins : \A k \in DOMAIN db.profileRecords :
          owned(db, k, db.profileRecords[k].table, db.logins[l]) => k \in profile_data(db, db.logins[l])
    /\ \A a \in Accounts :
          LET own == document_list(db, a)
              units == unit_document_list(db, a)
          IN  /\ \A p \in poll_list(db, a) : _authorized_poll(db, p, a)
              /\ \A e \in event_list(db, a) : RoleOf[a] = "board_member" \/ _authorized_event(db, e, a)
              /\ \A x \in announcement_list(db, a) : _authorized_announcement(db, x, a)
              /\ \A i \in item_list(db, a) : _authorized_item(db, i, a)
              /\ \A k \in service_list(db, a) : _authorized_request(db, k, a)
              /\ \A t \in board_task_list(db, a) : _authorized_task(db, t, a)
              /\ \A d \in Live(db.documents) \ own :
                    manages_document(db, d, a) => ~association_exists(db, db.documents[d].association)
              /\ \A d \in Live(db.unitDocuments) \ units :
                    writes_unit_document(db, d, a) => ~association_exists(db, db.unitDocuments[d].association)
              /\ RoleOf[a] = "tenant" =>
                    \A d \in {x \in units : db.unitDocuments[x].by = a} : \A b \in Accounts :
                       RoleOf[b] = "board_member" /\ HomeOf[b] = HomeOf[a] => d \in board_visible_list(db, b)

\* An event seats no more than its capacity, unless an answer overlapped another or an
\* edit of the event, or an edit changed the capacity later. A meeting has no more answers
\* than members asked, unless two answers overlapped.
SeatsHeldUnlessRaced ==
    /\ \A e \in Live(db.events) :
          \/ db.events[e].capacity = NoLimit
          \/ going_count(db, e) <= db.events[e].capacity
          \/ Raced(On(<<"event", e>>, {"rsvp", "clear_rsvp"}))
          \/ On(<<"event", e>>, {"update_event"}) # {}
    /\ \A m \in Live(db.meetings) :
          \/ answers(db, m, "Yes") + answers(db, m, "No") + answers(db, m, "Maybe")
               <= _eligible_count(db.meetings[m].association)
          \/ Raced(On(<<"meeting", m>>, {"attend_meeting"}))

\* A member has one row of each kind at a thing, unless the two requests that inserted
\* them overlapped: these tables have no unique key over the pair.
OnePerMember(table, thing) ==
    \A j, k \in DOMAIN table :
        j # k /\ table[j].by = table[k].by /\ table[j][thing] = table[k][thing] =>
            {j, k} \subseteq Requests /\ Overlapped(j, k)

\* The tables of such rows and the column that names the thing.
MemberRows == [rsvps |-> "event", likes |-> "announcement", favorites |-> "item", views |-> "item",
               attendance |-> "meeting"]

OneRowPerMember == \A t \in DOMAIN MemberRows : OnePerMember(db[t], MemberRows[t])

NewRows(old, new) == {k \in DOMAIN new : k \notin DOMAIN old \/ old[k] # new[k]}

\* The rows of a table that were written since the beginning.
Written(t) == NewRows(OpeningTables[t], db[t])

MadeBy(key) == IF key[1] \in Requests THEN key[1] ELSE None
Writing(ops) == {q \in Requests : Committed(q) /\ body[q].op \in ops}

\* The options of a poll come from one edit.
PollsWhole ==
    \A p \in DOMAIN db.polls : \/ Cardinality({MadeBy(o) : o \in poll_options(db, p)}) <= 1
                               \/ Raced(On(<<"poll", p>>, {"update_poll"}))

\* The images of an item do too, whatever overlapped: the statement that deletes the old
\* ones reads the rows there are.
ImagesWhole == \A i \in DOMAIN db.items : Cardinality({MadeBy(k) : k \in images_of(db, i)}) <= 1

\* A mapped request has its resident's unit, and the association of the resident or, where
\* an edit left the resident in a unit of another, of the unit.
Mapped(request) ==
    /\ UnitOf[request.user] = request.unit
    /\ \/ HomeOf[request.user] = request.association
       \/ request.unit # None /\ UnitHome[request.unit] = request.association

TicketsWhole ==
    \A k \in DOMAIN db.serviceRequests :
        Mapped(db.serviceRequests[k]) \/ Raced(On(<<"request", k>>, {"map_service"}))

\* The totals of an invoice are those of its lines, to the rounding of each.
Itemised(tables, i) ==
    LET invoice == tables.invoices[i]
        lines == lines_of(tables, i)
        amounts == Sum([k \in lines |-> tables.invoiceLines[k].amount])
    IN  /\ invoice.grand_total = invoice.subtotal - invoice.discount + invoice.tax
        /\ lines # {} => /\ 2 * (amounts - invoice.subtotal) <= Cardinality(lines)
                         /\ 2 * (invoice.subtotal - amounts) <= Cardinality(lines)

\* A paid invoice, and no other, names its payment; the totals are those of the lines.
InvoicesWhole ==
    \A i \in DOMAIN db.invoices :
        /\ \/ (db.invoices[i].status = "paid") = (db.invoices[i].payment # None)
           \/ Raced(On(<<"invoice", i>>, {"update_invoice", "invoice_status"}))
        /\ Itemised(db, i)

\* The totals of a report or statement are those of its rows. The lines of a balance sheet
\* balance always: an edit deletes and inserts them by statements.
HasTotals(row, sums) == \A c \in DOMAIN sums : c \in DOMAIN row /\ row[c] = sums[c]

ReportsWhole ==
    /\ \A k \in DOMAIN db.financialReports :
          LET report == db.financialReports[k]
          IN  HasTotals(report, totals(report.kind, report.rows)) \/ Raced(On(<<"report", k>>, {"update_report"}))
    /\ \A k \in DOMAIN db.incomeStatements :
          LET statement == db.incomeStatements[k]
          IN  \/ HasTotals(statement, income_totals(statement.items))
              \/ Raced(On(<<"statement", k>>, {"update_statement"}))
    /\ \A k \in DOMAIN db.balanceSheets : validate_balanced(db.balanceSheets[k].items)

\* The logins of a person have the address of the person.
Addressed(tables, p) == \A l \in login_of(tables, p) : tables.logins[l].email = tables.people[p].email

\* Edits of the addresses in the profile of a person.
ProfileEdits(p) ==
    {q \in Writing({"update_user_details"}) :
        body[q].email # None /\ own_row(db.logins[body[q].login]) = <<"people", p>>}

\* A person's address is that of the login, unless the person changed it in the profile, and
\* the unit is one of the association; an edit that names an association and no unit leaves
\* the person in a unit of another.
PeopleWhole ==
    \A p \in Live(db.people) :
        LET person == db.people[p]
            edits == On(<<"person", p>>, {"update_user"})
        IN  /\ Addressed(db, p) \/ ProfileEdits(p) # {}
            /\ \/ person.unit \in units_of(db, person.association) \cup {None}
               \/ Raced(edits)
               \/ \E q \in edits : body[q].association # None /\ body[q].home = None

\* A plan has a period, an association one assessment rule and the fines of one edit.
SettingsWhole ==
    \A a \in DOMAIN db.associations :
        LET edits(op) == On(<<"association", a>>, {op})
        IN  /\ \/ db.associations[a].plan = None \/ db.associations[a].start # None
               \/ Raced(edits("update_subscription"))
            /\ \/ Cardinality(rules_of(db.assessmentRules, a)) <= 1
               \/ Raced(edits("update_settings"))
            /\ Cardinality({k[1] : k \in rules_of(db.fineRules, a)}) <= 1

\* No two features are below each other.
NoLoop(tables) ==
    \A f, g \in Live(tables.features) : f # g => f \notin branch(tables, g) \/ g \notin branch(tables, f)

\* Who gives or takes roles, or gives a login one.
RoleOps == {"delete_role", "create_user", "update_user", "create_employee", "update_employee", "onboard"}

\* No two features are below each other, and every login has a role that is not deleted.
CataloguesWhole ==
    /\ NoLoop(db) \/ Raced(Writing({"update_feature"}))
    /\ (\A l \in DOMAIN db.logins : role_exists(db, db.logins[l].role)) \/ Raced(Writing(RoleOps))

\* What belongs together stays together, unless edits of it overlapped: each service
\* validates what it writes against its snapshot and writes the columns that changed.
WholeUnlessRaced ==
    /\ PollsWhole /\ ImagesWhole /\ TicketsWhole /\ InvoicesWhole /\ ReportsWhole
    /\ PeopleWhole /\ SettingsWhole /\ CataloguesWhole
    /\ \A e \in DOMAIN db.events :
          validate_pass_settings(db.events[e]) \/ Raced(On(<<"event", e>>, {"update_event"}))

\* Two requests of one unit have different display ids, unless they were filed together or
\* an administrator moved one: the id counts the requests the unit has, and two units may
\* show as one name. Two accounts of one
\* chart have different codes, unless requests that give codes overlapped or the global
\* list had the code twice; two live people or employees have different addresses and
\* numbers, two live vendors and two live entries of a catalogue different names, unless
\* requests that give them overlapped or a person gave it in the profile. No table has a unique key over any of these.
GivesCode(q, k) ==
    \/ q = k[1]
    \/ body[q].op = "update_chart" /\ body[q].row = k

NamingOps ==
    [entityTypes |-> {"create_entity_type", "update_entity_type"}, entities |-> {"create_entity", "update_entity"},
     plans |-> {"create_plan", "update_plan"}, features |-> {"create_feature", "update_feature"},
     roles |-> {"create_role", "update_role"}]

\* Somebody wrote the value into a profile, which asks nobody.
SelfGiven(f, value) == \E q \in Writing({"update_user_details"}) : body[q][f] = value

ContactsDiffer(p) ==
    LET email == db.people[p].email
        phone == db.people[p].phone
    IN  /\ email # "" /\ ~SelfGiven("email", email) =>
             /\ \A q \in Live(db.people) \ {p} : db.people[q].email # email
             /\ \A e \in Live(db.employees) : db.employees[e].email # email
        /\ SelfGiven("phone", phone) \/ ~phone_exists(db, phone, p)

NoDoubleUnlessRaced ==
    /\ \A j, k \in DOMAIN db.serviceRequests :
          j # k /\ db.serviceRequests[j].display = db.serviceRequests[k].display =>
              \/ db.serviceRequests[j].unit # db.serviceRequests[k].unit
              \/ {j, k} \subseteq Requests /\ Overlapped(j, k)
              \/ \E q \in Requests : Committed(q) /\ body[q].op = "map_service"
    /\ \A j, k \in Live(db.chart) :
          /\ j # k
          /\ db.chart[j].association = db.chart[k].association /\ db.chart[j].code = db.chart[k].code
          => \/ Raced({q \in Requests : Committed(q) /\ (GivesCode(q, j) \/ GivesCode(q, k))})
             \/ \E g, h \in DOMAIN db.globalChart :
                   g # h /\ db.globalChart[g].code = db.globalChart[h].code
    /\ \/ \A p \in Live(db.people) : ContactsDiffer(p)
       \/ Raced(Writing({"create_user", "update_user", "create_employee", "onboard"}))
    /\ \/ \A v, w \in Live(db.vendors) : v # w => db.vendors[v].name # db.vendors[w].name
       \/ Raced(Writing({"create_vendor", "update_vendor"}))
    /\ \A t \in DOMAIN NamingOps :
          \/ \A j, k \in Live(db[t]) : j # k => ~SameName(t, db[t][j], db[t][k])
          \/ Raced(Writing(NamingOps[t]))

\* Following next_cursor from the first page on shows every notice of an account once,
\* whatever the size of the pages.
NextPage(tables, account, limit, before) ==
    IF before.shown # <<>> /\ before.cursor = {} THEN before
    ELSE [shown |-> Append(before.shown, page(tables, account, limit, before.cursor)),
          cursor |-> next_cursor(tables, account, limit, before.cursor)]

Pages(tables, account, limit) ==
    LET last == Cardinality(inbox(tables, account))
        Walk[k \in 0..last] == IF k = 0 THEN [shown |-> <<>>, cursor |-> {}]
                               ELSE NextPage(tables, account, limit, Walk[k - 1])
    IN  Walk[last].shown

PagesCoverInbox ==
    \A a \in Accounts : \A limit \in PageSizes :
        LET shown == Pages(db, a, limit)
        IN  /\ UNION {shown[i] : i \in DOMAIN shown} = inbox(db, a)
            /\ \A i, j \in DOMAIN shown : i # j => shown[i] \cap shown[j] = {}

\* Once an invoice has lines they and its total stay; and what the list of an association
\* reports as paid never falls but by a deletion, by the first lines of a paid invoice from
\* before there were lines, or by a request that missed another's commit.
InvoicesSettled ==
    [][/\ \A i \in DOMAIN db.invoices : lines_of(db, i) # {} =>
            /\ lines_of(db', i) = lines_of(db, i)
            /\ db'.invoices[i].grand_total = db.invoices[i].grand_total
       /\ \A a \in DOMAIN db.associations :
            \/ total_amount(db', a, {"paid"}) >= total_amount(db, a, {"paid"})
            \/ \E r \in Requests :
                  /\ stage'[r] # stage[r]
                  /\ \/ body[r].op = "delete_invoice" \/ missed[r] # {}
                     \/ /\ body[r].op = "update_invoice" /\ db.invoices[body[r].invoice].status = "paid"
                        /\ lines_of(db, body[r].invoice) = {}]_db

\* Percentages that make a hundred, up to the rounding of each.
MakeHundred(slices, total) ==
    LET shares == Sum([x \in DOMAIN slices |-> percentage(slices[x], total)])
    IN  /\ 2 * (shares - 10000) <= Cardinality(DOMAIN slices)
        /\ 2 * (10000 - shares) <= Cardinality(DOMAIN slices)

\* The slices of a distribution make up the whole: no row falls between two buckets or
\* into two, and the percentages make a hundred.
DistributionsAddUp ==
    \A k \in Written("financialReports") :
        LET report == db.financialReports[k]
            total == total_of(report.kind, report.rows)
            both == distributions(report.kind, report.rows)
        IN  \A i \in {1, 2} : Sum(both[i]) = total /\ (total # 0 => MakeHundred(both[i], total))

\* A report as it was saved last, exported and imported again, is the report but for the
\* cells a workbook does not keep: a text it takes for a formula and an amount a float
\* rounds. The import refuses it just when such a text is a required one or a charge
\* category is not among those it takes. Columns, headings and totals of the export and
\* what the import looks for are written apart.
Kept(cell) ==
    cell = None \/ CASE cell[1] = "text" -> cell[2] \notin Formulas
                     [] cell[1] = "number" -> as_float(cell[2]) = cell[2] [] OTHER -> TRUE

Importable(report) ==
    \A i \in DOMAIN report.rows :
       LET row == report.rows[i]
       IN  /\ \A f \in (Fields(report.kind) \cap TextFields) \ Optional : Kept(row[f])
           /\ report.kind = "delinquency" => row.category[2] \in CHARGE_CATEGORY_VALUES

ComesBack(report) ==
    LET kind == report.kind
        sheet == reread(build_export_workbook(report))
        rows == imported_rows(kind, sheet)
    IN  /\ parse_import_workbook(kind, sheet) <=> Importable(report)
        /\ DOMAIN rows = DOMAIN report.rows
        /\ \A i \in DOMAIN rows : \A f \in Fields(kind) : Kept(report.rows[i][f]) => rows[i][f] = report.rows[i][f]
        /\ Kept(Number(report.billed)) => billed_in(kind, sheet) = report.billed
        /\ Kept(Number(report.collected)) => collected_in(kind, sheet) = report.collected

\* An onboarding makes the units its preview counted, each with a homeowner, unless the
\* workbook names one number of a block more than once: then each row is a unit, and all
\* its people live in the last.
Repeats(b) == \E i, j \in unit_rows(b) : i # j /\ unit_key(b.units[i]) = unit_key(b.units[j])
AsPreviewed(r, tables) ==
    LET made == units_of(tables, r)
    IN  \/ /\ Cardinality(made) = workbook_metrics(body[r])
           /\ made \subseteq {tables.people[p].unit : p \in Live(tables.people)}
        \/ Repeats(body[r])

\* What leaves in a workbook comes back as far as the workbook keeps it, and what comes in with one is what it
\* says. The export of a sheet or of a statement is laid out for readers: the import refuses
\* it and does not take a part of it.
WorkbooksAgree ==
    [][/\ \A k \in NewRows(db.financialReports, db'.financialReports) : ComesBack(db'.financialReports[k])
       /\ \A k \in NewRows(db.balanceSheets, db'.balanceSheets) :
             ~parse_workbook(reread(export_balance_sheet(db'.balanceSheets[k])))
       /\ \A k \in NewRows(db.incomeStatements, db'.incomeStatements) :
             ~parse_statement(reread(export_income_statement(db'.incomeStatements[k])))
       /\ \A a \in DOMAIN db'.associations \ DOMAIN db.associations : AsPreviewed(a, db')]_db

\* What a document or an item was not asked to become it does not become: an edit writes
\* what it names, unless it missed a commit. update_unit_document writes its snapshot's
\* file and flag back. A bank account never takes the mask a form shows for its number or
\* its secret. A role has the permissions of its matrix, a plan its features, and no other,
\* where nobody else wrote any meanwhile.
Asked(r, f, value) ==
    \/ missed[r] # {}
    \/ body[r][f] = value
    \/ f = "board" /\ RoleOf[body[r].by] = "tenant"

\* A line of a matrix that grants something and that no later line of its feature replaces.
LastWord(grants, i) ==
    /\ grants[i].flags # {}
    /\ \A j \in DOMAIN grants : j > i /\ grants[j].feature = grants[i].feature => grants[j].flags = {}

GrantsAsAsked(r, tables) ==
    LET b == body[r]
        rows == {tables.permissions[k] : k \in Live(tables.permissions)}
    IN  /\ b.op = "bulk_permissions" =>
             {[feature |-> p.feature, flags |-> p.flags] : p \in {q \in rows : q.role = b.role}}
               = {b.grants[i] : i \in {j \in DOMAIN b.grants : LastWord(b.grants, j)}}
        /\ b.op = "set_features" => {k[2] : k \in {j \in Live(tables.planFeatures) : j[1] = b.entry}} = b.features

OnlyAskedChanges ==
    [][\A r \in Requests : stage'[r] # stage[r] =>
         /\ missed[r] # {} \/ GrantsAsAsked(r, db')
         /\ \A d \in DOMAIN db.unitDocuments : \A f \in {"file", "board"} :
              db'.unitDocuments[d][f] # db.unitDocuments[d][f] => Asked(r, f, db'.unitDocuments[d][f])
         /\ \A i \in DOMAIN db.items : \A f \in {"title", "price", "status"} :
              db'.items[i][f] # db.items[i][f] => f \in DOMAIN body[r].columns
         /\ \A k \in DOMAIN db.bankAccounts :
              LET old == db.bankAccounts[k]
                  new == db'.bankAccounts[k]
              IN  /\ new.number # old.number => new.number = body[r].number /\ ~new.number.masked
                  /\ new.api_key # old.api_key => new.api_key = body[r].api_key /\ new.api_key # Hidden]_db
-----------------------------------------------------------------------------
(* What the theorems about these tables assume of the opening ones *)

ASSUME OpeningRows ==
    \A t \in DOMAIN MemberRows :
        LET table == OpeningTables[t]
            thing == MemberRows[t]
        IN  /\ t \in DOMAIN OpeningTables
            /\ \A k \in DOMAIN table : {"by", thing} \subseteq DOMAIN table[k]
            /\ \A requests \in Workloads : DOMAIN table \cap DOMAIN requests = {}
            /\ \A j, k \in DOMAIN table :
                  table[j].by = table[k].by /\ table[j][thing] = table[k][thing] => j = k

\* The tables of what is announced. A thing has a status; an opening notice is of one that
\* is published, and no two are of the same.
Announced == [poll |-> "polls", event |-> "events"]

ASSUME OpeningAnnounced ==
    /\ "notifications" \in DOMAIN OpeningTables
    /\ \A kind \in DOMAIN Announced :
          LET table == OpeningTables[Announced[kind]]
          IN  /\ Announced[kind] \in DOMAIN OpeningTables
              /\ \A x \in DOMAIN table : "status" \in DOMAIN table[x]
              /\ \A requests \in Workloads : DOMAIN table \cap DOMAIN requests = {}
              /\ \A n \in OpeningTables.notifications : n.about[1] = kind =>
                    n.about[2] \in DOMAIN table /\ published(table[n.about[2]].status)
    /\ \A m, n \in OpeningTables.notifications : m.about = n.about => m = n

\* The tables of what people and employees keep about themselves. A login is a person's
\* or an employee's.
RecordTables == EMPLOYEE_TABLES \cup MEMBER_TABLES \cup {"family_members"}

LoginsOK(tables) ==
    \A l \in DOMAIN tables.logins :
        LET login == tables.logins[l]
        IN  {"person", "employee"} \subseteq DOMAIN login /\ None \in {login.person, login.employee}

ASSUME OpeningRecords ==
    /\ {"logins", "profileRecords"} \subseteq DOMAIN OpeningTables
    /\ LoginsOK(OpeningTables)
    /\ \A k \in DOMAIN OpeningTables.profileRecords :
          LET record == OpeningTables.profileRecords[k]
          IN  {"table", "owner"} \subseteq DOMAIN record /\ record.table \in RecordTables

\* The columns of an answer. The opening events have room for their answers, and who answered
\* to a meeting is of its association. No key is NULL.
AnswerColumns == {"event", "by", "status", "deleted"}

HasRoom(tables, e) ==
    \/ tables.events[e].capacity = NoLimit
    \/ tables.events[e].capacity \in Nat /\ going_count(tables, e) <= tables.events[e].capacity

ASSUME OpeningSeats ==
    /\ {"events", "rsvps", "meetings", "attendance", "associations"} \subseteq DOMAIN OpeningTables
    /\ IsFiniteSet(DOMAIN OpeningTables.rsvps)
    /\ \A e \in DOMAIN OpeningTables.events :
          "capacity" \in DOMAIN OpeningTables.events[e] /\ HasRoom(OpeningTables, e)
    /\ \A k \in DOMAIN OpeningTables.rsvps :
          /\ DOMAIN OpeningTables.rsvps[k] = AnswerColumns
          /\ OpeningTables.rsvps[k].event \in DOMAIN OpeningTables.events
    /\ \A m \in DOMAIN OpeningTables.meetings :
          /\ "association" \in DOMAIN OpeningTables.meetings[m]
          /\ OpeningTables.meetings[m].association \in DOMAIN OpeningTables.associations
    /\ \A k \in DOMAIN OpeningTables.attendance :
          LET answer == OpeningTables.attendance[k]
          IN  /\ answer.meeting \in DOMAIN OpeningTables.meetings
              /\ answer.by \in Audience(OpeningTables.meetings[answer.meeting].association, "All")
    /\ None \notin DOMAIN OpeningTables.associations
    /\ \A requests \in Workloads : /\ None \notin DOMAIN requests
                                   /\ DOMAIN OpeningTables.meetings \cap DOMAIN requests = {}
    /\ IsFiniteSet(Accounts)

\* The tables of what is told of, and the columns that the authorization of a thing reads.
ToldTables ==
    [poll |-> "polls", event |-> "events", announcement |-> "announcements", item |-> "items",
     request |-> "serviceRequests", task |-> "boardTasks", meeting |-> "meetings"]

AuthorizedBy ==
    [poll |-> {"association", "visibility", "deleted"}, event |-> {"association", "audience", "deleted"},
     announcement |-> {"association", "audience", "deleted"}, item |-> {"association", "owner", "deleted"},
     request |-> {"association", "unit", "user", "deleted"},
     task |-> {"association", "creator", "supervisor", "deleted"},
     meeting |-> {"association", "audience", "block", "deleted"}]

\* What a handler has checked of those a row names: the owner of an item may view it, the
\* creator and the supervisor of a task are of its board or administer its association, a
\* request is of the association of its resident.
Rightful(kind, row) ==
    CASE kind = "item" -> InScope(row.owner, row.association)
      [] kind = "task" -> \A a \in {row.creator, row.supervisor} : _require_board_association(a, row.association)
      [] kind = "request" -> IsResident(row.user) => HomeOf[row.user] = row.association
      [] OTHER -> TRUE

ASSUME OpeningTold ==
    /\ {"notifications", "frames", "chat", "associations"} \subseteq DOMAIN OpeningTables
    /\ \A kind \in DOMAIN ToldTables :
          /\ ToldTables[kind] \in DOMAIN OpeningTables
          /\ LET table == OpeningTables[ToldTables[kind]]
             IN  /\ \A x \in DOMAIN table : /\ AuthorizedBy[kind] \subseteq DOMAIN table[x]
                                            /\ Rightful(kind, table[x])
                 /\ \A requests \in Workloads : DOMAIN table \cap DOMAIN requests = {}
    /\ \A a \in DOMAIN OpeningTables.associations : "deleted" \in DOMAIN OpeningTables.associations[a]
    /\ \A requests \in Workloads :
          (DOMAIN OpeningTables.chat \cup DOMAIN OpeningTables.associations) \cap DOMAIN requests = {}
    /\ \A n \in OpeningTables.notifications \cup OpeningTables.frames :
          /\ \A requests \in Workloads : n.by \notin DOMAIN requests
          /\ n.about[1] \in DOMAIN ToldTables =>
                /\ n.about[2] \in DOMAIN OpeningTables[ToldTables[n.about[1]]]
                /\ \A a \in n.to : MayOpen(OpeningTables, a, n.about) \/ ToldBesides(OpeningTables, a, n.about)

\* The operations that edit or delete a thing of a kind.
Changing ==
    [poll |-> {"update_poll", "delete_poll"}, event |-> {"update_event", "delete_event"},
     announcement |-> {"update_announcement", "delete_announcement"}, item |-> {"update_item", "delete_item"},
     request |-> {"map_service", "delete_service"}, task |-> {"delete_task"},
     meeting |-> {"update_meeting", "delete_meeting"}]

\* The columns that OnlyAskedChanges reads.
AskedColumns ==
    [unitDocuments |-> {"file", "board"}, items |-> {"title", "price", "status"}, bankAccounts |-> {"number", "api_key"},
     permissions |-> {"role", "feature", "flags", "deleted"}, planFeatures |-> {"deleted"}]

ASSUME OpeningAsked ==
    /\ \A t \in DOMAIN AskedColumns :
          /\ t \in DOMAIN OpeningTables
          /\ \A k \in DOMAIN OpeningTables[t] : AskedColumns[t] \subseteq DOMAIN OpeningTables[t][k]
    /\ \A k \in DOMAIN OpeningTables.planFeatures : k = <<k[1], k[2]>>
    /\ \A requests \in Workloads :
          /\ (DOMAIN OpeningTables.unitDocuments \cup DOMAIN OpeningTables.bankAccounts) \cap DOMAIN requests = {}
          /\ \A k \in DOMAIN OpeningTables.permissions : k[1] \notin DOMAIN requests

\* Notices have a time and a key of their own, also those that requests will add.
ASSUME OpeningInbox ==
    /\ "notifications" \in DOMAIN OpeningTables
    /\ LET opening == OpeningTables.notifications
       IN  /\ IsFiniteSet(opening)
           /\ \A n \in opening : n.at \in Nat
           /\ \A m, n \in opening : m.by = n.by => m = n
           /\ \A requests \in Workloads :
                 LET keys == DOMAIN requests \cup {n.by : n \in opening}
                 IN  /\ \A k \in keys : IdOrder[k] \in Nat
                     /\ \A j, k \in keys : IdOrder[j] = IdOrder[k] => j = k
                     /\ \A n \in opening : n.by \notin DOMAIN requests

\* A vote is for an option of its poll and of an account, and has the row of its key.
VotesShape(tables) ==
    /\ {"polls", "pollOptions", "pollVotes"} \subseteq DOMAIN tables
    /\ IsFiniteSet(DOMAIN tables.pollOptions) /\ IsFiniteSet(DOMAIN tables.pollVotes)
    /\ \A p \in DOMAIN tables.polls : "multiple" \in DOMAIN tables.polls[p]
    /\ \A o \in DOMAIN tables.pollOptions : {"poll", "deleted"} \subseteq DOMAIN tables.pollOptions[o]
    /\ \A v \in DOMAIN tables.pollVotes :
          /\ v = <<v[1], v[2], v[3]>> /\ v[1] \in DOMAIN tables.polls /\ v[3] \in Accounts
          /\ v[2] \in DOMAIN tables.pollOptions /\ tables.pollOptions[v[2]].poll = v[1]
          /\ "deleted" \in DOMAIN tables.pollVotes[v]

\* The votes of a poll are for its options, one of each voter where it takes one choice.
VotesWell(tables, p) ==
    /\ \A v \in poll_votes(tables, p) : v[2] \in poll_options(tables, p)
    /\ \/ tables.polls[p].multiple
       \/ \A v, w \in poll_votes(tables, p) : v[3] = w[3] => v = w

ASSUME OpeningVotes ==
    /\ VotesShape(OpeningTables)
    /\ \A p \in DOMAIN OpeningTables.polls : VotesWell(OpeningTables, p)
    /\ \A requests \in Workloads :
          /\ DOMAIN OpeningTables.polls \cap DOMAIN requests = {}
          /\ \A o \in DOMAIN OpeningTables.pollOptions : o[1] \notin DOMAIN requests

\* The rows of a report have the numbers of its kind.
RowsFilled(kind, rows) ==
    /\ IsFiniteSet(DOMAIN rows)
    /\ \A i \in DOMAIN rows : \A f \in Fields(kind) \ (TextFields \cup DateFields) : rows[i][f][2] \in numbers(f)

ASSUME OpeningReports ==
    /\ "financialReports" \in DOMAIN OpeningTables
    /\ \A k \in DOMAIN OpeningTables.financialReports :
          LET report == OpeningTables.financialReports[k]
          IN  {"kind", "rows"} \subseteq DOMAIN report /\ report.kind \in Kinds
    /\ \A requests \in Workloads : DOMAIN OpeningTables.financialReports \cap DOMAIN requests = {}

\* What a handler validates together and writes column by column: of which table, in which
\* columns, and the operations that do.
Watched ==
    [report |-> "financialReports", statement |-> "incomeStatements", request |-> "serviceRequests",
     invoice |-> "invoices", event |-> "events", poll |-> "polls", plan |-> "associations",
     rules |-> "associations", person |-> "people"]

WatchedColumns ==
    [report |-> {"kind", "rows"}, statement |-> {"items"}, request |-> {"user", "unit", "association"},
     invoice |-> {"status", "payment"}, event |-> {"has_pass", "is_paid", "price", "fee"}, poll |-> {},
     plan |-> {"plan", "start"}, rules |-> {}, person |-> {"association", "unit"}]

Rewriting ==
    [report |-> {"update_report"}, statement |-> {"update_statement"}, request |-> {"map_service"},
     invoice |-> {"update_invoice", "invoice_status"}, event |-> {"update_event"}, poll |-> {"update_poll"},
     plan |-> {"update_subscription"}, rules |-> {"update_settings"}, person |-> {"update_user"}]

\* The field of a body that names it.
PathField(w) == IF w \in {"plan", "rules"} THEN "association" ELSE w

Together(tables, w, k) ==
    LET row == tables[Watched[w]][k]
    IN  CASE w = "report" -> HasTotals(row, totals(row.kind, row.rows))
          [] w = "statement" -> HasTotals(row, income_totals(row.items))
          [] w = "request" -> Mapped(row)
          [] w = "invoice" -> (row.status = "paid") = (row.payment # None)
          [] w = "event" -> validate_pass_settings(row)
          [] w = "poll" -> \A o, p \in poll_options(tables, k) : o[1] = p[1]
          [] w = "plan" -> row.plan = None \/ row.start # None
          [] w = "rules" -> \A o, p \in rules_of(tables.assessmentRules, k) : o = p
          [] w = "person" -> row.unit \in units_of(tables, row.association) \cup {None}

\* The requests that may add a row under a key.
KeyOf(w, k) == IF w = "person" THEN k[1] ELSE k

ASSUME OpeningWhole ==
    \A w \in DOMAIN Watched :
        /\ Watched[w] \in DOMAIN OpeningTables
        /\ \A k \in DOMAIN OpeningTables[Watched[w]] :
              /\ WatchedColumns[w] \subseteq DOMAIN OpeningTables[Watched[w]][k]
              /\ Together(OpeningTables, w, k)
              /\ \A requests \in Workloads : KeyOf(w, k) \notin DOMAIN requests

\* An option is of a poll there is.
OptionsOwned(tables) == \A o \in DOMAIN tables.pollOptions : tables.pollOptions[o].poll \in DOMAIN tables.polls

ASSUME OpeningOptions == OptionsOwned(OpeningTables)

\* A unit is in a block there is, a rule of an association there is.
PlacesOK(tables) ==
    /\ {"units", "blocks", "assessmentRules", "associations"} \subseteq DOMAIN tables
    /\ \A u \in DOMAIN tables.units : tables.units[u].block \in DOMAIN tables.blocks
    /\ \A k \in DOMAIN tables.blocks : "association" \in DOMAIN tables.blocks[k]
    /\ \A k \in DOMAIN tables.assessmentRules :
          tables.assessmentRules[k].association \in DOMAIN tables.associations

ASSUME OpeningPlaces ==
    /\ PlacesOK(OpeningTables)
    /\ \A requests \in Workloads :
          /\ \A u \in DOMAIN OpeningTables.units : u[1] \notin DOMAIN requests
          /\ \A k \in DOMAIN OpeningTables.blocks : k[1] \notin DOMAIN requests
          /\ DOMAIN OpeningTables.assessmentRules \cap DOMAIN requests = {}

\* The images of an item and the fines of an association come from one request each, a
\* balance sheet balances.
EditsWhole(tables) ==
    /\ {"items", "images", "fineRules", "balanceSheets"} \subseteq DOMAIN tables
    /\ \A k \in DOMAIN tables.images : /\ {"item", "deleted"} \subseteq DOMAIN tables.images[k]
                                       /\ tables.images[k].item \in DOMAIN tables.items
    /\ \A j, k \in Live(tables.images) : tables.images[j].item = tables.images[k].item => j[1] = k[1]
    /\ \A j, k \in DOMAIN tables.fineRules :
          tables.fineRules[j].association = tables.fineRules[k].association => j[1] = k[1]
    /\ \A k \in DOMAIN tables.balanceSheets :
          "items" \in DOMAIN tables.balanceSheets[k] /\ validate_balanced(tables.balanceSheets[k].items)

ASSUME OpeningEdits == EditsWhole(OpeningTables)

\* A line is of an invoice there is, and an invoice with lines has a first one.
AmountsOK(tables) ==
    /\ {"invoices", "invoiceLines"} \subseteq DOMAIN tables
    /\ \A k \in DOMAIN tables.invoiceLines :
          /\ {"invoice", "order"} \subseteq DOMAIN tables.invoiceLines[k]
          /\ tables.invoiceLines[k].invoice \in DOMAIN tables.invoices
    /\ \A i \in DOMAIN tables.invoices :
          /\ {"subtotal", "discount", "tax", "grand_total"} \subseteq DOMAIN tables.invoices[i]
          /\ Itemised(tables, i)
          /\ lines_of(tables, i) # {} => \E k \in lines_of(tables, i) : tables.invoiceLines[k].order = 1

ASSUME OpeningAmounts ==
    /\ AmountsOK(OpeningTables)
    /\ \A requests \in Workloads : \A k \in DOMAIN OpeningTables.invoiceLines : k[1] \notin DOMAIN requests

\* An invoice is of an association, deleted or not, and its total is no less than nought.
TotalsWell(tables) ==
    /\ IsFiniteSet(DOMAIN tables.invoices)
    /\ \A i \in DOMAIN tables.invoices :
          /\ {"association", "deleted", "status", "grand_total"} \subseteq DOMAIN tables.invoices[i]
          /\ tables.invoices[i].grand_total \in Nat

ASSUME OpeningTotals == TotalsWell(OpeningTables)

\* People and logins have addresses; a login's person is there.
AddressesOK(tables) ==
    /\ {"people", "logins"} \subseteq DOMAIN tables
    /\ \A p \in DOMAIN tables.people : p # None /\ "email" \in DOMAIN tables.people[p]
    /\ \A l \in DOMAIN tables.logins :
          /\ {"person", "employee", "email"} \subseteq DOMAIN tables.logins[l]
          /\ tables.logins[l].person \in DOMAIN tables.people \cup {None}

ASSUME OpeningAddresses ==
    /\ AddressesOK(OpeningTables)
    /\ \A p \in DOMAIN OpeningTables.people : Addressed(OpeningTables, p)
    /\ \A requests \in Workloads :
          /\ \A k \in DOMAIN OpeningTables.people \cup DOMAIN OpeningTables.logins : k[1] \notin DOMAIN requests
          /\ \A r \in DOMAIN requests :
                requests[r].op = "update_user_details" => requests[r].login \in DOMAIN OpeningTables.logins

\* A role is deleted or not, and a login has one.
RolesOK(tables) ==
    /\ {"roles", "logins"} \subseteq DOMAIN tables
    /\ \A l \in DOMAIN tables.logins : "role" \in DOMAIN tables.logins[l]
    /\ \A k \in DOMAIN tables.roles : "deleted" \in DOMAIN tables.roles[k]

ASSUME OpeningRoles ==
    /\ RolesOK(OpeningTables)
    /\ \A l \in DOMAIN OpeningTables.logins : role_exists(OpeningTables, OpeningTables.logins[l].role)

\* The parent of a feature is one there is.
FeaturesOK(tables) ==
    /\ "features" \in DOMAIN tables /\ IsFiniteSet(DOMAIN tables.features)
    /\ \A f \in DOMAIN tables.features :
          /\ f # None /\ {"parent", "deleted"} \subseteq DOMAIN tables.features[f]
          /\ tables.features[f].parent \in DOMAIN tables.features \cup {None}

ASSUME OpeningFeatures ==
    /\ FeaturesOK(OpeningTables) /\ NoLoop(OpeningTables)
    /\ \A requests \in Workloads : DOMAIN OpeningTables.features \cap DOMAIN requests = {}

\* A time is no NULL, and neither is the key of a new row.
ASSUME Period == None \notin Nat
ASSUME NewKeys == \A requests \in Workloads : None \notin (DOMAIN requests) \X {"user", "owner", "tenant"} \X Nat

\* The fields a body has by the schema of its operation.
ASSUME Payloads ==
    \A requests \in Workloads : \A r \in DOMAIN requests :
        LET b == requests[r]
        IN  /\ b.op = "insert_record" => b.table \in RecordTables
            /\ b.op = "create_event" => /\ "capacity" \in DOMAIN b.columns
                                        /\ b.columns.capacity \in Nat \cup {NoLimit}
            /\ b.op = "update_meeting" => "association" \notin DOMAIN b.columns
            /\ b.op = "attend_meeting" => "meeting" \in DOMAIN b /\ b.by \in Accounts
            /\ b.op \in {"create_poll", "create_event"} => "status" \in DOMAIN b.columns
            /\ b.op \in {"create_event", "update_event"} => WatchedColumns.event \subseteq DOMAIN b.columns
            /\ b.op = "update_poll" => "poll" \in DOMAIN b
            /\ b.op \in {"update_event", "rsvp", "clear_rsvp"} => "event" \in DOMAIN b
            /\ \A kind \in DOMAIN Changing : b.op \in Changing[kind] => kind \in DOMAIN b
            /\ \A w \in DOMAIN Watched : b.op \in Rewriting[w] => PathField(w) \in DOMAIN b
            /\ b.op \in {"update_poll", "update_event"} => {"association", "deleted"} \cap DOMAIN b.columns = {}
            /\ b.op = "create_poll" => {"visibility", "multiple"} \subseteq DOMAIN b.columns
            /\ b.op \in {"create_poll", "update_poll"} => IsFiniteSet(b.options)
            /\ b.op = "vote_poll" => "poll" \in DOMAIN b /\ b.by \in Accounts
            /\ b.op \in {"create_event", "create_announcement"} => "audience" \in DOMAIN b.columns
            /\ b.op = "create_meeting" => /\ {"audience", "block"} \subseteq DOMAIN b.columns
                                          /\ b.columns.audience \in MeetingAudiences
            /\ b.op = "map_service" => b.unit # None
            /\ b.op = "onboard" => /\ Len(b.units) \in Nat /\ DOMAIN b.units = 1..Len(b.units)
                                   /\ Len(b.owners) \in Nat /\ DOMAIN b.owners = 1..Len(b.owners)
            /\ b.op \in {"create_invoice", "update_invoice"} =>
                  /\ Len(b.lines) \in Nat /\ DOMAIN b.lines = 1..Len(b.lines)
                  /\ \A i \in DOMAIN b.lines : b.lines[i].quantity \in Nat /\ b.lines[i].rate \in Nat
                  /\ b.discount_value \in Nat /\ b.tax_rate \in Nat
            /\ b.op \in {"create_feature", "update_feature"} => "parent" \in DOMAIN b.columns
            /\ b.op \in {"update_role", "update_feature"} => "deleted" \notin DOMAIN b.columns
            /\ b.op = "create_item" => AskedColumns.items \subseteq DOMAIN b.columns
            /\ b.op \in {"create_report", "update_report", "import_report"} => b.kind \in Kinds
            /\ b.op \in {"create_report", "update_report"} => RowsFilled(b.kind, b.rows)
            /\ b.op = "import_report" => Len(b.sheet) \in Nat /\ DOMAIN b.sheet = 1..Len(b.sheet)
            /\ b.op = "bulk_permissions" =>
                  /\ Len(b.grants) \in Nat /\ DOMAIN b.grants = 1..Len(b.grants)
                  /\ \A i \in DOMAIN b.grants :
                        b.grants[i] = [feature |-> b.grants[i].feature, flags |-> b.grants[i].flags]
=============================================================================
