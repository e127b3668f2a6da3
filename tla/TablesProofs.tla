---------------------------- MODULE TablesProofs ----------------------------
(* What the tables of the server hold: the rows of the financial reports and    *)
(* what the readers see of them, the votes of polls, and the things that are     *)
(* edited as a whole.                                                           *)
(*                                                                           *)
(* As in ServerProofs a step leaves the tables alone or is the commit of one      *)
(* request, and each invariant is proved from the handlers that write its        *)
(* tables. The lemmas that say so are repeated here: the two modules are about   *)
(* different tables and use nothing else of each other.                          *)
EXTENDS Server, FiniteSetTheorems, SumsTheorems, TLAPS

(* Steps and commits                                                             *)

Sessions == StageOK /\ DOMAIN seen = Requests /\ DOMAIN missed = Requests

\* A step that writes no table; the snapshot of a request that begins is of the tables
\* there are.
Idle ==
    /\ UNCHANGED <<db, body, missed>> /\ now' \in {now, now + 1} /\ StageOK' /\ DOMAIN seen' = Requests
    /\ \A q \in Requests :
         /\ Committed(q)' <=> Committed(q)
         /\ stage'[q] \in {"waiting", "open"} => stage[q] \in {"waiting", "open"}
         /\ stage'[q] = "open" => seen'[q] = IF stage[q] = "open" THEN seen[q] ELSE db

\* r commits, whatever it writes: the requests that are open have missed that.
Commits(r) ==
    /\ UNCHANGED <<body, now>> /\ StageOK' /\ DOMAIN seen' = Requests
    /\ stage[r] = "open" /\ Committed(r)'
    /\ \A q \in Requests \ {r} : stage'[q] = stage[q] /\ seen'[q] = seen[q]
    /\ missed' = [q \in Requests |-> IF stage[q] = "open" /\ q # r THEN missed[q] \cup {r}
                                     ELSE missed[q]]

Leaves(tables, written) ==
    DOMAIN tables = DOMAIN db /\ \A t \in DOMAIN db \ written : tables[t] = db[t]

\* r ends; if it commits, it leaves all tables but those that are written.
Handles(r, written) ==
    \/ Refuse(r) \/ Abort(r)
    \/ \E tables : Commit(r, tables) /\ Leaves(tables, written)

\* A commit writes the tables and ends its request alone.
LEMMA CommitCommits ==
    ASSUME Sessions, NEW r \in Requests, NEW tables, Commit(r, tables)
    PROVE  Commits(r) /\ db' = tables
  BY DEF Sessions, StageOK, Commit, Ends, Commits, Committed, Requests

\* A request that is refused or fails writes nothing.
LEMMA RefuseIdles ==
    ASSUME Sessions, NEW r \in Requests, Refuse(r) \/ Abort(r)
    PROVE  Idle
  BY DEF Sessions, StageOK, Refuse, Abort, Ends, Idle, Committed, Requests

\* A request that commits was not refused and did not fail.
LEMMA Decided ==
    ASSUME Sessions, NEW r \in Requests, Commits(r)
    PROVE  ~Refuse(r) /\ ~Abort(r)
  BY DEF Sessions, StageOK, Commits, Committed, Refuse, Abort, Ends

\* So a handler's step is one or the other, and leaves the other tables.
LEMMA HandlesFrame ==
    ASSUME Sessions, NEW r \in Requests, NEW written, Handles(r, written)
    PROVE  (Idle \/ Commits(r)) /\ Leaves(db', written)
<1>1. CASE Refuse(r) \/ Abort(r)
  <2>1. Idle
    BY <1>1, RefuseIdles
  <2> QED
    BY <2>1 DEF Idle, Leaves
<1>2. CASE \E tables : Commit(r, tables) /\ Leaves(tables, written)
  <2>1. PICK tables : Commit(r, tables) /\ Leaves(tables, written)
    BY <1>2
  <2> QED
    BY <2>1, CommitCommits
<1> QED
  BY <1>1, <1>2 DEF Handles
-----------------------------------------------------------------------------
(* The footprints: which tables the handlers of a service write                 *)

\* Posting and editing polls.
LEMMA PollsTell ==
    ASSUME NEW r \in Requests, create_poll(r) \/ update_poll(r)
    PROVE  Handles(r, {"polls", "pollOptions", "pollVotes", "notifications"})
  BY Zenon DEF create_poll, update_poll, Decide, Handles, Leaves

\* Deleting them.
LEMMA PollsDelete ==
    ASSUME NEW r \in Requests, delete_poll(r)
    PROVE  Handles(r, {"polls"})
  BY Zenon DEF delete_poll, Decide, Handles, Leaves

\* Answering them.
LEMMA PollsWrite ==
    ASSUME NEW r \in Requests, vote_poll(r) \/ toggle_poll_like(r) \/ add_poll_comment(r)
    PROVE  Handles(r, {"pollVotes", "pollLikes", "pollComments"})
  BY Zenon DEF vote_poll, toggle_poll_like, add_poll_comment, Decide, Handles, Leaves

\* Posting and editing events.
LEMMA EventsTell ==
    ASSUME NEW r \in Requests, create_event(r) \/ update_event(r)
    PROVE  Handles(r, {"events", "notifications"})
  BY Zenon DEF create_event, update_event, Decide, Handles, Leaves

\* Deleting them.
LEMMA EventsDelete ==
    ASSUME NEW r \in Requests, delete_event(r)
    PROVE  Handles(r, {"events"})
  BY Zenon DEF delete_event, Decide, Handles, Leaves

\* Liking and commenting on them.
LEMMA EventsWrite ==
    ASSUME NEW r \in Requests, toggle_event_like(r) \/ add_event_comment(r)
    PROVE  Handles(r, {"eventLikes", "eventComments"})
  BY Zenon DEF toggle_event_like, add_event_comment, Decide, Handles, Leaves

\* Answering an invitation.
LEMMA AnswersWrite ==
    ASSUME NEW r \in Requests, rsvp(r) \/ clear_rsvp(r)
    PROVE  Handles(r, {"rsvps"})
  BY Zenon DEF rsvp, clear_rsvp, Decide, Handles, Leaves

\* Posting announcements.
LEMMA AnnouncementsTell ==
    ASSUME NEW r \in Requests, create_announcement(r)
    PROVE  Handles(r, {"announcements", "notifications"})
  BY Zenon DEF create_announcement, Decide, Handles, Leaves

\* Editing, deleting and commenting on them.
LEMMA AnnouncementsWrite ==
    ASSUME NEW r \in Requests,
           update_announcement(r) \/ delete_announcement(r) \/ add_announcement_comment(r)
    PROVE  Handles(r, {"announcements", "announcementComments"})
  BY Zenon DEF update_announcement, delete_announcement, add_announcement_comment, Decide, Handles,
         Leaves

\* Liking them.
LEMMA LikesWrite ==
    ASSUME NEW r \in Requests, toggle_like(r)
    PROVE  Handles(r, {"likes"})
  BY Zenon DEF toggle_like, Decide, Handles, Leaves

\* The chat about an item.
LEMMA ItemsTell ==
    ASSUME NEW r \in Requests, send_chat(r)
    PROVE  Handles(r, {"chat", "frames", "notifications"})
  BY Zenon DEF send_chat, Decide, Handles, Leaves

\* Listing, editing, deleting and reporting items.
LEMMA ItemsWrite ==
    ASSUME NEW r \in Requests, create_item(r) \/ update_item(r) \/ delete_item(r) \/ add_report(r)
    PROVE  Handles(r, {"items", "images", "reports"})
  BY Zenon DEF create_item, update_item, delete_item, add_report, Decide, Handles, Leaves

\* Keeping an item in mind.
LEMMA FavoritesWrite ==
    ASSUME NEW r \in Requests, toggle_favorite(r)
    PROVE  Handles(r, {"favorites"})
  BY Zenon DEF toggle_favorite, Decide, Handles, Leaves

\* Looking at an item.
LEMMA ViewsWrite ==
    ASSUME NEW r \in Requests, record_view(r)
    PROVE  Handles(r, {"views"})
  BY SMT DEF record_view, Decide, Handles, Leaves

\* Service requests but their deletion.
LEMMA RequestsTell ==
    ASSUME NEW r \in Requests,
           create_service_request(r) \/ update_service_status(r) \/ map_service_request(r) \/ send_service_message(r)
    PROVE  Handles(r, {"serviceRequests", "serviceMessages", "frames", "notifications"})
  BY Zenon DEF create_service_request, update_service_status, map_service_request,
         send_service_message, Decide, Handles, Leaves

\* Deleting service requests.
LEMMA RequestsWrite ==
    ASSUME NEW r \in Requests, delete_service_request(r)
    PROVE  Handles(r, {"serviceRequests"})
  BY Zenon DEF delete_service_request, Decide, Handles, Leaves

\* Board tasks but their deletion.
LEMMA TasksTell ==
    ASSUME NEW r \in Requests, create_task(r) \/ update_task_status(r) \/ send_task_message(r)
    PROVE  Handles(r, {"boardTasks", "taskMessages", "frames", "notifications"})
  BY Zenon DEF create_task, update_task_status, send_task_message, Decide, Handles, Leaves

\* Deleting board tasks.
LEMMA TasksWrite ==
    ASSUME NEW r \in Requests, delete_task(r)
    PROVE  Handles(r, {"boardTasks"})
  BY Zenon DEF delete_task, Decide, Handles, Leaves

\* Calling a meeting.
LEMMA MeetingsTell ==
    ASSUME NEW r \in Requests, create_meeting(r)
    PROVE  Handles(r, {"meetings", "notifications"})
  BY Zenon DEF create_meeting, Decide, Handles, Leaves

\* Editing, closing and deleting meetings.
LEMMA MeetingsWrite ==
    ASSUME NEW r \in Requests, update_details(r) \/ add_minutes(r) \/ delete_meeting(r)
    PROVE  Handles(r, {"meetings"})
  BY Zenon DEF update_details, add_minutes, delete_meeting, Decide, Handles, Leaves

\* Answering to a meeting.
LEMMA AttendanceWrite ==
    ASSUME NEW r \in Requests, update_attendance(r)
    PROVE  Handles(r, {"attendance"})
  BY Zenon DEF update_attendance, Decide, Handles, Leaves

\* Documents.
LEMMA DocumentsWrite ==
    ASSUME NEW r \in Requests, DocumentStep(r)
    PROVE  Handles(r, {"documents", "unitDocuments"})
  BY Zenon DEF DocumentStep, create_document, update_document, delete_document,
         create_unit_document, update_unit_document, delete_unit_document, Decide, Handles, Leaves

\* Invoices.
LEMMA InvoicesWrite ==
    ASSUME NEW r \in Requests, InvoiceStep(r)
    PROVE  Handles(r, {"invoices", "invoiceLines"})
  BY Zenon DEF InvoiceStep, create_invoice, update_invoice, update_invoice_status, delete_invoice,
         Decide, Handles, Leaves

\* Financial reports.
LEMMA ReportsWrite ==
    ASSUME NEW r \in Requests, ReportStep(r)
    PROVE  Handles(r, {"financialReports"})
  BY Zenon DEF ReportStep, create_report, import_report, update_report, CreateReport, Decide,
         Handles, Leaves

\* Charts of accounts, balance sheets and income statements.
LEMMA StatementsWrite ==
    ASSUME NEW r \in Requests, StatementStep(r)
    PROVE  Handles(r, {"globalChart", "chart", "balanceSheets", "incomeStatements"})
  BY ZenonT(60) DEF StatementStep, upload_global, map_global, add_association, update_association,
         delete_association, create_balance_sheet, update_balance_sheet, import_workbook,
         create_income_statement, update_income_statement, import_income_statement,
         CreateBalanceSheet, SaveNew, Decide, Handles, Leaves

\* Roles, plans and the other catalogues.
LEMMA CataloguesWrite ==
    ASSUME NEW r \in Requests, CatalogueStep(r)
    PROVE  Handles(r, {"entityTypes", "entities", "plans", "planFeatures", "features", "roles", "permissions"})
  BY ZenonT(60) DEF CatalogueStep, create_entity_type, update_entity_type, delete_entity_type,
         create_entity, update_entity, delete_entity, create_plan, update_plan, delete_plan,
         set_features, create_feature, update_feature, delete_feature, create_role, update_role,
         delete_role, create_permission, update_permission, delete_permission, bulk_update,
         CreateEntry, UpdateEntry, DeleteEntry, DeleteCoded, Decide, Handles, Leaves

\* Logins, with their people and employees.
LEMMA LoginsWrite ==
    ASSUME NEW r \in Requests, update_user(r) \/ create_employee(r) \/ update_employee(r)
    PROVE  Handles(r, {"people", "logins", "employees"})
  BY ZenonT(60) DEF update_user, create_employee, update_employee, Decide, Handles, Leaves

\* Users without one, vendors and bank accounts.
LEMMA DirectoryWrite ==
    ASSUME NEW r \in Requests, DirectoryStep(r), ~(update_user(r) \/ create_employee(r) \/ update_employee(r))
    PROVE  Handles(r, {"people", "vendors", "bankAccounts"})
  BY ZenonT(60) DEF DirectoryStep, create_user, delete_user, create_vendor, update_vendor,
         delete_vendor, create_bank_account, update_bank_account, delete_bank_account, Decide, Handles, Leaves

\* Onboarding.
LEMMA OnboardingWrite ==
    ASSUME NEW r \in Requests, onboard(r)
    PROVE  Handles(r, {"associations", "blocks", "units", "people", "logins", "boardTerms"})
  BY ZenonT(60) DEF onboard, Decide, Handles, Leaves

\* Settings.
LEMMA SettingsWrite ==
    ASSUME NEW r \in Requests, update_settings(r) \/ set_unit_occupancy(r) \/ update_subscription(r)
    PROVE  Handles(r, {"associations", "units", "assessmentRules", "fineRules"})
  BY ZenonT(60) DEF update_settings, set_unit_occupancy, update_subscription, Decide, Handles, Leaves

\* Read marks.
LEMMA InboxWrite ==
    ASSUME NEW r \in Requests, InboxStep(r)
    PROVE  Handles(r, {"read"})
  BY Zenon DEF InboxStep, mark_read, mark_all_read, Decide, Handles, Leaves

\* The addresses people have in their profile.
LEMMA DetailsWrite ==
    ASSUME NEW r \in Requests, update_user_details(r)
    PROVE  Handles(r, {"people", "employees"})
<1> DEFINE own == own_row(seen[r].logins[body[r].login])
           rows == [db EXCEPT ![own[1]][own[2]].email = Given(body[r].email, @),
                              ![own[1]][own[2]].phone = Given(body[r].phone, @)]
<1>1. own[1] \in {"people", "employees"}
  BY DEF own_row
<1>2. Decide(r, own[2] # None, FALSE, rows)
  BY Zenon DEF update_user_details
<1> HIDE DEF own
<1>3. Leaves(rows, {"people", "employees"})
  BY <1>1 DEF Leaves
<1> HIDE DEF rows
<1> QED
  BY <1>2, <1>3 DEF Decide, Handles

\* What people keep about themselves.
LEMMA RecordsWrite ==
    ASSUME NEW r \in Requests, insert_record(r) \/ update_record(r) \/ delete_record(r)
    PROVE  Handles(r, {"profileRecords"})
  BY SMT DEF insert_record, update_record, delete_record, ChangeRecord, Decide, Handles, Leaves
-----------------------------------------------------------------------------
(* The steps *)

\* Every handler's step is idle or a commit.
LEMMA StepFrame ==
    ASSUME Sessions, NEW r \in Requests, Step(r)
    PROVE  Idle \/ Commits(r)
<1>1. CASE PollStep(r)
  <2>1. \E written : Handles(r, written)
    BY <1>1, PollsTell, PollsDelete, PollsWrite DEF PollStep
  <2> QED
    BY <2>1, HandlesFrame
<1>2. CASE EventStep(r)
  <2>1. \E written : Handles(r, written)
    BY <1>2, EventsTell, EventsDelete, EventsWrite, AnswersWrite DEF EventStep
  <2> QED
    BY <2>1, HandlesFrame
<1>3. CASE AnnouncementStep(r)
  <2>1. \E written : Handles(r, written)
    BY <1>3, AnnouncementsTell, AnnouncementsWrite, LikesWrite DEF AnnouncementStep
  <2> QED
    BY <2>1, HandlesFrame
<1>4. CASE MarketStep(r)
  <2>1. \E written : Handles(r, written)
    BY <1>4, ItemsTell, ItemsWrite, FavoritesWrite, ViewsWrite DEF MarketStep
  <2> QED
    BY <2>1, HandlesFrame
<1>5. CASE ServiceStep(r)
  <2>1. \E written : Handles(r, written)
    BY <1>5, RequestsTell, RequestsWrite DEF ServiceStep
  <2> QED
    BY <2>1, HandlesFrame
<1>6. CASE BoardTaskStep(r)
  <2>1. \E written : Handles(r, written)
    BY <1>6, TasksTell, TasksWrite DEF BoardTaskStep
  <2> QED
    BY <2>1, HandlesFrame
<1>7. CASE MeetingStep(r)
  <2>1. \E written : Handles(r, written)
    BY <1>7, MeetingsTell, MeetingsWrite, AttendanceWrite DEF MeetingStep
  <2> QED
    BY <2>1, HandlesFrame
<1>8. CASE DocumentStep(r) \/ InvoiceStep(r) \/ ReportStep(r) \/ StatementStep(r) \/ CatalogueStep(r) \/ DirectoryStep(r) \/ ProfileStep(r) \/ OnboardingStep(r) \/ InboxStep(r)
  <2>1. \E written : Handles(r, written)
    BY <1>8, DocumentsWrite, InvoicesWrite, ReportsWrite, StatementsWrite, CataloguesWrite, LoginsWrite,
       DirectoryWrite, DetailsWrite, RecordsWrite, OnboardingWrite, SettingsWrite, InboxWrite
       DEF ProfileStep, OnboardingStep
  <2> QED
    BY <2>1, HandlesFrame
<1> QED
  BY <1>1, <1>2, <1>3, <1>4, <1>5, <1>6, <1>7, <1>8 DEF Step

\* A step of the server is idle or the commit of one request.
LEMMA StepCases ==
    ASSUME Sessions, [Next]_vars
    PROVE  Idle \/ \E r \in Requests : Commits(r) /\ Step(r)
<1>1. ASSUME NEW r \in Requests, Begin(r) \/ Publish(r) \/ WorkerStops(r)
      PROVE  Idle
  BY <1>1 DEF Begin, Publish, WorkerStops, Sessions, StageOK, Idle, Committed, Requests
<1>2. ASSUME NEW r \in Requests, ConnectionLost(r)
      PROVE  Idle
  BY <1>2, RefuseIdles DEF ConnectionLost
<1>3. ASSUME Tick \/ UNCHANGED vars \/ \E a \in Browsers : Connect(a) \/ Disconnect(a)
      PROVE  Idle
  BY <1>3 DEF Tick, vars, Connect, Disconnect, Sessions, StageOK, Idle, Committed, Requests
<1> QED
  BY <1>1, <1>2, <1>3, StepFrame DEF Next

\* The sessions are well formed always.
LEMMA StepSessions ==
    ASSUME Sessions, Idle \/ \E r \in Requests : Commits(r)
    PROVE  Sessions'
  BY DEF Sessions, Idle, Commits, Requests

LEMMA InitSessions == Init => Sessions
  BY DEF Init, Sessions, StageOK, Requests

\* An overlap of two requests too.
LEMMA OverlapStays ==
    ASSUME Sessions, NEW r \in Requests, Commits(r), NEW p \in Requests, NEW q \in Requests, Overlapped(p, q)
    PROVE  Overlapped(p, q)'
  BY DEF Sessions, Commits, Overlapped

\* Committed requests stay so, and of one commit only r is new among them.
LEMMA OnGrows ==
    ASSUME Sessions, NEW r \in Requests, Commits(r), NEW about, NEW ops
    PROVE  /\ On(about, ops) \subseteq On(about, ops)'
           /\ On(about, ops)' \subseteq On(about, ops) \cup {r}
           /\ r \notin On(about, ops)
           /\ Requests' = Requests
           /\ \A q \in Requests : missed[q] \subseteq missed'[q]
           /\ Raced(On(about, ops)) => Raced(On(about, ops))'
<1>1. Requests' = Requests /\ body' = body
  BY DEF Commits, Requests
<1>2. \A q \in Requests : missed[q] \subseteq missed'[q]
  BY DEF Commits, Sessions
<1>3. \A q \in Requests \ {r} : Committed(q)' <=> Committed(q)
  BY DEF Commits, Committed
<1>4. ~Committed(r) /\ Committed(r)'
  BY DEF Commits, Committed
<1>5. On(about, ops) \subseteq On(about, ops)' /\ On(about, ops)' \subseteq On(about, ops) \cup {r} /\ r \notin On(about, ops)
  BY <1>1, <1>3, <1>4 DEF On
<1>6. On(about, ops) \subseteq Requests
  BY DEF On
<1>7. Raced(On(about, ops)) => Raced(On(about, ops))'
  BY <1>1, <1>2, <1>5, <1>6 DEF Raced, Overlapped
<1> QED
  BY <1>1, <1>2, <1>5, <1>7
-----------------------------------------------------------------------------
(* The distributions of a report, for any rows with the numbers of their kind     *)

\* The amounts of the rows.
Amounts(kind, rows) == [i \in DOMAIN rows |-> row_amount(kind, rows[i])]

\* What the validators of the request or of the import let through.
RowsWell(kind, rows) ==
    /\ kind \in Kinds
    /\ RowsFilled(kind, rows)
    /\ kind = "prepaid" => \A i \in DOMAIN rows : rows[i].used[2] <= rows[i].prepaid[2]

\* A sum of naturals is one.
LEMMA SumOfNaturals ==
    ASSUME NEW D, IsFiniteSet(D), NEW column, \A x \in D : column[x] \in Nat
    PROVE  Sum(OnRows(column, D)) \in Nat
<1> DEFINE F == {rows \in SUBSET D : Sum(OnRows(column, rows)) \in Nat}
<1>1. {} \in F
  <2>1. DOMAIN OnRows(column, {}) = {}
    BY DEF OnRows
  <2> QED
    BY <2>1, SumOfNone
<1>2. ASSUME NEW rows \in SUBSET D, NEW x \in D \ rows, rows \in F
      PROVE  rows \cup {x} \in F
  <2>1. IsFiniteSet(rows) /\ \A y \in rows \cup {x} : column[y] \in Int
    BY <1>2, FS_Subset
  <2>2. Sum(OnRows(column, rows \cup {x})) = column[x] + Sum(OnRows(column, rows))
    BY <2>1, SumOfMore
  <2> QED
    BY <1>2, <2>2
<1>3. D \in F
  <2> HIDE DEF F
  <2> QED
    BY <1>1, <1>2, RowByRow
<1> QED
  BY <1>3

\* A column is the part of it that all its rows hold.
LEMMA WholeColumn ==
    ASSUME NEW D, NEW column, column = [x \in D |-> column[x]]
    PROVE  OnRows(column, D) = column
  BY DEF OnRows

\* The five amounts of a row of the vendor report.
LEMMA VendorColumns ==
    LET columns == {"current"} \cup VENDOR_OVERDUE
    IN  /\ columns \subseteq Fields("vendor_aging") \ (TextFields \cup DateFields)
        /\ "days" \notin columns /\ IsFiniteSet(columns)
<1> DEFINE fields == report_fields["vendor_aging"]
<1>1. fields = <<"vendor", "category", "invoice", "date", "current", "d30", "d60", "d90", "over">>
  BY DEF report_fields
<1>2. /\ fields[5] = "current" /\ fields[6] = "d30" /\ fields[7] = "d60" /\ fields[8] = "d90" /\ fields[9] = "over"
      /\ {5, 6, 7, 8, 9} \subseteq DOMAIN fields
  BY <1>1
<1>3. {"current", "d30", "d60", "d90", "over"} \subseteq Fields("vendor_aging")
  <2> HIDE DEF fields
  <2>1. Fields("vendor_aging") = {fields[i] : i \in DOMAIN fields}
    BY DEF Fields, fields
  <2> QED
    BY <1>2, <2>1
<1>4. IsFiniteSet({"current"}) /\ IsFiniteSet({"d30", "d60", "d90", "over"})
  <2>1. IsFiniteSet({"current"}) /\ IsFiniteSet({"d30"}) /\ IsFiniteSet({"d60"}) /\ IsFiniteSet({"d90"}) /\ IsFiniteSet({"over"})
    BY FS_Singleton
  <2>2. IsFiniteSet({"d30"} \cup {"d60"}) /\ IsFiniteSet({"d90"} \cup {"over"})
    BY <2>1, FS_Union
  <2>3. IsFiniteSet(({"d30"} \cup {"d60"}) \cup ({"d90"} \cup {"over"}))
    BY <2>2, FS_Union
  <2>4. ({"d30"} \cup {"d60"}) \cup ({"d90"} \cup {"over"}) = {"d30", "d60", "d90", "over"}
    OBVIOUS
  <2> QED
    BY <2>1, <2>3, <2>4
<1> QED
  BY <1>3, <1>4, FS_Union DEF VENDOR_OVERDUE, TextFields, DateFields

\* The amount of a row is not below nought.
LEMMA AmountsNatural ==
    ASSUME NEW kind, NEW rows, RowsWell(kind, rows)
    PROVE  /\ IsFiniteSet(DOMAIN rows)
           /\ \A i \in DOMAIN rows : Amounts(kind, rows)[i] \in Nat
<1>1. IsFiniteSet(DOMAIN rows) /\ kind \in {"delinquency", "prepaid", "vendor_aging"}
  BY DEF RowsWell, RowsFilled, Kinds, report_fields
<1> SUFFICES ASSUME NEW i \in DOMAIN rows PROVE row_amount(kind, rows[i]) \in Nat
  BY <1>1 DEF Amounts
<1>0. ASSUME NEW f \in Fields(kind) \ (TextFields \cup DateFields), f # "days"
      PROVE  rows[i][f][2] \in Nat
  <2>1. rows[i][f][2] \in numbers(f)
    BY DEF RowsWell, RowsFilled
  <2>2. numbers(f) = Nat
    BY <1>0 DEF numbers
  <2> QED
    BY <2>1, <2>2
<1>2. CASE kind = "delinquency"
  <2>1. "outstanding" \in Fields(kind) \ (TextFields \cup DateFields)
    BY <1>2 DEF Fields, report_fields, TextFields, DateFields
  <2>2. rows[i].outstanding[2] \in Nat
    BY <1>0, <2>1
  <2> QED
    BY <1>2, <2>2 DEF row_amount
<1>3. CASE kind = "prepaid"
  <2>1. {"prepaid", "used"} \subseteq Fields(kind) \ (TextFields \cup DateFields)
    BY <1>3 DEF Fields, report_fields, TextFields, DateFields
  <2>2. rows[i].prepaid[2] \in Nat /\ rows[i].used[2] \in Nat /\ rows[i].used[2] <= rows[i].prepaid[2]
    BY <1>3, <2>1 DEF RowsWell, RowsFilled, numbers
  <2> QED
    BY <1>3, <2>2 DEF row_amount
<1>4. CASE kind = "vendor_aging"
  <2> DEFINE columns == {"current"} \cup VENDOR_OVERDUE
             f == [x \in columns |-> rows[i][x][2]]
  <2>1. columns \subseteq Fields(kind) \ (TextFields \cup DateFields)
    BY <1>4, VendorColumns
  <2>2. \A x \in columns : f[x] \in Nat
    BY <1>0, <2>1, VendorColumns
  <2>3. IsFiniteSet(columns)
    BY VendorColumns
  <2>4. f = [x \in columns |-> f[x]]
    OBVIOUS
  <2>5. row_amount(kind, rows[i]) = Sum(f)
    BY <1>4 DEF row_amount
  <2> HIDE DEF f, columns
  <2> QED
    BY <2>2, <2>3, <2>4, <2>5, SumOfNaturals, WholeColumn
<1> QED
  BY <1>1, <1>2, <1>3, <1>4

\* So is their total.
LEMMA TotalNatural ==
    ASSUME NEW kind, NEW rows, RowsWell(kind, rows)
    PROVE  /\ total_of(kind, rows) = Sum(OnRows(Amounts(kind, rows), DOMAIN rows))
           /\ total_of(kind, rows) \in Nat
<1>1. OnRows(Amounts(kind, rows), DOMAIN rows) = Amounts(kind, rows)
  BY DEF OnRows, Amounts
<1>2. total_of(kind, rows) = Sum(Amounts(kind, rows))
  BY DEF total_of, Amounts
<1> QED
  BY <1>1, <1>2, AmountsNatural, SumOfNaturals

\* Slices of naturals that make up a total, and so do their percentages to the rounding of
\* each.
AddUp(slices, total) ==
    /\ IsFiniteSet(DOMAIN slices)
    /\ \A x \in DOMAIN slices : slices[x] \in Nat
    /\ Sum(OnRows(slices, DOMAIN slices)) = total /\ OnRows(slices, DOMAIN slices) = slices

\* The percentage of an amount is the nearest share of the total.
LEMMA PercentageRounded ==
    ASSUME NEW part \in Nat, NEW total \in Nat \ {0}
    PROVE  percentage(part, total) \in Int /\ Rounded(percentage(part, total), part, total)
<1> DEFINE n == 20000 * part + total
           d == 2 * total
           q == n \div d
<1>1. n \in Int /\ d \in Nat \ {0}
  OBVIOUS
<1>2. percentage(part, total) = q
  BY DEF percentage
<1> HIDE DEF n, d
<1>3. q \in Int /\ d * q <= n /\ n < d * q + d
  BY <1>1
<1> HIDE DEF q
<1> DEFINE p == total * q
<1>4. d * q = 2 * p /\ p \in Int
  BY <1>3 DEF d
<1> HIDE DEF p
<1>5. 2 * p - 20000 * part \in (0 - total)..total
  BY <1>3, <1>4 DEF n, d
<1> QED
  BY <1>2, <1>3, <1>5 DEF Rounded, p

LEMMA PercentagesAddUp ==
    ASSUME NEW slices, NEW total \in Nat, AddUp(slices, total)
    PROVE  Sum(slices) = total /\ (total # 0 => MakeHundred(slices, total))
<1> DEFINE D == DOMAIN slices
           share == [x \in D |-> percentage(slices[x], total)]
<1>1. Sum(slices) = total
  BY DEF AddUp
<1>2. ASSUME total # 0
      PROVE  /\ 2 * (Sum(OnRows(share, D)) - 10000) <= Cardinality(D)
             /\ 2 * (10000 - Sum(OnRows(share, D))) <= Cardinality(D)
  <2>1. \A d \in D : slices[d] \in Int /\ share[d] \in Int /\ Rounded(share[d], slices[d], total)
    BY <1>2, PercentageRounded DEF AddUp
  <2>2. IsFiniteSet(D) /\ Sum(OnRows(slices, D)) = total /\ total \in Nat \ {0}
    BY <1>2 DEF AddUp
  <2> HIDE DEF D, share
  <2> QED
    BY <2>1, <2>2, SharesOfTotal
<1>3. OnRows(share, D) = share
  BY DEF OnRows
<1> QED
  BY <1>1, <1>2, <1>3 DEF MakeHundred

\* What finitely many rows have is finite.
LEMMA FiniteImage ==
    ASSUME NEW I, IsFiniteSet(I), NEW f
    PROVE  IsFiniteSet({f[i] : i \in I})
<1> DEFINE F == {rows \in SUBSET I : IsFiniteSet({f[i] : i \in rows})}
<1>1. {} \in F
  <2>1. {f[i] : i \in {}} = {}
    OBVIOUS
  <2> QED
    BY <2>1, FS_EmptySet
<1>2. ASSUME NEW rows \in SUBSET I, NEW x \in I \ rows, rows \in F
      PROVE  rows \cup {x} \in F
  <2>1. {f[i] : i \in rows \cup {x}} = {f[i] : i \in rows} \cup {f[x]}
    OBVIOUS
  <2>2. IsFiniteSet({f[i] : i \in rows} \cup {f[x]})
    BY <1>2, FS_AddElement
  <2> QED
    BY <2>1, <2>2
<1>3. I \in F
  <2> HIDE DEF F
  <2> QED
    BY <1>1, <1>2, RowByRow
<1> QED
  BY <1>3

\* There are five buckets.
LEMMA FiveFinite == IsFiniteSet(1..5)
<1> DEFINE a == 1
           b == 5
<1>1. a \in Int /\ b \in Int
  OBVIOUS
<1> HIDE DEF a, b
<1>2. IsFiniteSet(a..b)
  BY <1>1, FS_Interval
<1> QED
  BY <1>2 DEF a, b

\* Slices by what a row is of: the whole is taken apart, and each row once.
LEMMA SlicesByKey ==
    ASSUME NEW kind, NEW rows, RowsWell(kind, rows), NEW D, IsFiniteSet(D),
           NEW key, \A i \in DOMAIN rows : key[i] \in D,
           NEW slices,
           slices = [d \in D |-> Sum([j \in {x \in DOMAIN rows : key[x] = d} |-> row_amount(kind, rows[j])])]
    PROVE  AddUp(slices, total_of(kind, rows))
<1> DEFINE I == DOMAIN rows
           amounts == Amounts(kind, rows)
           Slice(d) == Sum([j \in {x \in I : key[x] = d} |-> row_amount(kind, rows[j])])
<1>0. IsFiniteSet(I) /\ (\A i \in I : amounts[i] \in Nat) /\ \A i \in I : amounts[i] = row_amount(kind, rows[i])
  BY AmountsNatural DEF Amounts
<1>1. ASSUME NEW d \in D PROVE Slice(d) = Sum(OnRows(amounts, OfKey(key, I, d)))
  <2>1. OfKey(key, I, d) = {x \in I : key[x] = d}
    BY DEF OfKey
  <2> QED
    BY <1>0, <2>1 DEF OnRows
<1>2. slices = [d \in D |-> Slice(d)] /\ DOMAIN slices = D
  OBVIOUS
<1>3. total_of(kind, rows) = Sum(OnRows(amounts, I))
  BY TotalNatural
<1> HIDE DEF I, amounts, Slice
<1>4. slices = ByKey(amounts, key, I, D)
  BY <1>1, <1>2 DEF ByKey
<1>5. Sum(slices) = total_of(kind, rows)
  <2>1. (\A i \in I : key[i] \in D) /\ \A i \in I : amounts[i] \in Int
    BY <1>0 DEF I
  <2>2. Sum(ByKey(amounts, key, I, D)) = Sum(OnRows(amounts, I))
    BY <1>0, <2>1, SumByKey
  <2> QED
    BY <1>3, <1>4, <2>2
<1>6. ASSUME NEW d \in D PROVE slices[d] \in Nat
  <2>1. OfKey(key, I, d) \subseteq I
    BY DEF OfKey
  <2>2. IsFiniteSet(OfKey(key, I, d)) /\ \A x \in OfKey(key, I, d) : amounts[x] \in Nat
    BY <1>0, <2>1, FS_Subset
  <2>3. Sum(OnRows(amounts, OfKey(key, I, d))) \in Nat
    BY <2>2, SumOfNaturals
  <2> QED
    BY <1>1, <1>2, <2>3
<1>7. OnRows(slices, DOMAIN slices) = slices
  BY <1>2 DEF OnRows
<1> QED
  BY <1>2, <1>5, <1>6, <1>7 DEF AddUp

\* The categories.
LEMMA CategoriesAddUp ==
    ASSUME NEW kind, NEW rows, RowsWell(kind, rows)
    PROVE  AddUp(category_distribution(kind, rows), total_of(kind, rows))
<1> DEFINE key == [i \in DOMAIN rows |-> rows[i].category]
           D == {key[i] : i \in DOMAIN rows}
           slices == category_distribution(kind, rows)
<1>1. IsFiniteSet(DOMAIN rows)
  BY AmountsNatural
<1>2. IsFiniteSet(D)
  <2> HIDE DEF key
  <2> QED
    BY <1>1, FiniteImage
<1>3. \A i \in DOMAIN rows : key[i] \in D
  OBVIOUS
<1>4. \A d \in D : {x \in DOMAIN rows : rows[x].category = d} = {x \in DOMAIN rows : key[x] = d}
  OBVIOUS
<1>5. slices = [d \in D |-> Sum([j \in {x \in DOMAIN rows : key[x] = d} |-> row_amount(kind, rows[j])])]
  <2>1. D = {rows[i].category : i \in DOMAIN rows}
    OBVIOUS
  <2> HIDE DEF D, key
  <2> QED
    BY <1>4, <2>1, Zenon DEF category_distribution
<1> HIDE DEF D, key, slices
<1>6. AddUp(slices, total_of(kind, rows))
  BY <1>2, <1>3, <1>5, SlicesByKey
<1> QED
  BY <1>6 DEF slices

\* What has expired and what has not.
LEMMA StatusesAddUp ==
    ASSUME NEW kind, NEW rows, RowsWell(kind, rows)
    PROVE  AddUp(status_distribution(kind, rows), total_of(kind, rows))
<1> DEFINE key == [i \in DOMAIN rows |-> derive_status(kind, rows[i])]
           D == {key[i] : i \in DOMAIN rows}
           slices == status_distribution(kind, rows)
<1>1. IsFiniteSet(DOMAIN rows)
  BY AmountsNatural
<1>2. IsFiniteSet(D)
  <2> HIDE DEF key
  <2> QED
    BY <1>1, FiniteImage
<1>3. \A i \in DOMAIN rows : key[i] \in D
  OBVIOUS
<1>4. \A d \in D : {x \in DOMAIN rows : derive_status(kind, rows[x]) = d} = {x \in DOMAIN rows : key[x] = d}
  OBVIOUS
<1>5. slices = [d \in D |-> Sum([j \in {x \in DOMAIN rows : key[x] = d} |-> row_amount(kind, rows[j])])]
  <2>1. D = {derive_status(kind, rows[i]) : i \in DOMAIN rows}
    OBVIOUS
  <2> HIDE DEF D, key
  <2> QED
    BY <1>4, <2>1, Zenon DEF status_distribution
<1> HIDE DEF D, key, slices
<1>6. AddUp(slices, total_of(kind, rows))
  BY <1>2, <1>3, <1>5, SlicesByKey
<1> QED
  BY <1>6 DEF slices

\* Every number of days is in one bucket, and in no other.
LEMMA BucketsPartition ==
    ASSUME NEW days \in 0..most_days
    PROVE  \E i \in DOMAIN AGING_BUCKETS : \A j \in DOMAIN AGING_BUCKETS : days \in AGING_BUCKETS[j] <=> j = i
<1>1. /\ DOMAIN AGING_BUCKETS = {1, 2, 3, 4, 5}
      /\ AGING_BUCKETS[1] = 0..0 /\ AGING_BUCKETS[2] = 1..30 /\ AGING_BUCKETS[3] = 31..60
      /\ AGING_BUCKETS[4] = 61..90 /\ AGING_BUCKETS[5] = 91..most_days
  BY DEF AGING_BUCKETS
<1>2. days \in Nat /\ days <= most_days /\ most_days \in Nat
  BY DEF most_days
<1>3. /\ days \in AGING_BUCKETS[1] <=> days = 0
      /\ days \in AGING_BUCKETS[2] <=> 1 <= days /\ days <= 30
      /\ days \in AGING_BUCKETS[3] <=> 31 <= days /\ days <= 60
      /\ days \in AGING_BUCKETS[4] <=> 61 <= days /\ days <= 90
      /\ days \in AGING_BUCKETS[5] <=> 91 <= days
  BY <1>1, <1>2
<1> DEFINE In(j) == days \in AGING_BUCKETS[j]
           Alone(i) == \A j \in {1, 2, 3, 4, 5} : In(j) <=> j = i
<1>4. \/ In(1) /\ ~In(2) /\ ~In(3) /\ ~In(4) /\ ~In(5)
      \/ ~In(1) /\ In(2) /\ ~In(3) /\ ~In(4) /\ ~In(5)
      \/ ~In(1) /\ ~In(2) /\ In(3) /\ ~In(4) /\ ~In(5)
      \/ ~In(1) /\ ~In(2) /\ ~In(3) /\ In(4) /\ ~In(5)
      \/ ~In(1) /\ ~In(2) /\ ~In(3) /\ ~In(4) /\ In(5)
  BY <1>2, <1>3
<1> HIDE DEF In
<1>5. Alone(1) \/ Alone(2) \/ Alone(3) \/ Alone(4) \/ Alone(5)
  BY <1>4
<1> HIDE DEF Alone
<1>6. PICK i \in {1, 2, 3, 4, 5} : Alone(i)
  BY <1>5
<1>7. \A j \in {1, 2, 3, 4, 5} : days \in AGING_BUCKETS[j] <=> j = i
  BY <1>6 DEF Alone, In
<1>8. i \in DOMAIN AGING_BUCKETS /\ \A j \in DOMAIN AGING_BUCKETS : days \in AGING_BUCKETS[j] <=> j = i
  BY ONLY <1>1, <1>7, i \in {1, 2, 3, 4, 5}
<1> QED
  BY ONLY <1>8, Zenon

\* The ages of what members owe.
LEMMA AgesAddUp ==
    ASSUME NEW rows, RowsWell("delinquency", rows)
    PROVE  AddUp(aging_distribution("delinquency", rows), total_of("delinquency", rows))
<1> DEFINE kind == "delinquency"
           D == DOMAIN AGING_BUCKETS
           Bucket(i) == CHOOSE b \in D : \A j \in D : rows[i].days[2] \in AGING_BUCKETS[j] <=> j = b
           key == [i \in DOMAIN rows |-> Bucket(i)]
           slices == aging_distribution(kind, rows)
<1>1. ASSUME NEW i \in DOMAIN rows
      PROVE  Bucket(i) \in D /\ \A j \in D : rows[i].days[2] \in AGING_BUCKETS[j] <=> j = Bucket(i)
  <2>1. "days" \in Fields(kind) \ (TextFields \cup DateFields)
    BY DEF Fields, report_fields, TextFields, DateFields
  <2>2. rows[i].days[2] \in 0..most_days
    BY <2>1 DEF RowsWell, RowsFilled, numbers
  <2>3. \E b \in D : \A j \in D : rows[i].days[2] \in AGING_BUCKETS[j] <=> j = b
    BY <2>2, BucketsPartition, Zenon
  <2> HIDE DEF D
  <2> QED
    BY <2>3, Zenon
<1>2. IsFiniteSet(D)
  <2>1. D = 1..5
    BY DEF AGING_BUCKETS
  <2>2. IsFiniteSet(1..5)
    BY FiveFinite
  <2> QED
    BY <2>1, <2>2
<1>3. \A i \in DOMAIN rows : key[i] \in D
  BY <1>1
<1>4. \A d \in D : {x \in DOMAIN rows : rows[x].days[2] \in AGING_BUCKETS[d]} = {x \in DOMAIN rows : key[x] = d}
  BY <1>1
<1>5. slices = [d \in D |-> Sum([j \in {x \in DOMAIN rows : key[x] = d} |-> row_amount(kind, rows[j])])]
  <2>1. slices = [d \in D |-> Sum([j \in {x \in DOMAIN rows : rows[x].days[2] \in AGING_BUCKETS[d]} |-> row_amount(kind, rows[j])])]
    BY DEF aging_distribution
  <2> HIDE DEF slices, key, D
  <2> QED
    BY <1>4, <2>1, Zenon
<1>6. RowsWell(kind, rows)
  OBVIOUS
<1> HIDE DEF D, key, slices, kind
<1>7. AddUp(slices, total_of(kind, rows))
  BY <1>2, <1>3, <1>5, <1>6, SlicesByKey
<1> QED
  BY <1>7 DEF slices, kind

\* What the vendors are owed, by its age: the columns add up to what the rows do.
LEMMA AgesOfVendorsAddUp ==
    ASSUME NEW rows, RowsWell("vendor_aging", rows)
    PROVE  AddUp(aging_distribution("vendor_aging", rows), total_of("vendor_aging", rows))
<1> DEFINE kind == "vendor_aging"
           columns == {"current"} \cup VENDOR_OVERDUE
           I == DOMAIN rows
           table == [i \in I |-> [f \in columns |-> rows[i][f][2]]]
           sums == [f \in columns |-> Sum([i \in I |-> table[i][f]])]
           slices == aging_distribution(kind, rows)
           B == DOMAIN BUCKETS
<1>1. IsFiniteSet(columns) /\ IsFiniteSet(I)
  BY VendorColumns, AmountsNatural
<1>2. ASSUME NEW i \in I, NEW f \in columns PROVE table[i][f] \in Nat
  <2>1. rows[i][f][2] \in numbers(f)
    BY VendorColumns DEF RowsWell, RowsFilled
  <2>2. f # "days"
    BY VendorColumns
  <2> QED
    BY <2>1, <2>2 DEF numbers
<1>3. ASSUME NEW f \in columns
      PROVE  sums[f] = column_total(rows, f) /\ sums[f] \in Nat
  <2> DEFINE c == [i \in I |-> table[i][f]]
  <2>1. c = Column(rows, f)
    BY DEF Column
  <2>2. (\A i \in I : c[i] \in Nat) /\ OnRows(c, I) = c
    BY <1>2 DEF OnRows
  <2>3. sums[f] = Sum(c)
    OBVIOUS
  <2> HIDE DEF c, sums
  <2>4. Sum(OnRows(c, I)) \in Nat
    BY <1>1, <2>2, SumOfNaturals
  <2> QED
    BY <2>1, <2>2, <2>3, <2>4 DEF column_total
<1>4. /\ B = {1, 2, 3, 4, 5} /\ IsFiniteSet(B)
      /\ BUCKETS[1] = "current" /\ BUCKETS[2] = "d30" /\ BUCKETS[3] = "d60" /\ BUCKETS[4] = "d90" /\ BUCKETS[5] = "over"
  <2>1. B = 1..5
    BY DEF BUCKETS
  <2>2. IsFiniteSet(1..5)
    BY FiveFinite
  <2> QED
    BY <2>1, <2>2 DEF BUCKETS
<1>5. slices = [i \in B |-> sums[BUCKETS[i]]]
  <2>1. slices = [i \in B |-> column_total(rows, BUCKETS[i])]
    BY DEF aging_distribution
  <2>2. \A i \in B : BUCKETS[i] \in columns
    BY <1>4 DEF VENDOR_OVERDUE
  <2> HIDE DEF sums, slices, columns, B
  <2> QED
    BY <1>3, <2>1, <2>2
<1>6. Sum(slices) = Sum(OnRows(sums, columns))
  <2>0. columns = {"current", "d30", "d60", "d90", "over"}
    BY DEF VENDOR_OVERDUE
  <2>1. \A i \in B : BUCKETS[i] \in columns
    BY <1>4, <2>0
  <2>2. \A f \in columns : \E i \in B : BUCKETS[i] = f
    BY <1>4, <2>0
  <2>3. \A i, j \in B : BUCKETS[i] = BUCKETS[j] => i = j
    BY <1>4
  <2> HIDE DEF sums, slices, columns, B
  <2>4. \A f \in columns : sums[f] \in Int
    BY <1>3
  <2> QED
    BY <1>1, <1>4, <1>5, <2>1, <2>2, <2>3, <2>4, SumRenamed
<1>7. Sum(OnRows(sums, columns)) = total_of(kind, rows)
  <2> DEFINE along == [i \in I |-> Sum([f \in columns |-> table[i][f]])]
  <2>1. OnRows(sums, columns) = sums
    BY DEF OnRows
  <2>2. along = [i \in I |-> row_amount(kind, rows[i])]
    BY DEF row_amount
  <2> HIDE DEF table, columns, I
  <2>3. \A i \in I, f \in columns : table[i][f] \in Int
    BY <1>2
  <2>4. Sum(along) = Sum(sums)
    BY <1>1, <2>3, SumOfTable
  <2> HIDE DEF along, sums
  <2> QED
    BY <2>1, <2>2, <2>4 DEF total_of, I
<1>8. DOMAIN slices = B /\ OnRows(slices, B) = slices
  BY <1>5 DEF OnRows
<1>9. ASSUME NEW i \in B PROVE slices[i] \in Nat
  <2>1. BUCKETS[i] \in columns
    BY <1>4 DEF VENDOR_OVERDUE
  <2> HIDE DEF sums, slices, columns, B
  <2> QED
    BY <1>3, <1>5, <2>1
<1> HIDE DEF slices, B, kind
<1> QED
  BY <1>4, <1>6, <1>7, <1>8, <1>9 DEF AddUp, slices, kind

\* So do all distributions of a report whose rows have the numbers of its kind.
LEMMA BothAddUp ==
    ASSUME NEW kind, NEW rows, RowsWell(kind, rows), NEW i \in {1, 2}
    PROVE  AddUp(distributions(kind, rows)[i], total_of(kind, rows))
<1>1. kind \in {"delinquency", "prepaid", "vendor_aging"}
  BY DEF RowsWell, Kinds, report_fields
<1>2. /\ distributions(kind, rows)[1] = category_distribution(kind, rows)
      /\ distributions(kind, rows)[2] =
           IF kind = "prepaid" THEN status_distribution(kind, rows) ELSE aging_distribution(kind, rows)
  BY DEF distributions
<1> QED
  BY <1>1, <1>2, CategoriesAddUp, StatusesAddUp, AgesAddUp, AgesOfVendorsAddUp
-----------------------------------------------------------------------------
(* Who writes a table: the footprints of the handlers, by table                   *)

Touches(r, t) ==
    \/ PollStep(r) /\ t \in {"polls", "pollOptions", "pollVotes", "pollLikes", "pollComments", "notifications"}
    \/ EventStep(r) /\ t \in {"events", "rsvps", "eventLikes", "eventComments", "notifications"}
    \/ AnnouncementStep(r) /\ t \in {"announcements", "announcementComments", "likes", "notifications"}
    \/ MarketStep(r) /\ t \in {"items", "images", "reports", "favorites", "views", "chat", "frames", "notifications"}
    \/ ServiceStep(r) /\ t \in {"serviceRequests", "serviceMessages", "frames", "notifications"}
    \/ BoardTaskStep(r) /\ t \in {"boardTasks", "taskMessages", "frames", "notifications"}
    \/ MeetingStep(r) /\ t \in {"meetings", "attendance", "notifications"}
    \/ DocumentStep(r) /\ t \in {"documents", "unitDocuments"}
    \/ InvoiceStep(r) /\ t \in {"invoices", "invoiceLines"}
    \/ ReportStep(r) /\ t \in {"financialReports"}
    \/ StatementStep(r) /\ t \in {"globalChart", "chart", "balanceSheets", "incomeStatements"}
    \/ CatalogueStep(r) /\ t \in {"entityTypes", "entities", "plans", "planFeatures", "features", "roles", "permissions"}
    \/ DirectoryStep(r) /\ t \in {"people", "logins", "employees", "vendors", "bankAccounts"}
    \/ ProfileStep(r) /\ t \in {"people", "employees", "profileRecords"}
    \/ onboard(r) /\ t \in {"associations", "blocks", "units", "people", "logins", "boardTerms"}
    \/ /\ update_settings(r) \/ set_unit_occupancy(r) \/ update_subscription(r)
       /\ t \in {"associations", "units", "assessmentRules", "fineRules"}
    \/ InboxStep(r) /\ t \in {"read"}

\* What a handler leaves it does not touch.
LEMMA TouchesOnly ==
    ASSUME Sessions, NEW r \in Requests, NEW written, Handles(r, written),
           \A t \in written : Touches(r, t)
    PROVE  DOMAIN db' = DOMAIN db /\ \A t \in DOMAIN db : db'[t] = db[t] \/ Touches(r, t)
<1>1. Leaves(db', written)
  BY HandlesFrame
<1> QED
  BY <1>1 DEF Leaves

\* A step writes only tables of its service.
THEOREM Footprints ==
    ASSUME Sessions, NEW r \in Requests, Step(r)
    PROVE  DOMAIN db' = DOMAIN db /\ \A t \in DOMAIN db : db'[t] = db[t] \/ Touches(r, t)
<1>1. CASE PollStep(r)
  <2>1. PICK written : Handles(r, written) /\ written \subseteq {"polls", "pollOptions", "pollVotes", "pollLikes", "pollComments", "notifications"}
    BY <1>1, PollsTell, PollsDelete, PollsWrite DEF PollStep
  <2> QED
    BY <1>1, <2>1, TouchesOnly DEF Touches
<1>2. CASE EventStep(r)
  <2>1. PICK written : Handles(r, written) /\ written \subseteq {"events", "rsvps", "eventLikes", "eventComments", "notifications"}
    BY <1>2, EventsTell, EventsDelete, EventsWrite, AnswersWrite DEF EventStep
  <2> QED
    BY <1>2, <2>1, TouchesOnly DEF Touches
<1>3. CASE AnnouncementStep(r)
  <2>1. PICK written : Handles(r, written) /\ written \subseteq {"announcements", "announcementComments", "likes", "notifications"}
    BY <1>3, AnnouncementsTell, AnnouncementsWrite, LikesWrite DEF AnnouncementStep
  <2> QED
    BY <1>3, <2>1, TouchesOnly DEF Touches
<1>4. CASE MarketStep(r)
  <2>1. PICK written : /\ Handles(r, written)
                       /\ written \subseteq {"items", "images", "reports", "favorites", "views", "chat", "frames", "notifications"}
    BY <1>4, ItemsTell, ItemsWrite, FavoritesWrite, ViewsWrite DEF MarketStep
  <2> QED
    BY <1>4, <2>1, TouchesOnly DEF Touches
<1>5. CASE ServiceStep(r)
  <2>1. PICK written : Handles(r, written) /\ written \subseteq {"serviceRequests", "serviceMessages", "frames", "notifications"}
    BY <1>5, RequestsTell, RequestsWrite DEF ServiceStep
  <2> QED
    BY <1>5, <2>1, TouchesOnly DEF Touches
<1>6. CASE BoardTaskStep(r)
  <2>1. PICK written : Handles(r, written) /\ written \subseteq {"boardTasks", "taskMessages", "frames", "notifications"}
    BY <1>6, TasksTell, TasksWrite DEF BoardTaskStep
  <2> QED
    BY <1>6, <2>1, TouchesOnly DEF Touches
<1>7. CASE MeetingStep(r)
  <2>1. PICK written : Handles(r, written) /\ written \subseteq {"meetings", "attendance", "notifications"}
    BY <1>7, MeetingsTell, MeetingsWrite, AttendanceWrite DEF MeetingStep
  <2> QED
    BY <1>7, <2>1, TouchesOnly DEF Touches
<1>8. CASE DocumentStep(r)
  BY <1>8, DocumentsWrite, TouchesOnly DEF Touches
<1>9. CASE InvoiceStep(r)
  BY <1>9, InvoicesWrite, TouchesOnly DEF Touches
<1>10. CASE ReportStep(r)
  BY <1>10, ReportsWrite, TouchesOnly DEF Touches
<1>11. CASE StatementStep(r)
  BY <1>11, StatementsWrite, TouchesOnly DEF Touches
<1>12. CASE CatalogueStep(r)
  BY <1>12, CataloguesWrite, TouchesOnly DEF Touches
<1>13. CASE DirectoryStep(r)
  <2>1. PICK written : Handles(r, written) /\ written \subseteq {"people", "logins", "employees", "vendors", "bankAccounts"}
    BY <1>13, LoginsWrite, DirectoryWrite
  <2> QED
    BY <1>13, <2>1, TouchesOnly DEF Touches
<1>14. CASE ProfileStep(r)
  <2>1. PICK written : Handles(r, written) /\ written \subseteq {"people", "employees", "profileRecords"}
    BY <1>14, DetailsWrite, RecordsWrite DEF ProfileStep
  <2> QED
    BY <1>14, <2>1, TouchesOnly DEF Touches
<1>15. CASE OnboardingStep(r)
  <2>1. CASE onboard(r)
    BY <2>1, OnboardingWrite, TouchesOnly DEF Touches
  <2>2. CASE update_settings(r) \/ set_unit_occupancy(r) \/ update_subscription(r)
    BY <2>2, SettingsWrite, TouchesOnly DEF Touches
  <2> QED
    BY <1>15, <2>1, <2>2 DEF OnboardingStep
<1>16. CASE InboxStep(r)
  BY <1>16, InboxWrite, TouchesOnly DEF Touches
<1> QED
  BY <1>1, <1>2, <1>3, <1>4, <1>5, <1>6, <1>7, <1>8, <1>9, <1>10, <1>11, <1>12, <1>13, <1>14, <1>15, <1>16 DEF Step
-----------------------------------------------------------------------------
(* The rows of the reports have the numbers of their kind                         *)

\* A report that was written has what the validators ask; its kind is for good, and a
\* snapshot shows it.
ReportsInv ==
    /\ Sessions /\ body \in Workloads
    /\ "financialReports" \in DOMAIN db
    /\ \A k \in DOMAIN db.financialReports :
          LET report == db.financialReports[k]
          IN  {"kind", "rows"} \subseteq DOMAIN report /\ report.kind \in Kinds
    /\ \A k \in Written("financialReports") : RowsWell(db.financialReports[k].kind, db.financialReports[k].rows)
    /\ \A q \in Requests : stage[q] \in {"waiting", "open"} => q \notin DOMAIN db.financialReports
    /\ \A q \in Requests : stage[q] = "open" =>
          \A k \in DOMAIN seen[q].financialReports :
              /\ k \in DOMAIN db.financialReports
              /\ "kind" \in DOMAIN seen[q].financialReports[k]
              /\ seen[q].financialReports[k].kind = db.financialReports[k].kind

\* What a commit does to the reports.
ReportsKept(r) ==
    /\ "financialReports" \in DOMAIN db'
    /\ DOMAIN db.financialReports \subseteq DOMAIN db'.financialReports
    /\ DOMAIN db'.financialReports \subseteq DOMAIN db.financialReports \cup {r}
    /\ \A k \in DOMAIN db'.financialReports :
          LET report == db'.financialReports[k]
          IN  /\ {"kind", "rows"} \subseteq DOMAIN report
              /\ \/ k \in DOMAIN db.financialReports /\ report = db.financialReports[k]
                 \/ RowsWell(report.kind, report.rows)
              /\ k \in DOMAIN db.financialReports => report.kind = db.financialReports[k].kind

LEMMA CommitReports ==
    ASSUME ReportsInv, NEW r \in Requests, Commits(r), ReportsKept(r)
    PROVE  ReportsInv'
<1>1. Sessions' /\ body' = body /\ Requests' = Requests
  BY StepSessions DEF ReportsInv, Commits, Requests
<1>2. \A q \in Requests : stage'[q] \in {"waiting", "open"} => q # r /\ stage'[q] = stage[q] /\ seen'[q] = seen[q]
  BY DEF Commits, Committed
<1>3. \A k \in DOMAIN db'.financialReports :
         LET report == db'.financialReports[k]
         IN  {"kind", "rows"} \subseteq DOMAIN report /\ report.kind \in Kinds
  BY DEF ReportsInv, ReportsKept, RowsWell
<1>4. \A k \in Written("financialReports")' : RowsWell(db'.financialReports[k].kind, db'.financialReports[k].rows)
  BY DEF ReportsInv, ReportsKept, Written, NewRows
<1>5. \A q \in Requests : stage'[q] \in {"waiting", "open"} => q \notin DOMAIN db'.financialReports
  BY <1>2 DEF ReportsInv, ReportsKept
<1>6. \A q \in Requests : stage'[q] = "open" =>
         \A k \in DOMAIN seen'[q].financialReports :
             /\ k \in DOMAIN db'.financialReports
             /\ "kind" \in DOMAIN seen'[q].financialReports[k]
             /\ seen'[q].financialReports[k].kind = db'.financialReports[k].kind
  BY <1>2 DEF ReportsInv, ReportsKept
<1> QED
  BY <1>1, <1>3, <1>4, <1>5, <1>6 DEF ReportsInv, ReportsKept

LEMMA IdleReports ==
    ASSUME ReportsInv, Idle
    PROVE  ReportsInv'
<1>1. Sessions' /\ body' = body /\ Requests' = Requests /\ db' = db
  BY StepSessions DEF ReportsInv, Idle, Requests
<1>2. \A q \in Requests : stage'[q] = "open" =>
         seen'[q] = IF stage[q] = "open" THEN seen[q] ELSE db
  BY DEF Idle
<1>3. \A q \in Requests : stage'[q] \in {"waiting", "open"} => q \notin DOMAIN db'.financialReports
  BY <1>1 DEF ReportsInv, Idle
<1>4. \A k \in Written("financialReports")' : RowsWell(db'.financialReports[k].kind, db'.financialReports[k].rows)
  BY <1>1 DEF ReportsInv, Written, NewRows
<1>5. ASSUME NEW q \in Requests, stage'[q] = "open", NEW k \in DOMAIN seen'[q].financialReports
      PROVE  /\ k \in DOMAIN db'.financialReports
             /\ "kind" \in DOMAIN seen'[q].financialReports[k]
             /\ seen'[q].financialReports[k].kind = db'.financialReports[k].kind
  BY <1>1, <1>2, <1>5 DEF ReportsInv
<1> QED
  BY <1>1, <1>3, <1>4, <1>5 DEF ReportsInv

LEMMA InitReports == Init => ReportsInv
<1> SUFFICES ASSUME Init PROVE ReportsInv
  OBVIOUS
<1>1. Sessions /\ body \in Workloads /\ db = OpeningTables /\ \A q \in Requests : stage[q] = "waiting"
  BY InitSessions DEF Init
<1>2. Written("financialReports") = {}
  BY <1>1 DEF Written, NewRows
<1>3. \A q \in Requests : q \notin DOMAIN db.financialReports
  BY <1>1, OpeningReports DEF Requests
<1> QED
  BY <1>1, <1>2, <1>3, OpeningReports DEF ReportsInv

\* The validators and the schema leave rows with the numbers of the kind.
LEMMA ValidWell ==
    ASSUME NEW kind \in Kinds, NEW rows, NEW billed, NEW collected, RowsFilled(kind, rows),
           valid_report(kind, rows, billed, collected)
    PROVE  RowsWell(kind, rows)
  BY DEF RowsWell, valid_report

\* A report that is entered or imported has the kind and the rows of the request.
LEMMA NewReportKept ==
    ASSUME ReportsInv, NEW r \in Requests, Commits(r), NEW accepted, NEW rows, NEW billed, NEW collected,
           CreateReport(r, accepted, rows, billed, collected),
           accepted => RowsWell(body[r].kind, rows)
    PROVE  ReportsKept(r)
<1> DEFINE b == body[r]
           row == With(header(b.kind, b.period, rows, billed, collected),
                       [kind |-> b.kind, association |-> b.association, rows |-> rows])
<1>1. accepted /\ Commit(r, [db EXCEPT !.financialReports = With(@, [k \in {r} |-> row])])
  BY Decided, Zenon DEF CreateReport, Decide, ReportsInv
<1>2. db' = [db EXCEPT !.financialReports = With(@, [k \in {r} |-> row])]
  BY <1>1 DEF Commit
<1>3. {"kind", "rows"} \subseteq DOMAIN row /\ row.kind = b.kind /\ row.rows = rows
  BY DEF With
<1>4. r \notin DOMAIN db.financialReports
  BY DEF ReportsInv, Commits
<1> HIDE DEF row
<1>5. db'.financialReports = With(db.financialReports, [k \in {r} |-> row]) /\ "financialReports" \in DOMAIN db'
  BY <1>2 DEF ReportsInv
<1>6. /\ DOMAIN db'.financialReports = DOMAIN db.financialReports \cup {r} /\ db'.financialReports[r] = row
      /\ \A k \in DOMAIN db.financialReports : db'.financialReports[k] = db.financialReports[k]
  BY <1>4, <1>5 DEF With
<1>7. RowsWell(row.kind, row.rows)
  BY <1>1, <1>3
<1> QED
  BY <1>3, <1>4, <1>5, <1>6, <1>7 DEF ReportsKept, ReportsInv

LEMMA CreateReportKept ==
    ASSUME ReportsInv, NEW r \in Requests, Commits(r), create_report(r)
    PROVE  ReportsKept(r)
<1> DEFINE b == body[r]
<1>1. b.kind \in Kinds /\ RowsFilled(b.kind, b.rows)
  BY Payloads DEF ReportsInv, Requests, create_report, Asks
<1>2. valid_report(b.kind, b.rows, b.billed, b.collected) => RowsWell(b.kind, b.rows)
  BY <1>1, ValidWell
<1>3. CreateReport(r, valid_report(b.kind, b.rows, b.billed, b.collected), b.rows, b.billed, b.collected)
  BY DEF create_report
<1> QED
  BY <1>2, <1>3, NewReportKept

\* Numbers that there are have a least.
LEMMA LeastIn ==
    ASSUME NEW T \in SUBSET Nat, T # {}
    PROVE  Least(T) \in T
<1>1. \E x \in T : \A y \in T : x <= y
  BY LeastOfNaturals, Zenon
<1> QED
  BY <1>1, Zenon DEF Least

\* The rows of a sheet that is taken are finitely many, and their cells are what they must be.
LEMMA ImportedFilled ==
    ASSUME NEW kind \in Kinds, NEW sheet, Len(sheet) \in Nat, DOMAIN sheet = 1..Len(sheet),
           parse_import_workbook(kind, sheet)
    PROVE  RowsFilled(kind, imported_rows(kind, sheet))
<1> DEFINE rows == imported_rows(kind, sheet)
           start == find_header(kind, sheet)
           found == {i \in DOMAIN sheet : /\ i <= 25
                                          /\ \A f \in Fields(kind) \ Optional : labelled(sheet[i], aliases(kind)[f]) # {}}
           ends == {i \in DOMAIN sheet : i > start /\ first_nonempty(sheet[i]) \in {Text("total"), Text("totals")}}
           last == IF ends = {} THEN Len(sheet) ELSE Least(ends) - 1
           filledRows == {i \in (start + 1)..last : first_nonempty(sheet[i]) # None}
<1>0. found \in SUBSET Nat /\ ends \in SUBSET Nat
  OBVIOUS
<1>1. start \in Nat
  <2>1. start = IF found = {} THEN 0 ELSE Least(found)
    BY DEF find_header
  <2>2. found # {} => Least(found) \in found
    BY <1>0, LeastIn
  <2>3. found = {} \/ Least(found) \in Nat
    BY <1>0, <2>2
  <2> HIDE DEF found, start
  <2> QED
    BY <2>1, <2>3
<1>2. last \in Int
  <2> HIDE DEF start
  <2>1. ends # {} => Least(ends) \in ends
    BY <1>0, LeastIn
  <2>2. ends = {} \/ Least(ends) \in Nat
    BY <1>0, <2>1
  <2> HIDE DEF ends
  <2> QED
    BY <2>2
<1>3. IsFiniteSet(filledRows)
  <2> HIDE DEF start, last
  <2>1. IsFiniteSet((start + 1)..last)
    BY <1>1, <1>2, FS_Interval
  <2>2. filledRows \subseteq (start + 1)..last
    OBVIOUS
  <2> QED
    BY <2>1, <2>2, FS_Subset
<1>4. DOMAIN rows = 1..Cardinality(filledRows)
  BY DEF imported_rows, data_rows
<1>5. IsFiniteSet(DOMAIN rows)
  BY <1>3, <1>4, FS_CardinalityType, FS_Interval
<1>6. ASSUME NEW i \in DOMAIN rows, NEW f \in Fields(kind) \ (TextFields \cup DateFields)
      PROVE  rows[i][f][2] \in numbers(f)
  <2>1. readable(kind, f, rows[i][f])
    BY DEF parse_import_workbook
  <2>2. f \notin Optional
    BY DEF Optional, TextFields, DateFields
  <2> QED
    BY <2>1, <2>2 DEF readable
<1> QED
  BY <1>5, <1>6 DEF RowsFilled

LEMMA ImportReportKept ==
    ASSUME ReportsInv, NEW r \in Requests, Commits(r), import_report(r)
    PROVE  ReportsKept(r)
<1> DEFINE b == body[r]
           rows == imported_rows(b.kind, b.sheet)
<1>1. b.kind \in Kinds /\ Len(b.sheet) \in Nat /\ DOMAIN b.sheet = 1..Len(b.sheet)
  BY Payloads DEF ReportsInv, Requests, import_report, Asks
<1>2. ASSUME parse_import_workbook(b.kind, b.sheet) PROVE RowsWell(b.kind, rows)
  <2>1. RowsFilled(b.kind, rows)
    BY <1>1, <1>2, ImportedFilled
  <2>2. valid_report(b.kind, rows, billed_in(b.kind, b.sheet), collected_in(b.kind, b.sheet))
    BY <1>2 DEF parse_import_workbook
  <2> HIDE DEF rows
  <2> QED
    BY <1>1, <2>1, <2>2, ValidWell
<1>3. CreateReport(r, parse_import_workbook(b.kind, b.sheet), rows, billed_in(b.kind, b.sheet), collected_in(b.kind, b.sheet))
  BY DEF import_report
<1> HIDE DEF rows
<1> QED
  BY <1>2, <1>3, NewReportKept

\* An edit keeps the kind, and puts rows of it.
LEMMA UpdateReportKept ==
    ASSUME ReportsInv, NEW r \in Requests, Commits(r), update_report(r)
    PROVE  ReportsKept(r)
<1> DEFINE b == body[r]
           k == b.report
           old == seen[r].financialReports[k]
           new == With(old, header(old.kind, b.period, b.rows, b.billed, b.collected))
           saved == Save(db.financialReports, seen[r].financialReports, k, new)
           reports == [saved EXCEPT ![k].rows = b.rows]
<1>1. /\ k \in DOMAIN seen[r].financialReports /\ old.kind = b.kind
      /\ valid_report(old.kind, b.rows, b.billed, b.collected)
      /\ Commit(r, [db EXCEPT !.financialReports = reports])
  BY Decided, Zenon DEF update_report, Decide, ReportsInv
<1> HIDE DEF new, saved, reports
<1>2. db'.financialReports = reports /\ "financialReports" \in DOMAIN db'
  BY <1>1 DEF Commit, ReportsInv
<1>3. b.kind \in Kinds /\ RowsFilled(b.kind, b.rows)
  BY Payloads DEF ReportsInv, Requests, update_report, Asks
<1> HIDE DEF old
<1>4. RowsWell(old.kind, b.rows)
  BY <1>1, <1>3, ValidWell
<1>5. k \in DOMAIN db.financialReports /\ "kind" \in DOMAIN old /\ old.kind = db.financialReports[k].kind
  BY <1>1 DEF ReportsInv, Commits, old
<1>6. new.kind = old.kind
  <2>1. "kind" \notin DOMAIN header(old.kind, b.period, b.rows, b.billed, b.collected)
    BY DEF header, With, totals
  <2> QED
    BY <1>5, <2>1 DEF With, new
<1>7. /\ DOMAIN saved = DOMAIN db.financialReports
      /\ \A j \in DOMAIN saved : j # k => saved[j] = db.financialReports[j]
      /\ saved[k] = Changed(db.financialReports[k], seen[r].financialReports[k], new)
  BY <1>5 DEF Save, saved
<1>8. {"kind", "rows"} \subseteq DOMAIN db.financialReports[k]
  BY <1>5 DEF ReportsInv
<1>9. {"kind", "rows"} \subseteq DOMAIN saved[k] /\ saved[k].kind = old.kind
  BY <1>5, <1>6, <1>7, <1>8 DEF Changed, old
<1>10. /\ DOMAIN reports = DOMAIN db.financialReports
       /\ \A j \in DOMAIN reports : j # k => reports[j] = db.financialReports[j]
       /\ {"kind", "rows"} \subseteq DOMAIN reports[k] /\ reports[k].kind = old.kind /\ reports[k].rows = b.rows
  BY <1>5, <1>7, <1>9 DEF reports
<1> QED
  BY <1>2, <1>4, <1>5, <1>10 DEF ReportsKept, ReportsInv

\* Whoever writes no report keeps them.
LEMMA ReportsStay ==
    ASSUME ReportsInv, NEW r \in Requests, db'.financialReports = db.financialReports, DOMAIN db' = DOMAIN db
    PROVE  ReportsKept(r)
  BY DEF ReportsInv, ReportsKept

LEMMA NextReports == ReportsInv /\ [Next]_vars => ReportsInv'
<1> SUFFICES ASSUME ReportsInv, [Next]_vars PROVE ReportsInv'
  OBVIOUS
<1>1. Sessions
  BY DEF ReportsInv
<1>2. ASSUME NEW r \in Requests, Commits(r), Step(r)
      PROVE  ReportsInv'
  <2>1. ReportsKept(r)
    <3>1. CASE ReportStep(r)
      BY <1>2, <3>1, CreateReportKept, ImportReportKept, UpdateReportKept DEF ReportStep
    <3>2. CASE ~ReportStep(r)
      <4>1. DOMAIN db' = DOMAIN db /\ "financialReports" \in DOMAIN db
        BY <1>1, <1>2, Footprints DEF ReportsInv
      <4>2. ~Touches(r, "financialReports")
        BY <3>2 DEF Touches
      <4> QED
        BY <1>1, <1>2, <4>1, <4>2, Footprints, ReportsStay
    <3> QED
      BY <3>1, <3>2
  <2> QED
    BY <1>2, <2>1, CommitReports
<1> QED
  BY <1>1, <1>2, IdleReports, StepCases

\* The rows of every report that was written have the numbers of its kind, in every
\* reachable state.
THEOREM ReportsInvariant == Spec => []ReportsInv
  BY InitReports, NextReports, PTL DEF Spec

\* The slices of the distributions a reader sees make up the whole, and the percentages a
\* hundred to the rounding of each (serialize of the three report services).
THEOREM DistributionsMakeUpTheWhole == Spec => []DistributionsAddUp
<1>1. ReportsInv => DistributionsAddUp
  <2> SUFFICES ASSUME ReportsInv, NEW k \in Written("financialReports"), NEW i \in {1, 2}
               PROVE  LET report == db.financialReports[k]
                          total == total_of(report.kind, report.rows)
                          both == distributions(report.kind, report.rows)
                      IN  Sum(both[i]) = total /\ (total # 0 => MakeHundred(both[i], total))
    BY Zenon DEF DistributionsAddUp
  <2> DEFINE kind == db.financialReports[k].kind
             rows == db.financialReports[k].rows
  <2>1. RowsWell(kind, rows)
    BY DEF ReportsInv
  <2>2. AddUp(distributions(kind, rows)[i], total_of(kind, rows)) /\ total_of(kind, rows) \in Nat
    BY <2>1, BothAddUp, TotalNatural
  <2> QED
    BY <2>2, PercentagesAddUp
<1> QED
  BY <1>1, ReportsInvariant, PTL
-----------------------------------------------------------------------------
(* What belongs together: an edit validates it in its snapshot and writes the    *)
(* columns that changed. The snapshot shows it as it is unless an edit of it      *)
(* committed since, which is then among the requests it missed.                   *)

\* The requests that edited it.
EditsOf(w, k) == On(<<PathField(w), k>>, Rewriting[w])

\* An edit of a person that names another association and no unit.
Excused(w, k) ==
    /\ w = "person"
    /\ \E q \in EditsOf(w, k) : body[q].association # None /\ body[q].home = None

Rows(tables, w) == tables[Watched[w]]

HasColumns(tables, w) ==
    /\ Watched[w] \in DOMAIN tables
    /\ \A k \in DOMAIN Rows(tables, w) : WatchedColumns[w] \subseteq DOMAIN Rows(tables, w)[k]

\* It is in both what it is in one.
Unchanged(old, new, w, k) ==
    CASE w = "poll" -> poll_options(old, k) = poll_options(new, k)
      [] w = "rules" -> rules_of(old.assessmentRules, k) = rules_of(new.assessmentRules, k)
      [] w \in {"report", "statement"} -> Rows(old, w)[k] = Rows(new, w)[k]
      [] OTHER -> \A c \in WatchedColumns[w] : Rows(old, w)[k][c] = Rows(new, w)[k][c]

\* The snapshot of q shows it, unless it missed an edit.
ShowsIt(q, w, k) ==
    /\ k \in DOMAIN Rows(db, w)
    /\ Unchanged(seen[q], db, w, k) \/ missed[q] \cap EditsOf(w, k) # {}

\* It agrees, or its edits overlapped.
Settling(w, k) == Together(db, w, k) \/ Raced(EditsOf(w, k)) \/ Excused(w, k)

\* What is watched agrees or was raced over, who has not committed has none of it, and a
\* request sees what there is or has missed an edit.
WatchedInv ==
    /\ Sessions /\ body \in Workloads /\ now \in Nat
    /\ \A w \in DOMAIN Watched :
          /\ HasColumns(db, w)
          /\ \A k \in DOMAIN Rows(db, w) :
                /\ Settling(w, k)
                /\ \A q \in Requests : stage[q] \in {"waiting", "open"} => KeyOf(w, k) # q
    /\ \A q \in Requests : stage[q] = "open" =>
          \A w \in DOMAIN Watched :
             /\ HasColumns(seen[q], w)
             /\ \A k \in DOMAIN Rows(seen[q], w) : ShowsIt(q, w, k)

\* An edit by r, which saw it, leaves it together if the snapshot showed it so.
Rewritten(r, w, k) ==
    /\ r \in EditsOf(w, k)' /\ k \in DOMAIN Rows(seen[r], w)
    /\ Unchanged(seen[r], db, w, k) /\ Together(db, w, k) => Together(db', w, k) \/ Excused(w, k)'

\* What the commit of r may do to what is watched.
KeptTogether(r, w) ==
    /\ HasColumns(db', w)
    /\ DOMAIN Rows(db, w) \subseteq DOMAIN Rows(db', w)
    /\ \A k \in DOMAIN Rows(db', w) \ DOMAIN Rows(db, w) : KeyOf(w, k) = r /\ Together(db', w, k)
    /\ \A k \in DOMAIN Rows(db, w) :
          \/ Unchanged(db, db', w, k) /\ (Together(db, w, k) => Together(db', w, k))
          \/ Rewritten(r, w, k)

LEMMA UnchangedPasses ==
    ASSUME NEW old, NEW middle, NEW new, NEW w \in DOMAIN Watched, NEW k,
           Unchanged(old, middle, w, k), Unchanged(middle, new, w, k)
    PROVE  Unchanged(old, new, w, k)
  BY DEF Unchanged, Watched

LEMMA ExcusedStays ==
    ASSUME Sessions, NEW r \in Requests, Commits(r), NEW w, NEW k, Excused(w, k)
    PROVE  Excused(w, k)'
<1>1. body' = body /\ EditsOf(w, k) \subseteq EditsOf(w, k)'
  BY OnGrows DEF EditsOf, Commits
<1> QED
  BY <1>1 DEF Excused

\* What r leaves is together, or edits of it overlapped.
LEMMA CommitSettling ==
    ASSUME WatchedInv, NEW r \in Requests, Commits(r), NEW w \in DOMAIN Watched, KeptTogether(r, w),
           NEW k \in DOMAIN Rows(db', w)
    PROVE  Settling(w, k)'
<1> DEFINE edits == EditsOf(w, k)
<1>1. /\ edits \subseteq edits' /\ Requests' = Requests
      /\ Raced(edits) => Raced(edits)'
      /\ \A q \in Requests : missed[q] \subseteq missed'[q]
  BY OnGrows DEF WatchedInv, EditsOf
<1>2. Excused(w, k) => Excused(w, k)'
  BY ExcusedStays DEF WatchedInv
<1>3. CASE k \notin DOMAIN Rows(db, w)
  BY <1>3 DEF KeptTogether, Settling
<1>4. CASE k \in DOMAIN Rows(db, w)
  <2>1. Settling(w, k)
    BY <1>4 DEF WatchedInv
  <2>2. CASE ~Together(db, w, k)
    BY <1>1, <1>2, <2>1, <2>2 DEF Settling
  <2>3. CASE Together(db, w, k) /\ Unchanged(db, db', w, k) /\ Together(db', w, k)
    BY <2>3 DEF Settling
  <2>4. CASE Together(db, w, k) /\ Rewritten(r, w, k)
    <3>1. ShowsIt(r, w, k)
      BY <2>4 DEF Rewritten, WatchedInv, Commits
    <3>2. CASE Unchanged(seen[r], db, w, k)
      BY <2>4, <3>2 DEF Rewritten, Settling
    <3>3. CASE missed[r] \cap edits # {}
      <4>1. PICK p \in edits : p \in missed[r]
        BY <3>3
      <4>2. r \notin edits /\ r \in edits'
        BY <2>4, OnGrows DEF Rewritten, WatchedInv, EditsOf
      <4>3. p # r /\ p \in edits' /\ p \in missed'[r]
        BY <1>1, <4>1, <4>2
      <4>4. Raced(edits)'
        BY <4>2, <4>3 DEF Raced, Overlapped
      <4> QED
        BY <4>4 DEF Settling
    <3> QED
      BY <3>1, <3>2, <3>3 DEF ShowsIt
  <2> QED
    BY <1>4, <2>2, <2>3, <2>4 DEF KeptTogether
<1> QED
  BY <1>3, <1>4

\* The snapshots of the others show it, or missed the edit by r.
LEMMA CommitShows ==
    ASSUME WatchedInv, NEW r \in Requests, Commits(r), NEW w \in DOMAIN Watched, KeptTogether(r, w),
           NEW q \in Requests, stage'[q] = "open", NEW k \in DOMAIN Rows(seen'[q], w)
    PROVE  ShowsIt(q, w, k)'
<1> DEFINE edits == EditsOf(w, k)
<1>1. edits \subseteq edits' /\ missed[q] \subseteq missed'[q]
  BY OnGrows DEF WatchedInv, EditsOf
<1>2. q # r /\ stage[q] = "open" /\ seen'[q] = seen[q] /\ r \in missed'[q]
  BY DEF Commits, Committed
<1>3. ShowsIt(q, w, k)
  BY <1>2 DEF WatchedInv
<1>4. k \in DOMAIN Rows(db, w) /\ k \in DOMAIN Rows(db', w)
  BY <1>3 DEF ShowsIt, KeptTogether
<1>5. CASE missed[q] \cap edits # {}
  BY <1>1, <1>4, <1>5 DEF ShowsIt
<1>6. CASE Unchanged(seen[q], db, w, k)
  <2>1. CASE Unchanged(db, db', w, k)
    <3>1. Unchanged(seen[q], db', w, k)
      BY <1>6, <2>1, UnchangedPasses
    <3> QED
      BY <1>2, <1>4, <3>1 DEF ShowsIt
  <2>2. CASE Rewritten(r, w, k)
    BY <1>2, <1>4, <2>2 DEF ShowsIt, Rewritten
  <2> QED
    BY <1>4, <2>1, <2>2 DEF KeptTogether
<1> QED
  BY <1>3, <1>5, <1>6 DEF ShowsIt

LEMMA CommitWatched ==
    ASSUME WatchedInv, NEW r \in Requests, Commits(r), \A w \in DOMAIN Watched : KeptTogether(r, w)
    PROVE  WatchedInv'
<1>1. Sessions' /\ body' = body /\ Requests' = Requests /\ now' \in Nat
  BY StepSessions DEF WatchedInv, Commits, Requests
<1>2. \A q \in Requests : stage'[q] \in {"waiting", "open"} => q # r /\ stage'[q] = stage[q] /\ seen'[q] = seen[q]
  BY DEF Commits, Committed
<1>3. ASSUME NEW w \in DOMAIN Watched, NEW k \in DOMAIN Rows(db', w)
      PROVE  \A q \in Requests : stage'[q] \in {"waiting", "open"} => KeyOf(w, k) # q
  <2>1. CASE k \in DOMAIN Rows(db, w)
    BY <1>2, <2>1 DEF WatchedInv
  <2>2. CASE k \notin DOMAIN Rows(db, w)
    BY <1>2, <1>3, <2>2 DEF KeptTogether
  <2> QED
    BY <2>1, <2>2
<1>4. \A w \in DOMAIN Watched : \A k \in DOMAIN Rows(db', w) : Settling(w, k)'
  BY CommitSettling
<1>5. \A w \in DOMAIN Watched : HasColumns(db', w)
  BY DEF KeptTogether
<1>6. ASSUME NEW q \in Requests, stage'[q] = "open", NEW w \in DOMAIN Watched
      PROVE  HasColumns(seen'[q], w) /\ \A k \in DOMAIN Rows(seen'[q], w) : ShowsIt(q, w, k)'
  <2>1. HasColumns(seen'[q], w)
    BY <1>2, <1>6 DEF WatchedInv
  <2> QED
    BY <1>6, <2>1, CommitShows
<1> QED
  BY <1>1, <1>3, <1>4, <1>5, <1>6, Zenon DEF WatchedInv

LEMMA IdleWatched ==
    ASSUME WatchedInv, Idle
    PROVE  WatchedInv'
<1>1. Sessions' /\ body' = body /\ Requests' = Requests /\ db' = db /\ missed' = missed /\ now' \in Nat
  BY StepSessions DEF WatchedInv, Idle, Requests
<1>2. \A w, k : /\ EditsOf(w, k)' = EditsOf(w, k)
                /\ Raced(EditsOf(w, k)) => Raced(EditsOf(w, k))'
                /\ Excused(w, k) => Excused(w, k)'
  BY <1>1 DEF EditsOf, On, Excused, Raced, Overlapped, Idle
<1>3. ASSUME NEW w \in DOMAIN Watched, NEW k \in DOMAIN Rows(db, w)
      PROVE  Settling(w, k)' /\ \A q \in Requests : stage'[q] \in {"waiting", "open"} => KeyOf(w, k) # q
  BY <1>1, <1>2 DEF WatchedInv, Settling, Idle
<1>4. ASSUME NEW q \in Requests, stage'[q] = "open", NEW w \in DOMAIN Watched
      PROVE  HasColumns(seen'[q], w) /\ \A k \in DOMAIN Rows(seen'[q], w) : ShowsIt(q, w, k)'
  <2>1. CASE stage[q] = "open"
    <3>1. seen'[q] = seen[q]
      BY <1>4, <2>1 DEF Idle
    <3> QED
      BY <1>1, <1>2, <2>1, <3>1 DEF WatchedInv, ShowsIt
  <2>2. CASE stage[q] # "open"
    <3>1. seen'[q] = db
      BY <1>4, <2>2 DEF Idle
    <3>2. \A k : Unchanged(db, db, w, k)
      BY DEF Unchanged, Watched
    <3> QED
      BY <1>1, <3>1, <3>2 DEF WatchedInv, ShowsIt
  <2> QED
    BY <2>1, <2>2
<1> QED
  BY <1>1, <1>3, <1>4, Zenon DEF WatchedInv

LEMMA InitWatched == Init => WatchedInv
<1> SUFFICES ASSUME Init PROVE WatchedInv
  OBVIOUS
<1>1. Sessions /\ body \in Workloads /\ now = 0 /\ db = OpeningTables /\ \A q \in Requests : stage[q] = "waiting"
  BY InitSessions DEF Init
<1>2. ASSUME NEW w \in DOMAIN Watched
      PROVE  /\ HasColumns(db, w)
             /\ \A k \in DOMAIN Rows(db, w) :
                   Settling(w, k) /\ \A q \in Requests : stage[q] \in {"waiting", "open"} => KeyOf(w, k) # q
  BY <1>1, OpeningWhole DEF HasColumns, Rows, Settling, Requests
<1> QED
  BY <1>1, <1>2 DEF WatchedInv
-----------------------------------------------------------------------------
(* Writing what is watched                                                       *)

\* What one row decides.
RowWatches == {"report", "statement", "request", "invoice", "event", "plan"}

LEMMA SameTogether ==
    ASSUME NEW w \in RowWatches, NEW old, NEW new, NEW k, Unchanged(old, new, w, k), Together(old, w, k)
    PROVE  Together(new, w, k)
<1>1. CASE w \in {"report", "statement"}
  BY <1>1, Zenon DEF Unchanged, Together, Rows
<1>2. CASE w = "request"
  BY <1>2 DEF Unchanged, Together, Rows, Watched, WatchedColumns, Mapped
<1>3. CASE w = "invoice"
  BY <1>3 DEF Unchanged, Together, Rows, Watched, WatchedColumns
<1>4. CASE w = "event"
  BY <1>4 DEF Unchanged, Together, Rows, Watched, WatchedColumns, validate_pass_settings, charge
<1>5. CASE w = "plan"
  BY <1>5 DEF Unchanged, Together, Rows, Watched, WatchedColumns
<1> QED
  BY <1>1, <1>2, <1>3, <1>4, <1>5 DEF RowWatches

\* The row of another is as it was.
LEMMA SameRow ==
    ASSUME NEW w \in RowWatches, NEW old, NEW new, NEW k, Rows(old, w)[k] = Rows(new, w)[k]
    PROVE  Unchanged(old, new, w, k)
  BY DEF RowWatches, Unchanged

\* A new row of r.
LEMMA InsertKept ==
    ASSUME WatchedInv, NEW r \in Requests, Commits(r), NEW w \in RowWatches, NEW row,
           Watched[w] \in DOMAIN db', Rows(db', w) = With(Rows(db, w), [k \in {r} |-> row]),
           WatchedColumns[w] \subseteq DOMAIN row, Together(db', w, r)
    PROVE  KeptTogether(r, w)
<1>1. w \in DOMAIN Watched /\ KeyOf(w, r) = r /\ \A k : KeyOf(w, k) = k
  BY DEF RowWatches, Watched, KeyOf
<1>2. HasColumns(db, w) /\ \A k \in DOMAIN Rows(db, w) : k # r
  BY <1>1 DEF WatchedInv, Commits
<1>3. /\ DOMAIN Rows(db', w) = DOMAIN Rows(db, w) \cup {r} /\ Rows(db', w)[r] = row
      /\ \A k \in DOMAIN Rows(db, w) : Rows(db', w)[k] = Rows(db, w)[k]
  BY <1>2 DEF With
<1>4. HasColumns(db', w)
  BY <1>2, <1>3 DEF HasColumns
<1>5. \A k \in DOMAIN Rows(db, w) : Unchanged(db, db', w, k) /\ (Together(db, w, k) => Together(db', w, k))
  BY <1>3, SameRow, SameTogether
<1> QED
  BY <1>1, <1>3, <1>4, <1>5 DEF KeptTogether

\* A row changes and keeps its columns.
LEMMA ChangeKept ==
    ASSUME WatchedInv, NEW r \in Requests, Commits(r), NEW w \in RowWatches, NEW k,
           Watched[w] \in DOMAIN db', DOMAIN Rows(db', w) = DOMAIN Rows(db, w),
           \A j \in DOMAIN Rows(db, w) : j # k => Rows(db', w)[j] = Rows(db, w)[j],
           k \in DOMAIN Rows(db, w) => WatchedColumns[w] \subseteq DOMAIN Rows(db', w)[k],
           k \in DOMAIN Rows(db, w) => Unchanged(db, db', w, k) \/ Rewritten(r, w, k)
    PROVE  KeptTogether(r, w)
<1>1. w \in DOMAIN Watched
  BY DEF RowWatches, Watched
<1>2. HasColumns(db, w)
  BY <1>1 DEF WatchedInv
<1>3. HasColumns(db', w)
  BY <1>2 DEF HasColumns
<1>4. \A j \in DOMAIN Rows(db, w) :
         \/ Unchanged(db, db', w, j) /\ (Together(db, w, j) => Together(db', w, j))
         \/ Rewritten(r, w, j)
  BY SameRow, SameTogether
<1> QED
  BY <1>3, <1>4 DEF KeptTogether

\* What together means of each.
LEMMA TogetherIs ==
    ASSUME NEW tables, NEW k
    PROVE  /\ Together(tables, "report", k) <=> HasTotals(tables.financialReports[k],
                totals(tables.financialReports[k].kind, tables.financialReports[k].rows))
           /\ Together(tables, "statement", k) <=>
                HasTotals(tables.incomeStatements[k], income_totals(tables.incomeStatements[k].items))
           /\ Together(tables, "request", k) <=> Mapped(tables.serviceRequests[k])
           /\ Together(tables, "invoice", k) <=>
                ((tables.invoices[k].status = "paid") = (tables.invoices[k].payment # None))
           /\ Together(tables, "event", k) <=> validate_pass_settings(tables.events[k])
           /\ Together(tables, "poll", k) <=> \A o, p \in poll_options(tables, k) : o[1] = p[1]
           /\ Together(tables, "plan", k) <=> tables.associations[k].plan = None \/ tables.associations[k].start # None
           /\ Together(tables, "rules", k) <=> \A o, p \in rules_of(tables.assessmentRules, k) : o = p
           /\ Together(tables, "person", k) <=>
                tables.people[k].unit \in units_of(tables, tables.people[k].association) \cup {None}
  BY DEF Together, Watched

\* An edit of r that saw the row.
LEMMA SavedColumns ==
    ASSUME WatchedInv, NEW r \in Requests, Commits(r), NEW w \in DOMAIN Watched, NEW k \in DOMAIN Rows(seen[r], w)
    PROVE  /\ k \in DOMAIN Rows(db, w)
           /\ WatchedColumns[w] \subseteq DOMAIN Rows(db, w)[k]
           /\ WatchedColumns[w] \subseteq DOMAIN Rows(seen[r], w)[k]
  BY DEF WatchedInv, Commits, ShowsIt, HasColumns

\* r asks to edit it.
Rewrites(r, w, k) == body[r].op \in Rewriting[w] /\ k = body[r][PathField(w)]

LEMMA EditsNow ==
    ASSUME WatchedInv, NEW r \in Requests, Commits(r), NEW w \in DOMAIN Watched, NEW k, Rewrites(r, w, k)
    PROVE  r \in EditsOf(w, k)'
<1>1. PathField(w) \in DOMAIN body[r]
  BY Payloads DEF WatchedInv, Requests, Rewrites
<1>2. body' = body /\ Committed(r)' /\ r \in Requests'
  BY DEF Commits, Requests
<1> QED
  BY <1>1, <1>2 DEF EditsOf, On, Rewrites

\* The watches of single columns.
ColumnWatches == {"request", "invoice", "event", "plan"}

\* A row that r asks to edit and replaces.
LEMMA ReplaceKept ==
    ASSUME WatchedInv, NEW r \in Requests, Commits(r), NEW w \in RowWatches, NEW k \in DOMAIN Rows(seen[r], w),
           Watched[w] \in DOMAIN db', DOMAIN Rows(db', w) = DOMAIN Rows(db, w),
           \A j \in DOMAIN Rows(db, w) : j # k => Rows(db', w)[j] = Rows(db, w)[j],
           WatchedColumns[w] \subseteq DOMAIN Rows(db', w)[k], Rewrites(r, w, k),
           Unchanged(seen[r], db, w, k) /\ Together(db, w, k) => Together(db', w, k)
    PROVE  KeptTogether(r, w)
<1>1. w \in DOMAIN Watched
  BY DEF RowWatches, Watched
<1>2. Rewritten(r, w, k)
  BY <1>1, EditsNow DEF Rewritten
<1> QED
  BY <1>2, ChangeKept

\* A row with these columns is together.
MakesTogether(w, k, wanted) ==
    \A tables : (\A c \in WatchedColumns[w] : Rows(tables, w)[k][c] = wanted[c]) => Together(tables, w, k)

\* The flush of a row that the snapshot shows: a column that was not to change keeps the
\* value there is, and where the snapshot showed the row as it is all have the values wanted.
LEMMA SaveKept ==
    ASSUME WatchedInv, NEW r \in Requests, Commits(r), NEW w \in ColumnWatches, NEW k \in DOMAIN Rows(seen[r], w),
           NEW wanted, Watched[w] \in DOMAIN db',
           Rows(db', w) = Save(Rows(db, w), Rows(seen[r], w), k, wanted),
           \/ \A c \in WatchedColumns[w] : wanted[c] = Rows(seen[r], w)[k][c]
           \/ Rewrites(r, w, k) /\ MakesTogether(w, k, wanted)
    PROVE  KeptTogether(r, w)
<1> DEFINE table == Rows(db, w)
           loaded == Rows(seen[r], w)
           saved == Rows(db', w)
           cols == WatchedColumns[w]
<1>1. w \in DOMAIN Watched /\ w \in RowWatches
  BY DEF ColumnWatches, RowWatches, Watched
<1>2. k \in DOMAIN table /\ cols \subseteq DOMAIN table[k]
  BY <1>1, SavedColumns
<1>3. saved = Save(table, loaded, k, wanted)
  OBVIOUS
<1>4. \A old, new : (\A c \in cols : Rows(old, w)[k][c] = Rows(new, w)[k][c]) <=> Unchanged(old, new, w, k)
  BY DEF Unchanged, ColumnWatches
<1>5. (\A c \in cols : loaded[k][c] = table[k][c]) <=> Unchanged(seen[r], db, w, k)
  BY <1>4
<1>6. (\A c \in cols : table[k][c] = saved[k][c]) <=> Unchanged(db, db', w, k)
  BY <1>4
<1>7. CASE \A c \in cols : wanted[c] = loaded[k][c]
  <2>1. /\ DOMAIN saved = DOMAIN table /\ DOMAIN saved[k] = DOMAIN table[k]
        /\ \A j \in DOMAIN table : j # k => saved[j] = table[j]
        /\ \A c \in cols : saved[k][c] = table[k][c]
    <3> HIDE DEF table, loaded, saved, cols
    <3> QED
      BY <1>2, <1>3, <1>7 DEF Save, Changed
  <2>2. Unchanged(db, db', w, k)
    BY <1>6, <2>1
  <2> QED
    BY <1>1, <1>2, <2>1, <2>2, ChangeKept
<1>8. CASE Rewrites(r, w, k) /\ MakesTogether(w, k, wanted)
  <2>1. /\ DOMAIN saved = DOMAIN table /\ DOMAIN saved[k] = DOMAIN table[k]
        /\ \A j \in DOMAIN table : j # k => saved[j] = table[j]
        /\ (\A c \in cols : loaded[k][c] = table[k][c]) => \A c \in cols : saved[k][c] = wanted[c]
    <3> HIDE DEF table, loaded, saved, cols
    <3> QED
      BY <1>2, <1>3 DEF Save, Changed
  <2>2. ASSUME Unchanged(seen[r], db, w, k)
        PROVE  Together(db', w, k)
    <3>1. \A c \in cols : saved[k][c] = wanted[c]
      BY <1>5, <2>1, <2>2
    <3> QED
      BY <1>8, <3>1 DEF MakesTogether
  <2>3. Rewritten(r, w, k)
    BY <1>1, <1>8, <2>2, EditsNow DEF Rewritten
  <2> QED
    BY <1>1, <1>2, <2>1, <2>3, ChangeKept
<1> QED
  BY <1>7, <1>8

\* The deletion of a row changes no column that is watched.
LEMMA DeleteKept ==
    ASSUME WatchedInv, NEW r \in Requests, Commits(r), NEW w \in ColumnWatches, NEW k, NEW loaded,
           Watched[w] \in DOMAIN db', Rows(db', w) = Delete(Rows(db, w), loaded, {k})
    PROVE  KeptTogether(r, w)
<1> DEFINE table == Rows(db, w)
           marked == Rows(db', w)
           cols == WatchedColumns[w]
<1>1. w \in DOMAIN Watched /\ w \in RowWatches /\ "deleted" \notin cols
  BY DEF ColumnWatches, RowWatches, Watched, WatchedColumns
<1>2. k \in DOMAIN table => cols \subseteq DOMAIN table[k]
  BY <1>1 DEF WatchedInv, HasColumns
<1>3. marked = Delete(table, loaded, {k})
  OBVIOUS
<1>4. /\ DOMAIN marked = DOMAIN table
      /\ \A j \in DOMAIN table : j # k => marked[j] = table[j]
      /\ k \in DOMAIN table => /\ DOMAIN marked[k] = DOMAIN table[k]
                              /\ \A c \in cols : table[k][c] = marked[k][c]
  <2> HIDE DEF table, marked, cols
  <2> QED
    BY <1>1, <1>2, <1>3 DEF Delete, Mark
<1>5. (\A c \in cols : table[k][c] = marked[k][c]) => Unchanged(db, db', w, k)
  BY DEF Unchanged, ColumnWatches
<1> QED
  BY <1>1, <1>2, <1>4, <1>5, ChangeKept

-----------------------------------------------------------------------------
(* Tickets *)

LEMMA CreateTicketTogether ==
    ASSUME WatchedInv, NEW r \in Requests, Commits(r), create_service_request(r)
    PROVE  KeptTogether(r, "request")
<1> DEFINE b == body[r]
           is_admin == RoleOf[b.by] \in ADMIN_ROLE_CODES
           user == IF b.user # None THEN b.user ELSE b.by
           row == [user |-> user, association |-> HomeOf[user], unit |-> UnitOf[user],
                   display |-> _display_id(seen[r], user),
                   status |-> IF b.user # None THEN "In Progress" ELSE "New", deleted |-> FALSE]
           inbox2 == NotifyAll(db.notifications, r, <<"request", r>>,
                              IF b.user # None THEN {user} ELSE AdminsOf(HomeOf[user]))
<1>1. Commit(r, [db EXCEPT !.serviceRequests = With(@, [k \in {r} |-> row]), !.notifications = inbox2])
  BY Decided, Zenon DEF create_service_request, Decide, WatchedInv
<1> HIDE DEF row, inbox2
<1>2. HasColumns(db, "request")
  BY DEF WatchedInv, Watched
<1>3. "serviceRequests" \in DOMAIN db' /\ db'.serviceRequests = With(db.serviceRequests, [k \in {r} |-> row])
  BY <1>1, <1>2 DEF Commit, HasColumns, Watched
<1>4. db'.serviceRequests[r] = row
  BY <1>3 DEF With
<1>5. Together(db', "request", r)
  <2>1. Mapped(row)
    BY DEF Mapped, row
  <2> QED
    BY <1>4, <2>1, TogetherIs
<1>6. WatchedColumns["request"] \subseteq DOMAIN row
  BY DEF WatchedColumns, row
<1> HIDE DEF row
<1> QED
  BY <1>3, <1>5, <1>6, InsertKept DEF RowWatches, Watched, Rows

LEMMA TicketStatusTogether ==
    ASSUME WatchedInv, NEW r \in Requests, Commits(r), update_service_status(r)
    PROVE  KeptTogether(r, "request")
<1> DEFINE k == body[r].request
           loaded == seen[r].serviceRequests
           wanted == [loaded[k] EXCEPT !.status = body[r].status]
<1>1. k \in DOMAIN loaded
  BY Decided, Zenon DEF update_service_status, Decide, WatchedInv, _authorized_request, IsLive
<1>2. \E n : Commit(r, [db EXCEPT !.serviceRequests = Save(@, loaded, k, wanted), !.notifications = n])
  BY Decided, Zenon DEF update_service_status, Decide, WatchedInv
<1>3. HasColumns(db, "request")
  BY DEF WatchedInv, Watched
<1>4. "serviceRequests" \in DOMAIN db' /\ db'.serviceRequests = Save(db.serviceRequests, loaded, k, wanted)
  BY <1>2, <1>3 DEF Commit, HasColumns, Watched
<1>5. WatchedColumns["request"] \subseteq DOMAIN loaded[k]
  BY <1>1, SavedColumns DEF Watched, Rows
<1>6. \A c \in WatchedColumns["request"] : wanted[c] = loaded[k][c]
  BY <1>5 DEF WatchedColumns
<1> HIDE DEF wanted
<1> QED
  BY <1>1, <1>4, <1>6, SaveKept DEF ColumnWatches, Watched, Rows

LEMMA DeleteTicketTogether ==
    ASSUME WatchedInv, NEW r \in Requests, Commits(r), delete_service_request(r)
    PROVE  KeptTogether(r, "request")
<1>1. Commit(r, [db EXCEPT !.serviceRequests = Delete(@, seen[r].serviceRequests, {body[r].request})])
  BY Decided, Zenon DEF delete_service_request, Decide, WatchedInv
<1>2. HasColumns(db, "request")
  BY DEF WatchedInv, Watched
<1>3. "serviceRequests" \in DOMAIN db'
      /\ db'.serviceRequests = Delete(db.serviceRequests, seen[r].serviceRequests, {body[r].request})
  BY <1>1, <1>2 DEF Commit, HasColumns, Watched
<1> QED
  BY <1>3, DeleteKept DEF ColumnWatches, Watched, Rows

\* A ticket is mapped to a unit of the association and a resident of the unit.
LEMMA MapTicketTogether ==
    ASSUME WatchedInv, NEW r \in Requests, Commits(r), map_service_request(r)
    PROVE  KeptTogether(r, "request")
<1> DEFINE b == body[r]
           k == b.request
           loaded == seen[r].serviceRequests
           wanted == [loaded[k] EXCEPT !.association = b.association, !.unit = b.unit, !.user = b.user]
<1>1. /\ k \in DOMAIN loaded /\ UnitHome[b.unit] = b.association /\ UnitOf[b.user] = b.unit
      /\ \E n : Commit(r, [db EXCEPT !.serviceRequests = Save(@, loaded, k, wanted), !.notifications = n])
  BY Decided, Zenon DEF map_service_request, Decide, WatchedInv, IsLive
<1> HIDE DEF wanted
<1>2. b.op = "map_service" /\ b.unit # None
  BY Payloads DEF map_service_request, Asks, WatchedInv, Requests
<1>3. HasColumns(db, "request")
  BY DEF WatchedInv, Watched
<1>4. "serviceRequests" \in DOMAIN db' /\ db'.serviceRequests = Save(db.serviceRequests, loaded, k, wanted)
  BY <1>1, <1>3 DEF Commit, HasColumns, Watched
<1>5. WatchedColumns["request"] \subseteq DOMAIN loaded[k]
  BY <1>1, SavedColumns DEF Watched, Rows
<1>6. wanted.user = b.user /\ wanted.unit = b.unit /\ wanted.association = b.association
  BY <1>5 DEF WatchedColumns, wanted
<1>7. Rewrites(r, "request", k)
  BY <1>2 DEF Rewrites, Rewriting, PathField
<1>8. MakesTogether("request", k, wanted)
  <2>1. ASSUME NEW tables, \A c \in WatchedColumns["request"] : Rows(tables, "request")[k][c] = wanted[c]
        PROVE  Together(tables, "request", k)
    <3>1. LET row == tables.serviceRequests[k]
          IN  row.user = b.user /\ row.unit = b.unit /\ row.association = b.association
      BY <1>6, <2>1 DEF Rows, Watched, WatchedColumns
    <3> QED
      BY <1>1, <1>2, <3>1, TogetherIs DEF Mapped
  <2> QED
    BY <2>1, Zenon DEF MakesTogether
<1> QED
  BY <1>1, <1>4, <1>7, <1>8, SaveKept DEF ColumnWatches, Watched, Rows

\* Whoever leaves the table leaves what is together.
LEMMA LeftTogether ==
    ASSUME WatchedInv, NEW r \in Requests, Commits(r), NEW w \in RowWatches,
           DOMAIN db' = DOMAIN db, Rows(db', w) = Rows(db, w)
    PROVE  KeptTogether(r, w)
<1>1. w \in DOMAIN Watched
  BY DEF RowWatches, Watched
<1>2. HasColumns(db', w)
  BY <1>1 DEF WatchedInv, HasColumns
<1> QED
  BY <1>2, SameRow, SameTogether DEF KeptTogether

LEMMA TicketsTogether ==
    ASSUME WatchedInv, NEW r \in Requests, Commits(r), Step(r)
    PROVE  KeptTogether(r, "request")
<1>1. Sessions
  BY DEF WatchedInv
<1>2. /\ DOMAIN db' = DOMAIN db
      /\ \A t \in DOMAIN db : db'[t] = db[t] \/ Touches(r, t)
  BY <1>1, Footprints
<1>3. "serviceRequests" \in DOMAIN db
  BY DEF WatchedInv, HasColumns, Watched
<1>4. ASSUME db'.serviceRequests = db.serviceRequests PROVE KeptTogether(r, "request")
  BY <1>2, <1>4, LeftTogether DEF RowWatches, Rows, Watched
<1>5. CASE ServiceStep(r)
  <2>1. CASE send_service_message(r)
    <3>1. \E m, f, n : Commit(r, [db EXCEPT !.serviceMessages = m, !.frames = f, !.notifications = n])
      BY <1>1, <2>1, Decided, Zenon DEF send_service_message, Decide
    <3>2. db'.serviceRequests = db.serviceRequests
      BY <1>3, <3>1 DEF Commit
    <3> QED
      BY <1>4, <3>2
  <2> QED
    BY <1>5, <2>1, CreateTicketTogether, TicketStatusTogether, MapTicketTogether, DeleteTicketTogether DEF ServiceStep
<1>6. CASE ~ServiceStep(r)
  <2>1. ~Touches(r, "serviceRequests")
    BY <1>6 DEF Touches
  <2> QED
    BY <1>2, <1>3, <1>4, <2>1
<1> QED
  BY <1>5, <1>6
-----------------------------------------------------------------------------
(* Invoices, events and plans *)

\* Rows of a table that a step leaves whatever else it does.
LEMMA ElsewhereKept ==
    ASSUME WatchedInv, NEW r \in Requests, Commits(r), Step(r), NEW w \in RowWatches, ~Touches(r, Watched[w])
    PROVE  KeptTogether(r, w)
<1>1. Watched[w] \in DOMAIN db
  BY DEF WatchedInv, HasColumns, RowWatches, Watched
<1>2. DOMAIN db' = DOMAIN db /\ db'[Watched[w]] = db[Watched[w]]
  BY <1>1, Footprints DEF WatchedInv
<1> QED
  BY <1>2, LeftTogether DEF Rows

\* The columns of a row that apply_payload wrote.
LEMMA PayloadApplied ==
    ASSUME NEW row, NEW b, NEW number
    PROVE  LET new == apply_payload(row, b, number)
           IN  /\ {"status", "payment"} \subseteq DOMAIN new
               /\ new.status = b.status
               /\ new.payment = IF b.status = "paid" THEN b.payment ELSE None
  BY DEF apply_payload, With

LEMMA CreateInvoiceTogether ==
    ASSUME WatchedInv, NEW r \in Requests, Commits(r), create_invoice(r)
    PROVE  KeptTogether(r, "invoice")
<1> DEFINE b == body[r]
           number == IF b.number = None THEN generate_invoice_number(seen[r], b.association) ELSE b.number
           row == apply_payload([association |-> b.association, deleted |-> FALSE], b, number)
<1>1. /\ validate_business_rules(b)
      /\ \E lines : Commit(r, [db EXCEPT !.invoices = With(@, [k \in {r} |-> row]), !.invoiceLines = lines])
  BY Decided, Zenon DEF create_invoice, Decide, WatchedInv
<1>2. {"status", "payment"} \subseteq DOMAIN row /\ ((row.status = "paid") = (row.payment # None))
  BY <1>1, PayloadApplied DEF validate_business_rules
<1> HIDE DEF row
<1>3. HasColumns(db, "invoice")
  BY DEF WatchedInv, Watched
<1>4. "invoices" \in DOMAIN db' /\ db'.invoices = With(db.invoices, [k \in {r} |-> row])
  BY <1>1, <1>3 DEF Commit, HasColumns, Watched
<1>5. db'.invoices[r] = row
  BY <1>4 DEF With
<1>6. Together(db', "invoice", r)
  BY <1>2, <1>5, TogetherIs
<1> QED
  BY <1>2, <1>4, <1>6, InsertKept DEF RowWatches, Watched, Rows, WatchedColumns

LEMMA UpdateInvoiceTogether ==
    ASSUME WatchedInv, NEW r \in Requests, Commits(r), update_invoice(r)
    PROVE  KeptTogether(r, "invoice")
<1> DEFINE b == body[r]
           k == b.invoice
           loaded == seen[r].invoices
           number == IF b.number = None THEN loaded[k].number ELSE b.number
           wanted == apply_payload(loaded[k], b, number)
<1>1. /\ validate_business_rules(b) /\ k \in DOMAIN loaded /\ b.op = "update_invoice"
      /\ \E lines : Commit(r, [db EXCEPT !.invoices = Save(@, loaded, k, wanted), !.invoiceLines = lines])
  BY Decided, Zenon DEF update_invoice, Asks, Decide, WatchedInv, get_scoped, IsLive
<1>2. (wanted.status = "paid") = (wanted.payment # None)
  BY <1>1, PayloadApplied DEF validate_business_rules
<1> HIDE DEF wanted
<1>3. HasColumns(db, "invoice")
  BY DEF WatchedInv, Watched
<1>4. "invoices" \in DOMAIN db' /\ db'.invoices = Save(db.invoices, loaded, k, wanted)
  BY <1>1, <1>3 DEF Commit, HasColumns, Watched
<1>5. Rewrites(r, "invoice", k)
  BY <1>1 DEF Rewrites, Rewriting, PathField
<1>6. MakesTogether("invoice", k, wanted)
  <2>1. ASSUME NEW tables, \A c \in WatchedColumns["invoice"] : Rows(tables, "invoice")[k][c] = wanted[c]
        PROVE  Together(tables, "invoice", k)
    <3>1. tables.invoices[k].status = wanted.status /\ tables.invoices[k].payment = wanted.payment
      BY <2>1 DEF Rows, Watched, WatchedColumns
    <3> QED
      BY <1>2, <3>1, TogetherIs
  <2> QED
    BY <2>1, Zenon DEF MakesTogether
<1> QED
  BY <1>1, <1>4, <1>5, <1>6, SaveKept DEF ColumnWatches, Watched, Rows

LEMMA InvoiceStatusTogether ==
    ASSUME WatchedInv, NEW r \in Requests, Commits(r), update_invoice_status(r)
    PROVE  KeptTogether(r, "invoice")
<1> DEFINE b == body[r]
           k == b.invoice
           loaded == seen[r].invoices
           wanted == [loaded[k] EXCEPT !.status = b.status, !.payment = IF b.status = "paid" THEN b.payment ELSE None]
<1>1. /\ (b.status = "paid" => b.payment # None) /\ k \in DOMAIN loaded /\ b.op = "invoice_status"
      /\ Commit(r, [db EXCEPT !.invoices = Save(@, loaded, k, wanted)])
  BY Decided, Zenon DEF update_invoice_status, Asks, Decide, WatchedInv, get_scoped, IsLive
<1>2. WatchedColumns["invoice"] \subseteq DOMAIN loaded[k]
  BY <1>1, SavedColumns DEF Watched, Rows
<1>3. (wanted.status = "paid") = (wanted.payment # None)
  BY <1>1, <1>2 DEF WatchedColumns
<1> HIDE DEF wanted
<1>4. HasColumns(db, "invoice")
  BY DEF WatchedInv, Watched
<1>5. "invoices" \in DOMAIN db' /\ db'.invoices = Save(db.invoices, loaded, k, wanted)
  BY <1>1, <1>4 DEF Commit, HasColumns, Watched
<1>6. Rewrites(r, "invoice", k)
  BY <1>1 DEF Rewrites, Rewriting, PathField
<1>7. MakesTogether("invoice", k, wanted)
  <2>1. ASSUME NEW tables, \A c \in WatchedColumns["invoice"] : Rows(tables, "invoice")[k][c] = wanted[c]
        PROVE  Together(tables, "invoice", k)
    <3>1. tables.invoices[k].status = wanted.status /\ tables.invoices[k].payment = wanted.payment
      BY <2>1 DEF Rows, Watched, WatchedColumns
    <3> QED
      BY <1>3, <3>1, TogetherIs
  <2> QED
    BY <2>1, Zenon DEF MakesTogether
<1> QED
  BY <1>1, <1>5, <1>6, <1>7, SaveKept DEF ColumnWatches, Watched, Rows

LEMMA DeleteInvoiceTogether ==
    ASSUME WatchedInv, NEW r \in Requests, Commits(r), delete_invoice(r)
    PROVE  KeptTogether(r, "invoice")
<1>1. Commit(r, [db EXCEPT !.invoices = Delete(@, seen[r].invoices, {body[r].invoice})])
  BY Decided, Zenon DEF delete_invoice, Decide, WatchedInv
<1>2. HasColumns(db, "invoice")
  BY DEF WatchedInv, Watched
<1>3. "invoices" \in DOMAIN db' /\ db'.invoices = Delete(db.invoices, seen[r].invoices, {body[r].invoice})
  BY <1>1, <1>2 DEF Commit, HasColumns, Watched
<1> QED
  BY <1>3, DeleteKept DEF ColumnWatches, Watched, Rows

LEMMA InvoicesTogether ==
    ASSUME WatchedInv, NEW r \in Requests, Commits(r), Step(r)
    PROVE  KeptTogether(r, "invoice")
<1>1. CASE InvoiceStep(r)
  BY <1>1, CreateInvoiceTogether, UpdateInvoiceTogether, InvoiceStatusTogether, DeleteInvoiceTogether DEF InvoiceStep
<1>2. CASE ~InvoiceStep(r)
  BY <1>2, ElsewhereKept DEF Touches, Watched, RowWatches
<1> QED
  BY <1>1, <1>2

LEMMA CreateEventTogether ==
    ASSUME WatchedInv, NEW r \in Requests, Commits(r), create_event(r)
    PROVE  KeptTogether(r, "event")
<1> DEFINE b == body[r]
           association == IF b.association = None /\ RoleOf[b.by] = "board_member" THEN HomeOf[b.by] ELSE b.association
           row == With(event_columns(b.columns), [association |-> association, created |-> now, deleted |-> FALSE])
<1>1. /\ validate_pass_settings(b.columns) /\ b.op = "create_event"
      /\ \E n : Commit(r, [db EXCEPT !.events = With(@, [k \in {r} |-> row]), !.notifications = n])
  BY Decided, Zenon DEF create_event, Asks, Decide, WatchedInv
<1> HIDE DEF row
<1>2. WatchedColumns.event \subseteq DOMAIN b.columns
  BY <1>1, Payloads DEF WatchedInv, Requests
<1>3. WatchedColumns["event"] \subseteq DOMAIN row /\ validate_pass_settings(row)
  BY <1>1, <1>2, Zenon DEF validate_pass_settings, charge, event_columns, pass_price, With, WatchedColumns, row
<1>4. HasColumns(db, "event")
  BY DEF WatchedInv, Watched
<1>5. "events" \in DOMAIN db' /\ db'.events = With(db.events, [k \in {r} |-> row])
  BY <1>1, <1>4 DEF Commit, HasColumns, Watched
<1>6. db'.events[r] = row
  BY <1>5 DEF With
<1>7. Together(db', "event", r)
  BY <1>3, <1>6, TogetherIs
<1> QED
  BY <1>3, <1>5, <1>7, InsertKept DEF RowWatches, Watched, Rows

LEMMA UpdateEventTogether ==
    ASSUME WatchedInv, NEW r \in Requests, Commits(r), update_event(r)
    PROVE  KeptTogether(r, "event")
<1> DEFINE b == body[r]
           k == b.event
           loaded == seen[r].events
           wanted == With(loaded[k], event_columns(b.columns))
<1>1. /\ validate_pass_settings(b.columns) /\ k \in DOMAIN loaded /\ b.op = "update_event"
      /\ \E n : Commit(r, [db EXCEPT !.events = Save(@, loaded, k, wanted), !.notifications = n])
  BY Decided, Zenon DEF update_event, Asks, Decide, WatchedInv, _manager_event, event_get, IsLive
<1> HIDE DEF wanted
<1>2. WatchedColumns.event \subseteq DOMAIN b.columns
  BY <1>1, Payloads DEF WatchedInv, Requests
<1>3. validate_pass_settings(wanted)
  BY <1>1, <1>2, Zenon DEF validate_pass_settings, charge, event_columns, pass_price, With, WatchedColumns, wanted
<1>4. HasColumns(db, "event")
  BY DEF WatchedInv, Watched
<1>5. "events" \in DOMAIN db' /\ db'.events = Save(db.events, loaded, k, wanted)
  BY <1>1, <1>4 DEF Commit, HasColumns, Watched
<1>6. Rewrites(r, "event", k)
  BY <1>1 DEF Rewrites, Rewriting, PathField
<1>7. MakesTogether("event", k, wanted)
  <2>1. ASSUME NEW tables, \A c \in WatchedColumns["event"] : Rows(tables, "event")[k][c] = wanted[c]
        PROVE  Together(tables, "event", k)
    <3>1. validate_pass_settings(tables.events[k])
      BY <1>3, <2>1 DEF Rows, Watched, WatchedColumns, validate_pass_settings, charge
    <3> QED
      BY <3>1, TogetherIs
  <2> QED
    BY <2>1, Zenon DEF MakesTogether
<1> QED
  BY <1>1, <1>5, <1>6, <1>7, SaveKept DEF ColumnWatches, Watched, Rows

LEMMA DeleteEventTogether ==
    ASSUME WatchedInv, NEW r \in Requests, Commits(r), delete_event(r)
    PROVE  KeptTogether(r, "event")
<1>1. Commit(r, [db EXCEPT !.events = Delete(@, seen[r].events, {body[r].event})])
  BY Decided, Zenon DEF delete_event, Decide, WatchedInv
<1>2. HasColumns(db, "event")
  BY DEF WatchedInv, Watched
<1>3. "events" \in DOMAIN db' /\ db'.events = Delete(db.events, seen[r].events, {body[r].event})
  BY <1>1, <1>2 DEF Commit, HasColumns, Watched
<1> QED
  BY <1>3, DeleteKept DEF ColumnWatches, Watched, Rows

LEMMA EventsTogether ==
    ASSUME WatchedInv, NEW r \in Requests, Commits(r), Step(r)
    PROVE  KeptTogether(r, "event")
<1>1. "events" \in DOMAIN db /\ Sessions
  BY DEF WatchedInv, HasColumns, Watched
<1>2. DOMAIN db' = DOMAIN db /\ (db'.events = db.events \/ Touches(r, "events"))
  BY <1>1, Footprints
<1>3. ASSUME db'.events = db.events PROVE KeptTogether(r, "event")
  BY <1>2, <1>3, LeftTogether DEF RowWatches, Rows, Watched
<1>4. CASE rsvp(r) \/ clear_rsvp(r) \/ toggle_event_like(r) \/ add_event_comment(r)
  <2>1. PICK written : Handles(r, written) /\ "events" \notin written
    BY <1>4, EventsWrite, AnswersWrite
  <2>2. Leaves(db', written)
    BY <1>1, <2>1, HandlesFrame
  <2> QED
    BY <1>1, <1>3, <2>1, <2>2 DEF Leaves
<1>5. CASE create_event(r) \/ update_event(r) \/ delete_event(r)
  BY <1>5, CreateEventTogether, UpdateEventTogether, DeleteEventTogether
<1>6. CASE ~EventStep(r)
  BY <1>2, <1>3, <1>6 DEF Touches
<1> QED
  BY <1>4, <1>5, <1>6 DEF EventStep

\* An association that is onboarded has a plan from now on, or none.
LEMMA OnboardedPlan ==
    ASSUME WatchedInv, NEW r \in Requests, Commits(r), onboard(r)
    PROVE  KeptTogether(r, "plan")
<1> DEFINE b == body[r]
           trial == IF b.plan = None THEN 0 ELSE seen[r].plans[b.plan].trial
           row == [plan |-> b.plan, status |-> "Active", payment |-> None,
                   start |-> IF b.plan = None THEN None ELSE now,
                   end |-> IF trial = 0 THEN None ELSE now + trial, end_date |-> None,
                   deleted |-> FALSE]
<1>1. \E b1, u, p, l, t : Commit(r, [db EXCEPT !.associations = With(@, [k \in {r} |-> row]), !.blocks = b1, !.units = u,
                                               !.people = p, !.logins = l, !.boardTerms = t])
  BY Decided, Zenon DEF onboard, Decide, WatchedInv
<1>2. row.plan = None \/ row.start # None
  BY Period DEF WatchedInv
<1>3. WatchedColumns["plan"] \subseteq DOMAIN row
  BY DEF WatchedColumns
<1> HIDE DEF row
<1>4. HasColumns(db, "plan")
  BY DEF WatchedInv, Watched
<1>5. "associations" \in DOMAIN db' /\ db'.associations = With(db.associations, [k \in {r} |-> row])
  BY <1>1, <1>4 DEF Commit, HasColumns, Watched
<1>6. db'.associations[r] = row
  BY <1>5 DEF With
<1>7. Together(db', "plan", r)
  BY <1>2, <1>6, TogetherIs
<1> QED
  BY <1>3, <1>5, <1>7, InsertKept DEF RowWatches, Watched, Rows

LEMMA SubscribedPlan ==
    ASSUME WatchedInv, NEW r \in Requests, Commits(r), update_subscription(r)
    PROVE  KeptTogether(r, "plan")
<1> DEFINE b == body[r]
           k == b.association
           loaded == seen[r].associations
           old == loaded[k]
           asked == [old EXCEPT !.plan = b.plan, !.status = b.status, !.payment = b.payment,
                                !.start = b.start, !.end = b.end]
           start == Given(b.start, now)
           trial == seen[r].plans[b.plan].trial
           wanted == CASE b.plan = None -> asked
                       [] b.plan # None /\ trial > 0 /\ b.payment # "Paid" ->
                             [asked EXCEPT !.start = start, !.end = Given(@, start + trial)]
                       [] OTHER -> [asked EXCEPT !.start = start,
                                                 !.status = IF @ = "Inactive" THEN @ ELSE "Active"]
<1>1. /\ k \in DOMAIN loaded /\ b.op = "update_subscription"
      /\ Commit(r, [db EXCEPT !.associations = Save(@, loaded, k, wanted)])
  BY Decided, Zenon DEF update_subscription, Asks, Decide, WatchedInv, association_exists, IsLive
<1> HIDE DEF wanted, asked
<1>2. {"plan", "start"} \subseteq DOMAIN old
  BY <1>1, SavedColumns DEF Watched, Rows, WatchedColumns
<1>3. asked.plan = b.plan /\ {"plan", "start"} \subseteq DOMAIN asked
  BY <1>2 DEF asked
<1>4. start # None
  BY Period DEF Given, WatchedInv
<1>5. wanted.plan = None \/ wanted.start # None
  BY <1>3, <1>4 DEF wanted
<1> HIDE DEF wanted
<1>6. HasColumns(db, "plan")
  BY DEF WatchedInv, Watched
<1>7. "associations" \in DOMAIN db' /\ db'.associations = Save(db.associations, loaded, k, wanted)
  BY <1>1, <1>6 DEF Commit, HasColumns, Watched
<1>8. Rewrites(r, "plan", k)
  BY <1>1 DEF Rewrites, Rewriting, PathField
<1>9. MakesTogether("plan", k, wanted)
  <2>1. ASSUME NEW tables, \A c \in WatchedColumns["plan"] : Rows(tables, "plan")[k][c] = wanted[c]
        PROVE  Together(tables, "plan", k)
    <3>1. tables.associations[k].plan = wanted.plan /\ tables.associations[k].start = wanted.start
      BY <2>1 DEF Rows, Watched, WatchedColumns
    <3> QED
      BY <1>5, <3>1, TogetherIs
  <2> QED
    BY <2>1, Zenon DEF MakesTogether
<1> QED
  BY <1>1, <1>7, <1>8, <1>9, SaveKept DEF ColumnWatches, Watched, Rows

\* The settings write another column.
LEMMA SettledPlan ==
    ASSUME WatchedInv, NEW r \in Requests, Commits(r), update_settings(r)
    PROVE  KeptTogether(r, "plan")
<1> DEFINE b == body[r]
           new == IF b.names_end THEN b.end_date ELSE db.associations[b.association].end_date
<1>1. \E a, f : Commit(r, [db EXCEPT !.associations[b.association].end_date = new,
                                     !.assessmentRules = a, !.fineRules = f])
  BY Decided, Zenon DEF update_settings, Decide, WatchedInv
<1>2. HasColumns(db, "plan")
  BY DEF WatchedInv, Watched
<1>3. "associations" \in DOMAIN db' /\ db'.associations = [db.associations EXCEPT ![b.association].end_date = new]
  BY <1>1, <1>2 DEF Commit, HasColumns, Watched
<1> HIDE DEF new
<1> DEFINE k == b.association
<1>4. /\ DOMAIN db'.associations = DOMAIN db.associations
      /\ \A j \in DOMAIN db.associations : j # k => db'.associations[j] = db.associations[j]
      /\ k \in DOMAIN db.associations =>
            /\ DOMAIN db'.associations[k] = DOMAIN db.associations[k]
            /\ \A c \in WatchedColumns["plan"] : db'.associations[k][c] = db.associations[k][c]
  BY <1>2, <1>3 DEF HasColumns, Rows, Watched, WatchedColumns
<1>5. k \in DOMAIN db.associations => Unchanged(db, db', "plan", k)
  BY <1>4 DEF Unchanged, Rows, Watched
<1> QED
  BY <1>2, <1>3, <1>4, <1>5, ChangeKept DEF RowWatches, Watched, Rows, HasColumns

LEMMA PlansTogether ==
    ASSUME WatchedInv, NEW r \in Requests, Commits(r), Step(r)
    PROVE  KeptTogether(r, "plan")
<1>1. "associations" \in DOMAIN db /\ Sessions
  BY DEF WatchedInv, HasColumns, Watched
<1>2. DOMAIN db' = DOMAIN db /\ (db'.associations = db.associations \/ Touches(r, "associations"))
  BY <1>1, Footprints
<1>3. ASSUME db'.associations = db.associations PROVE KeptTogether(r, "plan")
  BY <1>2, <1>3, LeftTogether DEF RowWatches, Rows, Watched
<1>4. CASE set_unit_occupancy(r)
  <2>1. \E u : Commit(r, [db EXCEPT !.units = u])
    BY <1>1, <1>4, Decided, Zenon DEF set_unit_occupancy, Decide
  <2> QED
    BY <1>1, <1>3, <2>1 DEF Commit
<1>5. CASE onboard(r) \/ update_settings(r) \/ update_subscription(r)
  BY <1>5, OnboardedPlan, SettledPlan, SubscribedPlan
<1>6. CASE ~OnboardingStep(r)
  BY <1>2, <1>3, <1>6 DEF Touches, OnboardingStep
<1> QED
  BY <1>4, <1>5, <1>6 DEF OnboardingStep
-----------------------------------------------------------------------------
(* Reports and statements: the rows are replaced as a whole, so of the header what   *)
(* differed from the snapshot is not enough if that was another's                    *)

LEMMA SameTotals ==
    ASSUME NEW kind, NEW old, NEW new
    PROVE  DOMAIN totals(kind, old) = DOMAIN totals(kind, new)
           /\ {"kind", "rows", "association", "period", "billed", "collected"} \cap DOMAIN totals(kind, new) = {}
  BY DEF totals

LEMMA HeaderIs ==
    ASSUME NEW kind, NEW period, NEW rows, NEW billed, NEW collected
    PROVE  LET new == header(kind, period, rows, billed, collected)
               sums == totals(kind, rows)
           IN  /\ DOMAIN sums \subseteq DOMAIN new /\ {"kind", "rows"} \cap DOMAIN new = {}
               /\ \A c \in DOMAIN sums : new[c] = sums[c]
<1> DEFINE sums == totals(kind, rows)
<1>1. {"kind", "rows"} \cap DOMAIN sums = {}
  BY SameTotals
<1> HIDE DEF sums
<1> QED
  BY <1>1 DEF header, With, sums

LEMMA NewReportTogether ==
    ASSUME WatchedInv, NEW r \in Requests, Commits(r), create_report(r) \/ import_report(r)
    PROVE  KeptTogether(r, "report")
<1> DEFINE b == body[r]
<1>1. PICK rows, billed, collected :
         Commit(r, [db EXCEPT !.financialReports =
            With(@, [k \in {r} |-> With(header(b.kind, b.period, rows, billed, collected),
                                        [kind |-> b.kind, association |-> b.association, rows |-> rows])])])
  BY Decided, Zenon DEF create_report, import_report, CreateReport, Decide, WatchedInv
<1> DEFINE new == header(b.kind, b.period, rows, billed, collected)
           sums == totals(b.kind, rows)
           base == [kind |-> b.kind, association |-> b.association, rows |-> rows]
           row == With(new, base)
<1>2. /\ DOMAIN sums \subseteq DOMAIN new /\ {"kind", "rows"} \cap DOMAIN new = {}
      /\ \A c \in DOMAIN sums : new[c] = sums[c]
  BY HeaderIs
<1>3. {"kind", "association", "rows"} \cap DOMAIN sums = {}
  BY SameTotals
<1> HIDE DEF new, sums
<1>4. /\ {"kind", "rows"} \subseteq DOMAIN row /\ row.kind = b.kind /\ row.rows = rows
      /\ DOMAIN sums \subseteq DOMAIN row /\ \A c \in DOMAIN sums : row[c] = sums[c]
  BY <1>2, <1>3 DEF With
<1> HIDE DEF row
<1>5. HasTotals(row, totals(row.kind, row.rows))
  BY <1>4 DEF HasTotals, sums
<1>6. HasColumns(db, "report")
  BY DEF WatchedInv, Watched
<1>7. "financialReports" \in DOMAIN db' /\ db'.financialReports = With(db.financialReports, [k \in {r} |-> row])
  BY <1>1, <1>6 DEF Commit, HasColumns, Watched, row, new
<1>8. db'.financialReports[r] = row
  BY <1>7 DEF With
<1>9. Together(db', "report", r)
  BY <1>5, <1>8, TogetherIs
<1> QED
  BY <1>4, <1>7, <1>9, InsertKept DEF RowWatches, Watched, Rows, WatchedColumns

LEMMA UpdateReportTogether ==
    ASSUME WatchedInv, NEW r \in Requests, Commits(r), update_report(r)
    PROVE  KeptTogether(r, "report")
<1> DEFINE b == body[r]
           k == b.report
           table == db.financialReports
           loaded == seen[r].financialReports
           old == loaded[k]
           new == header(old.kind, b.period, b.rows, b.billed, b.collected)
           wanted == With(old, new)
           saved == Save(table, loaded, k, wanted)
           reports == [saved EXCEPT ![k].rows = b.rows]
           sums == totals(old.kind, b.rows)
<1>1. k \in DOMAIN loaded /\ b.op = "update_report" /\ Commit(r, [db EXCEPT !.financialReports = reports])
  BY Decided, Zenon DEF update_report, Asks, Decide, WatchedInv
<1> HIDE DEF old, new, wanted, saved, reports, sums
<1>2. HasColumns(db, "report")
  BY DEF WatchedInv, Watched
<1>3. "financialReports" \in DOMAIN db' /\ db'.financialReports = reports
  BY <1>1, <1>2 DEF Commit, HasColumns, Watched
<1>4. k \in DOMAIN table /\ {"kind", "rows"} \subseteq DOMAIN table[k] /\ {"kind", "rows"} \subseteq DOMAIN old
  BY <1>1, SavedColumns DEF Watched, Rows, WatchedColumns, old
<1>5. /\ DOMAIN sums \subseteq DOMAIN new /\ {"kind", "rows"} \cap DOMAIN new = {}
      /\ \A c \in DOMAIN sums : new[c] = sums[c]
  BY HeaderIs DEF new, sums
<1>6. wanted.kind = old.kind /\ \A c \in DOMAIN sums : wanted[c] = sums[c]
  BY <1>4, <1>5 DEF With, wanted
<1>7. /\ DOMAIN saved = DOMAIN table
      /\ \A j \in DOMAIN table : j # k => saved[j] = table[j]
      /\ DOMAIN saved[k] = DOMAIN table[k]
      /\ (old = table[k] => \A c \in DOMAIN table[k] : saved[k][c] = wanted[c])
  BY <1>4 DEF Save, Changed, old, saved
<1>8. /\ DOMAIN reports = DOMAIN table
      /\ \A j \in DOMAIN table : j # k => reports[j] = table[j]
      /\ DOMAIN reports[k] = DOMAIN table[k] /\ reports[k].rows = b.rows
      /\ \A c \in DOMAIN table[k] : c # "rows" => reports[k][c] = saved[k][c]
  BY <1>4, <1>7 DEF reports
<1>9. Rewrites(r, "report", k)
  BY <1>1 DEF Rewrites, Rewriting, PathField
<1>10. ASSUME Unchanged(seen[r], db, "report", k), Together(db, "report", k)
       PROVE  Together(db', "report", k)
  <2>1. old = table[k]
    BY <1>10 DEF Unchanged, Rows, Watched, old
  <2>2. DOMAIN totals(table[k].kind, table[k].rows) \subseteq DOMAIN table[k]
    BY <1>10, TogetherIs DEF HasTotals
  <2>3. DOMAIN sums \subseteq DOMAIN table[k] /\ "rows" \notin DOMAIN sums
    BY <2>1, <2>2, SameTotals DEF sums
  <2>4. reports[k].kind = old.kind
    BY <1>4, <1>6, <1>7, <1>8, <2>1
  <2>5. \A c \in DOMAIN sums : c \in DOMAIN reports[k] /\ reports[k][c] = sums[c]
    BY <1>6, <1>7, <1>8, <2>1, <2>3
  <2>6. HasTotals(reports[k], totals(reports[k].kind, reports[k].rows))
    BY <1>8, <2>4, <2>5 DEF HasTotals, sums
  <2> QED
    BY <1>3, <2>6, TogetherIs
<1>11. WatchedColumns["report"] \subseteq DOMAIN reports[k]
  BY <1>4, <1>8 DEF WatchedColumns
<1> QED
  BY <1>1, <1>3, <1>8, <1>9, <1>10, <1>11, ReplaceKept DEF RowWatches, Rows, Watched

LEMMA ReportsTogether ==
    ASSUME WatchedInv, NEW r \in Requests, Commits(r), Step(r)
    PROVE  KeptTogether(r, "report")
<1>1. CASE ReportStep(r)
  BY <1>1, NewReportTogether, UpdateReportTogether DEF ReportStep
<1>2. CASE ~ReportStep(r)
  BY <1>2, ElsewhereKept DEF Touches, Watched, RowWatches
<1> QED
  BY <1>1, <1>2

\* The columns of a row of a statement.
LEMMA StatementIs ==
    ASSUME NEW b, NEW items
    PROVE  LET row == statement_row(b, items)
               sums == income_totals(items)
           IN  /\ row.items = items /\ "items" \in DOMAIN row /\ "items" \notin DOMAIN sums
               /\ \A c \in DOMAIN sums : c \in DOMAIN row /\ row[c] = sums[c]
<1>1. DOMAIN income_totals(items) = {"income", "expenses", "surplus", "margin"}
  BY DEF income_totals
<1> QED
  BY <1>1 DEF statement_row, With

LEMMA NewStatementTogether ==
    ASSUME WatchedInv, NEW r \in Requests, Commits(r), NEW accepted, NEW items, SaveNew(r, accepted, items)
    PROVE  KeptTogether(r, "statement")
<1> DEFINE row == statement_row(body[r], items)
<1>1. Commit(r, [db EXCEPT !.incomeStatements = With(@, [k \in {r} |-> row])])
  BY Decided, Zenon DEF SaveNew, Decide, WatchedInv
<1>2. WatchedColumns["statement"] \subseteq DOMAIN row /\ HasTotals(row, income_totals(row.items))
  BY StatementIs DEF WatchedColumns, HasTotals
<1> HIDE DEF row
<1>3. HasColumns(db, "statement")
  BY DEF WatchedInv, Watched
<1>4. "incomeStatements" \in DOMAIN db' /\ db'.incomeStatements = With(db.incomeStatements, [k \in {r} |-> row])
  BY <1>1, <1>3 DEF Commit, HasColumns, Watched
<1>5. db'.incomeStatements[r] = row
  BY <1>4 DEF With
<1>6. Together(db', "statement", r)
  BY <1>2, <1>5, TogetherIs
<1> QED
  BY <1>2, <1>4, <1>6, InsertKept DEF RowWatches, Watched, Rows

LEMMA UpdateStatementTogether ==
    ASSUME WatchedInv, NEW r \in Requests, Commits(r), update_income_statement(r)
    PROVE  KeptTogether(r, "statement")
<1> DEFINE b == body[r]
           k == b.statement
           table == db.incomeStatements
           loaded == seen[r].incomeStatements
           wanted == statement_row(b, b.items)
           saved == Save(table, loaded, k, wanted)
           statements == [saved EXCEPT ![k].items = b.items]
           sums == income_totals(b.items)
<1>1. k \in DOMAIN loaded /\ b.op = "update_statement" /\ Commit(r, [db EXCEPT !.incomeStatements = statements])
  BY Decided, Zenon DEF update_income_statement, Asks, Decide, WatchedInv
<1>2. HasColumns(db, "statement")
  BY DEF WatchedInv, Watched
<1>3. "incomeStatements" \in DOMAIN db' /\ db'.incomeStatements = statements
  BY <1>1, <1>2 DEF Commit, HasColumns, Watched
<1>4. k \in DOMAIN table /\ "items" \in DOMAIN table[k]
  <2>1. k \in DOMAIN Rows(seen[r], "statement") /\ "statement" \in DOMAIN Watched
    BY <1>1 DEF Watched, Rows
  <2>2. k \in DOMAIN Rows(db, "statement") /\ WatchedColumns["statement"] \subseteq DOMAIN Rows(db, "statement")[k]
    BY <2>1, SavedColumns
  <2> QED
    BY <2>2 DEF Watched, Rows, WatchedColumns
<1>5. "items" \notin DOMAIN sums /\ \A c \in DOMAIN sums : wanted[c] = sums[c]
  BY StatementIs
<1>6. \A items : DOMAIN income_totals(items) = DOMAIN sums
  BY DEF income_totals
<1> HIDE DEF wanted, sums
<1>7. /\ DOMAIN saved = DOMAIN table
      /\ \A j \in DOMAIN table : j # k => saved[j] = table[j]
      /\ DOMAIN saved[k] = DOMAIN table[k]
      /\ (loaded[k] = table[k] => \A c \in DOMAIN table[k] : saved[k][c] = wanted[c])
  BY <1>4 DEF Save, Changed
<1> HIDE DEF saved
<1>8. /\ DOMAIN statements = DOMAIN table
      /\ \A j \in DOMAIN table : j # k => statements[j] = table[j]
      /\ DOMAIN statements[k] = DOMAIN table[k] /\ statements[k].items = b.items
      /\ \A c \in DOMAIN table[k] : c # "items" => statements[k][c] = saved[k][c]
  BY <1>4, <1>7
<1> HIDE DEF statements
<1>9. Rewrites(r, "statement", k)
  BY <1>1 DEF Rewrites, Rewriting, PathField
<1>10. ASSUME Unchanged(seen[r], db, "statement", k), Together(db, "statement", k)
       PROVE  Together(db', "statement", k)
  <2>1. loaded[k] = table[k]
    BY <1>10 DEF Unchanged, Rows, Watched
  <2>2. DOMAIN income_totals(table[k].items) \subseteq DOMAIN table[k]
    BY <1>10, TogetherIs DEF HasTotals
  <2>3. \A c \in DOMAIN sums : c \in DOMAIN statements[k] /\ statements[k][c] = sums[c]
    BY <1>5, <1>6, <1>7, <1>8, <2>1, <2>2
  <2>4. HasTotals(statements[k], income_totals(statements[k].items))
    BY <1>8, <2>3 DEF HasTotals, sums
  <2> QED
    BY <1>3, <2>4, TogetherIs
<1>11. WatchedColumns["statement"] \subseteq DOMAIN statements[k]
  BY <1>4, <1>8 DEF WatchedColumns
<1> QED
  BY <1>1, <1>3, <1>8, <1>9, <1>10, <1>11, ReplaceKept DEF RowWatches, Rows, Watched

\* The charts and the balance sheets.
LEMMA ChartsWrite ==
    ASSUME NEW r \in Requests,
           \/ upload_global(r) \/ map_global(r) \/ add_association(r) \/ update_association(r) \/ delete_association(r)
           \/ create_balance_sheet(r) \/ update_balance_sheet(r) \/ import_workbook(r)
    PROVE  Handles(r, {"globalChart", "chart", "balanceSheets"})
  BY ZenonT(60) DEF upload_global, map_global, add_association, update_association, delete_association,
         create_balance_sheet, update_balance_sheet, import_workbook, CreateBalanceSheet, Decide, Handles, Leaves

LEMMA StatementsTogether ==
    ASSUME WatchedInv, NEW r \in Requests, Commits(r), Step(r)
    PROVE  KeptTogether(r, "statement")
<1>1. "incomeStatements" \in DOMAIN db /\ Sessions
  BY DEF WatchedInv, HasColumns, Watched
<1>2. DOMAIN db' = DOMAIN db /\ (db'.incomeStatements = db.incomeStatements \/ Touches(r, "incomeStatements"))
  BY <1>1, Footprints
<1>3. ASSUME db'.incomeStatements = db.incomeStatements PROVE KeptTogether(r, "statement")
  BY <1>2, <1>3, LeftTogether DEF RowWatches, Rows, Watched
<1>4. CASE create_income_statement(r)
  BY <1>4, NewStatementTogether, Zenon DEF create_income_statement
<1>5. CASE import_income_statement(r)
  BY <1>1, <1>5, NewStatementTogether, Decided, Zenon DEF import_income_statement
<1>6. CASE update_income_statement(r)
  BY <1>6, UpdateStatementTogether
<1>7. CASE ~StatementStep(r)
  BY <1>2, <1>3, <1>7 DEF Touches
<1>8. CASE \/ upload_global(r) \/ map_global(r) \/ add_association(r) \/ update_association(r) \/ delete_association(r)
           \/ create_balance_sheet(r) \/ update_balance_sheet(r) \/ import_workbook(r)
  <2>1. Leaves(db', {"globalChart", "chart", "balanceSheets"})
    BY <1>1, <1>8, ChartsWrite, HandlesFrame
  <2> QED
    BY <1>1, <1>3, <2>1 DEF Leaves
<1> QED
  BY <1>4, <1>5, <1>6, <1>7, <1>8 DEF StatementStep
-----------------------------------------------------------------------------
(* The counts of a poll: a vote replaces the rows of its account that its        *)
(* snapshot shows, an edit all of them, and the snapshot shows those there are    *)
(* unless a vote of the account or an edit committed since.                        *)

\* The requests that edit a poll, and the votes an account casts in it.
PollEdits(p) == On(<<"poll", p>>, {"update_poll"})
VotesBy(p, a) == {q \in On(<<"poll", p>>, {"vote_poll"}) : body[q].by = a}

\* Requests that replace votes overlapped.
Disturbed(p) == \E a \in Accounts : Raced(PollEdits(p) \cup VotesBy(p, a))

\* The votes of an account in a poll are the same in both.
SameVotes(tables, others, p, a) ==
    \A v \in DOMAIN tables.pollVotes \cup DOMAIN others.pollVotes : v[1] = p /\ v[3] = a =>
        /\ v \in DOMAIN tables.pollVotes /\ v \in DOMAIN others.pollVotes
        /\ tables.pollVotes[v] = others.pollVotes[v]

\* The snapshot of q shows the options of a poll unless it missed an edit, and the votes of
\* an account unless it missed one of those or an edit.
ShowsVotes(q) ==
    LET tables == seen[q]
    IN  /\ VotesShape(tables)
        /\ DOMAIN tables.polls \subseteq DOMAIN db.polls
        /\ DOMAIN tables.pollOptions \subseteq DOMAIN db.pollOptions
        /\ \A o \in DOMAIN tables.pollOptions : tables.pollOptions[o].poll = db.pollOptions[o].poll
        /\ \A p \in DOMAIN tables.polls :
              /\ missed[q] \cap PollEdits(p) = {} =>
                    /\ tables.polls[p].multiple = db.polls[p].multiple
                    /\ poll_options(tables, p) = poll_options(db, p)
              /\ \A a \in Accounts :
                    missed[q] \cap (PollEdits(p) \cup VotesBy(p, a)) = {} => SameVotes(tables, db, p, a)

\* No poll and no option is of a request that has not ended.
PollKeysFree ==
    \A q \in Requests : stage[q] \in {"waiting", "open"} =>
        q \notin DOMAIN db.polls /\ \A o \in DOMAIN db.pollOptions : o[1] # q

\* The inductive invariant of the votes.
VotesInv ==
    /\ Sessions /\ body \in Workloads
    /\ VotesShape(db) /\ PollKeysFree
    /\ \A p \in DOMAIN db.polls : VotesWell(db, p) \/ Disturbed(p)
    /\ \A q \in Requests : stage[q] = "open" => ShowsVotes(q)

\* What the commit of r does to the polls: it may add one of its own, and changes only the
\* options of a poll it edits.
OptionsKept(r) ==
    /\ DOMAIN db.polls \subseteq DOMAIN db'.polls /\ DOMAIN db'.polls \subseteq DOMAIN db.polls \cup {r}
    /\ DOMAIN db.pollOptions \subseteq DOMAIN db'.pollOptions
    /\ \A o \in DOMAIN db'.pollOptions :
          \/ o \in DOMAIN db.pollOptions /\ db'.pollOptions[o].poll = db.pollOptions[o].poll
          \/ o \notin DOMAIN db.pollOptions /\ o[1] = r
    /\ \A p \in DOMAIN db.polls : r \notin PollEdits(p)' =>
          /\ db'.polls[p].multiple = db.polls[p].multiple
          /\ poll_options(db', p) = poll_options(db, p)

\* And to the votes: it changes those of a poll it edits or of the account it votes for.
VotesKept(r) ==
    /\ \A v \in DOMAIN db'.pollVotes : v[1] \in DOMAIN db.polls
    /\ \A p \in DOMAIN db.polls : \A a \in Accounts :
          r \notin PollEdits(p)' /\ r \notin VotesBy(p, a)' => SameVotes(db, db', p, a)

\* What it changes it leaves well.
LeavesVotesWell(r) ==
    \A p \in DOMAIN db.polls :
        r \in PollEdits(p)' \/ (\E a \in Accounts : r \in VotesBy(p, a)') => VotesWell(db', p) \/ Disturbed(p)'

\* Requests that were disturbed remain so.
LEMMA DisturbedStays ==
    ASSUME Sessions, NEW r \in Requests, Commits(r), NEW p
    PROVE  /\ PollEdits(p) \subseteq PollEdits(p)' /\ PollEdits(p)' \subseteq PollEdits(p) \cup {r}
           /\ \A a : VotesBy(p, a) \subseteq VotesBy(p, a)' /\ VotesBy(p, a)' \subseteq VotesBy(p, a) \cup {r}
           /\ Disturbed(p) => Disturbed(p)'
<1>1. body' = body
  BY DEF Commits
<1>2. PollEdits(p) \subseteq PollEdits(p)' /\ PollEdits(p)' \subseteq PollEdits(p) \cup {r}
  BY OnGrows DEF PollEdits
<1>3. /\ On(<<"poll", p>>, {"vote_poll"}) \subseteq On(<<"poll", p>>, {"vote_poll"})'
      /\ On(<<"poll", p>>, {"vote_poll"})' \subseteq On(<<"poll", p>>, {"vote_poll"}) \cup {r}
  BY OnGrows
<1>4. \A a : VotesBy(p, a) \subseteq VotesBy(p, a)' /\ VotesBy(p, a)' \subseteq VotesBy(p, a) \cup {r}
  BY <1>1, <1>3 DEF VotesBy
<1>5. \A q \in Requests : missed[q] \subseteq missed'[q]
  BY DEF Commits, Sessions
<1>6. PollEdits(p) \subseteq Requests /\ \A a : VotesBy(p, a) \subseteq Requests
  BY DEF PollEdits, VotesBy, On
<1>7. ASSUME NEW a \in Accounts, Raced(PollEdits(p) \cup VotesBy(p, a))
      PROVE  Raced(PollEdits(p) \cup VotesBy(p, a))'
  <2>1. PICK q \in PollEdits(p) \cup VotesBy(p, a), s \in PollEdits(p) \cup VotesBy(p, a) : q # s /\ Overlapped(q, s)
    BY <1>7 DEF Raced
  <2>2. Overlapped(q, s)'
    BY <1>5, <1>6, <2>1 DEF Overlapped
  <2>3. q \in (PollEdits(p) \cup VotesBy(p, a))' /\ s \in (PollEdits(p) \cup VotesBy(p, a))'
    BY <1>2, <1>4, <2>1
  <2> QED
    BY <2>1, <2>2, <2>3 DEF Raced
<1>8. Disturbed(p) => Disturbed(p)'
  BY <1>7 DEF Disturbed
<1> QED
  BY <1>2, <1>4, <1>8

\* r disturbs a poll if it missed an edit or a vote of the account and edits or votes itself.
LEMMA Disturbs ==
    ASSUME Sessions, NEW r \in Requests, Commits(r), NEW p, NEW a \in Accounts,
           r \in PollEdits(p)' \cup VotesBy(p, a)', ~Disturbed(p)'
    PROVE  missed[r] \cap (PollEdits(p) \cup VotesBy(p, a)) = {}
<1> SUFFICES ASSUME NEW q \in missed[r], q \in PollEdits(p) \cup VotesBy(p, a)
             PROVE  FALSE
  OBVIOUS
<1>1. q \in Requests /\ q # r
  <2>1. ~Committed(r)
    BY DEF Commits, Committed
  <2> QED
    BY <2>1 DEF PollEdits, VotesBy, On
<1>2. q \in (PollEdits(p) \cup VotesBy(p, a))' /\ r \in (PollEdits(p) \cup VotesBy(p, a))'
  BY DisturbedStays
<1>3. q \in missed'[r]
  BY DEF Commits, Sessions
<1>4. Overlapped(r, q)'
  BY <1>3 DEF Overlapped
<1>5. Raced(PollEdits(p) \cup VotesBy(p, a))'
  BY <1>1, <1>2, <1>4 DEF Raced
<1> QED
  BY <1>5 DEF Disturbed

\* What is the same of the votes and options of a poll keeps them well.
LEMMA SameStayWell ==
    ASSUME NEW tables, NEW others, NEW p, VotesWell(tables, p), VotesShape(tables), VotesShape(others),
           others.polls[p].multiple = tables.polls[p].multiple, poll_options(others, p) = poll_options(tables, p),
           \A a \in Accounts : SameVotes(tables, others, p, a)
    PROVE  VotesWell(others, p)
<1>1. ASSUME NEW v \in poll_votes(others, p) PROVE v \in poll_votes(tables, p)
  <2>1. v \in DOMAIN others.pollVotes /\ ~others.pollVotes[v].deleted /\ v[1] = p
    BY DEF poll_votes, Live, IsLive
  <2>2. v[3] \in Accounts
    BY <2>1 DEF VotesShape
  <2>3. v \in DOMAIN tables.pollVotes /\ tables.pollVotes[v] = others.pollVotes[v]
    BY <2>1, <2>2 DEF SameVotes
  <2> QED
    BY <2>1, <2>3 DEF poll_votes, Live, IsLive
<1> QED
  BY <1>1 DEF VotesWell

\* A commit that does so keeps the invariant.
LEMMA CommitVotes ==
    ASSUME VotesInv, NEW r \in Requests, Commits(r), VotesShape(db'), OptionsKept(r), VotesKept(r), LeavesVotesWell(r)
    PROVE  VotesInv'
<1>1. Sessions' /\ body' = body /\ Requests' = Requests
  BY StepSessions, Zenon DEF VotesInv, Commits, Requests
<1>2. ASSUME NEW q \in Requests, stage'[q] \in {"waiting", "open"}
      PROVE  q # r /\ stage'[q] = stage[q] /\ seen'[q] = seen[q]
  BY <1>2 DEF Commits, Committed
<1>3. PollKeysFree'
  BY <1>1, <1>2 DEF PollKeysFree, VotesInv, OptionsKept
<1>4. ASSUME NEW p \in DOMAIN db'.polls
      PROVE  VotesWell(db', p) \/ Disturbed(p)'
  <2>1. CASE p \notin DOMAIN db.polls
    <3>1. poll_votes(db', p) = {}
      BY <2>1 DEF VotesKept, poll_votes, Live
    <3> QED
      BY <3>1 DEF VotesWell
  <2>2. CASE /\ p \in DOMAIN db.polls
             /\ r \in PollEdits(p)' \/ (\E a \in Accounts : r \in VotesBy(p, a)')
    BY <2>2 DEF LeavesVotesWell
  <2>3. CASE /\ p \in DOMAIN db.polls
             /\ r \notin PollEdits(p)' /\ \A a \in Accounts : r \notin VotesBy(p, a)'
    <3>1. /\ db'.polls[p].multiple = db.polls[p].multiple /\ poll_options(db', p) = poll_options(db, p)
          /\ \A a \in Accounts : SameVotes(db, db', p, a)
      BY <2>3 DEF OptionsKept, VotesKept
    <3>2. VotesShape(db) /\ (VotesWell(db, p) \/ Disturbed(p))
      BY <2>3 DEF VotesInv
    <3>3. VotesWell(db, p) => VotesWell(db', p)
      BY <3>1, <3>2, SameStayWell, Zenon
    <3>4. Disturbed(p) => Disturbed(p)'
      BY DisturbedStays, Zenon DEF VotesInv
    <3> QED
      BY <3>2, <3>3, <3>4
  <2> QED
    BY <2>1, <2>2, <2>3
<1>5. ASSUME NEW q \in Requests, stage'[q] = "open"
      PROVE  ShowsVotes(q)'
  <2>1. q # r /\ stage[q] = "open" /\ seen'[q] = seen[q] /\ missed'[q] = missed[q] \cup {r}
    BY <1>2, <1>5 DEF Commits
  <2>2. ShowsVotes(q)
    BY <2>1 DEF VotesInv
  <2> DEFINE tables == seen[q]
  <2>3. /\ VotesShape(tables)
        /\ DOMAIN tables.polls \subseteq DOMAIN db'.polls
        /\ DOMAIN tables.pollOptions \subseteq DOMAIN db'.pollOptions
        /\ \A o \in DOMAIN tables.pollOptions : tables.pollOptions[o].poll = db'.pollOptions[o].poll
    BY <2>2 DEF ShowsVotes, OptionsKept
  <2>4. ASSUME NEW p \in DOMAIN tables.polls, missed'[q] \cap PollEdits(p)' = {}
        PROVE  /\ tables.polls[p].multiple = db'.polls[p].multiple
               /\ poll_options(tables, p) = poll_options(db', p)
    <3>1. r \notin PollEdits(p)' /\ missed[q] \cap PollEdits(p) = {}
      BY <2>1, <2>4, DisturbedStays DEF VotesInv
    <3>2. p \in DOMAIN db.polls /\ tables.polls[p].multiple = db.polls[p].multiple /\ poll_options(tables, p) = poll_options(db, p)
      BY <2>2, <3>1 DEF ShowsVotes
    <3> QED
      BY <3>1, <3>2 DEF OptionsKept
  <2>5. ASSUME NEW p \in DOMAIN tables.polls, NEW a \in Accounts,
               missed'[q] \cap (PollEdits(p)' \cup VotesBy(p, a)') = {}
        PROVE  SameVotes(tables, db', p, a)
    <3>1. /\ r \notin PollEdits(p)' /\ r \notin VotesBy(p, a)'
          /\ missed[q] \cap (PollEdits(p) \cup VotesBy(p, a)) = {}
      BY <2>1, <2>5, DisturbedStays DEF VotesInv
    <3>2. p \in DOMAIN db.polls /\ SameVotes(tables, db, p, a)
      BY <2>2, <3>1 DEF ShowsVotes
    <3>3. SameVotes(db, db', p, a)
      BY <3>1, <3>2 DEF VotesKept
    <3> QED
      BY <3>2, <3>3 DEF SameVotes
  <2> QED
    BY <1>1, <2>1, <2>3, <2>4, <2>5 DEF ShowsVotes
<1> QED
  BY <1>1, <1>3, <1>4, <1>5 DEF VotesInv

\* A step that writes nothing keeps it.
LEMMA IdleVotes ==
    ASSUME VotesInv, Idle
    PROVE  VotesInv'
<1>1. Sessions' /\ body' = body /\ Requests' = Requests /\ db' = db /\ missed' = missed
  BY StepSessions, Zenon DEF VotesInv, Idle, Requests
<1>2. /\ \A p : PollEdits(p)' = PollEdits(p)
      /\ \A p : \A a : VotesBy(p, a)' = VotesBy(p, a)
  BY <1>1 DEF PollEdits, VotesBy, On, Idle
<1>3. \A p : Disturbed(p)' <=> Disturbed(p)
  BY <1>1, <1>2 DEF Disturbed, Raced, Overlapped
<1>4. PollKeysFree'
  BY <1>1 DEF PollKeysFree, VotesInv, Idle
<1>5. ASSUME NEW q \in Requests, stage'[q] = "open"
      PROVE  ShowsVotes(q)'
  <2>1. CASE stage[q] = "open" /\ seen'[q] = seen[q]
    BY <1>1, <1>2, <2>1 DEF VotesInv, ShowsVotes
  <2>2. CASE seen'[q] = db
    <3>1. \A p : \A a : SameVotes(db, db, p, a)
      BY DEF SameVotes
    <3> QED
      BY <1>1, <1>2, <2>2, <3>1 DEF VotesInv, ShowsVotes
  <2> QED
    BY <1>5, <2>1, <2>2 DEF Idle
<1> QED
  BY <1>1, <1>3, <1>4, <1>5 DEF VotesInv

\* It holds at first.
LEMMA InitVotes == Init => VotesInv
<1> SUFFICES ASSUME Init PROVE VotesInv
  OBVIOUS
<1>1. Sessions /\ body \in Workloads /\ db = OpeningTables /\ \A q \in Requests : stage[q] # "open"
  BY InitSessions DEF Init
<1>2. PollKeysFree
  BY <1>1, OpeningVotes DEF PollKeysFree, Requests
<1> QED
  BY <1>1, <1>2, OpeningVotes DEF VotesInv

\* The tables of the polls are those there are in every state.
LEMMA PollTables == VotesInv => {"polls", "pollOptions", "pollVotes"} \subseteq DOMAIN db
  BY DEF VotesInv, VotesShape

\* A commit that leaves the three tables alone.
LEMMA VotesStay ==
    ASSUME VotesInv, NEW r \in Requests, Commits(r), {"polls", "pollOptions", "pollVotes"} \subseteq DOMAIN db',
           db'.polls = db.polls, db'.pollOptions = db.pollOptions, db'.pollVotes = db.pollVotes
    PROVE  VotesInv'
<1>1. VotesShape(db')
  BY DEF VotesInv, VotesShape
<1>2. \A p : \A a : SameVotes(db, db', p, a)
  BY DEF SameVotes
<1>3. \A p : poll_options(db', p) = poll_options(db, p) /\ poll_votes(db', p) = poll_votes(db, p)
  BY DEF poll_options, poll_votes
<1>4. OptionsKept(r) /\ VotesKept(r)
  BY <1>2, <1>3 DEF OptionsKept, VotesKept, VotesInv, VotesShape
<1>5. LeavesVotesWell(r)
  BY <1>3, DisturbedStays DEF LeavesVotesWell, VotesInv, VotesWell
<1> QED
  BY <1>1, <1>4, <1>5, CommitVotes

\* All steps but four do.
LEMMA OthersLeavePolls ==
    ASSUME NEW r \in Requests, Step(r), ~(create_poll(r) \/ update_poll(r) \/ delete_poll(r) \/ vote_poll(r))
    PROVE  \E written : Handles(r, written) /\ written \cap {"polls", "pollOptions", "pollVotes"} = {}
<1> DEFINE Apart == \E written : Handles(r, written) /\ written \cap {"polls", "pollOptions", "pollVotes"} = {}
<1>1. CASE PollStep(r)
  <2>1. toggle_poll_like(r) \/ add_poll_comment(r) => Handles(r, {"pollLikes", "pollComments"})
    BY Zenon DEF toggle_poll_like, add_poll_comment, Decide, Handles, Leaves
  <2> QED
    BY <1>1, <2>1 DEF PollStep
<1>2. CASE EventStep(r) \/ AnnouncementStep(r) \/ MarketStep(r)
  BY <1>2, EventsTell, EventsDelete, EventsWrite, AnswersWrite, AnnouncementsTell,
     AnnouncementsWrite, LikesWrite, ItemsTell, ItemsWrite, FavoritesWrite, ViewsWrite
     DEF EventStep, AnnouncementStep, MarketStep
<1>3. CASE ServiceStep(r) \/ BoardTaskStep(r) \/ MeetingStep(r)
  BY <1>3, RequestsTell, RequestsWrite, TasksTell, TasksWrite, MeetingsTell, MeetingsWrite, AttendanceWrite
     DEF ServiceStep, BoardTaskStep, MeetingStep
<1>4. CASE DocumentStep(r) \/ InvoiceStep(r) \/ ReportStep(r) \/ StatementStep(r) \/ CatalogueStep(r) \/ InboxStep(r)
  BY <1>4, DocumentsWrite, InvoicesWrite, ReportsWrite, StatementsWrite, CataloguesWrite, InboxWrite
<1>5. CASE DirectoryStep(r) \/ ProfileStep(r) \/ OnboardingStep(r)
  BY <1>5, LoginsWrite, DirectoryWrite, DetailsWrite, RecordsWrite, OnboardingWrite, SettingsWrite
     DEF ProfileStep, OnboardingStep
<1> QED
  BY <1>1, <1>2, <1>3, <1>4, <1>5 DEF Step

\* A poll marked deleted keeps its choices.
LEMMA DeleteKeepsMultiple ==
    ASSUME NEW table, \A p \in DOMAIN table : "multiple" \in DOMAIN table[p], NEW loaded, NEW keys
    PROVE  /\ DOMAIN Delete(table, loaded, keys) = DOMAIN table
           /\ \A p \in DOMAIN table : /\ "multiple" \in DOMAIN Delete(table, loaded, keys)[p]
                                      /\ Delete(table, loaded, keys)[p].multiple = table[p].multiple
  BY DEF Delete, Mark

\* Deleting a poll.
LEMMA DeleteVotes ==
    ASSUME VotesInv, NEW r \in Requests, Commits(r), delete_poll(r)
    PROVE  VotesInv'
<1>1. Sessions /\ {"polls", "pollOptions", "pollVotes"} \subseteq DOMAIN db
      /\ \A p \in DOMAIN db.polls : "multiple" \in DOMAIN db.polls[p]
  BY PollTables DEF VotesInv, VotesShape
<1>2. db' = [db EXCEPT !.polls = Delete(@, seen[r].polls, {body[r].poll})]
  BY <1>1, Decided, ZenonT(30) DEF delete_poll, Decide, Commit
<1>3. /\ {"polls", "pollOptions", "pollVotes"} \subseteq DOMAIN db'
      /\ db'.polls = Delete(db.polls, seen[r].polls, {body[r].poll})
      /\ db'.pollOptions = db.pollOptions /\ db'.pollVotes = db.pollVotes
  BY <1>1, <1>2
<1>4. /\ DOMAIN db'.polls = DOMAIN db.polls
      /\ \A p \in DOMAIN db.polls : "multiple" \in DOMAIN db'.polls[p] /\ db'.polls[p].multiple = db.polls[p].multiple
  BY <1>1, <1>3, DeleteKeepsMultiple
<1>5. VotesShape(db')
  BY <1>3, <1>4 DEF VotesInv, VotesShape
<1>6. \A p : \A a : SameVotes(db, db', p, a)
  BY <1>3 DEF SameVotes
<1>7. \A p : poll_options(db', p) = poll_options(db, p) /\ poll_votes(db', p) = poll_votes(db, p)
  BY <1>3 DEF poll_options, poll_votes
<1>8. OptionsKept(r) /\ VotesKept(r)
  BY <1>3, <1>4, <1>6, <1>7 DEF OptionsKept, VotesKept, VotesInv, VotesShape
<1>9. LeavesVotesWell(r)
  BY <1>4, <1>7, DisturbedStays DEF LeavesVotesWell, VotesInv, VotesWell
<1> QED
  BY <1>5, <1>8, <1>9, CommitVotes

\* New options are of their poll, under keys of the request.
LEMMA NewOptions ==
    ASSUME NEW r, NEW p, IsFiniteSet(body[r].options)
    PROVE  /\ IsFiniteSet(DOMAIN new_options(r, p))
           /\ \A o \in DOMAIN new_options(r, p) :
                 /\ o[1] = r /\ {"poll", "deleted"} \subseteq DOMAIN new_options(r, p)[o]
                 /\ new_options(r, p)[o].poll = p
<1>1. DOMAIN new_options(r, p) = {<<r, t>> : t \in body[r].options}
  BY DEF new_options
<1>2. IsFiniteSet({<<r, t>> : t \in body[r].options})
  <2> DEFINE f == [t \in body[r].options |-> <<r, t>>]
             T == {<<r, t>> : t \in body[r].options}
  <2>1. f \in Surjection(body[r].options, T)
    BY DEF Surjection
  <2> HIDE DEF f, T
  <2>2. IsFiniteSet(T)
    BY <2>1, FS_Surjection, Zenon
  <2> QED
    BY <2>2 DEF T
<1> QED
  BY <1>1, <1>2 DEF new_options

\* Posting a poll: nobody has voted in it.
LEMMA CreateVotes ==
    ASSUME VotesInv, NEW r \in Requests, Commits(r), create_poll(r)
    PROVE  VotesInv'
<1>1. Sessions /\ {"polls", "pollOptions", "pollVotes"} \subseteq DOMAIN db /\ VotesShape(db)
      /\ r \notin DOMAIN db.polls /\ \A o \in DOMAIN db.pollOptions : o[1] # r
  BY PollTables DEF VotesInv, PollKeysFree, Commits
<1>2. "multiple" \in DOMAIN body[r].columns /\ IsFiniteSet(body[r].options)
  BY Payloads DEF VotesInv, Requests, create_poll, Asks
<1> DEFINE b == body[r]
           association == IF b.association = None /\ RoleOf[b.by] = "board_member"
                          THEN HomeOf[b.by] ELSE b.association
           row == With(b.columns, [association |-> association, created |-> now, deleted |-> FALSE])
           new == new_options(r, r)
<1>3. /\ {"polls", "pollOptions", "pollVotes"} \subseteq DOMAIN db'
      /\ db'.polls = With(db.polls, [k \in {r} |-> row])
      /\ db'.pollOptions = With(db.pollOptions, new)
      /\ db'.pollVotes = db.pollVotes
  BY <1>1, Decided, ZenonT(30) DEF create_poll, Decide, Commit
<1>4. "multiple" \in DOMAIN row
  BY <1>2 DEF With
<1>5. /\ IsFiniteSet(DOMAIN new)
      /\ \A o \in DOMAIN new : o[1] = r /\ {"poll", "deleted"} \subseteq DOMAIN new[o] /\ new[o].poll = r
  BY <1>2, NewOptions, Zenon
<1> HIDE DEF row, new
<1>6. /\ DOMAIN db'.polls = DOMAIN db.polls \cup {r} /\ db'.polls[r] = row
      /\ \A p \in DOMAIN db.polls : db'.polls[p] = db.polls[p]
  BY <1>1, <1>3 DEF With
<1>7. /\ DOMAIN db'.pollOptions = DOMAIN db.pollOptions \cup DOMAIN new /\ DOMAIN db.pollOptions \cap DOMAIN new = {}
      /\ \A o \in DOMAIN new : db'.pollOptions[o] = new[o]
      /\ \A o \in DOMAIN db.pollOptions : db'.pollOptions[o] = db.pollOptions[o]
  BY <1>1, <1>3, <1>5 DEF With
<1>8. IsFiniteSet(DOMAIN db'.pollOptions)
  <2>1. IsFiniteSet(DOMAIN db.pollOptions \cup DOMAIN new)
    BY <1>1, <1>5, FS_Union, Zenon DEF VotesShape
  <2> QED
    BY <1>7, <2>1
<1>9. VotesShape(db')
  BY <1>1, <1>3, <1>4, <1>5, <1>6, <1>7, <1>8 DEF VotesShape
<1>10. \A p : \A a : SameVotes(db, db', p, a)
  BY <1>3 DEF SameVotes
<1>11. \A p \in DOMAIN db.polls : poll_options(db', p) = poll_options(db, p) /\ poll_votes(db', p) = poll_votes(db, p)
  BY <1>1, <1>3, <1>5, <1>7 DEF poll_options, poll_votes, Live, IsLive
<1>12. OptionsKept(r) /\ VotesKept(r)
  BY <1>1, <1>3, <1>5, <1>6, <1>7, <1>10, <1>11 DEF OptionsKept, VotesKept, VotesShape
<1>13. LeavesVotesWell(r)
  BY <1>6, <1>11, DisturbedStays DEF LeavesVotesWell, VotesInv, VotesWell
<1> QED
  BY <1>9, <1>12, <1>13, CommitVotes

\* Rows marked deleted keep their other columns; the rest are as they were.
DeleteDoes(table, loaded, keys) ==
    LET after == Delete(table, loaded, keys)
    IN  /\ DOMAIN after = DOMAIN table
        /\ \A k \in DOMAIN table :
              /\ DOMAIN after[k] = DOMAIN table[k]
              /\ k \notin keys => after[k] = table[k]
              /\ k \in keys /\ ~loaded[k].deleted => after[k].deleted
              /\ \A f \in DOMAIN table[k] \ {"deleted"} : after[k][f] = table[k][f]
              /\ ~after[k].deleted => ~table[k].deleted

\* Delete does that.
LEMMA DeleteRows ==
    ASSUME NEW table, NEW loaded, NEW keys, \A k \in DOMAIN table : "deleted" \in DOMAIN table[k]
    PROVE  DeleteDoes(table, loaded, keys)
<1> DEFINE after == Delete(table, loaded, keys)
<1>1. DOMAIN after = DOMAIN table
  BY DEF Delete, Mark
<1>2. ASSUME NEW k \in DOMAIN table
      PROVE  /\ DOMAIN after[k] = DOMAIN table[k]
             /\ k \notin keys => after[k] = table[k]
             /\ k \in keys /\ ~loaded[k].deleted => after[k].deleted
             /\ \A f \in DOMAIN table[k] \ {"deleted"} : after[k][f] = table[k][f]
             /\ ~after[k].deleted => ~table[k].deleted
  <2>1. after[k] = IF k \in keys /\ loaded[k].deleted # TRUE THEN [table[k] EXCEPT !.deleted = TRUE] ELSE table[k]
    BY DEF Delete, Mark
  <2>2. CASE k \in keys /\ loaded[k].deleted # TRUE
    <3>1. after[k] = [table[k] EXCEPT !.deleted = TRUE]
      BY <2>1, <2>2
    <3>2. after[k].deleted = TRUE
      BY <3>1
    <3> HIDE DEF after
    <3> QED
      BY <2>2, <3>1, <3>2
  <2>3. CASE ~(k \in keys /\ loaded[k].deleted # TRUE)
    <3>1. after[k] = table[k]
      BY <2>1, <2>3
    <3> HIDE DEF after
    <3> QED
      BY <2>3, <3>1
  <2> QED
    BY <2>2, <2>3
<1> QED
  BY <1>1, <1>2 DEF DeleteDoes

\* The edit of a poll is an edit of that poll and a vote for none.
LEMMA EditsThis ==
    ASSUME VotesInv, NEW r \in Requests, Commits(r), NEW x, x = body[r].poll,
           body[r].op = "update_poll", "poll" \in DOMAIN body[r]
    PROVE  /\ r \in PollEdits(x)'
           /\ \A p : r \in PollEdits(p)' => p = x
           /\ \A p : \A a : r \notin VotesBy(p, a)'
<1>1. body' = body /\ Requests' = Requests /\ Committed(r)'
  BY DEF Commits, Requests
<1> QED
  BY <1>1 DEF PollEdits, VotesBy, On

\* Editing a poll replaces its options and takes back the votes.
LEMMA UpdateVotes ==
    ASSUME VotesInv, NEW r \in Requests, Commits(r), update_poll(r)
    PROVE  VotesInv'
<1>1. Sessions /\ {"polls", "pollOptions", "pollVotes"} \subseteq DOMAIN db /\ VotesShape(db) /\ ShowsVotes(r)
      /\ \A o \in DOMAIN db.pollOptions : o[1] # r
  BY PollTables DEF VotesInv, PollKeysFree, Commits
<1>2. body[r].op = "update_poll" /\ "poll" \in DOMAIN body[r] /\ IsFiniteSet(body[r].options)
  BY Payloads DEF VotesInv, Requests, update_poll, Asks
<1>0. PICK x : x = body[r].poll
  OBVIOUS
<1> DEFINE tables == seen[r]
           new == new_options(r, x)
           wanted == With(tables.polls[x], body[r].columns)
           replaced == {v \in poll_votes(tables, x) : v[2] \in poll_options(tables, x)}
<1>3. x \in DOMAIN tables.polls
  BY <1>0, <1>1, Decided, ZenonT(30) DEF update_poll, Decide, _manager_poll, poll_get, IsLive
<1>4. /\ {"polls", "pollOptions", "pollVotes"} \subseteq DOMAIN db'
      /\ db'.polls = Save(db.polls, tables.polls, x, wanted)
      /\ db'.pollOptions = With(Delete(db.pollOptions, tables.pollOptions, poll_options(tables, x)), new)
      /\ db'.pollVotes = Delete(db.pollVotes, tables.pollVotes, replaced)
  <2> DEFINE y == body[r].poll
             gone == {v \in poll_votes(tables, y) : v[2] \in poll_options(tables, y)}
  <2>1. /\ {"polls", "pollOptions", "pollVotes"} \subseteq DOMAIN db'
        /\ db'.polls = Save(db.polls, tables.polls, y, With(tables.polls[y], body[r].columns))
        /\ db'.pollOptions = With(Delete(db.pollOptions, tables.pollOptions, poll_options(tables, y)), new_options(r, y))
        /\ db'.pollVotes = Delete(db.pollVotes, tables.pollVotes, gone)
    BY <1>1, Decided, ZenonT(30) DEF update_poll, Decide, Commit
  <2> QED
    BY <1>0, <2>1
<1>5. /\ IsFiniteSet(DOMAIN new)
      /\ \A o \in DOMAIN new : o[1] = r /\ {"poll", "deleted"} \subseteq DOMAIN new[o] /\ new[o].poll = x
  BY <1>2, NewOptions
<1>6. x \in DOMAIN db.polls
  BY <1>1, <1>3 DEF ShowsVotes
<1>7. /\ r \in PollEdits(x)'
      /\ \A p : r \in PollEdits(p)' => p = x
      /\ \A p : \A a : r \notin VotesBy(p, a)'
  BY <1>0, <1>2, EditsThis, Zenon
<1> HIDE DEF new, wanted, replaced
<1>8. /\ DOMAIN db'.polls = DOMAIN db.polls
      /\ \A p \in DOMAIN db.polls : DOMAIN db'.polls[p] = DOMAIN db.polls[p] /\ (p # x => db'.polls[p] = db.polls[p])
  BY <1>4, <1>6 DEF Save, Changed
<1> DEFINE old == Delete(db.pollOptions, tables.pollOptions, poll_options(tables, x))
<1>9. DeleteDoes(db.pollOptions, tables.pollOptions, poll_options(tables, x))
  BY <1>1, DeleteRows DEF VotesShape
<1>10. DeleteDoes(db.pollVotes, tables.pollVotes, replaced)
  BY <1>1, DeleteRows DEF VotesShape
<1>11. DOMAIN old = DOMAIN db.pollOptions /\ DOMAIN db.pollOptions \cap DOMAIN new = {}
  BY <1>1, <1>5, <1>9 DEF DeleteDoes
<1>12. /\ DOMAIN db'.pollOptions = DOMAIN db.pollOptions \cup DOMAIN new
       /\ \A o \in DOMAIN new : db'.pollOptions[o] = new[o]
       /\ \A o \in DOMAIN db.pollOptions : db'.pollOptions[o] = old[o]
  <2> HIDE DEF old
  <2> QED
    BY <1>4, <1>11 DEF old, With
<1>13. \A o \in DOMAIN db.pollOptions :
          /\ {"poll", "deleted"} \subseteq DOMAIN db'.pollOptions[o]
          /\ db'.pollOptions[o].poll = db.pollOptions[o].poll
          /\ o \notin poll_options(tables, x) => db'.pollOptions[o] = db.pollOptions[o]
  BY <1>1, <1>9, <1>12 DEF DeleteDoes, VotesShape
<1>14. IsFiniteSet(DOMAIN db'.pollOptions)
  <2>1. IsFiniteSet(DOMAIN db.pollOptions \cup DOMAIN new)
    BY <1>1, <1>5, FS_Union, Zenon DEF VotesShape
  <2> QED
    BY <1>12, <2>1
<1>15. /\ DOMAIN db'.pollVotes = DOMAIN db.pollVotes
       /\ \A v \in DOMAIN db.pollVotes :
             /\ "deleted" \in DOMAIN db'.pollVotes[v]
             /\ v \notin replaced => db'.pollVotes[v] = db.pollVotes[v]
             /\ ~db'.pollVotes[v].deleted => ~db.pollVotes[v].deleted
             /\ v \in replaced /\ ~tables.pollVotes[v].deleted => db'.pollVotes[v].deleted
  BY <1>1, <1>4, <1>10 DEF DeleteDoes, VotesShape
<1>16. VotesShape(db')
  BY <1>1, <1>4, <1>5, <1>8, <1>12, <1>13, <1>14, <1>15 DEF VotesShape
<1>17. ASSUME NEW p \in DOMAIN db.polls, p # x
       PROVE  poll_options(db', p) = poll_options(db, p)
  <2>1. \A o \in poll_options(tables, x) : db.pollOptions[o].poll = x
    BY <1>1 DEF ShowsVotes, poll_options, Live
  <2>2. \A o \in DOMAIN db.pollOptions : db.pollOptions[o].poll = p => db'.pollOptions[o] = db.pollOptions[o]
    BY <1>13, <1>17, <2>1
  <2>3. \A o : o \in poll_options(db', p) <=> o \in poll_options(db, p)
    BY <1>5, <1>12, <1>13, <1>17, <2>2 DEF poll_options, Live, IsLive
  <2> QED
    BY <2>3 DEF poll_options
<1>18. OptionsKept(r)
  BY <1>5, <1>7, <1>8, <1>12, <1>13, <1>17 DEF OptionsKept
<1>19. ASSUME NEW p \in DOMAIN db.polls, NEW a \in Accounts, p # x
       PROVE  SameVotes(db, db', p, a)
  <2>1. \A v \in replaced : v[1] = x
    BY DEF replaced, poll_votes
  <2> QED
    BY <1>15, <1>19, <2>1 DEF SameVotes
<1>20. VotesKept(r)
  BY <1>1, <1>7, <1>15, <1>19 DEF VotesKept, VotesShape
<1>21. ASSUME ~Disturbed(x)', NEW v \in poll_votes(db', x)
       PROVE  FALSE
  <2>1. /\ v \in DOMAIN db.pollVotes /\ ~db'.pollVotes[v].deleted /\ ~db.pollVotes[v].deleted /\ v[1] = x
    BY <1>15, <1>21 DEF poll_votes, Live, IsLive
  <2>2. v[3] \in Accounts
    BY <1>1, <2>1 DEF VotesShape
  <2>3. missed[r] \cap (PollEdits(x) \cup VotesBy(x, v[3])) = {}
    BY <1>1, <1>7, <1>21, <2>2, Disturbs
  <2>4. SameVotes(tables, db, x, v[3]) /\ poll_options(tables, x) = poll_options(db, x)
    BY <1>1, <1>3, <2>2, <2>3 DEF ShowsVotes
  <2>5. v \in DOMAIN tables.pollVotes /\ tables.pollVotes[v] = db.pollVotes[v]
    BY <2>1, <2>4 DEF SameVotes
  <2>6. v \in poll_votes(tables, x) /\ v \in poll_votes(db, x)
    BY <2>1, <2>5 DEF poll_votes, Live, IsLive
  <2>7. VotesWell(db, x)
    BY <1>6, <1>21, DisturbedStays DEF VotesInv
  <2>8. v \in replaced
    BY <2>4, <2>6, <2>7 DEF VotesWell, replaced
  <2> QED
    BY <1>15, <2>1, <2>5, <2>8
<1>22. VotesWell(db', x) \/ Disturbed(x)'
  BY <1>21 DEF VotesWell
<1>23. LeavesVotesWell(r)
  BY <1>7, <1>22 DEF LeavesVotesWell
<1> QED
  BY <1>16, <1>18, <1>20, <1>23, CommitVotes

\* A vote is one of its account for its poll, and no edit.
LEMMA VotesThis ==
    ASSUME VotesInv, NEW r \in Requests, Commits(r), NEW x, x = body[r].poll, NEW a, a = body[r].by,
           body[r].op = "vote_poll", "poll" \in DOMAIN body[r]
    PROVE  /\ r \in VotesBy(x, a)'
           /\ \A p : r \notin PollEdits(p)'
           /\ \A p : \A c : r \in VotesBy(p, c)' => p = x /\ c = a
<1>1. body' = body /\ Requests' = Requests /\ Committed(r)'
  BY DEF Commits, Requests
<1> QED
  BY <1>1 DEF PollEdits, VotesBy, On

\* The rows after a vote: those of the account that are not chosen are marked, the others as
\* they were, and the new ones added.
VotesAfter(table, after, loaded, mine, chosen) ==
    /\ DOMAIN after = DOMAIN table \cup (chosen \ mine)
    /\ \A v \in DOMAIN after : v \notin mine \cup chosen => v \in DOMAIN table /\ after[v] = table[v]
    /\ \A v \in DOMAIN after : "deleted" \in DOMAIN after[v]
    /\ \A v \in DOMAIN table :
          v \in mine \ chosen /\ loaded[v] = table[v] => after[v].deleted

\* What vote_poll writes are those rows.
LEMMA VoteRows ==
    ASSUME NEW table, NEW loaded, NEW mine, NEW chosen, NEW after,
           \A v \in DOMAIN table : "deleted" \in DOMAIN table[v],
           after = With(Mark(table, loaded, [v \in mine |-> v \notin chosen]),
                        [v \in chosen \ mine |-> [deleted |-> FALSE]])
    PROVE  VotesAfter(table, after, loaded, mine, chosen)
<1> DEFINE marked == Mark(table, loaded, [v \in mine |-> v \notin chosen])
<1>1. /\ DOMAIN marked = DOMAIN table
      /\ \A v \in DOMAIN table :
            marked[v] = IF v \in mine /\ loaded[v].deleted # (v \notin chosen)
                        THEN [table[v] EXCEPT !.deleted = (v \notin chosen)] ELSE table[v]
  BY DEF Mark
<1>2. \A v \in DOMAIN table : /\ "deleted" \in DOMAIN marked[v]
                              /\ v \notin mine => marked[v] = table[v]
                              /\ v \in mine \ chosen /\ loaded[v] = table[v] => marked[v].deleted
  <2> SUFFICES ASSUME NEW v \in DOMAIN table
               PROVE  /\ "deleted" \in DOMAIN marked[v]
                      /\ v \notin mine => marked[v] = table[v]
                      /\ v \in mine \ chosen /\ loaded[v] = table[v] => marked[v].deleted
    OBVIOUS
  <2>1. CASE v \in mine /\ loaded[v].deleted # (v \notin chosen)
    <3>1. marked[v] = [table[v] EXCEPT !.deleted = (v \notin chosen)]
      BY <1>1, <2>1
    <3>2. DOMAIN marked[v] = DOMAIN table[v] /\ marked[v].deleted = (v \notin chosen)
      BY <3>1
    <3> HIDE DEF marked
    <3> QED
      BY <2>1, <3>2
  <2>2. CASE ~(v \in mine /\ loaded[v].deleted # (v \notin chosen))
    <3>1. marked[v] = table[v]
      BY <1>1, <2>2
    <3> HIDE DEF marked
    <3> QED
      BY <2>2, <3>1
  <2> QED
    BY <2>1, <2>2
<1> HIDE DEF marked
<1>3. /\ DOMAIN after = DOMAIN table \cup (chosen \ mine)
      /\ \A v \in chosen \ mine : after[v] = [deleted |-> FALSE]
      /\ \A v \in DOMAIN table : v \notin chosen \ mine => after[v] = marked[v]
  <2>1. after = With(marked, [v \in chosen \ mine |-> [deleted |-> FALSE]])
    BY DEF marked
  <2> QED
    BY <1>1, <2>1 DEF With
<1>4. \A v \in DOMAIN after : v \notin mine \cup chosen => v \in DOMAIN table /\ after[v] = table[v]
  BY <1>2, <1>3
<1>5. ASSUME NEW v \in DOMAIN after
      PROVE  "deleted" \in DOMAIN after[v]
  <2>1. CASE v \in chosen \ mine
    <3>1. after[v] = [deleted |-> FALSE]
      BY <1>3, <2>1
    <3> QED
      BY <3>1
  <2>2. CASE v \notin chosen \ mine
    <3>1. v \in DOMAIN table /\ after[v] = marked[v]
      BY <1>3, <2>2
    <3> QED
      BY <1>2, <3>1
  <2> QED
    BY <2>1, <2>2
<1>6. ASSUME NEW v \in DOMAIN table, v \in mine \ chosen, loaded[v] = table[v]
      PROVE  after[v].deleted
  <2>1. after[v] = marked[v]
    BY <1>3, <1>6
  <2>2. marked[v].deleted
    BY <1>2, <1>6
  <2> QED
    BY <2>1, <2>2, Zenon
<1> QED
  BY <1>3, <1>4, <1>5, <1>6 DEF VotesAfter

\* Voting replaces the votes of the account by one for each chosen option.
LEMMA VoteVotes ==
    ASSUME VotesInv, NEW r \in Requests, Commits(r), vote_poll(r)
    PROVE  VotesInv'
<1>1. Sessions /\ {"polls", "pollOptions", "pollVotes"} \subseteq DOMAIN db /\ VotesShape(db) /\ ShowsVotes(r)
  BY PollTables DEF VotesInv, Commits
<1>2. body[r].op = "vote_poll" /\ "poll" \in DOMAIN body[r] /\ body[r].by \in Accounts
  BY Payloads DEF VotesInv, Requests, vote_poll, Asks
<1>3. PICK x, a, options : x = body[r].poll /\ a = body[r].by /\ options = body[r].options
  OBVIOUS
<1> DEFINE tables == seen[r]
           mine == {v \in DOMAIN tables.pollVotes : v[1] = x /\ v[3] = a}
           chosen == {<<x, o, a>> : o \in options}
<1>4. /\ x \in DOMAIN tables.polls /\ options \subseteq poll_options(tables, x)
      /\ tables.polls[x].multiple \/ Cardinality(options) = 1
  <2>1. /\ body[r].poll \in DOMAIN tables.polls
        /\ body[r].options \subseteq poll_options(tables, body[r].poll)
        /\ tables.polls[body[r].poll].multiple \/ Cardinality(body[r].options) = 1
    BY <1>1, Decided, ZenonT(30) DEF vote_poll, Decide, _authorized_poll, poll_get, IsLive
  <2> QED
    BY <1>3, <2>1
<1>5. /\ {"polls", "pollOptions", "pollVotes"} \subseteq DOMAIN db'
      /\ db'.polls = db.polls /\ db'.pollOptions = db.pollOptions
      /\ db'.pollVotes = With(Mark(db.pollVotes, tables.pollVotes, [v \in mine |-> v \notin chosen]),
                              [v \in chosen \ mine |-> [deleted |-> FALSE]])
  <2> DEFINE own == {v \in DOMAIN tables.pollVotes : v[1] = body[r].poll /\ v[3] = body[r].by}
             wanted == {<<body[r].poll, o, body[r].by>> : o \in body[r].options}
  <2>1. db' = [db EXCEPT !.pollVotes = With(Mark(@, tables.pollVotes, [v \in own |-> v \notin wanted]),
                                            [v \in wanted \ own |-> [deleted |-> FALSE]])]
    BY <1>1, Decided, ZenonT(30) DEF vote_poll, Decide, Commit
  <2>2. own = mine /\ wanted = chosen
    BY <1>3
  <2> HIDE DEF own, wanted, mine, chosen
  <2> QED
    BY <1>1, <2>1, <2>2
<1>6. a \in Accounts
  BY <1>2, <1>3
<1>7. /\ r \in VotesBy(x, a)'
      /\ \A p : r \notin PollEdits(p)'
      /\ \A p : \A c : r \in VotesBy(p, c)' => p = x /\ c = a
  BY <1>2, <1>3, VotesThis
<1>8. VotesAfter(db.pollVotes, db'.pollVotes, tables.pollVotes, mine, chosen)
  <2>1. \A v \in DOMAIN db.pollVotes : "deleted" \in DOMAIN db.pollVotes[v]
    BY <1>1 DEF VotesShape
  <2> HIDE DEF mine, chosen
  <2> QED
    BY <1>5, <2>1, VoteRows, Zenon
<1>9. IsFiniteSet(options) /\ IsFiniteSet(chosen)
  <2>1. IsFiniteSet(options)
    BY <1>1, <1>4, FS_Subset DEF ShowsVotes, VotesShape, poll_options, Live
  <2> DEFINE f == [o \in options |-> <<x, o, a>>]
  <2>2. f \in Surjection(options, chosen)
    BY DEF Surjection
  <2> HIDE DEF f, chosen
  <2> QED
    BY <2>1, <2>2, FS_Surjection, Zenon
<1>10. \A v \in chosen : /\ v = <<v[1], v[2], v[3]>> /\ v[1] = x /\ v[3] = a /\ v[2] \in options
                         /\ v[2] \in DOMAIN db.pollOptions /\ db.pollOptions[v[2]].poll = x
  BY <1>1, <1>4 DEF ShowsVotes, poll_options, Live
<1>11. x \in DOMAIN db.polls
  BY <1>1, <1>4 DEF ShowsVotes
<1>12. \A v \in mine : v[1] = x /\ v[3] = a
  OBVIOUS
<1> HIDE DEF mine, chosen
<1>13. IsFiniteSet(DOMAIN db'.pollVotes)
  <2>1. IsFiniteSet(chosen \ mine)
    BY <1>9, FS_Subset
  <2>2. IsFiniteSet(DOMAIN db.pollVotes \cup (chosen \ mine))
    BY <1>1, <2>1, FS_Union, Zenon DEF VotesShape
  <2> QED
    BY <1>8, <2>2 DEF VotesAfter
<1>14. VotesShape(db')
  BY <1>1, <1>5, <1>6, <1>8, <1>10, <1>11, <1>13 DEF VotesShape, VotesAfter
<1>15. \A p : poll_options(db', p) = poll_options(db, p)
  BY <1>5 DEF poll_options
<1>16. OptionsKept(r)
  BY <1>5, <1>15 DEF OptionsKept
<1>17. \A p : \A c : p # x \/ c # a => SameVotes(db, db', p, c)
  BY <1>8, <1>10, <1>12 DEF SameVotes, VotesAfter
<1>18. VotesKept(r)
  BY <1>1, <1>7, <1>8, <1>10, <1>11, <1>17 DEF VotesKept, VotesShape, VotesAfter
<1>19. ASSUME ~Disturbed(x)'
       PROVE  VotesWell(db', x)
  <2>1. missed[r] \cap (PollEdits(x) \cup VotesBy(x, a)) = {}
    BY <1>1, <1>6, <1>7, <1>19, Disturbs
  <2>2. /\ SameVotes(tables, db, x, a) /\ poll_options(tables, x) = poll_options(db, x)
        /\ tables.polls[x].multiple = db.polls[x].multiple
    BY <1>1, <1>4, <1>6, <2>1 DEF ShowsVotes
  <2>3. VotesWell(db, x)
    BY <1>11, <1>19, DisturbedStays DEF VotesInv
  <2>4. ASSUME NEW v \in poll_votes(db', x), v[3] = a
        PROVE  v \in chosen
    <3>1. v \in DOMAIN db'.pollVotes /\ ~db'.pollVotes[v].deleted /\ v[1] = x
      BY DEF poll_votes, Live, IsLive
    <3>2. CASE v \in DOMAIN db.pollVotes /\ v \notin chosen
      <4>1. v \in DOMAIN tables.pollVotes /\ tables.pollVotes[v] = db.pollVotes[v]
        BY <2>2, <2>4, <3>1, <3>2 DEF SameVotes
      <4>2. v \in mine
        BY <2>4, <3>1, <4>1 DEF mine
      <4> QED
        BY <1>8, <3>1, <3>2, <4>1, <4>2 DEF VotesAfter
    <3> QED
      BY <1>8, <3>1, <3>2 DEF VotesAfter
  <2>5. ASSUME NEW v \in poll_votes(db', x), v[3] # a
        PROVE  v \in poll_votes(db, x)
    BY <1>8, <1>10, <1>12, <2>5 DEF VotesAfter, poll_votes, Live, IsLive
  <2>6. \A v \in poll_votes(db', x) : v[2] \in poll_options(db', x)
    BY <1>4, <1>10, <1>15, <2>2, <2>3, <2>4, <2>5 DEF VotesWell
  <2>7. ASSUME ~db'.polls[x].multiple, NEW v \in poll_votes(db', x), NEW w \in poll_votes(db', x), v[3] = w[3]
        PROVE  v = w
    <3>1. Cardinality(options) = 1
      BY <1>4, <1>5, <2>2, <2>7
    <3>2. PICK o : options = {o}
      BY <1>9, <3>1, FS_Singleton
    <3>3. CASE v[3] = a
      BY <1>10, <2>4, <2>7, <3>2, <3>3
    <3>4. CASE v[3] # a
      BY <1>5, <2>3, <2>5, <2>7, <3>4 DEF VotesWell
    <3> QED
      BY <3>3, <3>4
  <2> QED
    BY <2>6, <2>7 DEF VotesWell
<1>20. LeavesVotesWell(r)
  BY <1>7, <1>19 DEF LeavesVotesWell
<1> QED
  BY <1>14, <1>16, <1>18, <1>20, CommitVotes

\* Every step keeps the votes so.
LEMMA NextVotes == VotesInv /\ [Next]_vars => VotesInv'
<1> SUFFICES ASSUME VotesInv, [Next]_vars PROVE VotesInv'
  OBVIOUS
<1>1. ASSUME NEW r \in Requests, Commits(r), Step(r)
      PROVE  VotesInv'
  <2>1. CASE create_poll(r) \/ update_poll(r) \/ delete_poll(r) \/ vote_poll(r)
    BY <1>1, <2>1, CreateVotes, UpdateVotes, DeleteVotes, VoteVotes
  <2>2. CASE ~(create_poll(r) \/ update_poll(r) \/ delete_poll(r) \/ vote_poll(r))
    <3>1. PICK written : Handles(r, written) /\ written \cap {"polls", "pollOptions", "pollVotes"} = {}
      BY <1>1, <2>2, OthersLeavePolls
    <3>2. Leaves(db', written)
      BY <1>1, <3>1, HandlesFrame DEF VotesInv
    <3>3. /\ {"polls", "pollOptions", "pollVotes"} \subseteq DOMAIN db'
          /\ db'.polls = db.polls /\ db'.pollOptions = db.pollOptions /\ db'.pollVotes = db.pollVotes
      BY <3>1, <3>2, PollTables DEF Leaves
    <3> QED
      BY <1>1, <3>3, VotesStay
  <2> QED
    BY <2>1, <2>2
<1>2. Sessions
  BY DEF VotesInv
<1> QED
  BY <1>1, <1>2, StepCases, IdleVotes

\* What a snapshot may lack of the votes of a poll are those of requests it missed, and the
\* votes of a poll that was not disturbed are for its options, one of each voter.
THEOREM VotesInvariant == Spec => []VotesInv
  BY InitVotes, NextVotes, PTL DEF Spec

\* The counts that poll_list reports for the options of a poll add up.
LEMMA CountsAddUp ==
    ASSUME VotesShape(db), NEW p, VotesWell(db, p)
    PROVE  Sum([o \in poll_options(db, p) |-> vote_count(db, o)])
             = IF db.polls[p].multiple THEN Cardinality(poll_votes(db, p)) ELSE total_votes(db, p)
<1> DEFINE S == poll_votes(db, p)
           D == poll_options(db, p)
           key == [v \in S |-> v[2]]
<1>1. IsFiniteSet(S) /\ IsFiniteSet(D)
  BY FS_Subset DEF VotesShape, poll_votes, poll_options, Live
<1>2. \A v \in S : key[v] \in D
  BY DEF VotesWell
<1>3. ASSUME NEW o \in D
      PROVE  {v \in S : key[v] = o} = {v \in Live(db.pollVotes) : v[2] = o}
  <2>1. db.pollOptions[o].poll = p
    BY DEF poll_options
  <2>2. \A v \in Live(db.pollVotes) : v[2] = o => v[1] = p
    BY <2>1 DEF VotesShape, Live
  <2> QED
    BY <2>2 DEF poll_votes
<1>4. [o \in D |-> Cardinality({v \in S : key[v] = o})] = [o \in D |-> vote_count(db, o)]
  BY <1>3 DEF vote_count
<1>5. Sum([o \in D |-> Cardinality({v \in S : key[v] = o})]) = Cardinality(S)
  <2> HIDE DEF S, D, key
  <2> QED
    BY <1>1, <1>2, SumOfCounts
<1>6. ASSUME ~db.polls[p].multiple
      PROVE  Cardinality(S) = total_votes(db, p)
  <2> DEFINE T == {v[3] : v \in S}
             f == [v \in S |-> v[3]]
  <2>1. \A v, w \in S : v[3] = w[3] => v = w
    BY <1>6 DEF VotesWell
  <2>2. f \in [S -> T] /\ \A t \in T : \E v \in S : f[v] = t
    OBVIOUS
  <2>3. \A v, w \in S : f[v] = f[w] => v = w
    BY <2>1
  <2>4. f \in Injection(S, T) /\ f \in Surjection(S, T)
    <3> HIDE DEF S, T, f
    <3> QED
      BY <2>2, <2>3 DEF Injection, Surjection, IsInjective
  <2>5. Cardinality(T) = Cardinality(S)
    <3> HIDE DEF S, T, f
    <3> QED
      BY <1>1, <2>4, FS_Surjection
  <2> QED
    BY <2>5 DEF total_votes
<1> QED
  BY <1>4, <1>5, <1>6

\* The counts of a poll's options add up to its votes, and where it takes one choice to
\* its voters, unless requests that replace votes overlapped.
THEOREM CountsOfPollsStand == Spec => []VotesStand
<1>1. VotesInv => VotesStand
  <2> SUFFICES ASSUME VotesInv, NEW p \in Live(db.polls),
                      ~\E a \in Accounts :
                          Raced(On(<<"poll", p>>, {"update_poll"})
                                  \cup {q \in On(<<"poll", p>>, {"vote_poll"}) : body[q].by = a})
               PROVE  Sum([o \in poll_options(db, p) |-> vote_count(db, o)])
                        = IF db.polls[p].multiple THEN Cardinality(poll_votes(db, p)) ELSE total_votes(db, p)
    BY Zenon DEF VotesStand
  <2>1. ~Disturbed(p)
    BY DEF Disturbed, PollEdits, VotesBy
  <2>2. VotesShape(db) /\ VotesWell(db, p)
    BY <2>1 DEF VotesInv, Live
  <2> QED
    BY <2>2, CountsAddUp, Zenon
<1> QED
  BY <1>1, VotesInvariant, PTL
-----------------------------------------------------------------------------
(* Polls: the options of one edit *)

\* What a poll needs of the other invariants.
PollsWell == VotesInv /\ OptionsOwned(db)

LEMMA SamePoll ==
    ASSUME NEW old, NEW new, NEW k, poll_options(new, k) = poll_options(old, k)
    PROVE  Unchanged(old, new, "poll", k) /\ (Together(old, "poll", k) => Together(new, "poll", k))
  BY TogetherIs DEF Unchanged

LEMMA LeftPolls ==
    ASSUME WatchedInv, PollsWell, NEW r \in Requests, Commits(r), {"polls", "pollOptions"} \subseteq DOMAIN db',
           DOMAIN db'.polls = DOMAIN db.polls, db'.pollOptions = db.pollOptions
    PROVE  KeptTogether(r, "poll") /\ OptionsOwned(db')
<1>1. \A k : poll_options(db', k) = poll_options(db, k)
  BY DEF poll_options
<1>2. HasColumns(db', "poll")
  BY DEF HasColumns, Watched, WatchedColumns, Rows
<1>3. DOMAIN Rows(db', "poll") = DOMAIN Rows(db, "poll")
  BY DEF Rows, Watched
<1> QED
  BY <1>1, <1>2, <1>3, SamePoll DEF KeptTogether, OptionsOwned, PollsWell

LEMMA CreatePollTogether ==
    ASSUME WatchedInv, PollsWell, NEW r \in Requests, Commits(r), create_poll(r)
    PROVE  KeptTogether(r, "poll") /\ OptionsOwned(db')
<1>1. Sessions /\ {"polls", "pollOptions"} \subseteq DOMAIN db /\ VotesShape(db)
      /\ r \notin DOMAIN db.polls /\ \A o \in DOMAIN db.pollOptions : o[1] # r
  BY PollTables DEF VotesInv, PollKeysFree, Commits, PollsWell
<1>2. IsFiniteSet(body[r].options)
  BY Payloads DEF WatchedInv, Requests, create_poll, Asks
<1> DEFINE b == body[r]
           association == IF b.association = None /\ RoleOf[b.by] = "board_member" THEN HomeOf[b.by] ELSE b.association
           row == With(b.columns, [association |-> association, created |-> now, deleted |-> FALSE])
           new == new_options(r, r)
<1>3. /\ {"polls", "pollOptions"} \subseteq DOMAIN db'
      /\ db'.polls = With(db.polls, [k \in {r} |-> row])
      /\ db'.pollOptions = With(db.pollOptions, new)
  BY <1>1, Decided, ZenonT(30) DEF create_poll, Decide, Commit
<1>4. \A o \in DOMAIN new : o[1] = r /\ new[o].poll = r
  BY <1>2, NewOptions, Zenon
<1> HIDE DEF new, row
<1>5. {"polls", "pollOptions"} \subseteq DOMAIN db' /\ DOMAIN db'.polls = DOMAIN db.polls \cup {r}
  BY <1>3 DEF With
<1>6. /\ DOMAIN db'.pollOptions = DOMAIN db.pollOptions \cup DOMAIN new /\ DOMAIN db.pollOptions \cap DOMAIN new = {}
      /\ \A o \in DOMAIN new : db'.pollOptions[o] = new[o]
      /\ \A o \in DOMAIN db.pollOptions : db'.pollOptions[o] = db.pollOptions[o]
  BY <1>1, <1>3, <1>4 DEF With
<1>7. \A k \in DOMAIN db.polls : poll_options(db', k) = poll_options(db, k)
  BY <1>1, <1>4, <1>6 DEF poll_options, Live, IsLive
<1>8. poll_options(db', r) \subseteq DOMAIN new
  BY <1>1, <1>6 DEF poll_options, Live, IsLive, PollsWell, OptionsOwned
<1>9. Together(db', "poll", r)
  BY <1>4, <1>8, TogetherIs
<1>10. KeyOf("poll", r) = r /\ HasColumns(db', "poll")
  BY <1>5 DEF KeyOf, HasColumns, Watched, WatchedColumns, Rows
<1>11. DOMAIN Rows(db', "poll") = DOMAIN Rows(db, "poll") \cup {r} /\ DOMAIN Rows(db, "poll") = DOMAIN db.polls
  BY <1>5 DEF Rows, Watched
<1> QED
  BY <1>4, <1>5, <1>6, <1>7, <1>9, <1>10, <1>11, SamePoll DEF KeptTogether, OptionsOwned, PollsWell

LEMMA UpdatePollTogether ==
    ASSUME WatchedInv, PollsWell, NEW r \in Requests, Commits(r), update_poll(r)
    PROVE  KeptTogether(r, "poll") /\ OptionsOwned(db')
<1>1. Sessions /\ {"polls", "pollOptions"} \subseteq DOMAIN db /\ VotesShape(db) /\ ShowsVotes(r)
      /\ \A o \in DOMAIN db.pollOptions : o[1] # r
  BY PollTables DEF VotesInv, PollKeysFree, Commits, PollsWell
<1>2. body[r].op = "update_poll" /\ IsFiniteSet(body[r].options)
  BY Payloads DEF WatchedInv, Requests, update_poll, Asks
<1>3. PICK x : x = body[r].poll
  OBVIOUS
<1> DEFINE tables == seen[r]
           new == new_options(r, x)
           marked == Delete(db.pollOptions, tables.pollOptions, poll_options(tables, x))
<1>4. x \in DOMAIN tables.polls
  BY <1>1, <1>3, Decided, ZenonT(30) DEF update_poll, Decide, _manager_poll, poll_get, IsLive
<1>5. \E wanted : /\ {"polls", "pollOptions"} \subseteq DOMAIN db'
                  /\ db'.polls = Save(db.polls, tables.polls, x, wanted)
                  /\ db'.pollOptions = With(marked, new)
  <2> DEFINE y == body[r].poll
  <2>1. \E wanted : /\ {"polls", "pollOptions"} \subseteq DOMAIN db'
                    /\ db'.polls = Save(db.polls, tables.polls, y, wanted)
                    /\ db'.pollOptions = With(Delete(db.pollOptions, tables.pollOptions, poll_options(tables, y)), new_options(r, y))
    BY <1>1, Decided, ZenonT(30) DEF update_poll, Decide, Commit
  <2> QED
    BY <1>3, <2>1
<1>6. \A o \in DOMAIN new : o[1] = r /\ new[o].poll = x
  BY <1>2, NewOptions
<1>7. x \in DOMAIN db.polls
  BY <1>1, <1>4 DEF ShowsVotes
<1> HIDE DEF new, marked
<1>8. {"polls", "pollOptions"} \subseteq DOMAIN db' /\ DOMAIN db'.polls = DOMAIN db.polls
  BY <1>5 DEF Save
<1>9. DeleteDoes(db.pollOptions, tables.pollOptions, poll_options(tables, x))
  BY <1>1, DeleteRows DEF VotesShape
<1>10. DOMAIN marked = DOMAIN db.pollOptions /\ DOMAIN db.pollOptions \cap DOMAIN new = {}
  BY <1>1, <1>6, <1>9 DEF DeleteDoes, marked
<1>11. /\ DOMAIN db'.pollOptions = DOMAIN db.pollOptions \cup DOMAIN new
       /\ \A o \in DOMAIN new : db'.pollOptions[o] = new[o]
       /\ \A o \in DOMAIN db.pollOptions : db'.pollOptions[o] = marked[o]
  BY <1>5, <1>10 DEF With
<1>12. \A o \in DOMAIN db.pollOptions :
          /\ db'.pollOptions[o].poll = db.pollOptions[o].poll
          /\ ~db'.pollOptions[o].deleted => ~db.pollOptions[o].deleted
          /\ o \notin poll_options(tables, x) => db'.pollOptions[o] = db.pollOptions[o]
          /\ o \in poll_options(tables, x) => db'.pollOptions[o].deleted
  BY <1>1, <1>9, <1>11 DEF DeleteDoes, VotesShape, marked, poll_options, Live, IsLive
<1>13. \A o \in poll_options(tables, x) : tables.pollOptions[o].poll = x /\ (o \in DOMAIN db.pollOptions => db.pollOptions[o].poll = x)
  BY <1>1 DEF poll_options, ShowsVotes, Live, IsLive
<1>14. \A k \in DOMAIN db.polls : k # x => poll_options(db', k) = poll_options(db, k)
  BY <1>6, <1>11, <1>12, <1>13 DEF poll_options, Live, IsLive
<1>15. ASSUME Unchanged(tables, db, "poll", x)
       PROVE  Together(db', "poll", x)
  <2>1. poll_options(tables, x) = poll_options(db, x)
    BY <1>15 DEF Unchanged
  <2>2. poll_options(db', x) \subseteq DOMAIN new
    BY <1>11, <1>12, <2>1 DEF poll_options, Live, IsLive
  <2> QED
    BY <1>6, <2>2, TogetherIs
<1>16. Rewrites(r, "poll", x)
  BY <1>2, <1>3 DEF Rewrites, Rewriting, PathField
<1>17. Rewritten(r, "poll", x)
  BY <1>4, <1>15, <1>16, EditsNow DEF Rewritten, Rows, Watched
<1>18. HasColumns(db', "poll")
  BY <1>8 DEF HasColumns, Watched, WatchedColumns, Rows
<1>19. DOMAIN Rows(db', "poll") = DOMAIN Rows(db, "poll") /\ DOMAIN Rows(db, "poll") = DOMAIN db.polls
  BY <1>8 DEF Rows, Watched
<1>20. OptionsOwned(db')
  BY <1>6, <1>7, <1>8, <1>11, <1>12 DEF OptionsOwned, PollsWell
<1> QED
  BY <1>14, <1>17, <1>18, <1>19, <1>20, SamePoll DEF KeptTogether

LEMMA PollsTogether ==
    ASSUME WatchedInv, PollsWell, NEW r \in Requests, Commits(r), Step(r)
    PROVE  KeptTogether(r, "poll") /\ OptionsOwned(db')
<1>1. Sessions /\ {"polls", "pollOptions"} \subseteq DOMAIN db
  BY PollTables DEF WatchedInv, PollsWell
<1>2. CASE delete_poll(r)
  <2>1. Commit(r, [db EXCEPT !.polls = Delete(@, seen[r].polls, {body[r].poll})])
    BY <1>1, <1>2, Decided, Zenon DEF delete_poll, Decide
  <2>2. /\ {"polls", "pollOptions"} \subseteq DOMAIN db' /\ db'.pollOptions = db.pollOptions
        /\ db'.polls = Delete(db.polls, seen[r].polls, {body[r].poll})
    BY <1>1, <2>1 DEF Commit
  <2>3. DOMAIN db'.polls = DOMAIN db.polls
    BY <2>2 DEF Delete, Mark
  <2> QED
    BY <2>2, <2>3, LeftPolls
<1>3. CASE vote_poll(r)
  <2>1. \E v : Commit(r, [db EXCEPT !.pollVotes = v])
    BY <1>1, <1>3, Decided, Zenon DEF vote_poll, Decide
  <2> QED
    BY <1>1, <2>1, LeftPolls DEF Commit
<1>4. CASE create_poll(r) \/ update_poll(r)
  BY <1>4, CreatePollTogether, UpdatePollTogether
<1>5. CASE ~(create_poll(r) \/ update_poll(r) \/ delete_poll(r) \/ vote_poll(r))
  <2>1. PICK written : Handles(r, written) /\ written \cap {"polls", "pollOptions", "pollVotes"} = {}
    BY <1>5, OthersLeavePolls
  <2>2. Leaves(db', written)
    BY <1>1, <2>1, HandlesFrame
  <2>3. {"polls", "pollOptions"} \subseteq DOMAIN db' /\ db'.polls = db.polls /\ db'.pollOptions = db.pollOptions
    BY <1>1, <2>1, <2>2 DEF Leaves
  <2> QED
    BY <2>3, LeftPolls
<1> QED
  BY <1>2, <1>3, <1>4, <1>5
-----------------------------------------------------------------------------
(* Rules and people: what also depends on associations, blocks and units, which are *)
(* only added                                                                    *)

\* The units of one are in the other, in the same blocks.
PlacesShown(old, new) ==
    /\ \A u \in DOMAIN old.units : u \in DOMAIN new.units /\ new.units[u].block = old.units[u].block
    /\ \A k \in DOMAIN old.blocks : k \in DOMAIN new.blocks /\ new.blocks[k].association = old.blocks[k].association

\* Units, blocks and rules are well; they are where a request sees them, and who has not
\* committed has none.
PlacesInv ==
    /\ PlacesOK(db)
    /\ \A q \in Requests : stage[q] \in {"waiting", "open"} =>
          /\ \A k \in DOMAIN db.units \cup DOMAIN db.blocks : k[1] # q
          /\ q \notin DOMAIN db.assessmentRules
    /\ \A q \in Requests : stage[q] = "open" => PlacesOK(seen[q]) /\ PlacesShown(seen[q], db)

\* What a commit does to the places.
PlacesKept(r) ==
    /\ PlacesOK(db') /\ PlacesShown(db, db')
    /\ \A k \in (DOMAIN db'.units \cup DOMAIN db'.blocks) \ (DOMAIN db.units \cup DOMAIN db.blocks) : k[1] = r
    /\ DOMAIN db'.assessmentRules \subseteq DOMAIN db.assessmentRules \cup {r}

\* A unit of an association stays one.
LEMMA UnitsStay ==
    ASSUME NEW old, NEW new, PlacesOK(old), PlacesShown(old, new), NEW a
    PROVE  units_of(old, a) \subseteq units_of(new, a)
  BY DEF PlacesOK, PlacesShown, units_of

LEMMA PlacesPass ==
    ASSUME NEW old, NEW middle, NEW new, PlacesShown(old, middle), PlacesShown(middle, new)
    PROVE  PlacesShown(old, new)
  BY DEF PlacesShown

LEMMA CommitPlaces ==
    ASSUME Sessions, PlacesInv, NEW r \in Requests, Commits(r), PlacesKept(r)
    PROVE  PlacesInv'
<1>1. Requests' = Requests
  BY DEF Commits, Requests
<1>2. \A q \in Requests : stage'[q] \in {"waiting", "open"} => q # r /\ stage'[q] = stage[q] /\ seen'[q] = seen[q]
  BY DEF Commits, Committed
<1>3. ASSUME NEW q \in Requests, stage'[q] \in {"waiting", "open"}
      PROVE  /\ \A k \in DOMAIN db'.units \cup DOMAIN db'.blocks : k[1] # q
             /\ q \notin DOMAIN db'.assessmentRules
  BY <1>2, <1>3 DEF PlacesInv, PlacesKept
<1>4. ASSUME NEW q \in Requests, stage'[q] = "open"
      PROVE  PlacesOK(seen'[q]) /\ PlacesShown(seen'[q], db')
  BY <1>2, <1>4, PlacesPass DEF PlacesInv, PlacesKept
<1> QED
  BY <1>1, <1>3, <1>4 DEF PlacesInv, PlacesKept

LEMMA IdlePlaces ==
    ASSUME Sessions, PlacesInv, Idle
    PROVE  PlacesInv'
<1>1. Requests' = Requests /\ db' = db
  BY DEF Idle, Requests
<1>2. PlacesShown(db, db)
  BY DEF PlacesShown
<1>3. ASSUME NEW q \in Requests, stage'[q] = "open"
      PROVE  PlacesOK(seen'[q]) /\ PlacesShown(seen'[q], db)
  BY <1>2, <1>3 DEF PlacesInv, Idle
<1> QED
  BY <1>1, <1>3 DEF PlacesInv, Idle

LEMMA InitPlaces == Init => PlacesInv
<1> SUFFICES ASSUME Init PROVE PlacesInv
  OBVIOUS
<1>1. db = OpeningTables /\ body \in Workloads /\ \A q \in Requests : stage[q] = "waiting"
  BY DEF Init
<1> QED
  BY <1>1, OpeningPlaces DEF PlacesInv, Requests

\* Who adds no places and rules.
LEMMA LeftPlaces ==
    ASSUME PlacesInv, NEW r, DOMAIN db' = DOMAIN db, DOMAIN db.associations \subseteq DOMAIN db'.associations,
           db'.units = db.units, db'.blocks = db.blocks, db'.assessmentRules = db.assessmentRules
    PROVE  PlacesKept(r)
  BY DEF PlacesInv, PlacesKept, PlacesOK, PlacesShown

\* A number of one to n that there is has a greatest.
LEMMA GreatestIn ==
    ASSUME NEW n \in Nat, NEW T \in SUBSET (1..n), T # {}
    PROVE  Sets!Max(T) \in T
<1> DEFINE U == {n - x : x \in T}
<1>1. U \in SUBSET Nat /\ U # {}
  <2>1. \A x \in T : n - x \in Nat
    OBVIOUS
  <2>2. PICK x \in T : TRUE
    OBVIOUS
  <2>3. n - x \in U
    OBVIOUS
  <2> QED
    BY <2>1, <2>3
<1>2. PICK m \in U : \A y \in U : m <= y
  BY <1>1, LeastOfNaturals, Zenon
<1>3. PICK x \in T : m = n - x
  BY <1>2
<1>4. \A y \in T : x >= y
  <2>1. \A y \in T : n - y \in U
    OBVIOUS
  <2> HIDE DEF U
  <2> QED
    BY <1>2, <1>3, <2>1
<1> HIDE DEF U
<1> QED
  BY <1>3, <1>4, Zenon DEF Sets!Max

\* An owner is of a unit of the workbook.
LEMMA OwnersInUnits ==
    ASSUME NEW b, _validate_primary_homeowners(b), NEW j \in DOMAIN b.owners
    PROVE  unit_key(b.owners[j]) \in unit_keys(b)
  BY DEF _validate_primary_homeowners

\* The people of a workbook live in units of it.
LEMMA ImportedHomes ==
    ASSUME NEW r \in Requests, body \in Workloads, body[r].op = "onboard", _validate_primary_homeowners(body[r])
    PROVE  \A k \in DOMAIN imported_people(r) :
              LET person == imported_people(r)[k]
              IN  /\ k[1] = r /\ {"association", "unit"} \subseteq DOMAIN person
                  /\ person.association = r
                  /\ \E i \in unit_rows(body[r]) : person.unit = <<r, i>>
<1> DEFINE b == body[r]
           owners == b.owners
           tenants == {j \in rented_out(b) : ~blank(owners[j].tenant_email)}
           first == [k \in {<<r, "owner", j>> : j \in DOMAIN owners} |->
                       resident(r, k[3], owners[k[3]].email, owners[k[3]].phone, "homeowner")]
           second == [k \in {<<r, "tenant", j>> : j \in tenants} |->
                        resident(r, k[3], owners[k[3]].tenant_email, owners[k[3]].tenant_phone, "tenant")]
<1>1. imported_people(r) = With(first, second)
  BY Zenon DEF imported_people
<1>2. Len(b.units) \in Nat /\ DOMAIN b.units = 1..Len(b.units)
  BY Payloads DEF Requests
<1>3. ASSUME NEW j \in DOMAIN owners
      PROVE  \E i \in unit_rows(b) : home(r, j) = <<r, i>>
  <2> DEFINE T == {i \in unit_rows(b) : unit_key(b.units[i]) = unit_key(owners[j])}
  <2>1. unit_key(owners[j]) \in unit_keys(b)
    BY OwnersInUnits
  <2>2. T # {} /\ T \in SUBSET (1..Len(b.units))
    BY <1>2, <2>1 DEF unit_keys, unit_rows
  <2> HIDE DEF T
  <2>3. Sets!Max(T) \in T
    BY <1>2, <2>2, GreatestIn
  <2>4. home(r, j) = <<r, Sets!Max(T)>>
    BY DEF home, unit_row, T
  <2> QED
    BY <2>3, <2>4 DEF T
<1>4. ASSUME NEW j \in DOMAIN owners, NEW email, NEW phone, NEW code
      PROVE  LET person == resident(r, j, email, phone, code)
             IN  /\ {"association", "unit"} \subseteq DOMAIN person /\ person.association = r
                 /\ \E i \in unit_rows(b) : person.unit = <<r, i>>
  <2>1. LET person == resident(r, j, email, phone, code)
        IN  {"association", "unit"} \subseteq DOMAIN person /\ person.association = r /\ person.unit = home(r, j)
    BY DEF resident
  <2> QED
    BY <1>3, <2>1
<1>5. tenants \subseteq DOMAIN owners
  BY DEF rented_out
<1> HIDE DEF owners, tenants
<1>6. ASSUME NEW k \in DOMAIN first
      PROVE  k[1] = r /\ k[3] \in DOMAIN owners
  BY <1>6
<1>7. ASSUME NEW k \in DOMAIN second
      PROVE  k[1] = r /\ k[3] \in DOMAIN owners
  BY <1>5, <1>7
<1>8. ASSUME NEW k \in DOMAIN first
      PROVE  LET person == first[k]
             IN  /\ {"association", "unit"} \subseteq DOMAIN person /\ person.association = r
                 /\ \E i \in unit_rows(b) : person.unit = <<r, i>>
  BY <1>4, <1>6
<1>9. ASSUME NEW k \in DOMAIN second
      PROVE  LET person == second[k]
             IN  /\ {"association", "unit"} \subseteq DOMAIN person /\ person.association = r
                 /\ \E i \in unit_rows(b) : person.unit = <<r, i>>
  BY <1>4, <1>7
<1> HIDE DEF first, second
<1>10. \A k \in DOMAIN imported_people(r) :
          \/ k \in DOMAIN first /\ imported_people(r)[k] = first[k]
          \/ k \in DOMAIN second /\ imported_people(r)[k] = second[k]
  BY <1>1 DEF With
<1> QED
  BY <1>6, <1>7, <1>8, <1>9, <1>10

\* What an onboarding writes.
LEMMA Onboarded ==
    ASSUME WatchedInv, PlacesInv, "people" \in DOMAIN db, NEW r \in Requests, Commits(r), onboard(r)
    PROVE  LET b == body[r]
               blocks == [k \in {<<r, key[1]>> : key \in unit_keys(b)} |-> [association |-> r, name |-> k[2]]]
           IN  /\ DOMAIN db' = DOMAIN db
               /\ \E a : db'.associations = With(db.associations, [k \in {r} |-> a])
               /\ db'.blocks = With(db.blocks, blocks)
               /\ \E unit : /\ \A i \in unit_rows(b) : unit[i].block = <<r, b.units[i].block>>
                            /\ db'.units = With(db.units, [k \in {<<r, i>> : i \in unit_rows(b)} |-> unit[k[2]]])
               /\ db'.people = With(db.people, imported_people(r))
               /\ db'.assessmentRules = db.assessmentRules
               /\ _validate_primary_homeowners(b)
<1> DEFINE b == body[r]
           blocks == [k \in {<<r, key[1]>> : key \in unit_keys(b)} |-> [association |-> r, name |-> k[2]]]
           home2(i) == [block |-> <<r, b.units[i].block>>, number |-> b.units[i].number,
                        floor |-> b.units[i].floor, rented |-> \E j \in rented_out(b) : home(r, j) = <<r, i>>]
           unit == [i \in unit_rows(b) |-> home2(i)]
           units == [k \in {<<r, i>> : i \in unit_rows(b)} |-> home2(k[2])]
           trial == IF b.plan = None THEN 0 ELSE seen[r].plans[b.plan].trial
           row == [plan |-> b.plan, status |-> "Active", payment |-> None,
                   start |-> IF b.plan = None THEN None ELSE now,
                   end |-> IF trial = 0 THEN None ELSE now + trial, end_date |-> None,
                   deleted |-> FALSE]
<1>1. /\ _validate_primary_homeowners(b)
      /\ \E l, t : Commit(r, [db EXCEPT !.associations = With(@, [k \in {r} |-> row]), !.blocks = With(@, blocks),
                                        !.units = With(@, units), !.people = With(@, imported_people(r)),
                                        !.logins = l, !.boardTerms = t])
  BY Decided, ZenonT(30) DEF onboard, Decide, WatchedInv
<1>2. units = [k \in {<<r, i>> : i \in unit_rows(b)} |-> unit[k[2]]]
  <2> HIDE DEF home2
  <2> QED
    OBVIOUS
<1>3. \A i \in unit_rows(b) : unit[i].block = <<r, b.units[i].block>>
  OBVIOUS
<1> HIDE DEF units, unit, blocks, row
<1>4. {"units", "blocks", "assessmentRules", "associations"} \subseteq DOMAIN db
  BY DEF PlacesInv, PlacesOK
<1>5. /\ DOMAIN db' = DOMAIN db
      /\ \E a : db'.associations = With(db.associations, [k \in {r} |-> a])
      /\ db'.blocks = With(db.blocks, blocks) /\ db'.units = With(db.units, units)
      /\ db'.people = With(db.people, imported_people(r)) /\ db'.assessmentRules = db.assessmentRules
  BY <1>1, <1>4, ZenonT(30) DEF Commit
<1>6. \E f : /\ \A i \in unit_rows(b) : f[i].block = <<r, b.units[i].block>>
             /\ db'.units = With(db.units, [k \in {<<r, i>> : i \in unit_rows(b)} |-> f[k[2]]])
  BY <1>2, <1>3, <1>5
<1> USE DEF blocks
<1> QED
  BY <1>1, <1>5, <1>6

LEMMA SameRules ==
    ASSUME NEW old, NEW new, NEW k, rules_of(new.assessmentRules, k) = rules_of(old.assessmentRules, k)
    PROVE  Unchanged(old, new, "rules", k) /\ (Together(old, "rules", k) => Together(new, "rules", k))
<1>1. \A tables : Together(tables, "rules", k) <=> \A o, p \in rules_of(tables.assessmentRules, k) : o = p
  BY TogetherIs
<1>2. Together(old, "rules", k) => Together(new, "rules", k)
  BY <1>1
<1>3. Unchanged(old, new, "rules", k)
  BY DEF Unchanged
<1> QED
  BY <1>2, <1>3

\* A person lives in a unit of the association, or in none.
LEMMA Housed ==
    ASSUME NEW tables, NEW k
    PROVE  Together(tables, "person", k) <=>
              tables.people[k].unit \in units_of(tables, tables.people[k].association) \cup {None}
  BY TogetherIs

\* It adds places, no rule, and people who live in its units.
LEMMA OnboardTogether ==
    ASSUME WatchedInv, PlacesInv, NEW r \in Requests, Commits(r), onboard(r)
    PROVE  PlacesKept(r) /\ KeptTogether(r, "rules") /\ KeptTogether(r, "person")
<1> DEFINE b == body[r]
           blocks == [k \in {<<r, key[1]>> : key \in unit_keys(b)} |-> [association |-> r, name |-> k[2]]]
<1>1. /\ {"units", "blocks", "assessmentRules", "associations", "people"} \subseteq DOMAIN db /\ body \in Workloads
      /\ \A w \in {"rules", "person"} : w \in DOMAIN Watched /\ HasColumns(db, w)
      /\ PlacesOK(db)
  BY DEF WatchedInv, PlacesInv, PlacesOK, Watched, HasColumns
<1>2. /\ r \notin DOMAIN db.associations
      /\ \A k \in DOMAIN db.people : k[1] # r
      /\ \A k \in DOMAIN db.units : k[1] # r
      /\ \A k \in DOMAIN db.blocks : k[1] # r
  BY <1>1 DEF WatchedInv, PlacesInv, Commits, Watched, Rows, KeyOf
<1>3. /\ DOMAIN db' = DOMAIN db /\ db'.assessmentRules = db.assessmentRules
      /\ \E a : db'.associations = With(db.associations, [k \in {r} |-> a])
      /\ db'.blocks = With(db.blocks, blocks)
      /\ \E unit : /\ \A i \in unit_rows(b) : unit[i].block = <<r, b.units[i].block>>
                   /\ db'.units = With(db.units, [k \in {<<r, i>> : i \in unit_rows(b)} |-> unit[k[2]]])
      /\ db'.people = With(db.people, imported_people(r))
      /\ _validate_primary_homeowners(b)
  BY <1>1, Onboarded, Zenon
<1>4. PICK unit : /\ \A i \in unit_rows(b) : unit[i].block = <<r, b.units[i].block>>
                  /\ db'.units = With(db.units, [k \in {<<r, i>> : i \in unit_rows(b)} |-> unit[k[2]]])
  BY <1>3
<1> DEFINE units == [k \in {<<r, i>> : i \in unit_rows(b)} |-> unit[k[2]]]
<1>5. /\ \A k \in DOMAIN blocks : k[1] = r /\ "association" \in DOMAIN blocks[k] /\ blocks[k].association = r
      /\ \A k \in DOMAIN units : k[1] = r
      /\ \A i \in unit_rows(b) : <<r, i>> \in DOMAIN units /\ units[<<r, i>>].block \in DOMAIN blocks
  <2>1. \A i \in unit_rows(b) : unit_key(b.units[i]) \in unit_keys(b) /\ unit_key(b.units[i])[1] = b.units[i].block
    BY DEF unit_keys, unit_key
  <2>2. \A i \in unit_rows(b) : <<r, b.units[i].block>> \in DOMAIN blocks
    BY <2>1
  <2> QED
    BY <1>4, <2>2
<1>6. \A k \in DOMAIN units : \E i \in unit_rows(b) : k = <<r, i>>
  BY Zenon
<1>7. db'.blocks = With(db.blocks, blocks) /\ db'.units = With(db.units, units)
  BY <1>3, <1>4
<1> HIDE DEF units, blocks
<1>8. /\ DOMAIN db'.associations = DOMAIN db.associations \cup {r}
      /\ DOMAIN db'.blocks = DOMAIN db.blocks \cup DOMAIN blocks /\ DOMAIN db'.units = DOMAIN db.units \cup DOMAIN units
      /\ \A k \in DOMAIN blocks : db'.blocks[k] = blocks[k]
      /\ \A k \in DOMAIN units : db'.units[k] = units[k]
      /\ \A k \in DOMAIN db.blocks : db'.blocks[k] = db.blocks[k]
      /\ \A k \in DOMAIN db.units : db'.units[k] = db.units[k]
  <2>1. DOMAIN db'.associations = DOMAIN db.associations \cup {r}
    BY <1>3 DEF With
  <2>2. DOMAIN db.blocks \cap DOMAIN blocks = {} /\ DOMAIN db.units \cap DOMAIN units = {}
    BY <1>2, <1>5
  <2>3. /\ DOMAIN db'.blocks = DOMAIN db.blocks \cup DOMAIN blocks
        /\ \A k \in DOMAIN blocks : db'.blocks[k] = blocks[k]
        /\ \A k \in DOMAIN db.blocks : db'.blocks[k] = db.blocks[k]
    BY <1>7, <2>2, Zenon DEF With
  <2>4. /\ DOMAIN db'.units = DOMAIN db.units \cup DOMAIN units
        /\ \A k \in DOMAIN units : db'.units[k] = units[k]
        /\ \A k \in DOMAIN db.units : db'.units[k] = db.units[k]
    BY <1>7, <2>2, Zenon DEF With
  <2> QED
    BY <2>1, <2>3, <2>4
<1>9. PlacesShown(db, db')
  BY <1>8 DEF PlacesShown
<1>10. PlacesOK(db')
  <2>1. \A u \in DOMAIN db'.units : db'.units[u].block \in DOMAIN db'.blocks
    BY <1>1, <1>5, <1>6, <1>8 DEF PlacesOK
  <2>2. \A k \in DOMAIN db'.blocks : "association" \in DOMAIN db'.blocks[k]
    BY <1>1, <1>5, <1>8 DEF PlacesOK
  <2> QED
    BY <1>1, <1>3, <1>8, <2>1, <2>2 DEF PlacesOK
<1>11. PlacesKept(r)
  BY <1>3, <1>5, <1>8, <1>9, <1>10 DEF PlacesKept
<1>12. KeptTogether(r, "rules")
  <2>1. \A k : rules_of(db'.assessmentRules, k) = rules_of(db.assessmentRules, k)
    BY <1>3, Zenon
  <2>2. rules_of(db'.assessmentRules, r) = {}
    BY <1>1, <1>2, <1>3 DEF rules_of, PlacesOK
  <2>3. HasColumns(db', "rules")
    BY <1>1, <1>3 DEF HasColumns, Watched, WatchedColumns
  <2>4. \A k : Unchanged(db, db', "rules", k) /\ (Together(db, "rules", k) => Together(db', "rules", k))
    BY <2>1, SameRules
  <2>5. Together(db', "rules", r)
    BY <2>2, TogetherIs
  <2> QED
    BY <1>8, <2>3, <2>4, <2>5 DEF KeptTogether, Rows, Watched, KeyOf
<1>13. KeptTogether(r, "person")
  <2> DEFINE people == imported_people(r)
  <2>1. \A k \in DOMAIN people : /\ k[1] = r /\ {"association", "unit"} \subseteq DOMAIN people[k]
                                 /\ people[k].association = r
                                 /\ \E i \in unit_rows(b) : people[k].unit = <<r, i>>
    <3>1. b.op = "onboard"
      BY Zenon DEF onboard, Asks
    <3> QED
      BY <1>1, <1>3, <3>1, ImportedHomes
  <2> HIDE DEF people
  <2>2. db'.people = With(db.people, people)
    BY <1>3 DEF people
  <2>3. /\ DOMAIN db'.people = DOMAIN db.people \cup DOMAIN people
        /\ \A k \in DOMAIN people : db'.people[k] = people[k]
        /\ \A k \in DOMAIN db.people : db'.people[k] = db.people[k]
    BY <1>2, <2>1, <2>2 DEF With
  <2>4. \A i \in unit_rows(b) : <<r, i>> \in units_of(db', r)
    BY <1>5, <1>8 DEF units_of
  <2>5. \A k \in DOMAIN people : Together(db', "person", k)
    BY <2>1, <2>3, <2>4, Housed
  <2>6. \A a : units_of(db, a) \subseteq units_of(db', a)
    BY <1>1, <1>9, UnitsStay
  <2>7. \A k \in DOMAIN db.people : Unchanged(db, db', "person", k) /\ (Together(db, "person", k) => Together(db', "person", k))
    BY <2>3, <2>6, Housed DEF Unchanged, Rows, Watched
  <2>8. HasColumns(db', "person")
    BY <1>1, <1>3, <2>1, <2>3 DEF HasColumns, Rows, Watched, WatchedColumns
  <2> QED
    BY <2>1, <2>3, <2>5, <2>7, <2>8 DEF KeptTogether, Rows, Watched, KeyOf
<1> QED
  BY <1>11, <1>12, <1>13

\* The rules of the settings: those there are take the amount, or one is added.
LEMMA SettledRules ==
    ASSUME WatchedInv, PlacesInv, NEW r \in Requests, Commits(r), update_settings(r)
    PROVE  PlacesKept(r) /\ KeptTogether(r, "rules") /\ DOMAIN db' = DOMAIN db
<1>1. /\ {"units", "blocks", "assessmentRules", "associations"} \subseteq DOMAIN db /\ PlacesOK(db)
      /\ "rules" \in DOMAIN Watched /\ r \notin DOMAIN db.assessmentRules
      /\ \A k \in DOMAIN seen[r].associations : k \in DOMAIN db.associations
  BY DEF WatchedInv, PlacesInv, PlacesOK, Watched, Commits, ShowsIt, Rows
<1>2. PICK x : x = body[r].association
  OBVIOUS
<1> DEFINE before == db.assessmentRules
           after == db'.assessmentRules
           rule == [association |-> x, amount |-> body[r].assessment]
           old == rules_of(before, x)
<1>3. /\ x \in DOMAIN seen[r].associations
      /\ DOMAIN db' = DOMAIN db /\ DOMAIN db'.associations = DOMAIN db.associations
      /\ db'.units = db.units /\ db'.blocks = db.blocks
      /\ \/ after = before
         \/ after = With(before, [k \in old |-> rule])
         \/ after = With(before, [k \in {r} |-> rule]) /\ rules_of(seen[r].assessmentRules, x) = {}
  <2> DEFINE y == body[r].association
             amount == [association |-> y, amount |-> body[r].assessment]
             rules == IF rules_of(seen[r].assessmentRules, y) # {}
                      THEN With(before, [k \in rules_of(before, y) |-> amount])
                      ELSE With(before, [k \in {r} |-> amount])
             new == IF body[r].assessment = None THEN before ELSE rules
             end == IF body[r].names_end THEN body[r].end_date ELSE db.associations[y].end_date
  <2>1. /\ association_exists(seen[r], y)
        /\ \E f : Commit(r, [db EXCEPT !.associations[y].end_date = end, !.assessmentRules = new, !.fineRules = f])
    BY Decided, ZenonT(30) DEF update_settings, Decide, WatchedInv
  <2> HIDE DEF end
  <2>2. /\ y \in DOMAIN seen[r].associations
        /\ DOMAIN db' = DOMAIN db /\ after = new
        /\ db'.units = db.units /\ db'.blocks = db.blocks /\ DOMAIN db'.associations = DOMAIN db.associations
    <3> HIDE DEF new
    <3> QED
      BY <1>1, <2>1 DEF Commit, association_exists, IsLive
  <2>3. \/ new = before
        \/ new = With(before, [k \in rules_of(before, y) |-> amount])
        \/ new = With(before, [k \in {r} |-> amount]) /\ rules_of(seen[r].assessmentRules, y) = {}
    BY Zenon
  <2> HIDE DEF new
  <2> QED
    BY <1>2, <2>2, <2>3
<1>4. rule.association = x
  OBVIOUS
<1> HIDE DEF rule
<1>5. HasColumns(db', "rules") /\ DOMAIN Rows(db', "rules") = DOMAIN Rows(db, "rules")
  BY <1>1, <1>3 DEF HasColumns, Watched, WatchedColumns, Rows
<1>6. CASE after = before \/ after = With(before, [k \in old |-> rule])
  <2>1. DOMAIN after = DOMAIN before /\ \A k \in DOMAIN before : after[k].association = before[k].association
    BY <1>4, <1>6 DEF With, rules_of
  <2>2. \A k : rules_of(after, k) = rules_of(before, k)
    BY <2>1 DEF rules_of
  <2>3. KeptTogether(r, "rules")
    BY <1>5, <2>2, SameRules DEF KeptTogether
  <2>4. PlacesKept(r)
    BY <1>1, <1>3, <2>1 DEF PlacesKept, PlacesOK, PlacesShown
  <2> QED
    BY <1>3, <2>3, <2>4
<1>7. CASE after = With(before, [k \in {r} |-> rule]) /\ rules_of(seen[r].assessmentRules, x) = {}
  <2>1. /\ DOMAIN after = DOMAIN before \cup {r} /\ after[r].association = x
        /\ \A k \in DOMAIN before : after[k] = before[k]
    BY <1>1, <1>4, <1>7 DEF With
  <2>2. \A k : k # x => rules_of(after, k) = rules_of(before, k)
    BY <1>1, <2>1 DEF rules_of
  <2>3. rules_of(after, x) \subseteq rules_of(before, x) \cup {r}
    BY <2>1 DEF rules_of
  <2>4. ASSUME Unchanged(seen[r], db, "rules", x)
        PROVE  Together(db', "rules", x)
    <3>1. rules_of(after, x) \subseteq {r}
      BY <1>7, <2>3, <2>4 DEF Unchanged
    <3> QED
      BY <3>1, TogetherIs
  <2>5. Rewrites(r, "rules", x)
    BY <1>2 DEF Rewrites, Rewriting, PathField, update_settings, Asks
  <2>6. Rewritten(r, "rules", x)
    BY <1>1, <1>3, <2>4, <2>5, EditsNow DEF Rewritten, Rows, Watched
  <2>7. KeptTogether(r, "rules")
    BY <1>5, <2>2, <2>6, SameRules DEF KeptTogether
  <2>8. PlacesKept(r)
    BY <1>1, <1>3, <2>1 DEF PlacesKept, PlacesOK, PlacesShown
  <2> QED
    BY <1>3, <2>7, <2>8
<1> QED
  BY <1>3, <1>6, <1>7

LEMMA LeftRules ==
    ASSUME WatchedInv, NEW r, DOMAIN db' = DOMAIN db, DOMAIN db'.associations = DOMAIN db.associations,
           db'.assessmentRules = db.assessmentRules
    PROVE  KeptTogether(r, "rules")
<1>1. \A k : rules_of(db'.assessmentRules, k) = rules_of(db.assessmentRules, k)
  BY Zenon
<1>2. HasColumns(db', "rules") /\ DOMAIN Rows(db', "rules") = DOMAIN Rows(db, "rules")
  BY DEF WatchedInv, HasColumns, Watched, WatchedColumns, Rows
<1> QED
  BY <1>1, <1>2, SameRules DEF KeptTogether

LEMMA OccupiedPlaces ==
    ASSUME WatchedInv, PlacesInv, NEW r \in Requests, Commits(r), set_unit_occupancy(r)
    PROVE  PlacesKept(r) /\ KeptTogether(r, "rules")
<1>1. {"units", "blocks", "assessmentRules", "associations"} \subseteq DOMAIN db /\ PlacesOK(db)
  BY DEF PlacesInv, PlacesOK
<1>2. PICK x : x = body[r].home
  OBVIOUS
<1>3. /\ DOMAIN db' = DOMAIN db /\ db'.associations = db.associations
      /\ db'.blocks = db.blocks /\ db'.assessmentRules = db.assessmentRules
      /\ db'.units = [db.units EXCEPT ![x].rented = body[r].rented]
  <2>1. Commit(r, [db EXCEPT !.units[body[r].home].rented = body[r].rented])
    BY Decided, Zenon DEF set_unit_occupancy, Decide, WatchedInv
  <2> QED
    BY <1>1, <1>2, <2>1 DEF Commit
<1>4. DOMAIN db'.units = DOMAIN db.units /\ \A u \in DOMAIN db.units : db'.units[u].block = db.units[u].block
  <2>1. \A u \in DOMAIN db.units : "block" \notin DOMAIN db.units[u] \/ db'.units[u].block = db.units[u].block
    BY <1>3
  <2> QED
    BY <1>3, <2>1
<1>5. PlacesKept(r)
  BY <1>1, <1>3, <1>4 DEF PlacesKept, PlacesOK, PlacesShown
<1> QED
  BY <1>3, <1>5, LeftRules

LEMMA PlacesTogether ==
    ASSUME WatchedInv, PlacesInv, NEW r \in Requests, Commits(r), Step(r)
    PROVE  PlacesKept(r) /\ KeptTogether(r, "rules")
<1>1. /\ {"units", "blocks", "assessmentRules", "associations"} \subseteq DOMAIN db
      /\ Sessions
  BY DEF PlacesInv, PlacesOK, WatchedInv
<1>2. DOMAIN db' = DOMAIN db /\ \A t \in DOMAIN db : db'[t] = db[t] \/ Touches(r, t)
  BY <1>1, Footprints
<1>3. CASE update_subscription(r)
  <2>1. \E new : Commit(r, [db EXCEPT !.associations = Save(@, seen[r].associations, body[r].association, new)])
    BY <1>1, <1>3, Decided, Zenon DEF update_subscription, Decide
  <2>2. /\ DOMAIN db'.associations = DOMAIN db.associations /\ db'.units = db.units /\ db'.blocks = db.blocks
        /\ db'.assessmentRules = db.assessmentRules
    BY <1>1, <2>1 DEF Commit, Save
  <2> QED
    BY <1>2, <2>2, LeftPlaces, LeftRules
<1>4. CASE onboard(r) \/ update_settings(r) \/ set_unit_occupancy(r)
  BY <1>4, OnboardTogether, SettledRules, OccupiedPlaces
<1>5. CASE ~OnboardingStep(r)
  <2>1. \A t \in {"units", "blocks", "assessmentRules", "associations"} : ~Touches(r, t)
    BY <1>5 DEF Touches, OnboardingStep
  <2>2. /\ db'.associations = db.associations /\ db'.units = db.units /\ db'.blocks = db.blocks
        /\ db'.assessmentRules = db.assessmentRules
    BY <1>1, <1>2, <2>1
  <2> QED
    BY <1>2, <2>2, LeftPlaces, LeftRules
<1> QED
  BY <1>3, <1>4, <1>5 DEF OnboardingStep

\* A person nobody moves stays housed, as places are only added.
LEMMA StaysHoused ==
    ASSUME PlacesInv, NEW r, PlacesKept(r), NEW k, Unchanged(db, db', "person", k)
    PROVE  Together(db, "person", k) => Together(db', "person", k)
<1>1. \A a : units_of(db, a) \subseteq units_of(db', a)
  BY UnitsStay DEF PlacesInv, PlacesKept
<1>2. db'.people[k].unit = db.people[k].unit /\ db'.people[k].association = db.people[k].association
  BY DEF Unchanged, Rows, Watched, WatchedColumns
<1> QED
  BY <1>1, <1>2, Housed

\* One person's row changes and keeps its columns.
LEMMA PersonKept ==
    ASSUME WatchedInv, PlacesInv, NEW r \in Requests, PlacesKept(r), NEW k,
           "people" \in DOMAIN db', DOMAIN db'.people = DOMAIN db.people,
           \A j \in DOMAIN db.people : j # k => db'.people[j] = db.people[j],
           k \in DOMAIN db.people => /\ {"association", "unit"} \subseteq DOMAIN db'.people[k]
                                     /\ Unchanged(db, db', "person", k) \/ Rewritten(r, "person", k)
    PROVE  KeptTogether(r, "person")
<1>1. HasColumns(db, "person")
  BY DEF WatchedInv, Watched
<1>2. HasColumns(db', "person") /\ DOMAIN Rows(db', "person") = DOMAIN Rows(db, "person")
      /\ DOMAIN Rows(db, "person") = DOMAIN db.people
  BY <1>1 DEF HasColumns, Watched, WatchedColumns, Rows
<1>3. \A j \in DOMAIN db.people : j # k => Unchanged(db, db', "person", j)
  BY DEF Unchanged, Watched, Rows
<1>4. \A j \in DOMAIN db.people : \/ Unchanged(db, db', "person", j) /\ (Together(db, "person", j) => Together(db', "person", j))
                                  \/ Rewritten(r, "person", j)
  BY <1>3, StaysHoused
<1> QED
  BY <1>2, <1>4 DEF KeptTogether

\* Who leaves the people.
LEMMA LeftPeople ==
    ASSUME WatchedInv, PlacesInv, NEW r \in Requests, PlacesKept(r), DOMAIN db' = DOMAIN db, db'.people = db.people
    PROVE  KeptTogether(r, "person")
<1>1. HasColumns(db, "person")
  BY DEF WatchedInv, Watched
<1>2. HasColumns(db', "person") /\ DOMAIN Rows(db', "person") = DOMAIN Rows(db, "person")
  BY <1>1 DEF HasColumns, Watched, WatchedColumns, Rows
<1>3. \A k : Unchanged(db, db', "person", k)
  BY DEF Unchanged, Watched, Rows
<1> QED
  BY <1>2, <1>3, StaysHoused DEF KeptTogether

LEMMA CreateUserTogether ==
    ASSUME WatchedInv, PlacesInv, NEW r \in Requests, PlacesKept(r), Commits(r), create_user(r)
    PROVE  KeptTogether(r, "person")
<1> DEFINE b == body[r]
           row == [email |-> b.email, phone |-> b.phone, role |-> b.role, association |-> b.association,
                   unit |-> b.home, code |-> "active", deleted |-> FALSE]
           k == <<r, "user", 1>>
<1>1. /\ b.home # None => b.home \in units_of(seen[r], b.association)
      /\ Commit(r, [db EXCEPT !.people = With(@, [x \in {k} |-> row])])
  BY Decided, ZenonT(30) DEF create_user, Decide, WatchedInv
<1>2. HasColumns(db, "person") /\ \A x \in DOMAIN db.people : x[1] # r
  BY DEF WatchedInv, Watched, Rows, KeyOf, Commits
<1>3. row.unit = b.home /\ row.association = b.association /\ {"association", "unit"} \subseteq DOMAIN row /\ k[1] = r
  OBVIOUS
<1> HIDE DEF row, k
<1>4. "people" \in DOMAIN db' /\ db'.people = With(db.people, [x \in {k} |-> row])
  BY <1>1, <1>2 DEF Commit, HasColumns, Watched
<1>5. /\ DOMAIN db'.people = DOMAIN db.people \cup {k} /\ db'.people[k] = row
      /\ \A x \in DOMAIN db.people : db'.people[x] = db.people[x]
  BY <1>2, <1>3, <1>4 DEF With
<1>6. b.home \in units_of(db', b.association) \cup {None}
  <2>1. units_of(seen[r], b.association) \subseteq units_of(db, b.association)
    BY UnitsStay DEF PlacesInv, Commits
  <2>2. units_of(db, b.association) \subseteq units_of(db', b.association)
    BY UnitsStay DEF PlacesInv, PlacesKept
  <2> QED
    BY <1>1, <2>1, <2>2
<1>7. Together(db', "person", k)
  BY <1>3, <1>5, <1>6, Housed
<1>8. \A x \in DOMAIN db.people : Unchanged(db, db', "person", x) /\ (Together(db, "person", x) => Together(db', "person", x))
  BY <1>5, StaysHoused DEF Unchanged, Rows, Watched
<1>9. HasColumns(db', "person")
  BY <1>2, <1>3, <1>4, <1>5 DEF HasColumns, Rows, Watched, WatchedColumns
<1> QED
  BY <1>3, <1>5, <1>7, <1>8, <1>9 DEF KeptTogether, Rows, Watched, KeyOf

LEMMA DeleteUserTogether ==
    ASSUME WatchedInv, PlacesInv, NEW r \in Requests, PlacesKept(r), Commits(r), delete_user(r)
    PROVE  KeptTogether(r, "person")
<1>1. PICK k : k = body[r].person
  OBVIOUS
<1> DEFINE before == db.people
           after == db'.people
           loaded == seen[r].people
<1>2. HasColumns(db, "person")
  BY DEF WatchedInv, Watched
<1>3. "people" \in DOMAIN db' /\ after = Delete(before, loaded, {k})
  <2>1. Commit(r, [db EXCEPT !.people = Delete(@, seen[r].people, {body[r].person})])
    BY Decided, Zenon DEF delete_user, Decide, WatchedInv
  <2> QED
    BY <1>1, <1>2, <2>1 DEF Commit, HasColumns, Watched
<1>4. k \in DOMAIN before => {"association", "unit"} \subseteq DOMAIN before[k]
  BY <1>2 DEF HasColumns, Watched, WatchedColumns, Rows
<1>5. /\ DOMAIN after = DOMAIN before
      /\ \A j \in DOMAIN before : j # k => after[j] = before[j]
      /\ k \in DOMAIN before => /\ DOMAIN after[k] = DOMAIN before[k]
                                /\ after[k].association = before[k].association /\ after[k].unit = before[k].unit
  <2> HIDE DEF before, after, loaded
  <2> QED
    BY <1>3, <1>4 DEF Delete, Mark
<1>6. k \in DOMAIN before => Unchanged(db, db', "person", k)
  BY <1>5 DEF Unchanged, Rows, Watched, WatchedColumns
<1> QED
  BY <1>3, <1>4, <1>5, <1>6, PersonKept

\* An edit names a unit of the association, or keeps both, or names an association and no unit.
LEMMA NamedUnit ==
    ASSUME NEW tables, NEW b, NEW person, NEW unit \in units_named(tables, b, person)
    PROVE  LET association == Given(b.association, person.association)
           IN  \/ b.association # None /\ b.home = None
               \/ unit \in units_of(tables, association)
               \/ unit = person.unit /\ association = person.association
<1>1. CASE b.home # None
  BY <1>1 DEF units_named, Given
<1>2. CASE b.home = None /\ b.association = None
  BY <1>2 DEF units_named, Given
<1> QED
  BY <1>1, <1>2

\* The person and the logins an edit writes.
EditedPerson(r, unit) ==
    LET b == body[r]
    IN  [seen[r].people[b.person] EXCEPT !.email = Given(b.email, @), !.phone = Given(b.phone, @),
                                         !.role = Given(b.role, @), !.unit = unit,
                                         !.association = Given(b.association, @)]

\* The login and the logins that an edit of a person writes.
EditedLogin(r, l) == [seen[r].logins[l] EXCEPT !.role = Given(body[r].role, @), !.email = Given(body[r].email, @)]

EditedLogins(r) ==
    [l \in DOMAIN db.logins |-> IF l \notin login_of(seen[r], body[r].person) THEN db.logins[l]
                               ELSE Changed(db.logins[l], seen[r].logins[l], EditedLogin(r, l))]

LEMMA UserCommits ==
    ASSUME Sessions, NEW r \in Requests, Commits(r), update_user(r)
    PROVE  LET b == body[r]
           IN  /\ b.op = "update_user" /\ b.person \in DOMAIN seen[r].people
               /\ b.role # None => role_exists(seen[r], b.role)
               /\ \E unit \in units_named(seen[r], b, seen[r].people[b.person]) :
                     Commit(r, [db EXCEPT !.people = Save(db.people, seen[r].people, b.person, EditedPerson(r, unit)),
                                          !.logins = EditedLogins(r)])
  BY Decided, ZenonT(60) DEF update_user, Decide, Asks, IsLive, active_role, EditedPerson, EditedLogins, EditedLogin

\* What it leaves in the two tables.
LEMMA UserWritten ==
    ASSUME Sessions, NEW r \in Requests, Commits(r), update_user(r), "people" \in DOMAIN db
    PROVE  LET b == body[r]
           IN  /\ b.op = "update_user" /\ b.person \in DOMAIN seen[r].people
               /\ b.role # None => role_exists(seen[r], b.role)
               /\ DOMAIN db' = DOMAIN db
               /\ "logins" \in DOMAIN db => db'.logins = EditedLogins(r)
               /\ \E unit \in units_named(seen[r], b, seen[r].people[b.person]) :
                     db'.people = Save(db.people, seen[r].people, b.person, EditedPerson(r, unit))
<1> DEFINE b == body[r]
           saved(unit) == Save(db.people, seen[r].people, b.person, EditedPerson(r, unit))
<1>1. /\ b.op = "update_user" /\ b.person \in DOMAIN seen[r].people
      /\ b.role # None => role_exists(seen[r], b.role)
      /\ \E unit \in units_named(seen[r], b, seen[r].people[b.person]) :
            Commit(r, [db EXCEPT !.people = saved(unit), !.logins = EditedLogins(r)])
  BY UserCommits, Zenon
<1> HIDE DEF saved
<1>2. PICK unit \in units_named(seen[r], b, seen[r].people[b.person]) :
         Commit(r, [db EXCEPT !.people = saved(unit), !.logins = EditedLogins(r)])
  BY <1>1
<1>3. /\ DOMAIN db' = DOMAIN db /\ db'.people = saved(unit)
      /\ "logins" \in DOMAIN db => db'.logins = EditedLogins(r)
  BY <1>2 DEF Commit
<1> QED
  BY <1>1, <1>3 DEF saved

LEMMA UpdateUserTogether ==
    ASSUME WatchedInv, PlacesInv, NEW r \in Requests, PlacesKept(r), Commits(r), update_user(r)
    PROVE  KeptTogether(r, "person")
<1>1. PICK k : k = body[r].person
  OBVIOUS
<1> DEFINE b == body[r]
           before == db.people
           after == db'.people
           loaded == seen[r].people
           association == Given(b.association, loaded[k].association)
<1>2. HasColumns(db, "person") /\ HasColumns(seen[r], "person") /\ body \in Workloads /\ "person" \in DOMAIN Watched
  BY DEF WatchedInv, Watched, Commits
<1>3. k \in DOMAIN loaded
  BY <1>1, <1>2, UserWritten, Zenon DEF WatchedInv, HasColumns, Watched
<1>4. PICK unit, wanted :
         /\ unit \in units_named(seen[r], b, loaded[k])
         /\ wanted = EditedPerson(r, unit) /\ "people" \in DOMAIN db' /\ after = Save(before, loaded, k, wanted)
  <2>1. "people" \in DOMAIN db
    BY <1>2 DEF HasColumns, Watched
  <2> QED
    BY <1>1, <2>1, UserWritten DEF WatchedInv
<1>5. /\ {"association", "unit"} \subseteq DOMAIN loaded[k]
      /\ k \in DOMAIN before => {"association", "unit"} \subseteq DOMAIN before[k]
  BY <1>2, <1>3 DEF HasColumns, Watched, WatchedColumns, Rows
<1>6. wanted.unit = unit /\ wanted.association = association
  BY <1>1, <1>4, <1>5 DEF EditedPerson
<1> HIDE DEF association
<1>7. /\ DOMAIN after = DOMAIN before
      /\ \A j \in DOMAIN before : j # k => after[j] = before[j]
      /\ k \in DOMAIN before =>
            /\ DOMAIN after[k] = DOMAIN before[k]
            /\ after[k].unit = IF unit # loaded[k].unit THEN unit ELSE before[k].unit
            /\ after[k].association = IF association # loaded[k].association THEN association ELSE before[k].association
  <2> HIDE DEF before, after, loaded
  <2> QED
    BY <1>4, <1>5, <1>6 DEF Save, Changed
<1>8. k \in DOMAIN before
  BY <1>2, <1>3 DEF WatchedInv, Commits, ShowsIt, Rows, Watched
<1>9. Rewrites(r, "person", k)
  BY <1>1, Zenon DEF Rewrites, Rewriting, PathField, update_user, Asks
<1>10. r \in EditsOf("person", k)'
  BY <1>2, <1>9, EditsNow
<1>11. ASSUME Unchanged(seen[r], db, "person", k), Together(db, "person", k)
       PROVE  Together(db', "person", k) \/ Excused("person", k)'
  <2>1. before[k].unit = loaded[k].unit /\ before[k].association = loaded[k].association
    BY <1>11 DEF Unchanged, Rows, Watched, WatchedColumns
  <2>2. after[k].unit = unit /\ after[k].association = association
    BY <1>7, <1>8, <2>1
  <2>3. \A a : units_of(seen[r], a) \subseteq units_of(db', a) /\ units_of(db, a) \subseteq units_of(db', a)
    BY UnitsStay, PlacesPass DEF PlacesInv, PlacesKept, Commits
  <2>4. CASE b.association # None /\ b.home = None
    <3>1. body' = body
      BY DEF Commits
    <3> QED
      BY <1>10, <2>4, <3>1 DEF Excused
  <2>5. CASE unit \in units_of(seen[r], association)
    BY <2>2, <2>3, <2>5, Housed
  <2>6. CASE unit = loaded[k].unit /\ association = loaded[k].association
    BY <1>11, <2>1, <2>2, <2>3, <2>6, Housed
  <2> QED
    BY <1>4, <2>4, <2>5, <2>6, NamedUnit DEF association
<1>12. Rewritten(r, "person", k)
  BY <1>3, <1>10, <1>11 DEF Rewritten, Rows, Watched
<1> QED
  BY <1>4, <1>5, <1>7, <1>12, PersonKept, Zenon

\* What an edit of a profile writes: t is the table of the person or employee, k the key there.
DetailsSaved(r, t, k, e, p) ==
    /\ t \in {"people", "employees"} /\ own_row(seen[r].logins[body[r].login]) = <<t, k>>
    /\ e = IF body[r].email # None THEN body[r].email ELSE db[t][k].email
    /\ db' = [[db EXCEPT ![t][k].email = e] EXCEPT ![t][k].phone = p]

LEMMA DetailsWritten ==
    ASSUME Sessions, NEW r \in Requests, Commits(r), update_user_details(r)
    PROVE  body[r].op = "update_user_details" /\ \E t, k, e, p : DetailsSaved(r, t, k, e, p)
<1> DEFINE own == own_row(seen[r].logins[body[r].login])
           email == Given(body[r].email, db[own[1]][own[2]].email)
<1>1. /\ body[r].op = "update_user_details"
      /\ \E p : Commit(r, [db EXCEPT ![own[1]][own[2]].email = email, ![own[1]][own[2]].phone = p])
  BY Decided, ZenonT(30) DEF update_user_details, Decide, Asks
<1>2. PICK t, k, e : t = own[1] /\ k = own[2] /\ e = email
  BY Zenon
<1>3. own = <<t, k>> /\ t \in {"people", "employees"}
  BY <1>2, Zenon DEF own_row
<1>4. e = IF body[r].email # None THEN body[r].email ELSE db[t][k].email
  BY <1>2, Zenon DEF Given
<1> HIDE DEF own, email
<1>5. \E p : db' = [[db EXCEPT ![t][k].email = e] EXCEPT ![t][k].phone = p]
  <2>1. PICK p : Commit(r, [db EXCEPT ![own[1]][own[2]].email = email, ![own[1]][own[2]].phone = p])
    BY <1>1
  <2>2. db' = [[db EXCEPT ![t][k].email = e] EXCEPT ![t][k].phone = p]
    BY <1>2, <2>1 DEF Commit
  <2> QED
    BY <2>2
<1>6. PICK p : DetailsSaved(r, t, k, e, p)
  BY <1>3, <1>4, <1>5, Zenon DEF DetailsSaved, own
<1>7. body[r].op = "update_user_details"
  BY <1>1
<1> QED
  BY <1>6, <1>7, Zenon

\* A profile changes the address and the number.
LEMMA DetailsTogether ==
    ASSUME WatchedInv, PlacesInv, NEW r \in Requests, PlacesKept(r), Commits(r), update_user_details(r)
    PROVE  KeptTogether(r, "person")
<1>1. Sessions
  BY DEF WatchedInv
<1>2. PICK t, k, e, p : DetailsSaved(r, t, k, e, p)
  BY <1>1, DetailsWritten
<1>3. db' = [[db EXCEPT ![t][k].email = e] EXCEPT ![t][k].phone = p]
  BY <1>2 DEF DetailsSaved
<1>5. HasColumns(db, "person")
  BY DEF WatchedInv, Watched
<1>6. "people" \in DOMAIN db /\ DOMAIN db' = DOMAIN db
  BY <1>3, <1>5 DEF HasColumns, Watched
<1>7. CASE t # "people"
  BY <1>3, <1>6, <1>7, LeftPeople
<1>8. CASE t = "people"
  <2>1. db'.people = [[db.people EXCEPT ![k].email = e] EXCEPT ![k].phone = p]
    BY <1>3, <1>6, <1>8
  <2>2. k \in DOMAIN db.people => {"association", "unit"} \subseteq DOMAIN db.people[k]
    BY <1>5 DEF HasColumns, Watched, WatchedColumns, Rows
  <2>3. /\ DOMAIN db'.people = DOMAIN db.people
        /\ \A j \in DOMAIN db.people : j # k => db'.people[j] = db.people[j]
        /\ k \in DOMAIN db.people => /\ DOMAIN db'.people[k] = DOMAIN db.people[k]
                                     /\ db'.people[k].association = db.people[k].association
                                     /\ db'.people[k].unit = db.people[k].unit
    BY <2>1, <2>2
  <2>4. k \in DOMAIN db.people => Unchanged(db, db', "person", k)
    BY <2>3 DEF Unchanged, Rows, Watched, WatchedColumns
  <2> QED
    BY <1>6, <2>2, <2>3, <2>4, PersonKept
<1> QED
  BY <1>7, <1>8

\* Who writes people.
WritesPeople(r) == create_user(r) \/ update_user(r) \/ delete_user(r) \/ update_user_details(r) \/ onboard(r)

\* Any other step leaves them.
LEMMA PeopleStay ==
    ASSUME Sessions, "people" \in DOMAIN db, NEW r \in Requests, Commits(r), Step(r), ~WritesPeople(r)
    PROVE  DOMAIN db' = DOMAIN db /\ db'.people = db.people
<1>1. DOMAIN db' = DOMAIN db /\ (db'.people = db.people \/ Touches(r, "people"))
  BY Footprints
<1>2. CASE create_employee(r) \/ update_employee(r)
  <2>1. \E e, l : Commit(r, [db EXCEPT !.employees = e, !.logins = l])
    <3>1. CASE create_employee(r)
      BY <3>1, Decided, ZenonT(30) DEF create_employee, Decide
    <3>2. CASE update_employee(r)
      <4>1. \E l : Commit(r, [db EXCEPT !.logins = l])
        BY <3>2, Decided, ZenonT(30) DEF update_employee, Decide
      <4>2. PICK l : Commit(r, [db EXCEPT !.logins = l])
        BY <4>1
      <4>3. [db EXCEPT !.logins = l] = [db EXCEPT !.employees = db.employees, !.logins = l]
        OBVIOUS
      <4> QED
        BY <4>2, <4>3
    <3> QED
      BY <1>2, <3>1, <3>2
  <2> QED
    BY <1>1, <2>1 DEF Commit
<1>3. CASE \/ create_vendor(r) \/ update_vendor(r) \/ delete_vendor(r)
           \/ create_bank_account(r) \/ update_bank_account(r) \/ delete_bank_account(r)
  <2>1. \E t : t \in {"vendors", "bankAccounts"} /\ \E rows : Commit(r, [db EXCEPT ![t] = rows])
    <3>1. CASE create_vendor(r) \/ update_vendor(r) \/ delete_vendor(r)
      <4>1. \E rows : Commit(r, [db EXCEPT !["vendors"] = rows])
        BY <3>1, Decided, ZenonT(30) DEF create_vendor, update_vendor, delete_vendor, Decide
      <4> QED
        BY <4>1
    <3>2. CASE create_bank_account(r) \/ update_bank_account(r) \/ delete_bank_account(r)
      <4>1. \E rows : Commit(r, [db EXCEPT !["bankAccounts"] = rows])
        BY <3>2, Decided, ZenonT(30) DEF create_bank_account, update_bank_account, delete_bank_account, Decide
      <4> QED
        BY <4>1
    <3> QED
      BY <1>3, <3>1, <3>2
  <2> QED
    BY <1>1, <2>1 DEF Commit
<1>4. CASE insert_record(r) \/ update_record(r) \/ delete_record(r)
  <2>1. \E rows : Commit(r, [db EXCEPT !.profileRecords = rows])
    BY <1>4, Decided, ZenonT(30) DEF insert_record, update_record, delete_record, ChangeRecord, Decide
  <2> QED
    BY <1>1, <2>1 DEF Commit
<1>5. CASE ~(DirectoryStep(r) \/ ProfileStep(r) \/ onboard(r))
  BY <1>1, <1>5 DEF Touches
<1> QED
  BY <1>2, <1>3, <1>4, <1>5 DEF DirectoryStep, ProfileStep, WritesPeople

LEMMA PeopleTogether ==
    ASSUME WatchedInv, PlacesInv, NEW r \in Requests, Commits(r), Step(r)
    PROVE  KeptTogether(r, "person")
<1>1. Sessions /\ "people" \in DOMAIN db /\ PlacesKept(r)
  BY PlacesTogether DEF WatchedInv, HasColumns, Watched
<1>2. CASE create_user(r) \/ update_user(r) \/ delete_user(r)
  BY <1>1, <1>2, CreateUserTogether, UpdateUserTogether, DeleteUserTogether
<1>3. CASE update_user_details(r)
  BY <1>1, <1>3, DetailsTogether
<1>4. CASE onboard(r)
  BY <1>4, OnboardTogether
<1>5. CASE ~WritesPeople(r)
  BY <1>1, <1>5, PeopleStay, LeftPeople
<1> QED
  BY <1>2, <1>3, <1>4, <1>5 DEF WritesPeople
-----------------------------------------------------------------------------
(* All that is watched                                                           *)

\* The columns that are written together, the places of people, the options of polls.
TogetherInv == WatchedInv /\ PlacesInv /\ PollsWell

LEMMA CommitTogether ==
    ASSUME TogetherInv, NEW r \in Requests, Commits(r), Step(r)
    PROVE  WatchedInv' /\ PlacesInv' /\ OptionsOwned(db)'
<1>1. Sessions
  BY DEF TogetherInv, WatchedInv
<1>2. \A w \in DOMAIN Watched : KeptTogether(r, w)
  <2>1. DOMAIN Watched = {"report", "statement", "request", "invoice", "event", "poll", "plan", "rules", "person"}
    BY DEF Watched
  <2>2. KeptTogether(r, "report") /\ KeptTogether(r, "statement") /\ KeptTogether(r, "request")
    BY ReportsTogether, StatementsTogether, TicketsTogether, Zenon DEF TogetherInv
  <2>3. KeptTogether(r, "invoice") /\ KeptTogether(r, "event") /\ KeptTogether(r, "plan")
    BY InvoicesTogether, EventsTogether, PlansTogether, Zenon DEF TogetherInv
  <2>4. KeptTogether(r, "poll") /\ KeptTogether(r, "rules") /\ KeptTogether(r, "person")
    BY PollsTogether, PlacesTogether, PeopleTogether, Zenon DEF TogetherInv
  <2> QED
    BY <2>1, <2>2, <2>3, <2>4
<1>3. WatchedInv'
  BY <1>2, CommitWatched DEF TogetherInv
<1>4. PlacesInv'
  BY <1>1, CommitPlaces, PlacesTogether DEF TogetherInv
<1>5. OptionsOwned(db)'
  BY PollsTogether DEF TogetherInv
<1> QED
  BY <1>3, <1>4, <1>5

LEMMA NextTogether == TogetherInv /\ [Next]_vars => TogetherInv'
<1> SUFFICES ASSUME TogetherInv, [Next]_vars PROVE TogetherInv'
  OBVIOUS
<1>1. Sessions /\ VotesInv'
  BY NextVotes DEF TogetherInv, WatchedInv, PollsWell
<1>2. CASE Idle
  <2>1. WatchedInv' /\ PlacesInv'
    BY <1>1, <1>2, IdleWatched, IdlePlaces DEF TogetherInv
  <2>2. OptionsOwned(db)'
    BY <1>2 DEF TogetherInv, PollsWell, OptionsOwned, Idle
  <2> QED
    BY <1>1, <2>1, <2>2 DEF TogetherInv, PollsWell
<1>3. ASSUME NEW r \in Requests, Commits(r), Step(r)
      PROVE  TogetherInv'
  BY <1>1, <1>3, CommitTogether DEF TogetherInv, PollsWell
<1> QED
  BY <1>1, <1>2, <1>3, StepCases

LEMMA InitTogether == Init => TogetherInv
<1>1. Init => OptionsOwned(db)
  BY OpeningOptions DEF Init
<1> QED
  BY <1>1, InitWatched, InitPlaces, InitVotes DEF TogetherInv, PollsWell

\* In every reachable state the columns that one edit writes together agree or an overlap of
\* edits is on record, a snapshot that differs from them has missed an edit, and a person's
\* unit, an option's poll and an account's heading are rows there are.
THEOREM TogetherInvariant == Spec => []TogetherInv
  BY InitTogether, NextTogether, PTL DEF Spec

\* What it says of each property.
LEMMA OneOrNone ==
    ASSUME NEW T, \A x, y \in T : x = y
    PROVE  Cardinality(T) <= 1
<1>1. CASE T = {}
  BY <1>1, FS_EmptySet
<1>2. CASE T # {}
  <2>1. PICK x \in T : TRUE
    BY <1>2
  <2>2. \A y \in T : y = x
    BY <2>1
  <2>3. T = {x}
    BY <2>1, <2>2
  <2>4. Cardinality({x}) = 1
    BY FS_Singleton, Zenon
  <2> QED
    BY <2>3, <2>4
<1> QED
  BY <1>1, <1>2

\* The options a voter sees come from one edit of the poll, unless two edits overlapped
\* (update_poll soft-deletes the options of its snapshot and adds its own).
THEOREM PollsStayWhole == Spec => []PollsWhole
<1>1. TogetherInv => PollsWhole
  <2> SUFFICES ASSUME TogetherInv, NEW p \in DOMAIN db.polls, ~Raced(On(<<"poll", p>>, {"update_poll"}))
               PROVE  Cardinality({MadeBy(o) : o \in poll_options(db, p)}) <= 1
    BY DEF PollsWhole
  <2>1. Together(db, "poll", p)
    BY DEF TogetherInv, WatchedInv, Settling, Excused, EditsOf, Rows, Watched, PathField, Rewriting
  <2>2. \A x, y \in {MadeBy(o) : o \in poll_options(db, p)} : x = y
    BY <2>1 DEF Together, Watched, MadeBy
  <2> QED
    BY <2>2, OneOrNone, Zenon
<1> QED
  BY <1>1, TogetherInvariant, PTL

\* A request mapped to a resident has the resident's unit and an association of either,
\* unless two mappings overlapped (map_service derives both from its snapshot).
THEOREM TicketsStayWhole == Spec => []TicketsWhole
<1>1. TogetherInv => TicketsWhole
  <2> SUFFICES ASSUME TogetherInv, NEW k \in DOMAIN db.serviceRequests
               PROVE  Mapped(db.serviceRequests[k]) \/ Raced(On(<<"request", k>>, {"map_service"}))
    BY DEF TicketsWhole
  <2>1. Settling("request", k)
    BY DEF TogetherInv, WatchedInv, Rows, Watched
  <2> QED
    BY <2>1 DEF Settling, Together, Excused, EditsOf, Watched, PathField, Rewriting
<1> QED
  BY <1>1, TogetherInvariant, PTL
-----------------------------------------------------------------------------
(* What statements replace whole, whatever overlapped: images, fines, sheets      *)

\* The images, the fines and the sheets of EditsWhole.
ImagesWell(tables) ==
    /\ \A k \in DOMAIN tables.images : /\ {"item", "deleted"} \subseteq DOMAIN tables.images[k]
                                       /\ tables.images[k].item \in DOMAIN tables.items
    /\ \A j, k \in Live(tables.images) : tables.images[j].item = tables.images[k].item => j[1] = k[1]

FinesWell(tables) ==
    \A j, k \in DOMAIN tables.fineRules :
        tables.fineRules[j].association = tables.fineRules[k].association => j[1] = k[1]

SheetsWell(tables) ==
    \A k \in DOMAIN tables.balanceSheets :
        "items" \in DOMAIN tables.balanceSheets[k] /\ validate_balanced(tables.balanceSheets[k].items)

LEMMA EditsParts ==
    ASSUME NEW tables
    PROVE  EditsWhole(tables) <=> /\ {"items", "images", "fineRules", "balanceSheets"} \subseteq DOMAIN tables
                                  /\ ImagesWell(tables) /\ FinesWell(tables) /\ SheetsWell(tables)
  BY DEF EditsWhole, ImagesWell, FinesWell, SheetsWell

\* What edits by statements leave whole; who has not committed has no item, and a snapshot
\* shows items there are.
EditsInv ==
    /\ Sessions /\ EditsWhole(db)
    /\ \A q \in Requests : stage[q] \in {"waiting", "open"} => q \notin DOMAIN db.items
    /\ \A q \in Requests : stage[q] = "open" => DOMAIN seen[q].items \subseteq DOMAIN db.items

LEMMA ImagesAdded ==
    ASSUME EditsInv, NEW r \in Requests, Commits(r), create_item(r)
    PROVE  ImagesWell(db')
<1> DEFINE new == new_images(r, r, body[r].images)
<1>1. \E row : Commit(r, [db EXCEPT !.items = With(@, [k \in {r} |-> row]), !.images = With(@, new)])
  BY Decided, ZenonT(30) DEF create_item, Decide, EditsInv
<1>2. PICK row : Commit(r, [db EXCEPT !.items = With(@, [k \in {r} |-> row]), !.images = With(@, new)])
  BY <1>1
<1>3. \A k \in DOMAIN new : k[1] = r /\ new[k] = [item |-> r, deleted |-> FALSE]
  BY DEF new_images
<1> HIDE DEF new
<1>4. {"items", "images"} \subseteq DOMAIN db /\ ImagesWell(db)
  BY EditsParts DEF EditsInv
<1>5. db'.items = With(db.items, [k \in {r} |-> row]) /\ db'.images = With(db.images, new)
  BY <1>2, <1>4 DEF Commit
<1>6. r \notin DOMAIN db.items
  BY DEF EditsInv, Commits
<1>7. /\ DOMAIN db.items \subseteq DOMAIN db'.items /\ r \in DOMAIN db'.items
      /\ DOMAIN db'.images = DOMAIN db.images \cup DOMAIN new
      /\ \A k \in DOMAIN new : db'.images[k] = [item |-> r, deleted |-> FALSE]
      /\ \A k \in DOMAIN db.images \ DOMAIN new : db'.images[k] = db.images[k]
  BY <1>3, <1>5 DEF With
<1>8. ASSUME NEW j \in Live(db'.images), NEW k \in Live(db'.images), db'.images[j].item = db'.images[k].item
      PROVE  j[1] = k[1]
  <2>1. CASE j \in DOMAIN new /\ k \in DOMAIN new
    BY <1>3, <2>1
  <2>2. CASE j \notin DOMAIN new /\ k \notin DOMAIN new
    BY <1>4, <1>7, <1>8, <2>2 DEF Live, IsLive, ImagesWell
  <2>3. CASE j \in DOMAIN new /\ k \notin DOMAIN new
    BY <1>4, <1>6, <1>7, <1>8, <2>3 DEF Live, IsLive, ImagesWell
  <2>4. CASE j \notin DOMAIN new /\ k \in DOMAIN new
    BY <1>4, <1>6, <1>7, <1>8, <2>4 DEF Live, IsLive, ImagesWell
  <2> QED
    BY <2>1, <2>2, <2>3, <2>4
<1> QED
  BY <1>4, <1>7, <1>8 DEF ImagesWell

LEMMA ImagesReplaced ==
    ASSUME EditsInv, NEW r \in Requests, Commits(r), update_item(r)
    PROVE  ImagesWell(db')
<1> DEFINE b == body[r]
           new == new_images(r, b.item, b.images)
           kept == Delete(db.images, db.images, images_of(db, b.item))
           items == [db.items EXCEPT ![b.item] = With(@, b.columns)]
           images == IF b.images = None THEN db.images ELSE With(kept, new)
<1>1. MayEditItem(seen[r], b.item, b.by) /\ Commit(r, [db EXCEPT !.items = items, !.images = images])
  BY Decided, ZenonT(30) DEF update_item, Decide, EditsInv
<1>2. {"items", "images"} \subseteq DOMAIN db /\ ImagesWell(db)
  BY EditsParts DEF EditsInv
<1>3. b.item \in DOMAIN db.items
  <2>1. b.item \in DOMAIN seen[r].items
    BY <1>1 DEF MayEditItem, _authorized_item, item_get, IsLive
  <2> QED
    BY <2>1 DEF EditsInv, Commits
<1>4. \A k \in DOMAIN new : k[1] = r /\ new[k] = [item |-> b.item, deleted |-> FALSE]
  BY DEF new_images
<1>5. /\ DOMAIN kept = DOMAIN db.images
      /\ \A k \in DOMAIN db.images : /\ kept[k].item = db.images[k].item /\ DOMAIN kept[k] = DOMAIN db.images[k]
                                     /\ k \in images_of(db, b.item) => kept[k].deleted
                                     /\ k \notin images_of(db, b.item) => kept[k] = db.images[k]
  <2> DEFINE old == images_of(db, b.item)
  <2>1. \A k \in old : ~db.images[k].deleted
    BY DEF images_of, Live, IsLive
  <2>2. \A k \in DOMAIN db.images : {"item", "deleted"} \subseteq DOMAIN db.images[k]
    BY <1>2 DEF ImagesWell
  <2> HIDE DEF old
  <2> QED
    BY <2>1, <2>2 DEF Delete, Mark
<1>6. \A k \in DOMAIN kept : ~kept[k].deleted => ~db.images[k].deleted /\ kept[k].item # b.item
  BY <1>5 DEF images_of, Live, IsLive
<1>7. db'.items = items /\ db'.images = images
  BY <1>1, <1>2 DEF Commit
<1> HIDE DEF new, kept
<1>8. DOMAIN db'.items = DOMAIN db.items
  BY <1>7
<1>9. CASE b.images = None
  BY <1>2, <1>7, <1>8, <1>9 DEF ImagesWell
<1>10. CASE b.images # None
  <2>1. db'.images = With(kept, new)
    BY <1>7, <1>10
  <2>2. /\ DOMAIN db'.images = DOMAIN db.images \cup DOMAIN new
        /\ \A k \in DOMAIN new : db'.images[k] = [item |-> b.item, deleted |-> FALSE]
        /\ \A k \in DOMAIN db.images \ DOMAIN new : db'.images[k] = kept[k]
    BY <1>4, <1>5, <2>1 DEF With
  <2>3. ASSUME NEW j \in Live(db'.images), NEW k \in Live(db'.images), db'.images[j].item = db'.images[k].item
        PROVE  j[1] = k[1]
    <3>1. CASE j \in DOMAIN new /\ k \in DOMAIN new
      BY <1>4, <3>1
    <3>2. CASE j \notin DOMAIN new /\ k \notin DOMAIN new
      BY <1>2, <1>5, <1>6, <2>2, <2>3, <3>2 DEF Live, IsLive, ImagesWell
    <3>3. CASE j \in DOMAIN new /\ k \notin DOMAIN new
      BY <1>5, <1>6, <2>2, <2>3, <3>3 DEF Live, IsLive
    <3>4. CASE j \notin DOMAIN new /\ k \in DOMAIN new
      BY <1>5, <1>6, <2>2, <2>3, <3>4 DEF Live, IsLive
    <3> QED
      BY <3>1, <3>2, <3>3, <3>4
  <2> QED
    BY <1>2, <1>3, <1>5, <1>8, <2>2, <2>3 DEF ImagesWell
<1> QED
  BY <1>9, <1>10

LEMMA ItemsGrow ==
    ASSUME Sessions, EditsWhole(db), NEW r \in Requests, Commits(r), Step(r)
    PROVE  DOMAIN db.items \subseteq DOMAIN db'.items /\ DOMAIN db'.items \subseteq DOMAIN db.items \cup {r}
<1>1. "items" \in DOMAIN db
  BY DEF EditsWhole
<1>2. CASE ~MarketStep(r)
  BY <1>1, <1>2, Footprints DEF Touches
<1>3. CASE create_item(r)
  <2>1. PICK row, images : Commit(r, [db EXCEPT !.items = With(@, [k \in {r} |-> row]), !.images = images])
    BY <1>3, Decided, ZenonT(30) DEF create_item, Decide
  <2> QED
    BY <1>1, <2>1 DEF Commit, With
<1>4. CASE update_item(r)
  <2> DEFINE b == body[r]
             items == [db.items EXCEPT ![b.item] = With(@, b.columns)]
             kept == Delete(db.images, db.images, images_of(db, b.item))
             images == IF b.images = None THEN db.images ELSE With(kept, new_images(r, b.item, b.images))
  <2>1. Commit(r, [db EXCEPT !.items = items, !.images = images])
    BY <1>4, Decided, ZenonT(30) DEF update_item, Decide
  <2> HIDE DEF images
  <2> QED
    BY <1>1, <2>1 DEF Commit
<1>5. CASE delete_item(r)
  <2>1. Commit(r, [db EXCEPT !.items = [@ EXCEPT ![body[r].item].deleted = TRUE]])
    BY <1>5, Decided, Zenon DEF delete_item, Decide
  <2> QED
    BY <1>1, <2>1 DEF Commit
<1>6. CASE add_report(r)
  <2>1. \E reports : Commit(r, [db EXCEPT !.reports = reports])
    BY <1>6, Decided, Zenon DEF add_report, Decide
  <2> QED
    BY <1>1, <2>1 DEF Commit
<1>7. CASE toggle_favorite(r) \/ record_view(r) \/ send_chat(r)
  <2>1. PICK written : Handles(r, written) /\ "items" \notin written
    BY <1>7, ItemsTell, FavoritesWrite, ViewsWrite
  <2> QED
    BY <1>1, <2>1, HandlesFrame DEF Leaves
<1> QED
  BY <1>2, <1>3, <1>4, <1>5, <1>6, <1>7 DEF MarketStep

LEMMA ImagesKept ==
    ASSUME EditsInv, NEW r \in Requests, Commits(r), Step(r)
    PROVE  ImagesWell(db')
<1>1. Sessions /\ {"items", "images"} \subseteq DOMAIN db /\ ImagesWell(db)
  BY EditsParts DEF EditsInv
<1>2. ASSUME db'.images = db.images, DOMAIN db.items \subseteq DOMAIN db'.items PROVE ImagesWell(db')
  BY <1>1, <1>2 DEF ImagesWell
<1>3. CASE ~MarketStep(r)
  <2>1. db'.images = db.images /\ db'.items = db.items
    BY <1>1, <1>3, Footprints DEF Touches
  <2> QED
    BY <1>2, <2>1
<1>4. CASE create_item(r) \/ update_item(r)
  BY <1>4, ImagesAdded, ImagesReplaced
<1>5. CASE delete_item(r)
  <2>1. Commit(r, [db EXCEPT !.items = [@ EXCEPT ![body[r].item].deleted = TRUE]])
    BY <1>1, <1>5, Decided, Zenon DEF delete_item, Decide
  <2> QED
    BY <1>1, <1>2, <2>1 DEF Commit
<1>6. CASE add_report(r)
  <2>1. \E reports : Commit(r, [db EXCEPT !.reports = reports])
    BY <1>1, <1>6, Decided, Zenon DEF add_report, Decide
  <2> QED
    BY <1>1, <1>2, <2>1 DEF Commit
<1>7. CASE toggle_favorite(r) \/ record_view(r) \/ send_chat(r)
  <2>1. PICK written : Handles(r, written) /\ written \cap {"items", "images"} = {}
    <3>1. CASE send_chat(r)
      <4>1. Handles(r, {"chat", "frames", "notifications"})
        BY <3>1, ItemsTell
      <4> QED
        BY <4>1
    <3> QED
      BY <1>7, <3>1, FavoritesWrite, ViewsWrite
  <2> QED
    BY <1>1, <1>2, <2>1, HandlesFrame DEF Leaves
<1> QED
  BY <1>3, <1>4, <1>5, <1>6, <1>7 DEF MarketStep

LEMMA FinesKept ==
    ASSUME Sessions, EditsWhole(db), NEW r \in Requests, Commits(r), Step(r)
    PROVE  FinesWell(db')
<1>1. "fineRules" \in DOMAIN db /\ FinesWell(db)
  BY EditsParts
<1>2. ASSUME db'.fineRules = db.fineRules PROVE FinesWell(db')
  BY <1>1, <1>2 DEF FinesWell
<1>3. CASE ~(update_settings(r) \/ set_unit_occupancy(r) \/ update_subscription(r))
  BY <1>1, <1>2, <1>3, Footprints DEF Touches
<1>4. CASE set_unit_occupancy(r)
  <2>1. \E units : Commit(r, [db EXCEPT !.units = units])
    BY <1>4, Decided, Zenon DEF set_unit_occupancy, Decide
  <2> QED
    BY <1>1, <1>2, <2>1 DEF Commit
<1>5. CASE update_subscription(r)
  <2>1. \E associations : Commit(r, [db EXCEPT !.associations = associations])
    BY <1>5, Decided, Zenon DEF update_subscription, Decide
  <2> QED
    BY <1>1, <1>2, <2>1 DEF Commit
<1>6. CASE update_settings(r)
  <2> DEFINE b == body[r]
             old == rules_of(db.fineRules, b.association)
             kept == [k \in DOMAIN db.fineRules \ old |-> db.fineRules[k]]
             new == [k \in {<<r, i>> : i \in DOMAIN b.fines} |->
                        [association |-> b.association, type |-> b.fines[k[2]]]]
             fines == With(kept, new)
  <2>1. \E a, rules : Commit(r, [db EXCEPT !.associations = a, !.assessmentRules = rules,
                                           !.fineRules = IF b.names_fines THEN fines ELSE @])
    <3>1. \E end, rules : Commit(r, [db EXCEPT !.associations[b.association].end_date = end, !.assessmentRules = rules,
                                               !.fineRules = IF b.names_fines THEN fines ELSE @])
      BY <1>6, Decided, ZenonT(30) DEF update_settings, Decide
    <3> QED
      BY <3>1, Zenon
  <2>2. db'.fineRules = db.fineRules \/ db'.fineRules = fines
    BY <1>1, <2>1 DEF Commit
  <2>3. \A k \in DOMAIN new : k[1] = r /\ new[k].association = b.association
    OBVIOUS
  <2>4. \A k \in DOMAIN kept : k \in DOMAIN db.fineRules /\ kept[k] = db.fineRules[k] /\ kept[k].association # b.association
    BY DEF rules_of
  <2> HIDE DEF kept, new
  <2>5. /\ DOMAIN fines = DOMAIN kept \cup DOMAIN new
        /\ \A k \in DOMAIN new : fines[k] = new[k]
        /\ \A k \in DOMAIN kept \ DOMAIN new : fines[k] = kept[k]
    BY <2>3, <2>4 DEF With
  <2> HIDE DEF fines
  <2>6. ASSUME NEW j \in DOMAIN fines, NEW k \in DOMAIN fines, fines[j].association = fines[k].association
        PROVE  j[1] = k[1]
    <3>1. CASE j \in DOMAIN new /\ k \in DOMAIN new
      BY <2>3, <3>1
    <3>2. CASE j \notin DOMAIN new /\ k \notin DOMAIN new
      BY <1>1, <2>4, <2>5, <2>6, <3>2 DEF FinesWell
    <3> QED
      BY <2>3, <2>4, <2>5, <2>6, <3>1, <3>2
  <2> QED
    BY <1>2, <2>2, <2>6 DEF FinesWell
<1> QED
  BY <1>3, <1>4, <1>5, <1>6

LEMMA SheetAdded ==
    ASSUME Sessions, EditsWhole(db), NEW r \in Requests, Commits(r), NEW accepted, NEW items, NEW health,
           CreateBalanceSheet(r, accepted, items, health)
    PROVE  SheetsWell(db')
<1> DEFINE row == [association |-> body[r].association, on |-> body[r].on, health |-> health, items |-> items]
<1>1. validate_balanced(items) /\ Commit(r, [db EXCEPT !.balanceSheets = With(@, [k \in {r} |-> row])])
  BY Decided, Zenon DEF CreateBalanceSheet, Decide
<1>2. "items" \in DOMAIN row /\ row.items = items
  OBVIOUS
<1> HIDE DEF row
<1>3. "balanceSheets" \in DOMAIN db /\ SheetsWell(db)
  BY EditsParts
<1>4. db'.balanceSheets = With(db.balanceSheets, [k \in {r} |-> row])
  BY <1>1, <1>3 DEF Commit
<1> QED
  BY <1>1, <1>2, <1>3, <1>4 DEF With, SheetsWell

LEMMA SheetReplaced ==
    ASSUME Sessions, EditsWhole(db), NEW r \in Requests, Commits(r), update_balance_sheet(r)
    PROVE  SheetsWell(db')
<1> DEFINE x == body[r].balance_sheet
           items == body[r].items
           table == db.balanceSheets
<1>1. validate_balanced(items)
      /\ \E new : Commit(r, [db EXCEPT !.balanceSheets = [Save(table, seen[r].balanceSheets, x, new) EXCEPT ![x].items = items]])
  BY Decided, ZenonT(30) DEF update_balance_sheet, Decide
<1>2. PICK new : Commit(r, [db EXCEPT !.balanceSheets = [Save(table, seen[r].balanceSheets, x, new) EXCEPT ![x].items = items]])
  BY <1>1
<1> DEFINE saved == Save(table, seen[r].balanceSheets, x, new)
<1>3. "balanceSheets" \in DOMAIN db /\ SheetsWell(db)
  BY EditsParts
<1>4. db'.balanceSheets = [saved EXCEPT ![x].items = items]
  BY <1>2, <1>3 DEF Commit
<1>5. /\ DOMAIN saved = DOMAIN table
      /\ \A j \in DOMAIN table : j # x => saved[j] = table[j]
      /\ x \in DOMAIN table => DOMAIN saved[x] = DOMAIN table[x]
  BY DEF Save, Changed
<1> HIDE DEF saved
<1> QED
  BY <1>1, <1>3, <1>4, <1>5 DEF SheetsWell

LEMMA SheetsKept ==
    ASSUME Sessions, EditsWhole(db), NEW r \in Requests, Commits(r), Step(r)
    PROVE  SheetsWell(db')
<1>1. "balanceSheets" \in DOMAIN db /\ SheetsWell(db)
  BY EditsParts
<1>2. ASSUME db'.balanceSheets = db.balanceSheets PROVE SheetsWell(db')
  BY <1>1, <1>2 DEF SheetsWell
<1>3. CASE ~StatementStep(r)
  BY <1>1, <1>2, <1>3, Footprints DEF Touches
<1>4. CASE create_balance_sheet(r)
  BY <1>4, SheetAdded, Zenon DEF create_balance_sheet
<1>5. CASE import_workbook(r)
  <2>1. \E accepted, items, health : CreateBalanceSheet(r, accepted, items, health)
    BY <1>5, Decided, Zenon DEF import_workbook
  <2> QED
    BY <2>1, SheetAdded
<1>6. CASE update_balance_sheet(r)
  BY <1>6, SheetReplaced
<1>7. CASE \/ upload_global(r) \/ map_global(r) \/ add_association(r) \/ update_association(r) \/ delete_association(r)
           \/ create_income_statement(r) \/ update_income_statement(r) \/ import_income_statement(r)
  <2>1. Handles(r, {"globalChart", "chart", "incomeStatements"})
    BY <1>7, ZenonT(60) DEF upload_global, map_global, add_association, update_association, delete_association,
       create_income_statement, update_income_statement, import_income_statement, SaveNew, Decide, Handles, Leaves
  <2> QED
    BY <1>1, <1>2, <2>1, HandlesFrame DEF Leaves
<1> QED
  BY <1>3, <1>4, <1>5, <1>6, <1>7 DEF StatementStep

LEMMA IdleEdits == EditsInv /\ Idle => EditsInv'
<1> SUFFICES ASSUME EditsInv, Idle PROVE EditsInv'
  OBVIOUS
<1>1. Requests' = Requests /\ db' = db
  BY DEF Idle, Requests
<1>2. Sessions'
  BY StepSessions DEF EditsInv
<1>3. ASSUME NEW q \in Requests
      PROVE  /\ stage'[q] \in {"waiting", "open"} => q \notin DOMAIN db.items
             /\ stage'[q] = "open" => DOMAIN seen'[q].items \subseteq DOMAIN db.items
  BY DEF EditsInv, Idle
<1> QED
  BY <1>1, <1>2, <1>3 DEF EditsInv

LEMMA CommitEdits ==
    ASSUME EditsInv, NEW r \in Requests, Commits(r), Step(r)
    PROVE  EditsInv'
<1>1. Sessions /\ EditsWhole(db) /\ Requests' = Requests
  BY DEF EditsInv, Commits, Requests
<1>2. DOMAIN db' = DOMAIN db /\ {"items", "images", "fineRules", "balanceSheets"} \subseteq DOMAIN db
  BY <1>1, Footprints, EditsParts
<1>3. EditsWhole(db')
  BY <1>1, <1>2, ImagesKept, FinesKept, SheetsKept, EditsParts
<1>4. Sessions'
  BY <1>1, StepSessions
<1>5. DOMAIN db.items \subseteq DOMAIN db'.items /\ DOMAIN db'.items \subseteq DOMAIN db.items \cup {r}
  BY <1>1, ItemsGrow
<1>6. ASSUME NEW q \in Requests
      PROVE  /\ stage'[q] \in {"waiting", "open"} => q \notin DOMAIN db'.items
             /\ stage'[q] = "open" => DOMAIN seen'[q].items \subseteq DOMAIN db'.items
  <2>1. CASE q = r
    BY <2>1 DEF Commits, Committed
  <2>2. CASE q # r
    BY <1>5, <2>2 DEF EditsInv, Commits
  <2> QED
    BY <2>1, <2>2
<1> QED
  BY <1>1, <1>3, <1>4, <1>6 DEF EditsInv

LEMMA NextEdits == EditsInv /\ [Next]_vars => EditsInv'
<1> SUFFICES ASSUME EditsInv, [Next]_vars PROVE EditsInv'
  OBVIOUS
<1>1. Sessions
  BY DEF EditsInv
<1> QED
  BY <1>1, IdleEdits, CommitEdits, StepCases

LEMMA ItemsAreTold == "item" \in DOMAIN ToldTables /\ ToldTables["item"] = "items"
  BY DEF ToldTables

\* In every reachable state the live images of an item and the fines of an association come
\* from one request each and a balance sheet balances: their edits delete by a statement
\* what is there, not what they read.
THEOREM EditsInvariant == Spec => []EditsInv
<1>1. Init => EditsInv
  <2> SUFFICES ASSUME Init PROVE EditsInv
    OBVIOUS
  <2>1. Sessions /\ db = OpeningTables /\ body \in Workloads /\ \A q \in Requests : stage[q] = "waiting"
    BY InitSessions DEF Init
  <2>2. \A q \in Requests : q \notin DOMAIN db.items
    BY <2>1, OpeningTold, ItemsAreTold DEF Requests
  <2> QED
    BY <2>1, <2>2, OpeningEdits DEF EditsInv
<1> QED
  BY <1>1, NextEdits, PTL DEF Spec

\* The images a buyer sees of an item come from one edit, whatever overlapped (update_item).
THEOREM ImagesStayWhole == Spec => []ImagesWhole
<1>1. EditsInv => ImagesWhole
  <2> SUFFICES ASSUME EditsWhole(db), NEW i \in DOMAIN db.items
               PROVE  Cardinality({MadeBy(k) : k \in images_of(db, i)}) <= 1
    BY DEF ImagesWhole, EditsInv
  <2>1. \A j, k \in images_of(db, i) : j[1] = k[1]
    BY EditsParts DEF ImagesWell, images_of
  <2>2. \A x, y \in {MadeBy(k) : k \in images_of(db, i)} : x = y
    BY <2>1 DEF MadeBy
  <2> QED
    BY <2>2, OneOrNone, Zenon
<1> QED
  BY <1>1, EditsInvariant, PTL
-----------------------------------------------------------------------------
(* The amounts of invoices: an invoice takes lines once, as the unique key of    *)
(* their order has it, and its totals with them                                   *)

\* The columns that lines are added up in.
TotalColumns == {"subtotal", "discount", "tax", "grand_total"}

\* Two rows of one invoice agree in them.
SameSums(row, other) == \A c \in TotalColumns : row[c] = other[c]

\* A snapshot shows lines there are, and the totals that were there before them.
ShowsAmounts(tables) ==
    /\ {"invoices", "invoiceLines"} \subseteq DOMAIN tables
    /\ \A k \in DOMAIN tables.invoiceLines :
          k \in DOMAIN db.invoiceLines /\ tables.invoiceLines[k] = db.invoiceLines[k]
    /\ \A i \in DOMAIN tables.invoices :
          /\ i \in DOMAIN db.invoices /\ TotalColumns \subseteq DOMAIN tables.invoices[i]
          /\ SameSums(tables.invoices[i], db.invoices[i]) \/ lines_of(db, i) # {}

\* Invoices and lines are well, the lines of a request are there once it has committed, and
\* a snapshot shows what ShowsAmounts says.
AmountsInv ==
    /\ AmountsOK(db)
    /\ \A q \in Requests : stage[q] \in {"waiting", "open"} => \A k \in DOMAIN db.invoiceLines : k[1] # q
    /\ \A q \in Requests : stage[q] = "open" => ShowsAmounts(seen[q])

\* What a commit does to lines and totals.
AmountsKept(r) ==
    /\ AmountsOK(db')
    /\ \A k \in DOMAIN db.invoiceLines : k \in DOMAIN db'.invoiceLines /\ db'.invoiceLines[k] = db.invoiceLines[k]
    /\ \A k \in DOMAIN db'.invoiceLines \ DOMAIN db.invoiceLines : k[1] = r
    /\ \A i \in DOMAIN db.invoices :
          /\ i \in DOMAIN db'.invoices /\ (SameSums(db.invoices[i], db'.invoices[i]) \/ lines_of(db', i) # {})
          /\ lines_of(db, i) # {} => lines_of(db', i) = lines_of(db, i) /\ SameSums(db.invoices[i], db'.invoices[i])

LEMMA CommitAmounts ==
    ASSUME Sessions, AmountsInv, NEW r \in Requests, Commits(r), AmountsKept(r)
    PROVE  AmountsInv'
<1>1. Requests' = Requests
  BY DEF Commits, Requests
<1>2. \A q \in Requests : stage'[q] \in {"waiting", "open"} => q # r /\ stage'[q] = stage[q] /\ seen'[q] = seen[q]
  BY DEF Commits, Committed
<1>3. ASSUME NEW q \in Requests, stage'[q] \in {"waiting", "open"}
      PROVE  \A k \in DOMAIN db'.invoiceLines : k[1] # q
  BY <1>2, <1>3 DEF AmountsInv, AmountsKept
<1>4. \A i \in DOMAIN db.invoices : lines_of(db, i) # {} => lines_of(db', i) # {}
  BY DEF AmountsKept, lines_of
<1>5. ASSUME NEW q \in Requests, stage'[q] = "open"
      PROVE  ShowsAmounts(seen[q])'
  <2>1. ShowsAmounts(seen[q]) /\ seen'[q] = seen[q]
    BY <1>2, <1>5 DEF AmountsInv
  <2> QED
    BY <1>4, <2>1 DEF ShowsAmounts, AmountsKept, SameSums
<1> QED
  BY <1>1, <1>3, <1>5 DEF AmountsInv, AmountsKept

LEMMA IdleAmounts ==
    ASSUME Sessions, AmountsInv, Idle
    PROVE  AmountsInv'
<1>1. Requests' = Requests /\ db' = db
  BY DEF Idle, Requests
<1>2. ShowsAmounts(db)
  BY DEF ShowsAmounts, SameSums, AmountsInv, AmountsOK, TotalColumns
<1>3. ASSUME NEW q \in Requests, stage'[q] = "open"
      PROVE  ShowsAmounts(seen[q])'
  <2>1. ShowsAmounts(seen'[q])
    BY <1>2, <1>3 DEF AmountsInv, Idle
  <2> QED
    BY <1>1, <2>1 DEF ShowsAmounts
<1> QED
  BY <1>1, <1>3 DEF AmountsInv, Idle

LEMMA InitAmounts == Init => AmountsInv
<1> SUFFICES ASSUME Init PROVE AmountsInv
  OBVIOUS
<1>1. db = OpeningTables /\ body \in Workloads /\ \A q \in Requests : stage[q] = "waiting"
  BY DEF Init
<1> QED
  BY <1>1, OpeningAmounts DEF AmountsInv, Requests

\* An invoice keeps its amounts with its lines and totals.
LEMMA StaysItemised ==
    ASSUME NEW old, NEW new, NEW i, SameSums(old.invoices[i], new.invoices[i]),
           lines_of(new, i) = lines_of(old, i), \A k \in lines_of(old, i) : new.invoiceLines[k] = old.invoiceLines[k],
           Itemised(old, i)
    PROVE  Itemised(new, i)
<1> DEFINE lines == lines_of(old, i)
<1>1. [k \in lines |-> old.invoiceLines[k].amount] = [k \in lines_of(new, i) |-> new.invoiceLines[k].amount]
  OBVIOUS
<1> QED
  BY <1>1 DEF Itemised, SameSums, TotalColumns

\* The lines of a request are of the invoice, one of them the first, and their amounts are
\* those that make up its subtotal.
LEMMA NewLines ==
    ASSUME body \in Workloads, NEW r \in Requests, body[r].op \in {"create_invoice", "update_invoice"},
           body[r].lines # <<>>, NEW i
    PROVE  /\ DOMAIN build_lines(r, i) # {}
           /\ \A k \in DOMAIN build_lines(r, i) : /\ k[1] = r /\ build_lines(r, i)[k].invoice = i
                                                  /\ {"invoice", "order"} \subseteq DOMAIN build_lines(r, i)[k]
           /\ \E k \in DOMAIN build_lines(r, i) : build_lines(r, i)[k].order = 1
           /\ 1 \in DOMAIN body[r].lines
<1> DEFINE n == Len(body[r].lines)
<1>1. n \in Nat /\ DOMAIN body[r].lines = 1..n
  BY Payloads DEF Requests
<1>2. n # 0
  <2>1. CASE n = 0
    <3>1. DOMAIN body[r].lines = {}
      BY <1>1, <2>1
    <3> QED
      BY <3>1
  <2> QED
    BY <2>1
<1>3. 1 \in DOMAIN body[r].lines
  BY <1>1, <1>2
<1>4. /\ <<r, 1>> \in DOMAIN build_lines(r, i)
      /\ \A k \in DOMAIN build_lines(r, i) :
            /\ k[1] = r /\ build_lines(r, i)[k].invoice = i /\ build_lines(r, i)[k].order = k[2]
            /\ {"invoice", "order"} \subseteq DOMAIN build_lines(r, i)[k]
  BY <1>3 DEF build_lines
<1> QED
  BY <1>3, <1>4

LEMMA MoneyRounds ==
    ASSUME NEW x \in Int
    PROVE  money(x) \in Int /\ NearestCent(money(x), x)
<1>1. (x + 50) \div 100 \in Int /\ 100 * ((x + 50) \div 100) <= x + 50 /\ x + 50 < 100 * ((x + 50) \div 100) + 100
  OBVIOUS
<1> DEFINE m == (x + 50) \div 100
<1>2. money(x) = m
  BY DEF money
<1>3. m \in Int /\ 100 * m <= x + 50 /\ x + 50 < 100 * m + 100
  BY <1>1
<1> HIDE DEF m
<1>4. 100 * m - x \in (0 - 49)..50
  BY <1>3
<1> QED
  BY <1>2, <1>3, <1>4 DEF NearestCent

LEMMA NewAmounts ==
    ASSUME body \in Workloads, NEW r \in Requests, body[r].op \in {"create_invoice", "update_invoice"},
           body[r].lines # <<>>, NEW i
    PROVE  LET rows == build_lines(r, i)
               amounts == Sum([k \in DOMAIN rows |-> rows[k].amount])
               subtotal == calculate(body[r]).subtotal
           IN  /\ 2 * (amounts - subtotal) <= Cardinality(DOMAIN rows)
               /\ 2 * (subtotal - amounts) <= Cardinality(DOMAIN rows)
<1> DEFINE lines == body[r].lines
           I == DOMAIN lines
           rows == build_lines(r, i)
           D == DOMAIN rows
           price(j) == lines[j].quantity * lines[j].rate
           part == [k \in D |-> price(k[2])]
           cents == [k \in D |-> rows[k].amount]
           names == [j \in I |-> <<r, j>>]
           subtotal == calculate(body[r]).subtotal
<1>1. /\ Len(lines) \in Nat /\ I = 1..Len(lines)
      /\ \A j \in I : lines[j].quantity \in Nat /\ lines[j].rate \in Nat
  BY Payloads DEF Requests
<1>2. \A j \in I : price(j) \in Int
  BY <1>1
<1>3. IsFiniteSet(I)
  <2> DEFINE a == 1
             b == Len(lines)
  <2>1. a \in Int /\ b \in Int /\ I = a..b
    BY <1>1
  <2> HIDE DEF a, b, I
  <2> QED
    BY <2>1, FS_Interval
<1>4. D = {<<r, j>> : j \in I} /\ \A k \in D : k[2] \in I /\ k = <<r, k[2]>> /\ rows[k].amount = money(price(k[2]))
  BY DEF build_lines
<1>5. D # {}
  BY NewLines, Zenon
<1> HIDE DEF rows, lines, price
<1>6. IsFiniteSet(D)
  <2>1. IsFiniteSet({names[j] : j \in I})
    <3> HIDE DEF I, names
    <3> QED
      BY <1>3, FiniteImage
  <2>2. D = {names[j] : j \in I}
    BY <1>4
  <2> QED
    BY <2>1, <2>2
<1>7. \A k \in D : part[k] \in Int /\ cents[k] \in Int /\ NearestCent(cents[k], part[k])
  BY <1>2, <1>4, MoneyRounds
<1>8. Sum([j \in I |-> price(j)]) = Sum(OnRows(part, D))
  <2>1. /\ \A j \in I : names[j] \in D
        /\ \A d \in D : \E j \in I : names[j] = d
        /\ \A j, k \in I : names[j] = names[k] => j = k
    BY <1>4
  <2>2. \A d \in D : part[d] \in Int
    BY <1>7
  <2>3. [j \in I |-> price(j)] = [j \in I |-> part[names[j]]]
    BY <1>4
  <2> HIDE DEF D, I, part, names
  <2>4. Sum([j \in I |-> part[names[j]]]) = Sum(OnRows(part, D))
    BY <1>3, <1>6, <2>1, <2>2, SumRenamed
  <2> QED
    BY <2>3, <2>4
<1>9. Sum(OnRows(part, D)) \in Int
  <2> HIDE DEF D, part
  <2> QED
    BY <1>6, <1>7, SumType
<1>10. subtotal = money(Sum(OnRows(part, D)))
  <2>1. subtotal = money(Sum([j \in I |-> price(j)]))
    BY DEF calculate, lines, price
  <2> QED
    BY <1>8, <2>1
<1>11. OnRows(cents, D) = cents
  BY DEF OnRows
<1> HIDE DEF D, part, cents, subtotal
<1>12. subtotal \in Int /\ NearestCent(subtotal, Sum(OnRows(part, D)))
  BY <1>9, <1>10, MoneyRounds
<1>13. /\ 2 * (Sum(OnRows(cents, D)) - subtotal) <= Cardinality(D)
       /\ 2 * (subtotal - Sum(OnRows(cents, D))) <= Cardinality(D)
  BY <1>5, <1>6, <1>7, <1>12, SumOfRounded
<1> QED
  BY <1>11, <1>13 DEF cents, D, rows, subtotal

LEMMA SumsApplied ==
    ASSUME NEW row, NEW b, NEW number, NEW c \in TotalColumns
    PROVE  c \in DOMAIN apply_payload(row, b, number) /\ apply_payload(row, b, number)[c] = calculate(b)[c]
  BY Zenon DEF apply_payload, With, TotalColumns, calculate

\* What an invoice without lines takes.
LEMMA LinesAdded ==
    ASSUME AmountsInv, body \in Workloads, NEW r \in Requests, stage[r] = "open",
           body[r].op \in {"create_invoice", "update_invoice"}, body[r].lines # <<>>,
           NEW x, lines_of(db, x) = {},
           NEW left, DOMAIN left = DOMAIN db.invoiceLines, \A k \in DOMAIN left : left[k] = db.invoiceLines[k],
           {"invoices", "invoiceLines"} \subseteq DOMAIN db', db'.invoiceLines = With(left, build_lines(r, x)),
           DOMAIN db'.invoices = DOMAIN db.invoices \cup {x},
           \A i \in DOMAIN db.invoices : i # x => db'.invoices[i] = db.invoices[i],
           \A c \in TotalColumns : c \in DOMAIN db'.invoices[x] /\ db'.invoices[x][c] = calculate(body[r])[c]
    PROVE  AmountsKept(r)
<1> DEFINE new == build_lines(r, x)
           lines == DOMAIN new
           row == db'.invoices[x]
<1>1. /\ lines # {}
      /\ \A k \in lines : k[1] = r /\ new[k].invoice = x /\ {"invoice", "order"} \subseteq DOMAIN new[k]
      /\ \E k \in lines : new[k].order = 1
  BY NewLines
<1>2. /\ 2 * (Sum([k \in lines |-> new[k].amount]) - calculate(body[r]).subtotal) <= Cardinality(lines)
      /\ 2 * (calculate(body[r]).subtotal - Sum([k \in lines |-> new[k].amount])) <= Cardinality(lines)
  BY NewAmounts, Zenon
<1>3. db'.invoiceLines = With(left, new)
  OBVIOUS
<1>4. row.grand_total = row.subtotal - row.discount + row.tax /\ row.subtotal = calculate(body[r]).subtotal
  <2>1. calculate(body[r]).grand_total = calculate(body[r]).subtotal - calculate(body[r]).discount + calculate(body[r]).tax
    BY DEF calculate
  <2> QED
    BY <2>1 DEF TotalColumns
<1>5. AmountsOK(db) /\ \A k \in DOMAIN db.invoiceLines : k[1] # r
  BY DEF AmountsInv
<1> HIDE DEF new
<1>6. /\ DOMAIN db'.invoiceLines = DOMAIN db.invoiceLines \cup lines
      /\ \A k \in DOMAIN db.invoiceLines : db'.invoiceLines[k] = db.invoiceLines[k]
      /\ \A k \in lines : db'.invoiceLines[k] = new[k]
  <2>1. DOMAIN With(left, new) = DOMAIN left \cup lines
    BY DEF With
  <2>2. \A k \in DOMAIN left : k \notin lines
    BY <1>1, <1>5
  <2>3. \A k \in DOMAIN left : With(left, new)[k] = left[k]
    BY <2>2 DEF With
  <2>4. \A k \in lines : With(left, new)[k] = new[k]
    BY DEF With
  <2> HIDE DEF lines
  <2> QED
    BY <1>3, <2>1, <2>3, <2>4
<1>7. lines_of(db', x) = lines
  BY <1>1, <1>6 DEF lines_of
<1>8. \A i : i # x => lines_of(db', i) = lines_of(db, i)
  BY <1>1, <1>6 DEF lines_of
<1>9. Itemised(db', x)
  <2>1. [k \in lines_of(db', x) |-> db'.invoiceLines[k].amount] = [k \in lines |-> new[k].amount]
    BY <1>6, <1>7
  <2> QED
    BY <1>2, <1>4, <1>7, <2>1 DEF Itemised
<1>10. ASSUME NEW i \in DOMAIN db.invoices, i # x
       PROVE  Itemised(db', i) /\ SameSums(db.invoices[i], db'.invoices[i])
  <2>1. SameSums(db.invoices[i], db'.invoices[i])
    BY <1>10 DEF SameSums
  <2>2. \A k \in lines_of(db, i) : db'.invoiceLines[k] = db.invoiceLines[k]
    BY <1>6 DEF lines_of
  <2>3. Itemised(db, i)
    BY <1>5 DEF AmountsOK
  <2> QED
    BY <1>8, <1>10, <2>1, <2>2, <2>3, StaysItemised
<1>11. AmountsOK(db')
  <2>1. \A k \in DOMAIN db'.invoiceLines : /\ {"invoice", "order"} \subseteq DOMAIN db'.invoiceLines[k]
                                         /\ db'.invoiceLines[k].invoice \in DOMAIN db'.invoices
    BY <1>1, <1>5, <1>6 DEF AmountsOK
  <2>2. \A i \in DOMAIN db'.invoices : TotalColumns \subseteq DOMAIN db'.invoices[i] /\ Itemised(db', i)
    BY <1>5, <1>9, <1>10 DEF AmountsOK, TotalColumns
  <2>3. \A i \in DOMAIN db'.invoices : lines_of(db', i) # {} => \E k \in lines_of(db', i) : db'.invoiceLines[k].order = 1
    <3>1. ASSUME NEW i \in DOMAIN db.invoices, i # x, lines_of(db', i) # {}
          PROVE  \E k \in lines_of(db', i) : db'.invoiceLines[k].order = 1
      <4>1. PICK k \in lines_of(db, i) : db.invoiceLines[k].order = 1
        BY <1>5, <1>8, <3>1 DEF AmountsOK
      <4> QED
        BY <1>6, <1>8, <3>1, <4>1 DEF lines_of
    <3> QED
      BY <1>1, <1>6, <1>7, <3>1
  <2> QED
    BY <2>1, <2>2, <2>3 DEF AmountsOK, TotalColumns
<1>12. \A i \in DOMAIN db.invoices : lines_of(db, i) # {} =>
           lines_of(db', i) = lines_of(db, i) /\ SameSums(db.invoices[i], db'.invoices[i])
  BY <1>8, <1>10
<1> QED
  BY <1>1, <1>6, <1>7, <1>10, <1>11, <1>12 DEF AmountsKept

LEMMA CreateInvoiceAmounts ==
    ASSUME WatchedInv, AmountsInv, NEW r \in Requests, Commits(r), create_invoice(r)
    PROVE  AmountsKept(r)
<1> DEFINE b == body[r]
           number == IF b.number = None THEN generate_invoice_number(seen[r], b.association) ELSE b.number
           row == apply_payload([association |-> b.association, deleted |-> FALSE], b, number)
<1>1. /\ validate_business_rules(b) /\ b.op = "create_invoice"
      /\ Commit(r, [db EXCEPT !.invoices = With(@, [k \in {r} |-> row]), !.invoiceLines = With(@, build_lines(r, r))])
  BY Decided, Zenon DEF create_invoice, Asks, Decide, WatchedInv
<1>2. \A c \in TotalColumns : c \in DOMAIN row /\ row[c] = calculate(b)[c]
  BY SumsApplied
<1> HIDE DEF row
<1>3. /\ {"invoices", "invoiceLines"} \subseteq DOMAIN db'
      /\ db'.invoices = With(db.invoices, [k \in {r} |-> row])
      /\ db'.invoiceLines = With(db.invoiceLines, build_lines(r, r))
  BY <1>1 DEF Commit, AmountsInv, AmountsOK
<1>4. r \notin DOMAIN db.invoices /\ stage[r] = "open"
  BY DEF WatchedInv, Commits, Watched, Rows, KeyOf
<1>5. /\ DOMAIN db'.invoices = DOMAIN db.invoices \cup {r} /\ db'.invoices[r] = row
      /\ \A i \in DOMAIN db.invoices : db'.invoices[i] = db.invoices[i]
  BY <1>3, <1>4 DEF With
<1>6. lines_of(db, r) = {}
  BY <1>4 DEF lines_of, AmountsInv, AmountsOK
<1>7. body \in Workloads /\ b.lines # <<>> /\ b.op \in {"create_invoice", "update_invoice"}
  BY <1>1 DEF validate_business_rules, WatchedInv
<1>8. \A c \in TotalColumns : c \in DOMAIN db'.invoices[r] /\ db'.invoices[r][c] = calculate(b)[c]
  BY <1>2, <1>5
<1> QED
  BY <1>3, <1>4, <1>5, <1>6, <1>7, <1>8, LinesAdded DEF Requests

LEMMA UpdateInvoiceAmounts ==
    ASSUME WatchedInv, AmountsInv, NEW r \in Requests, Commits(r), update_invoice(r)
    PROVE  AmountsKept(r)
<1> DEFINE b == body[r]
           x == b.invoice
           table == db.invoices
           loaded == seen[r].invoices
           number == IF b.number = None THEN loaded[x].number ELSE b.number
           wanted == apply_payload(loaded[x], b, number)
           left == [k \in DOMAIN db.invoiceLines \ lines_of(seen[r], x) |-> db.invoiceLines[k]]
<1>1. /\ validate_business_rules(b) /\ b.op = "update_invoice" /\ x \in DOMAIN loaded
      /\ \A k \in lines_of(db, x) : db.invoiceLines[k].order \notin DOMAIN b.lines
      /\ Commit(r, [db EXCEPT !.invoices = Save(@, loaded, x, wanted), !.invoiceLines = With(left, build_lines(r, x))])
  BY Decided, Zenon DEF update_invoice, Asks, Decide, WatchedInv, get_scoped, IsLive
<1>2. \A c \in TotalColumns : wanted[c] = calculate(b)[c]
  BY SumsApplied
<1>3. ShowsAmounts(seen[r]) /\ AmountsOK(db) /\ stage[r] = "open" /\ body \in Workloads
  BY DEF AmountsInv, Commits, WatchedInv
<1>4. b.lines # <<>> /\ 1 \in DOMAIN b.lines
  BY <1>1, <1>3, NewLines DEF validate_business_rules
<1>5. x \in DOMAIN table
  BY <1>1, <1>3 DEF ShowsAmounts
<1>6. lines_of(db, x) = {}
  BY <1>1, <1>3, <1>4, <1>5 DEF AmountsOK
<1>7. DOMAIN left = DOMAIN db.invoiceLines /\ \A k \in DOMAIN left : left[k] = db.invoiceLines[k]
  <2>1. lines_of(seen[r], x) \subseteq lines_of(db, x)
    BY <1>3 DEF ShowsAmounts, lines_of
  <2>2. DOMAIN db.invoiceLines \ lines_of(seen[r], x) = DOMAIN db.invoiceLines
    BY <1>6, <2>1
  <2> QED
    BY <2>2
<1> HIDE DEF wanted, left
<1>8. /\ {"invoices", "invoiceLines"} \subseteq DOMAIN db'
      /\ db'.invoices = Save(table, loaded, x, wanted)
      /\ db'.invoiceLines = With(left, build_lines(r, x))
  BY <1>1, <1>3 DEF Commit, AmountsOK
<1>9. /\ DOMAIN db'.invoices = DOMAIN table
      /\ \A i \in DOMAIN table : i # x => db'.invoices[i] = table[i]
      /\ db'.invoices[x] = Changed(table[x], loaded[x], wanted)
  BY <1>5, <1>8 DEF Save
<1>10. SameSums(loaded[x], table[x]) /\ TotalColumns \subseteq DOMAIN table[x]
  BY <1>1, <1>3, <1>5, <1>6 DEF ShowsAmounts, AmountsOK, TotalColumns
<1>11. \A c \in TotalColumns : c \in DOMAIN db'.invoices[x] /\ db'.invoices[x][c] = calculate(b)[c]
  BY <1>2, <1>9, <1>10 DEF SameSums, Changed
<1>12. b.op \in {"create_invoice", "update_invoice"} /\ DOMAIN db'.invoices = DOMAIN table \cup {x}
  BY <1>1, <1>5, <1>9
<1>13. /\ body \in Workloads /\ stage[r] = "open" /\ b.lines # <<>>
       /\ {"invoices", "invoiceLines"} \subseteq DOMAIN db' /\ db'.invoiceLines = With(left, build_lines(r, x))
       /\ \A i \in DOMAIN table : i # x => db'.invoices[i] = table[i]
  BY <1>3, <1>4, <1>8, <1>9
<1> QED
  BY <1>6, <1>7, <1>11, <1>12, <1>13, LinesAdded

\* Who leaves the lines and the totals.
LEMMA SumsLeft ==
    ASSUME AmountsInv, NEW r, {"invoices", "invoiceLines"} \subseteq DOMAIN db',
           db'.invoiceLines = db.invoiceLines, DOMAIN db'.invoices = DOMAIN db.invoices,
           \A i \in DOMAIN db.invoices :
               TotalColumns \subseteq DOMAIN db'.invoices[i] /\ SameSums(db.invoices[i], db'.invoices[i])
    PROVE  AmountsKept(r)
<1>1. AmountsOK(db)
  BY DEF AmountsInv
<1>2. \A i : lines_of(db', i) = lines_of(db, i)
  BY DEF lines_of
<1>3. \A i \in DOMAIN db.invoices : Itemised(db', i)
  BY <1>1, <1>2, StaysItemised DEF AmountsOK
<1>4. AmountsOK(db')
  BY <1>1, <1>2, <1>3 DEF AmountsOK, TotalColumns
<1> QED
  BY <1>2, <1>4 DEF AmountsKept

\* Saving a row with its totals.
LEMMA SavedSums ==
    ASSUME NEW table, NEW loaded, NEW x, NEW wanted, SameSums(loaded[x], wanted),
           \A i \in DOMAIN table : TotalColumns \subseteq DOMAIN table[i]
    PROVE  LET saved == Save(table, loaded, x, wanted)
           IN  /\ DOMAIN saved = DOMAIN table
               /\ \A i \in DOMAIN table : TotalColumns \subseteq DOMAIN saved[i] /\ SameSums(table[i], saved[i])
<1> DEFINE saved == Save(table, loaded, x, wanted)
<1>1. /\ DOMAIN saved = DOMAIN table
      /\ \A i \in DOMAIN table : saved[i] = IF i = x THEN Changed(table[x], loaded[x], wanted) ELSE table[i]
  BY DEF Save
<1>2. \A c \in TotalColumns : x \in DOMAIN table =>
          c \in DOMAIN Changed(table[x], loaded[x], wanted) /\ Changed(table[x], loaded[x], wanted)[c] = table[x][c]
  BY DEF Changed, SameSums
<1> HIDE DEF saved
<1>3. \A i \in DOMAIN table : TotalColumns \subseteq DOMAIN saved[i] /\ SameSums(table[i], saved[i])
  BY <1>1, <1>2 DEF SameSums
<1> QED
  BY <1>1, <1>3 DEF saved

LEMMA InvoiceAmounts ==
    ASSUME WatchedInv, AmountsInv, NEW r \in Requests, Commits(r), Step(r)
    PROVE  AmountsKept(r)
<1>1. /\ Sessions /\ {"invoices", "invoiceLines"} \subseteq DOMAIN db
      /\ \A i \in DOMAIN db.invoices : TotalColumns \subseteq DOMAIN db.invoices[i]
  BY DEF WatchedInv, AmountsInv, AmountsOK, TotalColumns
<1>2. CASE ~InvoiceStep(r)
  <2>1. {"invoices", "invoiceLines"} \subseteq DOMAIN db' /\ db'.invoices = db.invoices /\ db'.invoiceLines = db.invoiceLines
    BY <1>1, <1>2, Footprints DEF Touches
  <2> QED
    BY <1>1, <2>1, SumsLeft DEF SameSums
<1>3. CASE create_invoice(r) \/ update_invoice(r)
  BY <1>3, CreateInvoiceAmounts, UpdateInvoiceAmounts
<1>4. CASE update_invoice_status(r)
  <2> DEFINE x == body[r].invoice
             loaded == seen[r].invoices
             wanted == [loaded[x] EXCEPT !.status = body[r].status,
                                         !.payment = IF body[r].status = "paid" THEN body[r].payment ELSE None]
             saved == Save(db.invoices, loaded, x, wanted)
  <2>1. x \in DOMAIN loaded /\ Commit(r, [db EXCEPT !.invoices = saved])
    BY <1>1, <1>4, Decided, Zenon DEF update_invoice_status, Decide, get_scoped, IsLive
  <2>2. SameSums(loaded[x], wanted)
    <3>1. TotalColumns \subseteq DOMAIN loaded[x]
      BY <2>1 DEF AmountsInv, ShowsAmounts, Commits
    <3> QED
      BY <3>1 DEF SameSums, TotalColumns
  <2> HIDE DEF wanted
  <2>3. /\ DOMAIN saved = DOMAIN db.invoices
        /\ \A i \in DOMAIN db.invoices : TotalColumns \subseteq DOMAIN saved[i] /\ SameSums(db.invoices[i], saved[i])
    <3> HIDE DEF loaded, x
    <3> QED
      BY <1>1, <2>2, SavedSums, Zenon DEF saved
  <2> HIDE DEF saved
  <2>4. {"invoices", "invoiceLines"} \subseteq DOMAIN db' /\ db'.invoices = saved /\ db'.invoiceLines = db.invoiceLines
    BY <1>1, <2>1 DEF Commit
  <2> QED
    BY <2>3, <2>4, SumsLeft
<1>5. CASE delete_invoice(r)
  <2> DEFINE left == Delete(db.invoices, seen[r].invoices, {body[r].invoice})
  <2>1. Commit(r, [db EXCEPT !.invoices = left])
    BY <1>1, <1>5, Decided, Zenon DEF delete_invoice, Decide
  <2>2. /\ DOMAIN left = DOMAIN db.invoices
        /\ \A i \in DOMAIN db.invoices : left[i] = db.invoices[i] \/ left[i] = [db.invoices[i] EXCEPT !.deleted = TRUE]
    BY DEF Delete, Mark
  <2>3. \A i \in DOMAIN db.invoices : TotalColumns \subseteq DOMAIN left[i] /\ SameSums(db.invoices[i], left[i])
    BY <1>1, <2>2 DEF SameSums, TotalColumns
  <2> HIDE DEF left
  <2>4. {"invoices", "invoiceLines"} \subseteq DOMAIN db' /\ db'.invoices = left /\ db'.invoiceLines = db.invoiceLines
    BY <1>1, <2>1 DEF Commit
  <2> QED
    BY <2>2, <2>3, <2>4, SumsLeft
<1> QED
  BY <1>2, <1>3, <1>4, <1>5 DEF InvoiceStep

LEMMA NextAmounts == TogetherInv /\ AmountsInv /\ [Next]_vars => AmountsInv'
<1> SUFFICES ASSUME TogetherInv, AmountsInv, [Next]_vars PROVE AmountsInv'
  OBVIOUS
<1>1. Sessions /\ WatchedInv
  BY DEF TogetherInv, WatchedInv
<1>2. ASSUME NEW r \in Requests, Commits(r), Step(r)
      PROVE  AmountsInv'
  BY <1>1, <1>2, InvoiceAmounts, CommitAmounts
<1> QED
  BY <1>1, <1>2, IdleAmounts, StepCases

\* In every reachable state the totals of an invoice are those of its lines to the rounding
\* of each, and a snapshot has lost no line and, while an invoice has none, its totals.
THEOREM AmountsInvariant == Spec => []AmountsInv
  BY InitAmounts, NextAmounts, TogetherInvariant, PTL DEF Spec

\* A paid invoice names its payment, unless a payment and an edit overlapped, and its totals
\* are those of its lines always: lines that two edits add twice break a unique key.
THEOREM InvoicesStayWhole == Spec => []InvoicesWhole
<1>1. TogetherInv /\ AmountsInv => InvoicesWhole
  <2> SUFFICES ASSUME TogetherInv, AmountsInv, NEW i \in DOMAIN db.invoices
               PROVE  /\ \/ (db.invoices[i].status = "paid") = (db.invoices[i].payment # None)
                         \/ Raced(On(<<"invoice", i>>, {"update_invoice", "invoice_status"}))
                      /\ Itemised(db, i)
    BY DEF InvoicesWhole
  <2>1. Settling("invoice", i)
    BY DEF TogetherInv, WatchedInv, Rows, Watched
  <2>2. Itemised(db, i)
    BY DEF AmountsInv, AmountsOK
  <2> QED
    BY <2>1, <2>2 DEF Settling, Together, Excused, EditsOf, Watched, PathField, Rewriting
<1> QED
  BY <1>1, TogetherInvariant, AmountsInvariant, PTL

-----------------------------------------------------------------------------
(* What the list of an association reports as paid                              *)

\* Totals are numbers, and a snapshot that missed nothing is the tables there are.
SettledInv ==
    /\ TotalsWell(db)
    /\ \A q \in Requests : stage[q] = "open" /\ missed[q] = {} => seen[q] = db

\* The columns that the list goes by.
ListColumns == {"association", "deleted", "status", "grand_total"}

\* A paid invoice is listed as before.
StayPaid(old, new) ==
    \A i \in DOMAIN old.invoices : old.invoices[i].status = "paid" =>
        i \in DOMAIN new.invoices /\ \A c \in ListColumns : new.invoices[i][c] = old.invoices[i][c]

\* What may lower the sum of what was paid.
MayLower(r) ==
    \/ body[r].op = "delete_invoice" \/ missed[r] # {}
    \/ /\ body[r].op = "update_invoice" /\ db.invoices[body[r].invoice].status = "paid"
       /\ lines_of(db, body[r].invoice) = {}

\* What a commit does to what was paid.
Settles(r) == TotalsWell(db') /\ (MayLower(r) \/ StayPaid(db, db'))

\* Where paid invoices stay, their sum does not fall.
LEMMA PaidGrows ==
    ASSUME NEW old, NEW new, TotalsWell(new), StayPaid(old, new), NEW a
    PROVE  total_amount(new, a, {"paid"}) >= total_amount(old, a, {"paid"})
<1> DEFINE D == {k \in Live(new.invoices) : /\ new.invoices[k].association = a
                                            /\ new.invoices[k].status \in {"paid"}}
           part == {k \in Live(old.invoices) : /\ old.invoices[k].association = a
                                               /\ old.invoices[k].status \in {"paid"}}
           column == [k \in D |-> new.invoices[k].grand_total]
<1>1. part \subseteq D /\ \A k \in part : new.invoices[k].grand_total = old.invoices[k].grand_total
  BY DEF StayPaid, ListColumns, Live, IsLive
<1>2. IsFiniteSet(D) /\ \A k \in D : column[k] \in Nat
  <2>1. D \subseteq DOMAIN new.invoices
    BY DEF Live
  <2> QED
    BY <2>1, FS_Subset DEF TotalsWell
<1>3. /\ total_amount(new, a, {"paid"}) = Sum(column)
      /\ total_amount(old, a, {"paid"}) = Sum([k \in part |-> old.invoices[k].grand_total])
  BY Zenon DEF total_amount
<1>4. OnRows(column, D) = column /\ OnRows(column, part) = [k \in part |-> old.invoices[k].grand_total]
  <2>1. \A k \in part : column[k] = old.invoices[k].grand_total
    BY <1>1
  <2> HIDE DEF part
  <2>2. OnRows(column, part) = [k \in part |-> old.invoices[k].grand_total]
    BY <2>1 DEF OnRows
  <2> QED
    BY <2>2 DEF OnRows
<1>5. /\ Sum(OnRows(column, part)) <= Sum(OnRows(column, D))
      /\ Sum(OnRows(column, part)) \in Int /\ Sum(OnRows(column, D)) \in Int
  <2> HIDE DEF D, part, column
  <2>1. IsFiniteSet(part) /\ \A k \in part : column[k] \in Int
    BY <1>1, <1>2, FS_Subset
  <2>2. \A k \in D : column[k] \in Int
    BY <1>2
  <2> QED
    BY <1>1, <1>2, <2>1, <2>2, SumOfFewerRows, SumType
<1> QED
  <2> HIDE DEF D, part, column
  <2>1. /\ total_amount(new, a, {"paid"}) = Sum(OnRows(column, D))
        /\ total_amount(old, a, {"paid"}) = Sum(OnRows(column, part))
    <3> USE DEF part
    <3> QED
      BY <1>3, <1>4
  <2> QED
    BY <1>5, <2>1

\* The total of a new invoice is no less than nought, its discount being no more than its lines.
LEMMA TotalIsNat ==
    ASSUME body \in Workloads, NEW r \in Requests, body[r].op \in {"create_invoice", "update_invoice"},
           calculate(body[r]).discount <= calculate(body[r]).subtotal
    PROVE  calculate(body[r]).grand_total \in Nat
<1> DEFINE b == body[r]
           subtotal == calculate(b).subtotal
           discount == calculate(b).discount
<1>1. b.discount_value \in Nat /\ b.tax_rate \in Nat
  BY Payloads DEF Requests
<1>2. subtotal \in Int
  <2> DEFINE I == DOMAIN b.lines
             price == [i \in I |-> b.lines[i].quantity * b.lines[i].rate]
  <2>1. Len(b.lines) \in Nat /\ I = 1..Len(b.lines) /\ \A i \in I : price[i] \in Int
    BY Payloads DEF Requests
  <2>2. IsFiniteSet(I)
    BY <2>1, FS_Interval
  <2>3. Sum(OnRows(price, I)) \in Int /\ OnRows(price, I) = price
    <3>1. OnRows(price, I) = price
      BY DEF OnRows
    <3> HIDE DEF price, I
    <3> QED
      BY <2>1, <2>2, <3>1, SumType
  <2>4. subtotal = money(Sum(price))
    BY DEF calculate
  <2> QED
    BY <2>3, <2>4 DEF money
<1>3. discount \in Int
  <2>1. discount = CASE b.discount_type = "percentage" -> money(subtotal * b.discount_value)
                     [] b.discount_type = "flat" -> b.discount_value
                     [] OTHER -> 0
    BY DEF calculate
  <2>2. money(subtotal * b.discount_value) \in Int
    BY <1>1, <1>2 DEF money
  <2> QED
    BY <1>1, <2>1, <2>2
<1>4. /\ calculate(b).grand_total = subtotal - discount + calculate(b).tax
      /\ calculate(b).tax = money((subtotal - discount) * b.tax_rate)
  BY DEF calculate
<1> HIDE DEF subtotal, discount
<1>5. PICK net \in Nat : net = subtotal - discount
  BY <1>2, <1>3 DEF subtotal, discount
<1>6. money(net * b.tax_rate) \in Nat
  <2>1. net * b.tax_rate \in Nat
    BY <1>1
  <2> QED
    BY <2>1 DEF money
<1> QED
  BY <1>4, <1>5, <1>6

\* Saving a row keeps the totals numbers if what it wants is one.
LEMMA SavedTotals ==
    ASSUME TotalsWell(db), NEW loaded, NEW x, NEW wanted,
           wanted.grand_total = loaded[x].grand_total \/ wanted.grand_total \in Nat,
           db'.invoices = Save(db.invoices, loaded, x, wanted)
    PROVE  /\ TotalsWell(db') /\ DOMAIN db'.invoices = DOMAIN db.invoices
           /\ \A i \in DOMAIN db.invoices : i # x => db'.invoices[i] = db.invoices[i]
           /\ x \in DOMAIN db.invoices => db'.invoices[x] = Changed(db.invoices[x], loaded[x], wanted)
<1>1. /\ DOMAIN db'.invoices = DOMAIN db.invoices
      /\ \A i \in DOMAIN db.invoices : i # x => db'.invoices[i] = db.invoices[i]
      /\ x \in DOMAIN db.invoices => db'.invoices[x] = Changed(db.invoices[x], loaded[x], wanted)
  BY DEF Save
<1>2. ASSUME x \in DOMAIN db.invoices
      PROVE  /\ ListColumns \subseteq DOMAIN db'.invoices[x]
             /\ db'.invoices[x].grand_total \in Nat
  BY <1>1, <1>2 DEF TotalsWell, Changed, ListColumns
<1> QED
  BY <1>1, <1>2 DEF TotalsWell, ListColumns

LEMMA CreateSettles ==
    ASSUME WatchedInv, AmountsInv, SettledInv, NEW r \in Requests, Commits(r), create_invoice(r)
    PROVE  Settles(r)
<1> DEFINE b == body[r]
           number == IF b.number = None THEN generate_invoice_number(seen[r], b.association) ELSE b.number
           row == apply_payload([association |-> b.association, deleted |-> FALSE], b, number)
<1>1. /\ calculate(b).discount <= calculate(b).subtotal /\ b.op = "create_invoice"
      /\ Commit(r, [db EXCEPT !.invoices = With(@, [k \in {r} |-> row]), !.invoiceLines = With(@, build_lines(r, r))])
  BY Decided, Zenon DEF create_invoice, Asks, Decide, WatchedInv
<1>2. row.grand_total = calculate(b).grand_total
  BY SumsApplied DEF TotalColumns
<1>3. ListColumns \subseteq DOMAIN row
  BY DEF apply_payload, With, ListColumns, calculate
<1> HIDE DEF row
<1>4. db'.invoices = With(db.invoices, [k \in {r} |-> row])
  BY <1>1 DEF Commit, AmountsInv, AmountsOK
<1>5. r \notin DOMAIN db.invoices
  BY DEF WatchedInv, Commits, Watched, Rows, KeyOf
<1>6. /\ DOMAIN db'.invoices = DOMAIN db.invoices \cup {r} /\ db'.invoices[r] = row
      /\ \A i \in DOMAIN db.invoices : db'.invoices[i] = db.invoices[i]
  BY <1>4, <1>5 DEF With
<1>7. row.grand_total \in Nat
  BY <1>1, <1>2, TotalIsNat DEF WatchedInv
<1>8. IsFiniteSet(DOMAIN db'.invoices)
  BY <1>6, FS_AddElement DEF SettledInv, TotalsWell
<1> QED
  BY <1>3, <1>6, <1>7, <1>8 DEF Settles, StayPaid, SettledInv, TotalsWell, ListColumns

LEMMA UpdateSettles ==
    ASSUME WatchedInv, AmountsInv, SettledInv, NEW r \in Requests, Commits(r), update_invoice(r)
    PROVE  Settles(r)
<1> DEFINE b == body[r]
           x == b.invoice
           loaded == seen[r].invoices
           number == IF b.number = None THEN loaded[x].number ELSE b.number
           wanted == apply_payload(loaded[x], b, number)
           left == [k \in DOMAIN db.invoiceLines \ lines_of(seen[r], x) |-> db.invoiceLines[k]]
<1>1. /\ validate_business_rules(b) /\ b.op = "update_invoice" /\ x \in DOMAIN loaded
      /\ calculate(b).discount <= calculate(b).subtotal
      /\ \A k \in lines_of(db, x) : db.invoiceLines[k].order \notin DOMAIN b.lines
      /\ Commit(r, [db EXCEPT !.invoices = Save(@, loaded, x, wanted), !.invoiceLines = With(left, build_lines(r, x))])
  BY Decided, Zenon DEF update_invoice, Asks, Decide, WatchedInv, get_scoped, IsLive
<1>2. wanted.grand_total = calculate(b).grand_total
  BY SumsApplied DEF TotalColumns
<1>3. ShowsAmounts(seen[r]) /\ AmountsOK(db) /\ TotalsWell(db) /\ body \in Workloads
  BY DEF AmountsInv, Commits, WatchedInv, SettledInv
<1>4. wanted.grand_total \in Nat
  BY <1>1, <1>2, <1>3, TotalIsNat
<1> HIDE DEF wanted, left
<1>5. db'.invoices = Save(db.invoices, loaded, x, wanted)
  BY <1>1, <1>3 DEF Commit, AmountsOK
<1>6. /\ TotalsWell(db') /\ DOMAIN db'.invoices = DOMAIN db.invoices
      /\ \A i \in DOMAIN db.invoices : i # x => db'.invoices[i] = db.invoices[i]
  <2> HIDE DEF loaded, x
  <2> QED
    BY <1>3, <1>4, <1>5, SavedTotals
<1>7. lines_of(db, x) = {}
  <2>1. x \in DOMAIN db.invoices
    BY <1>1, <1>3 DEF ShowsAmounts
  <2>2. 1 \in DOMAIN b.lines
    BY <1>1, <1>3, NewLines DEF validate_business_rules
  <2> QED
    BY <1>1, <1>3, <2>1, <2>2 DEF AmountsOK
<1>8. CASE db.invoices[x].status = "paid"
  BY <1>1, <1>6, <1>7, <1>8 DEF Settles, MayLower
<1>9. CASE db.invoices[x].status # "paid"
  BY <1>6, <1>9 DEF Settles, StayPaid
<1> QED
  BY <1>8, <1>9

LEMMA StatusSettles ==
    ASSUME WatchedInv, AmountsInv, SettledInv, NEW r \in Requests, Commits(r), update_invoice_status(r)
    PROVE  Settles(r)
<1> DEFINE x == body[r].invoice
           loaded == seen[r].invoices
           wanted == [loaded[x] EXCEPT !.status = body[r].status,
                                       !.payment = IF body[r].status = "paid" THEN body[r].payment ELSE None]
<1>1. /\ x \in DOMAIN loaded /\ validate_transition(loaded[x].status, body[r].status)
      /\ Commit(r, [db EXCEPT !.invoices = Save(@, loaded, x, wanted)])
  BY Decided, Zenon DEF update_invoice_status, Decide, WatchedInv, get_scoped, IsLive
<1>2. ShowsAmounts(seen[r]) /\ AmountsOK(db) /\ TotalsWell(db) /\ x \in DOMAIN db.invoices
  BY <1>1 DEF AmountsInv, Commits, ShowsAmounts, SettledInv
<1>3. wanted.grand_total = loaded[x].grand_total
  BY <1>1, <1>2 DEF ShowsAmounts, TotalColumns
<1>4. \A c \in DOMAIN loaded[x] : wanted[c] = IF c = "status" THEN body[r].status
                                           ELSE IF c = "payment" THEN wanted[c] ELSE loaded[x][c]
  OBVIOUS
<1> HIDE DEF wanted
<1>5. db'.invoices = Save(db.invoices, loaded, x, wanted)
  BY <1>1, <1>2 DEF Commit, AmountsOK
<1>6. /\ TotalsWell(db') /\ DOMAIN db'.invoices = DOMAIN db.invoices
      /\ \A i \in DOMAIN db.invoices : i # x => db'.invoices[i] = db.invoices[i]
      /\ db'.invoices[x] = Changed(db.invoices[x], loaded[x], wanted)
  <2> HIDE DEF loaded, x
  <2> QED
    BY <1>2, <1>3, <1>5, SavedTotals
<1>7. ASSUME missed[r] = {}, db.invoices[x].status = "paid"
      PROVE  \A c \in ListColumns : db'.invoices[x][c] = db.invoices[x][c]
  <2>1. loaded = db.invoices
    BY <1>7 DEF SettledInv, Commits
  <2>2. body[r].status = "paid"
    BY <1>1, <1>7, <2>1 DEF validate_transition, STATUS_TRANSITIONS
  <2>3. \A c \in ListColumns : c \in DOMAIN db.invoices[x] /\ wanted[c] = db.invoices[x][c]
    BY <1>2, <1>4, <1>7, <2>1, <2>2 DEF TotalsWell, ListColumns
  <2> QED
    BY <1>6, <2>1, <2>3 DEF Changed
<1>8. missed[r] = {} => StayPaid(db, db')
  BY <1>6, <1>7 DEF StayPaid
<1> QED
  BY <1>6, <1>8 DEF Settles, MayLower

LEMMA InvoiceSettles ==
    ASSUME WatchedInv, AmountsInv, SettledInv, NEW r \in Requests, Commits(r), Step(r)
    PROVE  Settles(r)
<1>1. Sessions /\ {"invoices", "invoiceLines"} \subseteq DOMAIN db /\ TotalsWell(db)
  BY DEF WatchedInv, AmountsInv, AmountsOK, SettledInv
<1>2. CASE ~InvoiceStep(r)
  <2>1. db'.invoices = db.invoices
    BY <1>1, <1>2, Footprints DEF Touches
  <2> QED
    BY <1>1, <2>1 DEF Settles, StayPaid, TotalsWell
<1>3. CASE create_invoice(r) \/ update_invoice(r) \/ update_invoice_status(r)
  BY <1>3, CreateSettles, UpdateSettles, StatusSettles
<1>4. CASE delete_invoice(r)
  <2> DEFINE left == Delete(db.invoices, seen[r].invoices, {body[r].invoice})
  <2>1. body[r].op = "delete_invoice" /\ Commit(r, [db EXCEPT !.invoices = left])
    BY <1>1, <1>4, Decided, Zenon DEF delete_invoice, Asks, Decide
  <2>2. /\ DOMAIN left = DOMAIN db.invoices
        /\ \A i \in DOMAIN db.invoices : left[i] = db.invoices[i] \/ left[i] = [db.invoices[i] EXCEPT !.deleted = TRUE]
    BY DEF Delete, Mark
  <2> HIDE DEF left
  <2>3. db'.invoices = left
    BY <1>1, <2>1 DEF Commit
  <2>4. \A i \in DOMAIN left : ListColumns \subseteq DOMAIN left[i] /\ left[i].grand_total \in Nat
    BY <1>1, <2>2 DEF TotalsWell, ListColumns
  <2> QED
    BY <1>1, <2>1, <2>2, <2>3, <2>4 DEF Settles, MayLower, TotalsWell, ListColumns
<1> QED
  BY <1>2, <1>3, <1>4 DEF InvoiceStep

LEMMA NextSettled == TogetherInv /\ AmountsInv /\ SettledInv /\ [Next]_vars => SettledInv'
<1> SUFFICES ASSUME TogetherInv, AmountsInv, SettledInv, [Next]_vars PROVE SettledInv'
  OBVIOUS
<1>1. Sessions /\ WatchedInv
  BY DEF TogetherInv, WatchedInv
<1>2. CASE Idle
  BY <1>2 DEF Idle, SettledInv, TotalsWell, Requests
<1>3. ASSUME NEW r \in Requests, Commits(r), Step(r)
      PROVE  SettledInv'
  <2>1. TotalsWell(db)'
    BY <1>1, <1>3, InvoiceSettles DEF Settles, TotalsWell
  <2>2. Requests' = Requests
    BY <1>3 DEF Commits, Requests
  <2>3. \A q \in Requests : stage'[q] = "open" => missed'[q] # {}
    BY <1>3 DEF Commits, Committed
  <2> QED
    BY <2>1, <2>2, <2>3 DEF SettledInv
<1> QED
  BY <1>1, <1>2, <1>3, StepCases

\* In every reachable state invoices have totals no less than nought, and a request that
\* missed no commit sees the tables there are.
THEOREM SettledInvariant == Spec => []SettledInv
<1>1. Init => SettledInv
  BY OpeningTotals DEF Init, SettledInv, Requests
<1> QED
  BY <1>1, NextSettled, TogetherInvariant, AmountsInvariant, PTL DEF Spec

\* Lines and totals of an invoice with lines stay, and what is reported as paid falls only by
\* a deletion, the first lines of a paid invoice, or a request that missed another's commit
\* (InvoiceService, whose transitions leave paid only for paid).
THEOREM InvoicesAreSettled == Spec => InvoicesSettled
<1> DEFINE Settled == /\ \A i \in DOMAIN db.invoices : lines_of(db, i) # {} =>
                            /\ lines_of(db', i) = lines_of(db, i)
                            /\ db'.invoices[i].grand_total = db.invoices[i].grand_total
                      /\ \A a \in DOMAIN db.associations :
                            \/ total_amount(db', a, {"paid"}) >= total_amount(db, a, {"paid"})
                            \/ \E r \in Requests :
                                  /\ stage'[r] # stage[r]
                                  /\ \/ body[r].op = "delete_invoice" \/ missed[r] # {}
                                     \/ /\ body[r].op = "update_invoice" /\ db.invoices[body[r].invoice].status = "paid"
                                        /\ lines_of(db, body[r].invoice) = {}
<1>1. TogetherInv /\ AmountsInv /\ SettledInv /\ [Next]_vars => [Settled]_db
  <2> SUFFICES ASSUME TogetherInv, AmountsInv, SettledInv, [Next]_vars, db' # db PROVE Settled
    OBVIOUS
  <2>1. Sessions /\ WatchedInv
    BY DEF TogetherInv, WatchedInv
  <2>2. PICK r \in Requests : Commits(r) /\ Step(r)
    BY <2>1, StepCases DEF Idle
  <2>3. AmountsKept(r) /\ Settles(r) /\ stage'[r] # stage[r]
    BY <2>1, <2>2, InvoiceAmounts, InvoiceSettles DEF Commits, Committed
  <2>4. ASSUME NEW i \in DOMAIN db.invoices, lines_of(db, i) # {}
        PROVE  lines_of(db', i) = lines_of(db, i) /\ db'.invoices[i].grand_total = db.invoices[i].grand_total
    BY <2>3, <2>4 DEF AmountsKept, SameSums, TotalColumns
  <2>5. CASE MayLower(r)
    BY <2>3, <2>4, <2>5 DEF MayLower
  <2>6. CASE StayPaid(db, db')
    <3>1. \A a : total_amount(db', a, {"paid"}) >= total_amount(db, a, {"paid"})
      BY <2>3, <2>6, PaidGrows DEF Settles
    <3> QED
      BY <2>4, <3>1
  <2> QED
    BY <2>3, <2>5, <2>6 DEF Settles
<1> QED
  BY <1>1, TogetherInvariant, AmountsInvariant, SettledInvariant, PTL DEF Spec, InvoicesSettled

-----------------------------------------------------------------------------
(* What else stays whole                                                        *)

\* The totals of a report and an income statement are those of its rows, unless two edits of
\* it overlapped, and a balance sheet balances always (the financial services save totals
\* column by column and rows by statements).
THEOREM ReportsStayWhole == Spec => []ReportsWhole
<1>1. TogetherInv /\ EditsInv => ReportsWhole
  <2> SUFFICES ASSUME TogetherInv, EditsInv PROVE ReportsWhole
    OBVIOUS
  <2>1. ASSUME NEW k \in DOMAIN db.financialReports
        PROVE  \/ HasTotals(db.financialReports[k], totals(db.financialReports[k].kind, db.financialReports[k].rows))
               \/ Raced(On(<<"report", k>>, {"update_report"}))
    <3>1. Settling("report", k)
      BY DEF TogetherInv, WatchedInv, Rows, Watched
    <3> QED
      BY <3>1 DEF Settling, Together, Excused, EditsOf, Watched, PathField, Rewriting
  <2>2. ASSUME NEW k \in DOMAIN db.incomeStatements
        PROVE  \/ HasTotals(db.incomeStatements[k], income_totals(db.incomeStatements[k].items))
               \/ Raced(On(<<"statement", k>>, {"update_statement"}))
    <3>1. Settling("statement", k)
      BY DEF TogetherInv, WatchedInv, Rows, Watched
    <3> QED
      BY <3>1 DEF Settling, Together, Excused, EditsOf, Watched, PathField, Rewriting
  <2>3. \A k \in DOMAIN db.balanceSheets : validate_balanced(db.balanceSheets[k].items)
    BY EditsParts DEF EditsInv, SheetsWell
  <2> QED
    BY <2>1, <2>2, <2>3 DEF ReportsWhole
<1> QED
  BY <1>1, TogetherInvariant, EditsInvariant, PTL

\* An association's plan has a period and it has one assessment rule, unless two edits of
\* these settings overlapped, and its fines come from one edit (update_settings,
\* update_subscription).
THEOREM SettingsStayWhole == Spec => []SettingsWhole
<1>1. TogetherInv /\ EditsInv => SettingsWhole
  <2> SUFFICES ASSUME TogetherInv, EditsInv, NEW a \in DOMAIN db.associations
               PROVE  /\ \/ db.associations[a].plan = None \/ db.associations[a].start # None
                         \/ Raced(On(<<"association", a>>, {"update_subscription"}))
                      /\ \/ Cardinality(rules_of(db.assessmentRules, a)) <= 1
                         \/ Raced(On(<<"association", a>>, {"update_settings"}))
                      /\ Cardinality({k[1] : k \in rules_of(db.fineRules, a)}) <= 1
    BY Zenon DEF SettingsWhole
  <2>1. Settling("plan", a) /\ Settling("rules", a)
    BY DEF TogetherInv, WatchedInv, Rows, Watched
  <2>2. /\ Together(db, "plan", a) \/ Raced(On(<<"association", a>>, {"update_subscription"}))
        /\ Together(db, "rules", a) \/ Raced(On(<<"association", a>>, {"update_settings"}))
    BY <2>1 DEF Settling, Excused, EditsOf, PathField, Rewriting
  <2>3. Together(db, "plan", a) => db.associations[a].plan = None \/ db.associations[a].start # None
    BY DEF Together, Watched
  <2>4. ASSUME Together(db, "rules", a) PROVE Cardinality(rules_of(db.assessmentRules, a)) <= 1
    <3>1. \A o, p \in rules_of(db.assessmentRules, a) : o = p
      BY <2>4 DEF Together, Watched
    <3> QED
      BY <3>1, OneOrNone
  <2>5. Cardinality({k[1] : k \in rules_of(db.fineRules, a)}) <= 1
    <3>1. \A j, k \in rules_of(db.fineRules, a) : j[1] = k[1]
      BY EditsParts DEF EditsInv, FinesWell, rules_of
    <3>2. \A x, y \in {k[1] : k \in rules_of(db.fineRules, a)} : x = y
      BY <3>1
    <3> QED
      BY <3>2, OneOrNone, Zenon
  <2> QED
    BY <2>2, <2>3, <2>4, <2>5
<1> QED
  BY <1>1, TogetherInvariant, EditsInvariant, PTL
-----------------------------------------------------------------------------
(* The features above one                                                       *)

\* The live parents of some.
Above(tables, some) == {tables.features[f].parent : f \in some} \cap Live(tables.features)

\* The walk that branch is the end of.
Walk(tables, feature, up) ==
    up = [n \in 0..Cardinality(DOMAIN tables.features) |->
            IF n = 0 THEN {feature} ELSE up[n - 1] \cup Above(tables, up[n - 1])]

LEMMA BranchIs ==
    ASSUME NEW tables, NEW feature
    PROVE  branch(tables, feature) = (CHOOSE up : Walk(tables, feature, up))[Cardinality(DOMAIN tables.features)]
  BY Zenon DEF branch, Walk, Above

LEMMA WalkExists ==
    ASSUME NEW tables, NEW feature, IsFiniteSet(DOMAIN tables.features)
    PROVE  \E up : Walk(tables, feature, up)
<1> DEFINE above(some) == some \cup Above(tables, some)
           walk(k, up) == up = [n \in 0..k |-> IF n = 0 THEN {feature} ELSE above(up[n - 1])]
           T == {k \in Nat : \E up : walk(k, up)}
<1>1. 0 \in T
  <2>1. walk(0, [n \in 0..0 |-> {feature}])
    <3> HIDE DEF above
    <3> QED
      OBVIOUS
  <2> HIDE DEF walk
  <2> QED
    BY <2>1
<1>2. ASSUME NEW k \in Nat, k \in T
      PROVE  k + 1 \in T
  <2>1. PICK up : walk(k, up)
    BY <1>2
  <2> DEFINE longer == [n \in 0..(k + 1) |-> IF n = k + 1 THEN above(up[k]) ELSE up[n]]
  <2> HIDE DEF above
  <2>2. \A n \in 0..k : up[n] = IF n = 0 THEN {feature} ELSE above(up[n - 1])
    BY <2>1
  <2>3. \A n \in 0..(k + 1) : longer[n] = IF n = 0 THEN {feature} ELSE above(longer[n - 1])
    <3>1. ASSUME NEW n \in 0..(k + 1)
          PROVE  longer[n] = IF n = 0 THEN {feature} ELSE above(longer[n - 1])
      <4>1. CASE n = k + 1
        <5>1. n # 0 /\ n - 1 = k /\ k \in 0..(k + 1) /\ k # k + 1
          BY <4>1
        <5>2. longer[k] = up[k] /\ longer[n] = above(up[k])
          BY <4>1, <5>1
        <5> QED
          BY <5>1, <5>2
      <4>2. CASE n # k + 1
        <5>1. n \in 0..k /\ longer[n] = up[n]
          BY <4>2
        <5>2. CASE n = 0
          BY <2>2, <5>1, <5>2
        <5>3. CASE n # 0
          <6>1. n - 1 \in 0..(k + 1) /\ n - 1 # k + 1
            BY <5>1, <5>3
          <6>2. longer[n - 1] = up[n - 1]
            BY <6>1
          <6> QED
            BY <2>2, <5>1, <5>3, <6>2
        <5> QED
          BY <5>2, <5>3
      <4> QED
        BY <4>1, <4>2
    <3> QED
      BY <3>1
  <2>4. walk(k + 1, longer)
    BY <2>3
  <2> HIDE DEF walk, longer
  <2> QED
    BY <2>4
<1>3. Cardinality(DOMAIN tables.features) \in Nat
  BY FS_CardinalityType
<1>4. Nat \subseteq T
  <2> HIDE DEF T
  <2> QED
    BY <1>1, <1>2, StepByStep
<1> QED
  BY <1>3, <1>4 DEF Walk

\* A feature's branch is where a walk ends.
Climbs(tables, feature, up) ==
    /\ branch(tables, feature) = up[Cardinality(DOMAIN tables.features)]
    /\ up[0] = {feature}
    /\ \A n \in Nat : n < Cardinality(DOMAIN tables.features) => up[n + 1] = up[n] \cup Above(tables, up[n])

LEMMA BranchWalk ==
    ASSUME NEW tables, NEW feature, IsFiniteSet(DOMAIN tables.features)
    PROVE  \E up : Climbs(tables, feature, up)
<1> DEFINE up == CHOOSE x : Walk(tables, feature, x)
           size == Cardinality(DOMAIN tables.features)
<1>1. Walk(tables, feature, up)
  BY WalkExists, Zenon
<1>2. size \in Nat
  BY FS_CardinalityType
<1>3. branch(tables, feature) = up[size]
  BY BranchIs
<1> HIDE DEF up
<1>4. \A n \in 0..size : up[n] = IF n = 0 THEN {feature} ELSE up[n - 1] \cup Above(tables, up[n - 1])
  <2> HIDE DEF size
  <2> QED
    BY <1>1 DEF Walk, size
<1>5. \A n \in Nat : n < size => n + 1 \in 0..size /\ n + 1 # 0 /\ (n + 1) - 1 = n
  BY <1>2
<1> HIDE DEF size
<1>6. \A n \in Nat : n < size => up[n + 1] = up[n] \cup Above(tables, up[n])
  BY <1>2, <1>4, <1>5
<1>7. up[0] = {feature}
  <2>1. 0 \in 0..size
    BY <1>2
  <2> QED
    BY <1>4, <2>1, Zenon
<1> QED
  BY <1>3, <1>6, <1>7 DEF size, Climbs

\* A set that holds a feature and the live parents of what it holds.
Upward(tables, some) == Above(tables, some) \subseteq some

LEMMA BranchLeast ==
    ASSUME NEW tables, NEW feature, IsFiniteSet(DOMAIN tables.features),
           NEW some, feature \in some, Upward(tables, some)
    PROVE  branch(tables, feature) \subseteq some
<1> DEFINE size == Cardinality(DOMAIN tables.features)
<1>1. size \in Nat
  BY FS_CardinalityType
<1>2. PICK up : Climbs(tables, feature, up)
  BY BranchWalk
<1>3. /\ branch(tables, feature) = up[size] /\ up[0] = {feature}
      /\ \A n \in Nat : n < size => up[n + 1] = up[n] \cup Above(tables, up[n])
  BY <1>2 DEF Climbs
<1> HIDE DEF size
<1> DEFINE T == {n \in Nat : n <= size => up[n] \subseteq some}
<1>4. 0 \in T
  BY <1>3
<1>5. ASSUME NEW n \in Nat, n \in T
      PROVE  n + 1 \in T
  <2>1. ASSUME n + 1 <= size PROVE up[n + 1] \subseteq some
    <3>1. n < size /\ n <= size
      BY <1>1, <2>1
    <3>2. up[n] \subseteq some /\ up[n + 1] = up[n] \cup Above(tables, up[n])
      BY <1>3, <1>5, <3>1
    <3> QED
      BY <3>2 DEF Upward, Above
  <2> QED
    BY <2>1
<1>6. Nat \subseteq T
  <2> HIDE DEF T
  <2> QED
    BY <1>4, <1>5, StepByStep
<1>7. up[size] \subseteq some
  BY <1>1, <1>6
<1> QED
  BY <1>3, <1>7

LEMMA BranchHolds ==
    ASSUME NEW tables, IsFiniteSet(DOMAIN tables.features), NEW feature \in DOMAIN tables.features
    PROVE  /\ feature \in branch(tables, feature) /\ branch(tables, feature) \subseteq DOMAIN tables.features
           /\ Upward(tables, branch(tables, feature))
<1> DEFINE D == DOMAIN tables.features
           size == Cardinality(D)
<1>1. size \in Nat
  BY FS_CardinalityType
<1>2. PICK up : Climbs(tables, feature, up)
  BY BranchWalk
<1>3. /\ branch(tables, feature) = up[size] /\ up[0] = {feature}
      /\ \A n \in Nat : n < size => up[n + 1] = up[n] \cup Above(tables, up[n])
  BY <1>2 DEF Climbs
<1>4. \A some : Above(tables, some) \subseteq D
  BY DEF Above, Live, IsLive
<1> DEFINE T == {n \in Nat : n <= size => /\ feature \in up[n] /\ up[n] \subseteq D
                                          /\ Upward(tables, up[n]) \/ Cardinality(up[n]) > n}
<1>5. IsFiniteSet(D) /\ size = Cardinality(D)
  OBVIOUS
<1> HIDE DEF D, size
<1>6. 0 \in T
  <2>1. Cardinality({feature}) = 1
    BY FS_Singleton, Zenon
  <2>2. feature \in D
    BY DEF D
  <2>3. Cardinality(up[0]) > 0 /\ feature \in up[0] /\ up[0] \subseteq D
    BY <1>3, <2>1, <2>2
  <2> QED
    BY <2>3
<1>7. ASSUME NEW n \in Nat, n \in T
      PROVE  n + 1 \in T
  <2>1. ASSUME n + 1 <= size
        PROVE  /\ feature \in up[n + 1] /\ up[n + 1] \subseteq D
               /\ Upward(tables, up[n + 1]) \/ Cardinality(up[n + 1]) > n + 1
    <3>1. n < size /\ n <= size
      BY <1>1, <2>1
    <3>2. /\ feature \in up[n] /\ up[n] \subseteq D
          /\ Upward(tables, up[n]) \/ Cardinality(up[n]) > n
          /\ up[n + 1] = up[n] \cup Above(tables, up[n])
      BY <1>3, <1>7, <3>1
    <3>3. feature \in up[n + 1] /\ up[n + 1] \subseteq D
      BY <1>4, <3>2
    <3>4. CASE Upward(tables, up[n])
      <4>1. up[n + 1] = up[n]
        BY <3>2, <3>4 DEF Upward
      <4> QED
        BY <3>3, <3>4, <4>1
    <3>5. CASE ~Upward(tables, up[n])
      <4>1. up[n] \in SUBSET up[n + 1] /\ up[n] # up[n + 1]
        BY <3>2, <3>5 DEF Upward
      <4>2. IsFiniteSet(up[n + 1]) /\ IsFiniteSet(up[n])
        BY <1>5, <3>2, <3>3, FS_Subset
      <4>3. Cardinality(up[n]) <= Cardinality(up[n + 1]) /\ Cardinality(up[n]) # Cardinality(up[n + 1])
        BY <4>1, <4>2, FS_Subset
      <4>4. Cardinality(up[n]) \in Nat /\ Cardinality(up[n + 1]) \in Nat
        BY <4>2, FS_CardinalityType
      <4>5. Cardinality(up[n + 1]) > n + 1
        BY <3>2, <3>5, <4>3, <4>4
      <4> QED
        BY <3>3, <4>5
    <3> QED
      BY <3>4, <3>5
  <2> QED
    BY <2>1
<1>8. Nat \subseteq T
  <2> HIDE DEF T
  <2> QED
    BY <1>6, <1>7, StepByStep
<1>9. size \in T
  BY <1>1, <1>8
<1>10. /\ feature \in up[size] /\ up[size] \subseteq D
       /\ Upward(tables, up[size]) \/ Cardinality(up[size]) > size
  BY <1>1, <1>9
<1>11. Cardinality(up[size]) <= size
  BY <1>5, <1>10, FS_Subset
<1>12. Cardinality(up[size]) \in Nat
  BY <1>5, <1>10, FS_Subset, FS_CardinalityType
<1> QED
  BY <1>1, <1>3, <1>10, <1>11, <1>12 DEF D

\* What a branch holds besides the feature is the live parent of one it holds.
LEMMA BranchReached ==
    ASSUME NEW tables, IsFiniteSet(DOMAIN tables.features), NEW f \in DOMAIN tables.features,
           NEW g \in branch(tables, f), g # f
    PROVE  g \in Live(tables.features) /\ \E x \in branch(tables, f) : tables.features[x].parent = g
<1> DEFINE above == branch(tables, f)
           some == {f} \cup {y \in above : y \in Live(tables.features) /\ \E x \in above : tables.features[x].parent = y}
<1>1. f \in above /\ Upward(tables, above)
  BY BranchHolds
<1>2. g \in above
  OBVIOUS
<1> HIDE DEF above
<1>3. some \subseteq above /\ f \in some
  BY <1>1
<1>4. Upward(tables, some)
  <2> SUFFICES ASSUME NEW x \in some, tables.features[x].parent \in Live(tables.features)
               PROVE  tables.features[x].parent \in some
    BY DEF Upward, Above
  <2>1. x \in above /\ tables.features[x].parent \in above
    BY <1>1, <1>3 DEF Upward, Above
  <2> QED
    BY <2>1
<1> HIDE DEF some
<1>5. above \subseteq some
  BY <1>3, <1>4, BranchLeast DEF above
<1>6. g \in some
  BY <1>2, <1>5
<1> QED
  BY <1>6 DEF some, above

\* What is above something above a feature is above the feature.
LEMMA BranchUp ==
    ASSUME NEW tables, IsFiniteSet(DOMAIN tables.features), NEW f \in DOMAIN tables.features, NEW g \in branch(tables, f)
    PROVE  branch(tables, g) \subseteq branch(tables, f)
  BY BranchHolds, BranchLeast

\* Shorter branches make no loop.
LEMMA NoLoopShorter ==
    ASSUME NEW old, NEW new, NoLoop(old), Live(new.features) \subseteq Live(old.features),
           \A f \in Live(new.features) : branch(new, f) \subseteq branch(old, f)
    PROVE  NoLoop(new)
  BY DEF NoLoop

\* Nor does a feature that goes.
LEMMA NoLoopKept ==
    ASSUME NEW old, NEW new, FeaturesOK(old), FeaturesOK(new), NoLoop(old),
           DOMAIN new.features = DOMAIN old.features, Live(new.features) \subseteq Live(old.features),
           \A x \in DOMAIN old.features : new.features[x].parent = old.features[x].parent
    PROVE  NoLoop(new)
<1>1. ASSUME NEW f \in Live(new.features)
      PROVE  branch(new, f) \subseteq branch(old, f)
  <2>1. f \in DOMAIN old.features
    BY <1>1 DEF Live, IsLive
  <2>2. IsFiniteSet(DOMAIN old.features) /\ IsFiniteSet(DOMAIN new.features)
    BY DEF FeaturesOK
  <2>3. f \in branch(old, f) /\ branch(old, f) \subseteq DOMAIN old.features /\ Upward(old, branch(old, f))
    BY <2>1, <2>2, BranchHolds
  <2>4. Upward(new, branch(old, f))
    BY <2>3 DEF Upward, Above
  <2> QED
    BY <2>2, <2>3, <2>4, BranchLeast
<1> QED
  BY <1>1, NoLoopShorter

\* A new parent that is not below the feature makes none.
LEMMA NoLoopMoved ==
    ASSUME NEW old, NEW new, FeaturesOK(old), NoLoop(old), FeaturesOK(new),
           DOMAIN new.features = DOMAIN old.features, Live(new.features) \subseteq Live(old.features),
           NEW f \in DOMAIN old.features,
           \A x \in DOMAIN old.features : x # f => new.features[x].parent = old.features[x].parent,
           LET p == new.features[f].parent
           IN  p \in Live(new.features) => \A x \in branch(old, p) : old.features[x].parent # f
    PROVE  NoLoop(new)
<1> DEFINE p == new.features[f].parent
           down(a) == branch(old, a)
           after(a) == branch(new, a)
<1>1. IsFiniteSet(DOMAIN old.features) /\ IsFiniteSet(DOMAIN new.features)
  BY DEF FeaturesOK
<1>2. \A a \in DOMAIN old.features : /\ a \in down(a) /\ down(a) \subseteq DOMAIN old.features
                                     /\ Upward(old, down(a))
  BY <1>1, BranchHolds
<1>3. \A a \in DOMAIN old.features : \A b \in down(a) : down(b) \subseteq down(a)
  BY <1>1, BranchUp
<1>4. \A a, some : a \in some /\ Upward(new, some) => after(a) \subseteq some
  BY <1>1, BranchLeast
<1>5. \A a \in DOMAIN old.features : \A b \in down(a) : b # a => \E x \in down(a) : old.features[x].parent = b
  BY <1>1, BranchReached
<1>6. Live(new.features) \subseteq DOMAIN old.features
  BY DEF Live, IsLive
<1> HIDE DEF down, after
<1>7. ASSUME NEW a \in DOMAIN old.features, f \notin down(a) \/ p \notin Live(new.features)
      PROVE  after(a) \subseteq down(a)
  <2>1. Upward(new, down(a))
    <3> SUFFICES ASSUME NEW x \in down(a), new.features[x].parent \in Live(new.features)
                 PROVE  new.features[x].parent \in down(a)
      BY DEF Upward, Above
    <3>1. x # f /\ x \in DOMAIN old.features
      BY <1>2, <1>7
    <3>2. old.features[x].parent = new.features[x].parent /\ old.features[x].parent \in Live(old.features)
      BY <3>1
    <3> QED
      BY <1>2, <3>2 DEF Upward, Above
  <2> QED
    BY <1>2, <1>4, <2>1
<1>8. ASSUME NEW a \in DOMAIN old.features, p \in Live(new.features)
      PROVE  after(a) \subseteq down(a) \cup down(p)
  <2>1. Upward(new, down(a) \cup down(p))
    <3> SUFFICES ASSUME NEW x \in down(a) \cup down(p), new.features[x].parent \in Live(new.features)
                 PROVE  new.features[x].parent \in down(a) \cup down(p)
      BY DEF Upward, Above
    <3>1. p \in down(p) /\ x \in DOMAIN old.features
      BY <1>2, <1>6, <1>8
    <3>2. CASE x = f
      BY <3>1, <3>2
    <3>3. CASE x # f
      <4>1. old.features[x].parent = new.features[x].parent /\ old.features[x].parent \in Live(old.features)
        BY <3>1, <3>3
      <4> QED
        BY <1>2, <1>6, <1>8, <4>1 DEF Upward, Above
    <3> QED
      BY <3>2, <3>3
  <2> QED
    BY <1>2, <1>4, <2>1
<1>9. ASSUME p \in Live(new.features), p # f
      PROVE  f \notin down(p)
  BY <1>5, <1>6, <1>9 DEF down
<1>10. CASE p \notin Live(new.features)
  <2>1. \A a \in Live(new.features) : after(a) \subseteq down(a)
    BY <1>6, <1>7, <1>10
  <2> QED
    BY <2>1, NoLoopShorter DEF after, down
<1>11. CASE p \in Live(new.features) /\ p = f
  <2>1. \A a \in Live(new.features) : after(a) \subseteq down(a)
    BY <1>3, <1>6, <1>7, <1>8, <1>11
  <2> QED
    BY <2>1, NoLoopShorter DEF after, down
<1>12. CASE p \in Live(new.features) /\ p # f
  <2> SUFFICES ASSUME NEW a \in Live(new.features), NEW b \in Live(new.features), a # b, a \in after(b), b \in after(a)
               PROVE  FALSE
    BY DEF NoLoop, after
  <2>1. a \in DOMAIN old.features /\ b \in DOMAIN old.features /\ p \in DOMAIN old.features
    BY <1>6, <1>12
  <2>2. f \notin down(p)
    BY <1>9, <1>12
  <2>3. ASSUME NEW x \in DOMAIN old.features, NEW y \in DOMAIN old.features, y \in after(x), x \in after(y)
        PROVE  y \in down(x)
    <3>1. CASE f \notin down(x)
      BY <1>7, <2>3, <3>1
    <3>2. CASE f \in down(x) /\ f \in down(y)
      <4>1. y \notin down(p)
        BY <1>3, <2>1, <2>2, <3>2
      <4> QED
        BY <1>8, <1>12, <2>3, <4>1
    <3>3. CASE f \in down(x) /\ f \notin down(y)
      <4>1. x \in down(y)
        BY <1>7, <2>3, <3>3
      <4> QED
        BY <1>3, <3>3, <4>1
    <3> QED
      BY <3>1, <3>2, <3>3
  <2>4. b \in down(a) /\ a \in down(b)
    BY <2>1, <2>3
  <2> QED
    BY <2>4 DEF NoLoop, down
<1> QED
  BY <1>10, <1>11, <1>12

\* A new feature is below others and above none.
LEMMA NoLoopAdded ==
    ASSUME NEW old, NEW new, FeaturesOK(old), NoLoop(old), FeaturesOK(new),
           NEW f, f \notin DOMAIN old.features, f # None, DOMAIN new.features = DOMAIN old.features \cup {f},
           \A x \in DOMAIN old.features : new.features[x] = old.features[x]
    PROVE  NoLoop(new)
<1> DEFINE down(a) == branch(old, a)
           after(a) == branch(new, a)
<1>1. IsFiniteSet(DOMAIN old.features) /\ IsFiniteSet(DOMAIN new.features)
  BY DEF FeaturesOK
<1>2. \A a \in DOMAIN old.features : /\ a \in down(a) /\ down(a) \subseteq DOMAIN old.features
                                     /\ Upward(old, down(a))
  BY <1>1, BranchHolds
<1>3. \A a, some : a \in some /\ Upward(new, some) => after(a) \subseteq some
  BY <1>1, BranchLeast
<1>4. \A x \in DOMAIN old.features : x \in Live(new.features) <=> x \in Live(old.features)
  BY DEF Live, IsLive
<1>5. \A x \in DOMAIN old.features : old.features[x].parent # f
  BY DEF FeaturesOK
<1>6. Live(new.features) \subseteq DOMAIN old.features \cup {f}
  BY DEF Live, IsLive
<1> HIDE DEF down, after
<1>7. ASSUME NEW a \in DOMAIN old.features
      PROVE  after(a) \subseteq down(a)
  <2>1. Upward(new, down(a))
    <3> SUFFICES ASSUME NEW x \in down(a), new.features[x].parent \in Live(new.features)
                 PROVE  new.features[x].parent \in down(a)
      BY DEF Upward, Above
    <3>1. x \in DOMAIN old.features
      BY <1>2
    <3>2. old.features[x].parent = new.features[x].parent /\ old.features[x].parent \in Live(old.features)
      BY <1>4, <1>5, <1>6, <3>1
    <3> QED
      BY <1>2, <3>2 DEF Upward, Above
  <2> QED
    BY <1>2, <1>3, <2>1
<1> SUFFICES ASSUME NEW a \in Live(new.features), NEW b \in Live(new.features), a # b, a \in after(b), b \in after(a)
             PROVE  FALSE
  BY DEF NoLoop, after
<1>8. CASE a = f \/ b = f
  BY <1>2, <1>6, <1>7, <1>8
<1>9. CASE a # f /\ b # f
  <2>1. a \in Live(old.features) /\ b \in Live(old.features) /\ a \in down(b) /\ b \in down(a)
    BY <1>4, <1>6, <1>7, <1>9
  <2> QED
    BY <2>1 DEF NoLoop, down
<1> QED
  BY <1>8, <1>9

\* The requests that have committed grow by the one that commits.
LEMMA WritingGrows ==
    ASSUME Sessions, NEW r \in Requests, Commits(r), NEW ops
    PROVE  /\ Requests' = Requests /\ body' = body
           /\ Writing(ops)' = IF body[r].op \in ops THEN Writing(ops) \cup {r} ELSE Writing(ops)
           /\ Writing(ops) \subseteq Requests /\ r \notin Writing(ops)
           /\ \A q \in Requests : missed[q] \subseteq missed'[q]
           /\ \A q \in Requests \ {r} : stage[q] = "open" => r \in missed'[q]
           /\ Raced(Writing(ops)) => Raced(Writing(ops))'
           /\ body[r].op \in ops /\ missed[r] \cap Writing(ops) # {} => Raced(Writing(ops))'
<1>1. Requests' = Requests /\ body' = body
  BY DEF Commits, Requests
<1>2. \A q \in Requests : missed[q] \subseteq missed'[q]
  BY DEF Commits, Sessions
<1>3. \A q \in Requests \ {r} : stage[q] = "open" => r \in missed'[q]
  BY DEF Commits
<1>4. /\ ~Committed(r) /\ Committed(r)'
      /\ \A q \in Requests \ {r} : Committed(q)' <=> Committed(q)
  BY DEF Commits, Committed
<1>5. /\ Writing(ops)' = IF body[r].op \in ops THEN Writing(ops) \cup {r} ELSE Writing(ops)
      /\ Writing(ops) \subseteq Requests /\ r \notin Writing(ops)
  BY <1>1, <1>4 DEF Writing
<1>6. Raced(Writing(ops)) => Raced(Writing(ops))'
  <2> SUFFICES ASSUME NEW p \in Writing(ops), NEW q \in Writing(ops), p # q, Overlapped(p, q)
               PROVE  Raced(Writing(ops))'
    BY DEF Raced
  <2>1. p \in Writing(ops)' /\ q \in Writing(ops)' /\ Overlapped(p, q)'
    BY <1>5, OverlapStays
  <2> QED
    BY <2>1 DEF Raced
<1>7. ASSUME body[r].op \in ops, NEW p \in missed[r] \cap Writing(ops)
      PROVE  Raced(Writing(ops))'
  <2>1. p # r /\ p \in Writing(ops)' /\ r \in Writing(ops)' /\ p \in missed'[r]
    BY <1>2, <1>5, <1>7
  <2> QED
    BY <2>1 DEF Raced, Overlapped
<1> QED
  BY <1>1, <1>2, <1>3, <1>5, <1>6, <1>7

\* They are the same where none commits.
LEMMA WritingStays ==
    ASSUME Idle, NEW ops
    PROVE  /\ Requests' = Requests /\ body' = body /\ missed' = missed /\ db' = db
           /\ Writing(ops)' = Writing(ops)
           /\ Raced(Writing(ops)) => Raced(Writing(ops))'
<1>1. Requests' = Requests /\ body' = body /\ missed' = missed /\ db' = db
  BY DEF Idle, Requests
<1>2. Writing(ops)' = Writing(ops)
  BY <1>1 DEF Idle, Writing
<1> QED
  BY <1>1, <1>2 DEF Raced, Overlapped

(* A loop of features takes two edits of parents that overlap                     *)

\* Who gives features parents, and the parents a snapshot shows.
Reparents == Writing({"update_feature"})

ShowsFeatures(old, new) ==
    \A f \in DOMAIN old.features : new.features[f].parent = old.features[f].parent

\* A snapshot shows features there are, the live ones among them live, with the parents
\* they have, or it missed an edit of a parent.
FeaturesInv ==
    /\ FeaturesOK(db)
    /\ NoLoop(db) \/ Raced(Reparents)
    /\ \A q \in Requests : stage[q] \in {"waiting", "open"} => q \notin DOMAIN db.features
    /\ \A q \in Requests : stage[q] = "open" =>
          /\ FeaturesOK(seen[q]) /\ DOMAIN seen[q].features \subseteq DOMAIN db.features
          /\ Live(db.features) \cap DOMAIN seen[q].features \subseteq Live(seen[q].features)
          /\ ShowsFeatures(seen[q], db) \/ missed[q] \cap Reparents # {}

\* What a commit does to features.
FeaturesKept(r) ==
    /\ FeaturesOK(db') /\ DOMAIN db.features \subseteq DOMAIN db'.features
    /\ DOMAIN db'.features \subseteq DOMAIN db.features \cup {r}
    /\ Live(db'.features) \cap DOMAIN db.features \subseteq Live(db.features)
    /\ ShowsFeatures(db, db') \/ r \in Reparents'
    /\ NoLoop(db) => NoLoop(db') \/ Raced(Reparents)'

LEMMA CommitFeatures ==
    ASSUME Sessions, FeaturesInv, NEW r \in Requests, Commits(r), FeaturesKept(r)
    PROVE  FeaturesInv'
<1>1. /\ Requests' = Requests /\ Reparents \subseteq Reparents'
      /\ \A q \in Requests : missed[q] \subseteq missed'[q]
      /\ \A q \in Requests \ {r} : stage[q] = "open" => r \in missed'[q]
      /\ Raced(Reparents) => Raced(Reparents)'
  BY WritingGrows DEF Reparents
<1>2. \A q \in Requests : stage'[q] \in {"waiting", "open"} => q # r /\ stage'[q] = stage[q] /\ seen'[q] = seen[q]
  BY DEF Commits, Committed
<1>3. NoLoop(db') \/ Raced(Reparents)'
  BY <1>1 DEF FeaturesInv, FeaturesKept
<1>4. ASSUME NEW q \in Requests, stage'[q] \in {"waiting", "open"}
      PROVE  q \notin DOMAIN db'.features
  BY <1>2, <1>4 DEF FeaturesInv, FeaturesKept
<1>5. ASSUME NEW q \in Requests, stage'[q] = "open"
      PROVE  /\ FeaturesOK(seen'[q]) /\ DOMAIN seen'[q].features \subseteq DOMAIN db'.features
             /\ Live(db'.features) \cap DOMAIN seen'[q].features \subseteq Live(seen'[q].features)
             /\ ShowsFeatures(seen'[q], db') \/ missed'[q] \cap Reparents' # {}
  <2>1. q # r /\ stage[q] = "open" /\ seen'[q] = seen[q]
    BY <1>2, <1>5
  <2>2. /\ FeaturesOK(seen[q]) /\ DOMAIN seen[q].features \subseteq DOMAIN db.features
        /\ Live(db.features) \cap DOMAIN seen[q].features \subseteq Live(seen[q].features)
        /\ ShowsFeatures(seen[q], db) \/ missed[q] \cap Reparents # {}
    BY <2>1 DEF FeaturesInv
  <2>3. ShowsFeatures(seen[q], db') \/ missed'[q] \cap Reparents' # {}
    <3>1. CASE missed[q] \cap Reparents # {}
      BY <1>1, <3>1
    <3>2. CASE r \in Reparents'
      BY <1>1, <2>1, <3>2
    <3>3. CASE ShowsFeatures(seen[q], db) /\ ShowsFeatures(db, db')
      BY <2>2, <3>3 DEF ShowsFeatures
    <3> QED
      BY <2>2, <3>1, <3>2, <3>3 DEF FeaturesKept
  <2> QED
    BY <2>1, <2>2, <2>3 DEF FeaturesKept
<1>6. FeaturesOK(db')
  BY DEF FeaturesKept
<1> QED
  BY <1>1, <1>3, <1>4, <1>5, <1>6, Zenon DEF FeaturesInv, Reparents

LEMMA IdleFeatures ==
    ASSUME FeaturesInv, Idle
    PROVE  FeaturesInv'
<1>1. Requests' = Requests /\ Reparents' = Reparents /\ missed' = missed /\ db' = db
  BY WritingStays DEF Reparents
<1>2. Raced(Reparents) => Raced(Reparents)'
  BY WritingStays DEF Reparents
<1>3. ASSUME NEW q \in Requests, stage'[q] = "open"
      PROVE  /\ FeaturesOK(seen'[q]) /\ DOMAIN seen'[q].features \subseteq DOMAIN db.features
             /\ Live(db.features) \cap DOMAIN seen'[q].features \subseteq Live(seen'[q].features)
             /\ ShowsFeatures(seen'[q], db) \/ missed[q] \cap Reparents # {}
  <2>1. CASE stage[q] = "open"
    BY <1>3, <2>1 DEF FeaturesInv, Idle
  <2>2. CASE stage[q] # "open"
    <3>1. seen'[q] = db
      BY <1>3, <2>2 DEF Idle
    <3> QED
      BY <3>1 DEF FeaturesInv, ShowsFeatures
  <2> QED
    BY <2>1, <2>2
<1>4. \A q \in Requests : stage'[q] \in {"waiting", "open"} => q \notin DOMAIN db.features
  BY DEF FeaturesInv, Idle
<1>5. FeaturesOK(db) /\ (NoLoop(db) \/ Raced(Reparents)')
  BY <1>2 DEF FeaturesInv
<1> QED
  BY <1>1, <1>3, <1>4, <1>5, Zenon DEF FeaturesInv, Reparents

LEMMA InitFeatures == Init => FeaturesInv
<1> SUFFICES ASSUME Init PROVE FeaturesInv
  OBVIOUS
<1>1. db = OpeningTables /\ body \in Workloads /\ \A q \in Requests : stage[q] = "waiting"
  BY DEF Init
<1> QED
  BY <1>1, OpeningFeatures DEF FeaturesInv, Requests

\* Features and roles are written by their own operations.
WritesFeatures(r) == create_feature(r) \/ update_feature(r) \/ delete_feature(r)
WritesRoles(r) == create_role(r) \/ update_role(r) \/ delete_role(r)

LEMMA CatalogueWritten ==
    ASSUME Sessions, NEW r \in Requests, CatalogueStep(r)
    PROVE  /\ ~WritesFeatures(r) => Leaves(db', {"entityTypes", "entities", "plans", "planFeatures", "roles", "permissions"})
           /\ ~WritesRoles(r) => Leaves(db', {"entityTypes", "entities", "plans", "planFeatures", "features", "permissions"})
<1>1. CASE WritesFeatures(r)
  <2>1. Handles(r, {"features"})
    BY <1>1, ZenonT(30) DEF WritesFeatures, create_feature, update_feature, delete_feature, CreateEntry,
         UpdateEntry, DeleteCoded, Decide, Handles, Leaves
  <2> QED
    BY <1>1, <2>1, HandlesFrame DEF Leaves
<1>2. CASE WritesRoles(r)
  <2>1. Handles(r, {"roles"})
    BY <1>2, ZenonT(30) DEF WritesRoles, create_role, update_role, delete_role, CreateEntry,
         UpdateEntry, DeleteCoded, Decide, Handles, Leaves
  <2> QED
    BY <1>2, <2>1, HandlesFrame DEF Leaves
<1>3. CASE ~WritesFeatures(r) /\ ~WritesRoles(r)
  <2>1. Handles(r, {"entityTypes", "entities", "plans", "planFeatures", "permissions"})
    BY <1>3, ZenonT(60) DEF WritesFeatures, WritesRoles, CatalogueStep, create_entity_type, update_entity_type,
         delete_entity_type, create_entity, update_entity, delete_entity, create_plan, update_plan, delete_plan,
         set_features, create_permission, update_permission, delete_permission, bulk_update,
         CreateEntry, UpdateEntry, DeleteEntry, DeleteCoded, Decide, Handles, Leaves
  <2> QED
    BY <2>1, HandlesFrame DEF Leaves
<1> QED
  BY <1>1, <1>2, <1>3

\* Any other step leaves them.
LEMMA FeaturesWritten ==
    ASSUME Sessions, NEW r \in Requests, Step(r), "features" \in DOMAIN db, ~WritesFeatures(r)
    PROVE  "features" \in DOMAIN db' /\ db'.features = db.features
<1>1. CASE CatalogueStep(r)
  BY <1>1, CatalogueWritten DEF Leaves
<1>2. CASE ~CatalogueStep(r)
  BY <1>2, Footprints DEF Touches
<1> QED
  BY <1>1, <1>2

LEMMA RolesWritten ==
    ASSUME Sessions, NEW r \in Requests, Step(r), "roles" \in DOMAIN db, ~WritesRoles(r)
    PROVE  "roles" \in DOMAIN db' /\ db'.roles = db.roles
<1>1. CASE CatalogueStep(r)
  BY <1>1, CatalogueWritten DEF Leaves
<1>2. CASE ~CatalogueStep(r)
  BY <1>2, Footprints DEF Touches
<1> QED
  BY <1>1, <1>2

\* The parent given is a live feature of the snapshot, or none.
GivenParent(r) == body[r].columns.parent

LEMMA CreateFeatureKept ==
    ASSUME WatchedInv, FeaturesInv, NEW r \in Requests, Commits(r), create_feature(r)
    PROVE  FeaturesKept(r)
<1> DEFINE row == With(body[r].columns, [deleted |-> FALSE])
<1>1. Sessions /\ FeaturesOK(db) /\ r \notin DOMAIN db.features /\ body \in Workloads
  BY DEF WatchedInv, FeaturesInv, Commits
<1>2. r # None /\ (body[r].op = "create_feature" => "parent" \in DOMAIN body[r].columns)
  BY <1>1, OpeningSeats, Payloads DEF Requests
<1>3. /\ ParentAllowed(r, None) /\ body[r].op = "create_feature"
      /\ Commit(r, [db EXCEPT !.features = With(@, [k \in {r} |-> row])])
  BY <1>1, Decided, ZenonT(30) DEF create_feature, CreateEntry, Decide, Asks
<1>4. {"parent", "deleted"} \subseteq DOMAIN row /\ row.parent = GivenParent(r) /\ row.deleted = FALSE
  BY <1>2, <1>3 DEF With, GivenParent
<1>5. GivenParent(r) \in DOMAIN db.features \cup {None}
  BY <1>3 DEF ParentAllowed, GivenParent, IsLive, FeaturesInv, Commits
<1> HIDE DEF row
<1>6. "features" \in DOMAIN db' /\ db'.features = With(db.features, [k \in {r} |-> row])
  BY <1>1, <1>3 DEF Commit, FeaturesOK
<1>7. /\ DOMAIN db'.features = DOMAIN db.features \cup {r} /\ db'.features[r] = row
      /\ \A x \in DOMAIN db.features : db'.features[x] = db.features[x]
  BY <1>1, <1>6 DEF With
<1>8. IsFiniteSet(DOMAIN db'.features)
  BY <1>1, <1>7, FS_AddElement DEF FeaturesOK
<1>9. FeaturesOK(db')
  BY <1>1, <1>2, <1>4, <1>5, <1>6, <1>7, <1>8 DEF FeaturesOK
<1>10. NoLoop(db) => NoLoop(db')
  BY <1>1, <1>2, <1>7, <1>9, NoLoopAdded
<1>11. Live(db'.features) \cap DOMAIN db.features \subseteq Live(db.features)
  BY <1>7 DEF Live, IsLive
<1> QED
  BY <1>7, <1>9, <1>10, <1>11 DEF FeaturesKept, ShowsFeatures

\* What an update or a deletion of a feature may do to its row.
LEMMA SavedFeature ==
    ASSUME FeaturesInv, NEW r \in Requests, Commits(r), NEW k \in DOMAIN seen[r].features, NEW wanted,
           "features" \in DOMAIN db', db'.features = Save(db.features, seen[r].features, k, wanted),
           wanted.parent \in DOMAIN db.features \cup {None}, wanted.deleted \in {TRUE, seen[r].features[k].deleted}
    PROVE  /\ FeaturesOK(db') /\ DOMAIN db'.features = DOMAIN db.features
           /\ Live(db'.features) \subseteq Live(db.features)
           /\ \A x \in DOMAIN db.features : x # k => db'.features[x] = db.features[x]
           /\ \/ db'.features[k].parent = wanted.parent
              \/ wanted.parent = seen[r].features[k].parent /\ db'.features[k].parent = db.features[k].parent
           /\ wanted.parent = seen[r].features[k].parent => db'.features[k].parent = db.features[k].parent
<1> DEFINE row == db.features[k]
<1>1. FeaturesOK(db) /\ k \in DOMAIN db.features /\ {"parent", "deleted"} \subseteq DOMAIN row
  BY DEF FeaturesInv, Commits, FeaturesOK
<1>2. /\ DOMAIN db'.features = DOMAIN db.features
      /\ db'.features[k] = Changed(row, seen[r].features[k], wanted)
      /\ \A x \in DOMAIN db.features : x # k => db'.features[x] = db.features[x]
  BY <1>1 DEF Save
<1>3. /\ DOMAIN db'.features[k] = DOMAIN row
      /\ db'.features[k].parent = IF wanted.parent # seen[r].features[k].parent THEN wanted.parent ELSE row.parent
      /\ db'.features[k].deleted = IF wanted.deleted # seen[r].features[k].deleted THEN wanted.deleted ELSE row.deleted
  BY <1>1, <1>2 DEF Changed
<1>4. db'.features[k].deleted \in {TRUE, row.deleted}
  BY <1>3
<1>5. Live(db'.features) \subseteq Live(db.features)
  <2> SUFFICES ASSUME NEW x \in DOMAIN db.features, ~db'.features[x].deleted
               PROVE  ~db.features[x].deleted
    BY <1>2 DEF Live, IsLive
  <2> QED
    BY <1>2, <1>4
<1>6. db'.features[k].parent \in DOMAIN db.features \cup {None}
  BY <1>1, <1>3 DEF FeaturesOK
<1>7. FeaturesOK(db')
  BY <1>1, <1>2, <1>3, <1>6 DEF FeaturesOK
<1> QED
  BY <1>2, <1>3, <1>5, <1>7

LEMMA UpdateFeatureKept ==
    ASSUME WatchedInv, FeaturesInv, NEW r \in Requests, Commits(r), update_feature(r)
    PROVE  FeaturesKept(r)
<1> DEFINE k == body[r].entry
           p == GivenParent(r)
           wanted == With(seen[r].features[k], body[r].columns)
<1>1. Sessions /\ FeaturesOK(db) /\ body \in Workloads
  BY DEF WatchedInv, FeaturesInv
<1>2. /\ k \in DOMAIN seen[r].features /\ ParentAllowed(r, k) /\ body[r].op = "update_feature"
      /\ Commit(r, [db EXCEPT !.features = Save(db.features, seen[r].features, k, wanted)])
  BY <1>1, Decided, ZenonT(30) DEF update_feature, UpdateEntry, Decide, Asks, IsLive
<1>3. /\ FeaturesOK(seen[r]) /\ DOMAIN seen[r].features \subseteq DOMAIN db.features
      /\ Live(db.features) \cap DOMAIN seen[r].features \subseteq Live(seen[r].features)
      /\ ShowsFeatures(seen[r], db) \/ missed[r] \cap Reparents # {}
  BY DEF FeaturesInv, Commits
<1>4. "parent" \in DOMAIN body[r].columns /\ "deleted" \notin DOMAIN body[r].columns
  BY <1>1, <1>2, Payloads DEF Requests
<1>5. wanted.parent = p /\ wanted.deleted = seen[r].features[k].deleted
  BY <1>2, <1>3, <1>4 DEF With, GivenParent, FeaturesOK
<1>6. k # None /\ p \in DOMAIN seen[r].features \cup {None}
  BY <1>2, <1>3 DEF ParentAllowed, GivenParent, IsLive, FeaturesOK
<1>7. p # None => \A f \in branch(seen[r], p) : seen[r].features[f].parent # k
  BY <1>2, <1>6 DEF ParentAllowed, _is_descendant, GivenParent
<1> HIDE DEF wanted, k, p
<1>8. "features" \in DOMAIN db' /\ db'.features = Save(db.features, seen[r].features, k, wanted)
  BY <1>1, <1>2 DEF Commit, FeaturesOK
<1>9. wanted.parent \in DOMAIN db.features \cup {None}
  BY <1>3, <1>5, <1>6
<1>10. /\ FeaturesOK(db') /\ DOMAIN db'.features = DOMAIN db.features
       /\ Live(db'.features) \subseteq Live(db.features)
       /\ \A x \in DOMAIN db.features : x # k => db'.features[x] = db.features[x]
       /\ \/ db'.features[k].parent = p
          \/ p = seen[r].features[k].parent /\ db'.features[k].parent = db.features[k].parent
  BY <1>2, <1>5, <1>8, <1>9, SavedFeature
<1>11. r \in Reparents'
  BY <1>1, <1>2, WritingGrows DEF Reparents
<1>12. CASE missed[r] \cap Reparents # {}
  <2>1. Raced(Reparents)'
    BY <1>1, <1>2, <1>12, WritingGrows DEF Reparents
  <2> QED
    BY <1>10, <1>11, <2>1 DEF FeaturesKept
<1>13. CASE ShowsFeatures(seen[r], db)
  <2>1. db'.features[k].parent = p
    BY <1>2, <1>10, <1>13 DEF ShowsFeatures, k
  <2>2. ASSUME p \in Live(db'.features), NEW x \in branch(db, p)
        PROVE  db.features[x].parent # k
    <3>1. p # None /\ p \in DOMAIN seen[r].features /\ p \in DOMAIN db.features
      BY <1>6, <1>10, <2>2 DEF FeaturesOK, Live, IsLive
    <3>2. IsFiniteSet(DOMAIN seen[r].features) /\ IsFiniteSet(DOMAIN db.features)
      BY <1>1, <1>3 DEF FeaturesOK
    <3>3. /\ p \in branch(seen[r], p) /\ branch(seen[r], p) \subseteq DOMAIN seen[r].features
          /\ Upward(seen[r], branch(seen[r], p))
      BY <3>1, <3>2, BranchHolds
    <3>4. Upward(db, branch(seen[r], p))
      <4> SUFFICES ASSUME NEW y \in branch(seen[r], p), db.features[y].parent \in Live(db.features)
                   PROVE  db.features[y].parent \in branch(seen[r], p)
        BY DEF Upward, Above
      <4>1. y \in DOMAIN seen[r].features /\ seen[r].features[y].parent = db.features[y].parent
        BY <1>13, <3>3 DEF ShowsFeatures
      <4>2. seen[r].features[y].parent \in Live(seen[r].features)
        <5>1. seen[r].features[y].parent \in DOMAIN seen[r].features \cup {None}
          BY <1>3, <4>1 DEF FeaturesOK
        <5>2. db.features[y].parent \in DOMAIN db.features /\ db.features[y].parent # None
          BY <1>1 DEF Live, IsLive, FeaturesOK
        <5> QED
          BY <1>3, <4>1, <5>1, <5>2
      <4> QED
        BY <3>3, <4>1, <4>2 DEF Upward, Above
    <3>5. x \in branch(seen[r], p)
      BY <2>2, <3>2, <3>3, <3>4, BranchLeast
    <3>6. seen[r].features[x].parent # k
      BY <1>7, <3>1, <3>5 DEF p, k
    <3> QED
      BY <1>13, <3>3, <3>5, <3>6 DEF ShowsFeatures
  <2>3. k \in DOMAIN db.features
    BY <1>2, <1>3 DEF k
  <2>4. NoLoop(db) => NoLoop(db')
    BY <1>1, <1>10, <2>1, <2>2, <2>3, NoLoopMoved
  <2> QED
    BY <1>10, <1>11, <2>4 DEF FeaturesKept
<1> QED
  BY <1>3, <1>12, <1>13

LEMMA DeleteFeatureKept ==
    ASSUME WatchedInv, FeaturesInv, NEW r \in Requests, Commits(r), delete_feature(r)
    PROVE  FeaturesKept(r)
<1> DEFINE k == body[r].entry
           wanted == [seen[r].features[k] EXCEPT !.deleted = TRUE, !.active = FALSE]
<1>1. Sessions /\ FeaturesOK(db)
  BY DEF WatchedInv, FeaturesInv
<1>2. /\ k \in DOMAIN seen[r].features
      /\ Commit(r, [db EXCEPT !.features = Save(db.features, seen[r].features, k, wanted)])
  BY <1>1, Decided, ZenonT(30) DEF delete_feature, DeleteCoded, Decide, IsLive
<1>3. FeaturesOK(seen[r]) /\ DOMAIN seen[r].features \subseteq DOMAIN db.features
  BY DEF FeaturesInv, Commits
<1>4. wanted.parent = seen[r].features[k].parent /\ wanted.deleted = TRUE
  BY <1>2, <1>3 DEF FeaturesOK
<1> HIDE DEF wanted, k
<1>5. "features" \in DOMAIN db' /\ db'.features = Save(db.features, seen[r].features, k, wanted)
  BY <1>1, <1>2 DEF Commit, FeaturesOK
<1>6. wanted.parent \in DOMAIN db.features \cup {None}
  BY <1>2, <1>3, <1>4 DEF FeaturesOK
<1>7. /\ FeaturesOK(db') /\ DOMAIN db'.features = DOMAIN db.features
      /\ Live(db'.features) \subseteq Live(db.features)
      /\ \A x \in DOMAIN db.features : x # k => db'.features[x] = db.features[x]
      /\ db'.features[k].parent = db.features[k].parent
  BY <1>2, <1>4, <1>5, <1>6, SavedFeature
<1>8. ShowsFeatures(db, db')
  BY <1>7 DEF ShowsFeatures
<1>9. NoLoop(db) => NoLoop(db')
  BY <1>1, <1>7, <1>8, NoLoopKept DEF ShowsFeatures
<1> QED
  BY <1>7, <1>8, <1>9 DEF FeaturesKept

LEMMA FeaturesStay ==
    ASSUME FeaturesInv, NEW r, "features" \in DOMAIN db', db'.features = db.features
    PROVE  FeaturesKept(r)
<1>1. FeaturesOK(db) /\ FeaturesOK(db')
  BY DEF FeaturesInv, FeaturesOK
<1>2. ShowsFeatures(db, db') /\ Live(db'.features) = Live(db.features)
  BY DEF ShowsFeatures
<1>3. NoLoop(db) => NoLoop(db')
  BY <1>1, <1>2, NoLoopKept
<1> QED
  BY <1>1, <1>2, <1>3 DEF FeaturesKept

LEMMA NextFeatures == TogetherInv /\ FeaturesInv /\ [Next]_vars => FeaturesInv'
<1> SUFFICES ASSUME TogetherInv, FeaturesInv, [Next]_vars PROVE FeaturesInv'
  OBVIOUS
<1>1. Sessions /\ WatchedInv /\ "features" \in DOMAIN db
  BY DEF TogetherInv, WatchedInv, FeaturesInv, FeaturesOK
<1>2. ASSUME NEW r \in Requests, Commits(r), Step(r)
      PROVE  FeaturesKept(r)
  <2>1. CASE WritesFeatures(r)
    BY <1>1, <1>2, <2>1, CreateFeatureKept, UpdateFeatureKept, DeleteFeatureKept DEF WritesFeatures
  <2>2. CASE ~WritesFeatures(r)
    <3>1. "features" \in DOMAIN db' /\ db'.features = db.features
      BY <1>1, <1>2, <2>2, FeaturesWritten
    <3> QED
      BY <3>1, FeaturesStay
  <2> QED
    BY <2>1, <2>2
<1> QED
  BY <1>1, <1>2, IdleFeatures, CommitFeatures, StepCases

\* In every reachable state the parent of a feature is one there is, and no two features are
\* below each other unless two edits of features overlapped: an edit reads the whole branch
\* in its snapshot and refuses a parent within it.
THEOREM FeaturesInvariant == Spec => []FeaturesInv
  BY InitFeatures, NextFeatures, TogetherInvariant, PTL DEF Spec
-----------------------------------------------------------------------------
(* A login is without a role only where who takes the role and who gives it overlap *)

\* Who gives or takes roles; every login has one; a snapshot shows who has which.
RoleWrites == Writing(RoleOps)

RolesHeld(tables) == \A l \in DOMAIN tables.logins : role_exists(tables, tables.logins[l].role)

ShowsRoles(old, new) ==
    /\ Live(old.roles) \subseteq Live(new.roles)
    /\ \A l \in DOMAIN new.logins : l \in DOMAIN old.logins /\ old.logins[l].role = new.logins[l].role

\* A snapshot shows no role that is gone and every login with its role, or it missed one
\* who gives or takes roles.
RolesInv ==
    /\ RolesOK(db)
    /\ RolesHeld(db) \/ Raced(RoleWrites)
    /\ \A q \in Requests : stage[q] = "open" =>
          RolesOK(seen[q]) /\ (ShowsRoles(seen[q], db) \/ missed[q] \cap RoleWrites # {})

\* What a commit does to roles and who has them.
RolesKept(r) ==
    /\ RolesOK(db')
    /\ \/ ShowsRoles(db, db')
       \/ r \in RoleWrites' /\ (ShowsRoles(seen[r], db) /\ RolesHeld(db) => RolesHeld(db'))

LEMMA HeldStays ==
    ASSUME NEW old, NEW new, RolesHeld(old), ShowsRoles(old, new)
    PROVE  RolesHeld(new)
<1> SUFFICES ASSUME NEW l \in DOMAIN new.logins
             PROVE  role_exists(new, new.logins[l].role)
  BY DEF RolesHeld
<1>1. role_exists(old, new.logins[l].role)
  BY DEF RolesHeld, ShowsRoles
<1>2. new.logins[l].role \in Live(old.roles)
  BY <1>1 DEF role_exists, Live, IsLive
<1>3. new.logins[l].role \in Live(new.roles)
  BY <1>2 DEF ShowsRoles
<1> QED
  BY <1>3 DEF role_exists, Live

LEMMA CommitRoles ==
    ASSUME Sessions, RolesInv, NEW r \in Requests, Commits(r), RolesKept(r)
    PROVE  RolesInv'
<1>1. /\ Requests' = Requests /\ RoleWrites \subseteq RoleWrites' /\ r \notin RoleWrites
      /\ \A q \in Requests : missed[q] \subseteq missed'[q]
      /\ \A q \in Requests \ {r} : stage[q] = "open" => r \in missed'[q]
      /\ Raced(RoleWrites) => Raced(RoleWrites)'
  BY WritingGrows DEF RoleWrites
<1>2. r \in RoleWrites' /\ missed[r] \cap RoleWrites # {} => Raced(RoleWrites)'
  BY <1>1, WritingGrows DEF RoleWrites
<1>3. stage[r] = "open" /\ \A q \in Requests : stage'[q] = "open" => q # r /\ stage[q] = "open" /\ seen'[q] = seen[q]
  BY DEF Commits, Committed
<1>4. RolesHeld(db') \/ Raced(RoleWrites)'
  <2>1. CASE Raced(RoleWrites)
    BY <1>1, <2>1
  <2>2. CASE RolesHeld(db) /\ ShowsRoles(db, db')
    BY <2>2, HeldStays
  <2>3. CASE RolesHeld(db) /\ r \in RoleWrites' /\ (ShowsRoles(seen[r], db) => RolesHeld(db'))
    BY <1>2, <1>3, <2>3 DEF RolesInv
  <2> QED
    BY <2>1, <2>2, <2>3 DEF RolesInv, RolesKept
<1>5. ASSUME NEW q \in Requests, stage'[q] = "open"
      PROVE  RolesOK(seen'[q]) /\ (ShowsRoles(seen'[q], db') \/ missed'[q] \cap RoleWrites' # {})
  <2>1. q # r /\ stage[q] = "open" /\ seen'[q] = seen[q]
    BY <1>3, <1>5
  <2>2. RolesOK(seen[q]) /\ (ShowsRoles(seen[q], db) \/ missed[q] \cap RoleWrites # {})
    BY <2>1 DEF RolesInv
  <2>3. CASE missed[q] \cap RoleWrites # {}
    BY <1>1, <2>1, <2>2, <2>3
  <2>4. CASE r \in RoleWrites'
    BY <1>1, <2>1, <2>2, <2>4
  <2>5. CASE ShowsRoles(seen[q], db) /\ ShowsRoles(db, db')
    <3>1. ShowsRoles(seen[q], db')
      BY <2>5 DEF ShowsRoles
    <3> QED
      BY <2>1, <2>2, <3>1
  <2> QED
    BY <2>2, <2>3, <2>4, <2>5 DEF RolesKept
<1>6. RolesOK(db')
  BY DEF RolesKept
<1> QED
  BY <1>1, <1>4, <1>5, <1>6, Zenon DEF RolesInv, RoleWrites

LEMMA IdleRoles ==
    ASSUME RolesInv, Idle
    PROVE  RolesInv'
<1>1. Requests' = Requests /\ RoleWrites' = RoleWrites /\ missed' = missed /\ db' = db
  BY WritingStays DEF RoleWrites
<1>2. Raced(RoleWrites) => Raced(RoleWrites)'
  BY WritingStays DEF RoleWrites
<1>3. ASSUME NEW q \in Requests, stage'[q] = "open"
      PROVE  RolesOK(seen'[q]) /\ (ShowsRoles(seen'[q], db) \/ missed[q] \cap RoleWrites # {})
  <2>1. CASE stage[q] = "open"
    BY <1>3, <2>1 DEF RolesInv, Idle
  <2>2. CASE stage[q] # "open"
    <3>1. seen'[q] = db
      BY <1>3, <2>2 DEF Idle
    <3> QED
      BY <3>1 DEF RolesInv, ShowsRoles
  <2> QED
    BY <2>1, <2>2
<1>4. RolesOK(db) /\ (RolesHeld(db) \/ Raced(RoleWrites)')
  BY <1>2 DEF RolesInv
<1> QED
  BY <1>1, <1>3, <1>4, Zenon DEF RolesInv, RoleWrites

LEMMA InitRoles == Init => RolesInv
<1> SUFFICES ASSUME Init PROVE RolesInv
  OBVIOUS
<1>1. db = OpeningTables /\ body \in Workloads /\ \A q \in Requests : stage[q] = "waiting"
  BY DEF Init
<1> QED
  BY <1>1, OpeningRoles DEF RolesInv, RolesHeld, Requests

\* New logins, and edits of logins, have a role that the snapshot shows.
GivesRoles(r) ==
    /\ {"roles", "logins"} \subseteq DOMAIN db' /\ db'.roles = db.roles
    /\ \A l \in DOMAIN db'.logins :
          /\ "role" \in DOMAIN db'.logins[l]
          /\ \/ l \in DOMAIN db.logins /\ db'.logins[l].role = db.logins[l].role
             \/ role_exists(seen[r], db'.logins[l].role)

LEMMA GivenRolesKept ==
    ASSUME Sessions, RolesInv, NEW r \in Requests, Commits(r), body[r].op \in RoleOps, GivesRoles(r)
    PROVE  RolesKept(r)
<1>1. RolesOK(db')
  BY DEF GivesRoles, RolesInv, RolesOK
<1>2. r \in RoleWrites'
  BY WritingGrows DEF RoleWrites
<1>3. ASSUME ShowsRoles(seen[r], db), RolesHeld(db), NEW l \in DOMAIN db'.logins
      PROVE  role_exists(db', db'.logins[l].role)
  <2>1. Live(seen[r].roles) \subseteq Live(db.roles) /\ Live(db'.roles) = Live(db.roles)
    BY <1>3 DEF ShowsRoles, GivesRoles
  <2>2. db'.logins[l].role \in Live(db.roles)
    <3>1. CASE l \in DOMAIN db.logins /\ db'.logins[l].role = db.logins[l].role
      BY <1>3, <3>1 DEF RolesHeld, role_exists, Live, IsLive
    <3>2. CASE role_exists(seen[r], db'.logins[l].role)
      <4>1. db'.logins[l].role \in Live(seen[r].roles)
        BY <3>2 DEF role_exists, Live, IsLive
      <4> QED
        BY <2>1, <4>1
    <3> QED
      BY <3>1, <3>2 DEF GivesRoles
  <2> QED
    BY <2>1, <2>2 DEF role_exists, Live
<1>4. ShowsRoles(seen[r], db) /\ RolesHeld(db) => RolesHeld(db')
  BY <1>3 DEF RolesHeld
<1> QED
  BY <1>1, <1>2, <1>4 DEF RolesKept

\* What an onboarding writes of people and logins.
LEMMA MembersWritten ==
    ASSUME Sessions, {"people", "logins"} \subseteq DOMAIN db, NEW r \in Requests, Commits(r), onboard(r)
    PROVE  LET b == body[r]
               members == {board_member(b, i) : i \in board_rows(seen[r], b)}
           IN  /\ b.op = "onboard" /\ DOMAIN db' = DOMAIN db /\ db'.people = With(db.people, imported_people(r))
               /\ \E login :
                     /\ db'.logins = With(db.logins, [k \in {<<r, "login", j>> : j \in members} |-> login[k[3]]])
                     /\ \A j \in members : login[j] =
                           [person |-> <<r, "owner", j>>, employee |-> None, email |-> b.owners[j].email,
                            role |-> CHOOSE k \in role_with(seen[r], "board_member") : TRUE, manages |-> {}, active |-> FALSE]
<1> DEFINE b == body[r]
           members == {board_member(b, i) : i \in board_rows(seen[r], b)}
           login(j) == [person |-> <<r, "owner", j>>, employee |-> None, email |-> b.owners[j].email,
                        role |-> CHOOSE k \in role_with(seen[r], "board_member") : TRUE, manages |-> {}, active |-> FALSE]
           rows == [k \in {<<r, "login", j>> : j \in members} |-> login(k[3])]
           logins == [j \in members |-> login(j)]
<1>1. b.op = "onboard" /\ db'.logins = With(db.logins, rows) /\ db'.people = With(db.people, imported_people(r))
  BY Decided, ZenonT(60) DEF onboard, Decide, Commit, Asks
<1>2. DOMAIN db' = DOMAIN db
  BY OnboardingWrite, HandlesFrame DEF Leaves
<1>3. rows = [k \in {<<r, "login", j>> : j \in members} |-> logins[k[3]]]
  <2> HIDE DEF members, login
  <2> QED
    OBVIOUS
<1>4. \A j \in members : logins[j] = login(j)
  OBVIOUS
<1> HIDE DEF members, login, rows, logins
<1>5. db'.logins = With(db.logins, [k \in {<<r, "login", j>> : j \in members} |-> logins[k[3]]])
  BY <1>1, <1>3
<1>6. \E f : /\ db'.logins = With(db.logins, [k \in {<<r, "login", j>> : j \in members} |-> f[k[3]]])
             /\ \A j \in members : f[j] = login(j)
  BY <1>4, <1>5
<1> QED
  BY <1>1, <1>2, <1>6, Zenon DEF members, login

LEMMA UserGives ==
    ASSUME Sessions, RolesInv, "people" \in DOMAIN db, NEW r \in Requests, Commits(r), update_user(r)
    PROVE  body[r].op \in RoleOps /\ GivesRoles(r)
<1> DEFINE b == body[r]
<1>1. RolesOK(db) /\ RolesOK(seen[r]) /\ {"people", "logins", "roles"} \subseteq DOMAIN db
  BY DEF RolesInv, RolesOK, Commits
<1>2. /\ b.op = "update_user" /\ (b.role # None => role_exists(seen[r], b.role)) /\ DOMAIN db' = DOMAIN db
      /\ db'.logins = EditedLogins(r)
  BY <1>1, UserWritten, Zenon
<1>3. db'.roles = db.roles
  <2>1. Handles(r, {"people", "logins", "employees"})
    BY LoginsWrite
  <2> QED
    BY <1>1, <2>1, HandlesFrame DEF Leaves
<1>4. ASSUME NEW l \in DOMAIN db'.logins
      PROVE  /\ "role" \in DOMAIN db'.logins[l]
             /\ db'.logins[l].role = db.logins[l].role \/ role_exists(seen[r], db'.logins[l].role)
  <2>1. l \in DOMAIN db.logins /\ "role" \in DOMAIN db.logins[l]
    BY <1>1, <1>2, <1>4 DEF RolesOK, EditedLogins
  <2>2. CASE l \notin login_of(seen[r], b.person)
    <3>1. db'.logins[l] = db.logins[l]
      BY <1>2, <2>1, <2>2 DEF EditedLogins
    <3> QED
      BY <2>1, <3>1
  <2>3. CASE l \in login_of(seen[r], b.person)
    <3>1. "role" \in DOMAIN seen[r].logins[l]
      BY <1>1, <2>3 DEF RolesOK, login_of
    <3>2. EditedLogin(r, l).role = Given(b.role, seen[r].logins[l].role)
      BY <3>1 DEF EditedLogin
    <3>3. db'.logins[l] = Changed(db.logins[l], seen[r].logins[l], EditedLogin(r, l))
      BY <1>2, <2>1, <2>3 DEF EditedLogins
    <3>4. /\ DOMAIN db'.logins[l] = DOMAIN db.logins[l]
          /\ db'.logins[l].role = IF EditedLogin(r, l).role # seen[r].logins[l].role
                                     THEN EditedLogin(r, l).role ELSE db.logins[l].role
      BY <2>1, <3>3 DEF Changed
    <3> QED
      BY <1>2, <2>1, <3>2, <3>4 DEF Given
  <2> QED
    BY <2>2, <2>3
<1>5. DOMAIN db'.logins = DOMAIN db.logins
  BY <1>2 DEF EditedLogins
<1> QED
  BY <1>1, <1>2, <1>3, <1>4, <1>5, Zenon DEF GivesRoles, RoleOps

\* The login an edit of an employee writes.
EmployeeLogin(r) == [seen[r].logins[body[r].login] EXCEPT !.role = body[r].role]

EmployeeLogins(r) ==
    [Save(db.logins, seen[r].logins, body[r].login, EmployeeLogin(r)) EXCEPT ![body[r].login].manages = body[r].associations]

LEMMA EmployeeWritten ==
    ASSUME Sessions, {"people", "logins"} \subseteq DOMAIN db, NEW r \in Requests, Commits(r), update_employee(r)
    PROVE  /\ body[r].op = "update_employee" /\ role_exists(seen[r], body[r].role)
           /\ body[r].login \in DOMAIN seen[r].logins
           /\ DOMAIN db' = DOMAIN db /\ db'.people = db.people /\ db'.logins = EmployeeLogins(r)
<1>1. /\ body[r].op = "update_employee" /\ role_exists(seen[r], body[r].role)
      /\ body[r].login \in DOMAIN seen[r].logins /\ Commit(r, [db EXCEPT !.logins = EmployeeLogins(r)])
  BY Decided, ZenonT(60) DEF update_employee, Decide, Asks, active_role, EmployeeLogins, EmployeeLogin
<1> QED
  BY <1>1 DEF Commit

\* Of the columns but the role and the associations it is the login there was.
LEMMA EmployeeColumns ==
    ASSUME NEW r, body[r].login \in DOMAIN seen[r].logins, NEW column, column \notin {"role", "manages"},
           NEW l \in DOMAIN db.logins, column \in DOMAIN db.logins[l], column \in DOMAIN seen[r].logins[body[r].login]
    PROVE  column \in DOMAIN EmployeeLogins(r)[l] /\ EmployeeLogins(r)[l][column] = db.logins[l][column]
<1> DEFINE k == body[r].login
           saved == Save(db.logins, seen[r].logins, k, EmployeeLogin(r))
<1>1. EmployeeLogin(r)[column] = seen[r].logins[k][column]
  BY DEF EmployeeLogin
<1>2. l \in DOMAIN saved /\ column \in DOMAIN saved[l] /\ saved[l][column] = db.logins[l][column]
  BY <1>1 DEF Save, Changed
<1>3. EmployeeLogins(r) = [saved EXCEPT ![k].manages = body[r].associations]
  BY DEF EmployeeLogins
<1> HIDE DEF saved
<1> QED
  BY <1>2, <1>3

LEMMA EmployeeGives ==
    ASSUME Sessions, RolesInv, "people" \in DOMAIN db, NEW r \in Requests, Commits(r),
           create_employee(r) \/ update_employee(r)
    PROVE  body[r].op \in RoleOps /\ GivesRoles(r)
<1> DEFINE b == body[r]
<1>1. RolesOK(db) /\ RolesOK(seen[r]) /\ {"people", "logins", "roles"} \subseteq DOMAIN db
  BY DEF RolesInv, RolesOK, Commits
<1>2. DOMAIN db' = DOMAIN db /\ db'.roles = db.roles
  <2>1. Handles(r, {"people", "logins", "employees"})
    BY LoginsWrite
  <2> QED
    BY <1>1, <2>1, HandlesFrame DEF Leaves
<1>3. b.op \in RoleOps /\ role_exists(seen[r], b.role)
  <2>1. CASE create_employee(r)
    BY <2>1, Decided, ZenonT(60) DEF create_employee, Decide, Asks, active_role, RoleOps
  <2>2. CASE update_employee(r)
    BY <1>1, <2>2, EmployeeWritten DEF RoleOps
  <2> QED
    BY <2>1, <2>2
<1>4. CASE create_employee(r)
  <2> DEFINE login == [person |-> None, employee |-> r, email |-> b.email, role |-> b.role,
                       manages |-> b.associations, active |-> TRUE]
  <2>1. db'.logins = With(db.logins, [k \in {<<r, "login", 1>>} |-> login])
    BY <1>1, <1>4, Decided, ZenonT(60) DEF create_employee, Decide, Commit
  <2>2. "role" \in DOMAIN login /\ login.role = b.role
    OBVIOUS
  <2> HIDE DEF login
  <2>3. ASSUME NEW l \in DOMAIN db'.logins
        PROVE  db'.logins[l] = login \/ (l \in DOMAIN db.logins /\ db'.logins[l] = db.logins[l])
    BY <2>1, <2>3 DEF With
  <2> QED
    BY <1>1, <1>2, <1>3, <2>2, <2>3 DEF GivesRoles, RolesOK
<1>5. CASE update_employee(r)
  <2> DEFINE saved == Save(db.logins, seen[r].logins, b.login, EmployeeLogin(r))
  <2>1. b.login \in DOMAIN seen[r].logins /\ db'.logins = [saved EXCEPT ![b.login].manages = b.associations]
    BY <1>1, <1>5, EmployeeWritten, Zenon DEF EmployeeLogins
  <2>2. EmployeeLogin(r).role = b.role
    BY <1>1, <2>1 DEF RolesOK, EmployeeLogin
  <2>3. /\ DOMAIN saved = DOMAIN db.logins
        /\ \A l \in DOMAIN db.logins : /\ "role" \in DOMAIN saved[l]
                                       /\ saved[l].role \in {db.logins[l].role, b.role}
    BY <1>1, <2>2 DEF Save, Changed, RolesOK
  <2> HIDE DEF saved
  <2>4. /\ DOMAIN db'.logins = DOMAIN db.logins
        /\ \A l \in DOMAIN db.logins : "role" \in DOMAIN db'.logins[l] /\ db'.logins[l].role = saved[l].role
    BY <2>1, <2>3
  <2>5. ASSUME NEW l \in DOMAIN db'.logins
        PROVE  db'.logins[l].role = db.logins[l].role \/ role_exists(seen[r], db'.logins[l].role)
    BY <1>3, <2>3, <2>4
  <2> QED
    BY <1>1, <1>2, <1>3, <2>4, <2>5 DEF GivesRoles
<1> QED
  BY <1>4, <1>5

LEMMA OnboardGives ==
    ASSUME Sessions, RolesInv, "people" \in DOMAIN db, NEW r \in Requests, Commits(r), onboard(r)
    PROVE  body[r].op \in RoleOps /\ GivesRoles(r)
<1> DEFINE b == body[r]
           members == {board_member(b, i) : i \in board_rows(seen[r], b)}
           board == role_with(seen[r], "board_member")
           chosen == CHOOSE k \in board : TRUE
<1>1. RolesOK(db) /\ RolesOK(seen[r]) /\ {"people", "logins", "roles"} \subseteq DOMAIN db
  BY DEF RolesInv, RolesOK, Commits
<1>2. DOMAIN db' = DOMAIN db /\ db'.roles = db.roles
  BY <1>1, OnboardingWrite, HandlesFrame DEF Leaves
<1>3. PICK login : /\ db'.logins = With(db.logins, [k \in {<<r, "login", j>> : j \in members} |-> login[k[3]]])
                   /\ \A j \in members : "role" \in DOMAIN login[j] /\ login[j].role = chosen
  <2>1. PICK login : /\ db'.logins = With(db.logins, [k \in {<<r, "login", j>> : j \in members} |-> login[k[3]]])
                     /\ \A j \in members : login[j] =
                           [person |-> <<r, "owner", j>>, employee |-> None, email |-> b.owners[j].email,
                            role |-> chosen, manages |-> {}, active |-> FALSE]
    BY <1>1, MembersWritten, Zenon
  <2> HIDE DEF members, chosen
  <2>2. ASSUME NEW j \in members
        PROVE  "role" \in DOMAIN login[j] /\ login[j].role = chosen
    <3>1. login[j] = [person |-> <<r, "owner", j>>, employee |-> None, email |-> b.owners[j].email,
                      role |-> chosen, manages |-> {}, active |-> FALSE]
      BY <2>1, <2>2, Zenon
    <3> QED
      BY <3>1
  <2> QED
    BY <2>1, <2>2, Zenon
<1>4. b.op \in RoleOps
  BY Zenon DEF onboard, Asks, RoleOps
<1>5. members # {} => board # {}
  BY DEF board_rows
<1>6. members # {} => role_exists(seen[r], chosen)
  <2>1. \A k \in board : role_exists(seen[r], k)
    BY DEF role_with, role_exists, Live
  <2> HIDE DEF members, board
  <2> QED
    BY <1>5, <2>1
<1> HIDE DEF members, chosen
<1>7. ASSUME NEW l \in DOMAIN db'.logins
      PROVE  /\ "role" \in DOMAIN db'.logins[l]
             /\ \/ l \in DOMAIN db.logins /\ db'.logins[l].role = db.logins[l].role
                \/ role_exists(seen[r], db'.logins[l].role)
  <2>1. CASE \E j \in members : l = <<r, "login", j>>
    <3>1. PICK j \in members : l = <<r, "login", j>>
      BY <2>1
    <3>2. db'.logins[l] = login[j]
      BY <1>3, <3>1 DEF With
    <3> QED
      BY <1>3, <1>6, <3>1, <3>2
  <2>2. CASE ~ \E j \in members : l = <<r, "login", j>>
    <3>1. l \in DOMAIN db.logins /\ db'.logins[l] = db.logins[l]
      BY <1>3, <1>7, <2>2 DEF With
    <3> QED
      BY <1>1, <3>1 DEF RolesOK
  <2> QED
    BY <2>1, <2>2
<1> QED
  BY <1>1, <1>2, <1>4, <1>7 DEF GivesRoles

\* Roles are made and edited, or go where no login has them.
LEMMA WritesRolesKept ==
    ASSUME WatchedInv, RolesInv, NEW r \in Requests, Commits(r), WritesRoles(r)
    PROVE  RolesKept(r)
<1> DEFINE k == body[r].entry
<1>1. Sessions /\ RolesOK(db) /\ RolesOK(seen[r]) /\ body \in Workloads
  BY DEF WatchedInv, RolesInv, Commits
<1>2. CASE create_role(r)
  <2> DEFINE row == With(body[r].columns, [deleted |-> FALSE])
  <2>1. Commit(r, [db EXCEPT !.roles = With(@, [x \in {r} |-> row])])
    BY <1>1, <1>2, Decided, ZenonT(30) DEF create_role, CreateEntry, Decide
  <2>2. "deleted" \in DOMAIN row /\ ~row.deleted
    BY DEF With
  <2> HIDE DEF row
  <2>3. /\ {"roles", "logins"} \subseteq DOMAIN db' /\ db'.logins = db.logins
        /\ db'.roles = With(db.roles, [x \in {r} |-> row])
    BY <1>1, <2>1 DEF Commit, RolesOK
  <2>4. \A x \in DOMAIN db'.roles : db'.roles[x] = row \/ (x \in DOMAIN db.roles /\ db'.roles[x] = db.roles[x])
    BY <2>3 DEF With
  <2>5. RolesOK(db')
    BY <1>1, <2>2, <2>3, <2>4 DEF RolesOK
  <2>6. Live(db.roles) \subseteq Live(db'.roles)
    BY <2>2, <2>3 DEF Live, IsLive, With
  <2> QED
    BY <2>3, <2>5, <2>6 DEF RolesKept, ShowsRoles
<1>3. CASE update_role(r)
  <2> DEFINE wanted == With(seen[r].roles[k], body[r].columns)
             saved == Save(db.roles, seen[r].roles, k, wanted)
  <2>1. /\ k \in DOMAIN seen[r].roles /\ body[r].op = "update_role"
        /\ Commit(r, [db EXCEPT !.roles = saved])
    BY <1>1, <1>3, Decided, ZenonT(30) DEF update_role, UpdateEntry, Decide, Asks, IsLive
  <2>2. "deleted" \notin DOMAIN body[r].columns
    BY <1>1, <2>1, Payloads DEF Requests
  <2>3. wanted.deleted = seen[r].roles[k].deleted
    BY <1>1, <2>1, <2>2 DEF With, RolesOK
  <2> HIDE DEF wanted
  <2>4. /\ DOMAIN saved = DOMAIN db.roles
        /\ \A x \in DOMAIN db.roles : "deleted" \in DOMAIN saved[x] /\ saved[x].deleted = db.roles[x].deleted
    BY <1>1, <2>3 DEF Save, Changed, RolesOK
  <2> HIDE DEF saved
  <2>5. {"roles", "logins"} \subseteq DOMAIN db' /\ db'.logins = db.logins /\ db'.roles = saved
    BY <1>1, <2>1 DEF Commit, RolesOK
  <2>6. RolesOK(db')
    BY <1>1, <2>4, <2>5 DEF RolesOK
  <2>7. Live(db.roles) \subseteq Live(db'.roles)
    BY <2>4, <2>5 DEF Live, IsLive
  <2> QED
    BY <2>5, <2>6, <2>7 DEF RolesKept, ShowsRoles
<1>4. CASE delete_role(r)
  <2> DEFINE wanted == [seen[r].roles[k] EXCEPT !.deleted = TRUE, !.active = FALSE]
             saved == Save(db.roles, seen[r].roles, k, wanted)
  <2>1. /\ body[r].op = "delete_role" /\ ~has_account_assignment(seen[r], k)
        /\ Commit(r, [db EXCEPT !.roles = saved])
    BY <1>1, <1>4, Decided, ZenonT(30) DEF delete_role, DeleteCoded, Decide, Asks
  <2> HIDE DEF wanted
  <2>2. /\ DOMAIN saved = DOMAIN db.roles
        /\ \A x \in DOMAIN db.roles : "deleted" \in DOMAIN saved[x] /\ (x # k => saved[x] = db.roles[x])
    BY <1>1 DEF Save, Changed, RolesOK
  <2> HIDE DEF saved
  <2>3. {"roles", "logins"} \subseteq DOMAIN db' /\ db'.logins = db.logins /\ db'.roles = saved
    BY <1>1, <2>1 DEF Commit, RolesOK
  <2>4. RolesOK(db')
    BY <1>1, <2>2, <2>3 DEF RolesOK
  <2>5. r \in RoleWrites'
    BY <1>1, <2>1, WritingGrows DEF RoleWrites, RoleOps
  <2>6. ASSUME ShowsRoles(seen[r], db), RolesHeld(db)
        PROVE  RolesHeld(db')
    <3> SUFFICES ASSUME NEW l \in DOMAIN db.logins
                 PROVE  role_exists(db', db.logins[l].role)
      BY <2>3 DEF RolesHeld
    <3>1. db.logins[l].role # k
      BY <2>1, <2>6 DEF ShowsRoles, has_account_assignment
    <3>2. role_exists(db, db.logins[l].role)
      BY <2>6 DEF RolesHeld
    <3> QED
      BY <2>2, <2>3, <3>1, <3>2 DEF role_exists, IsLive
  <2> QED
    BY <2>4, <2>5, <2>6 DEF RolesKept
<1> QED
  BY <1>2, <1>3, <1>4 DEF WritesRoles

\* Who writes logins.
WritesLogins(r) == update_user(r) \/ create_employee(r) \/ update_employee(r) \/ onboard(r)

\* Any other step leaves them.
LEMMA LoginsWritten ==
    ASSUME Sessions, NEW r \in Requests, Step(r), "logins" \in DOMAIN db, ~WritesLogins(r)
    PROVE  "logins" \in DOMAIN db' /\ db'.logins = db.logins
<1>1. CASE DirectoryStep(r)
  <2>1. Handles(r, {"people", "vendors", "bankAccounts"})
    BY <1>1, DirectoryWrite DEF WritesLogins
  <2> QED
    BY <2>1, HandlesFrame DEF Leaves
<1>2. CASE ~DirectoryStep(r)
  BY <1>2, Footprints DEF Touches, WritesLogins
<1> QED
  BY <1>1, <1>2

LEMMA NextRoles == TogetherInv /\ RolesInv /\ [Next]_vars => RolesInv'
<1> SUFFICES ASSUME TogetherInv, RolesInv, [Next]_vars PROVE RolesInv'
  OBVIOUS
<1>1. Sessions /\ WatchedInv /\ {"people", "roles", "logins"} \subseteq DOMAIN db
  BY DEF TogetherInv, WatchedInv, RolesInv, RolesOK, HasColumns, Watched
<1>2. ASSUME NEW r \in Requests, Commits(r), Step(r)
      PROVE  RolesKept(r)
  <2>1. CASE WritesRoles(r)
    BY <1>1, <1>2, <2>1, WritesRolesKept
  <2>2. CASE WritesLogins(r)
    <3>1. body[r].op \in RoleOps /\ GivesRoles(r)
      BY <1>1, <1>2, <2>2, UserGives, EmployeeGives, OnboardGives DEF WritesLogins
    <3> QED
      BY <1>1, <1>2, <3>1, GivenRolesKept
  <2>3. CASE ~WritesRoles(r) /\ ~WritesLogins(r)
    <3>1. {"roles", "logins"} \subseteq DOMAIN db' /\ db'.roles = db.roles /\ db'.logins = db.logins
      BY <1>1, <1>2, <2>3, RolesWritten, LoginsWritten
    <3> QED
      BY <3>1 DEF RolesKept, RolesInv, RolesOK, ShowsRoles
  <2> QED
    BY <2>1, <2>2, <2>3
<1> QED
  BY <1>1, <1>2, IdleRoles, CommitRoles, StepCases

\* In every reachable state every login has a role that is not deleted, unless requests
\* that give or delete roles overlapped: they look at their snapshots.
THEOREM RolesInvariant == Spec => []RolesInv
  BY InitRoles, NextRoles, TogetherInvariant, PTL DEF Spec

\* What the two invariants say of features and roles.
THEOREM CataloguesStayWhole == Spec => []CataloguesWhole
<1>1. FeaturesInv /\ RolesInv => CataloguesWhole
  BY DEF FeaturesInv, RolesInv, CataloguesWhole, Reparents, RoleWrites, RolesHeld
<1> QED
  BY <1>1, FeaturesInvariant, RolesInvariant, PTL
-----------------------------------------------------------------------------
(* The address of a login is that of its person, until the profile changes it      *)

\* The logins of people are the same, and those that are new are of others.
SameLogins(old, new) ==
    /\ DOMAIN old.people \subseteq DOMAIN new.people
    /\ \A l \in DOMAIN old.logins : /\ l \in DOMAIN new.logins
                                    /\ new.logins[l].person = old.logins[l].person
                                    /\ new.logins[l].employee = old.logins[l].employee
    /\ \A l \in DOMAIN new.logins : new.logins[l].person \in DOMAIN old.people => l \in DOMAIN old.logins

\* A person's login has the person's address or the profile changed it.
Reachable(tables) ==
    \A p \in DOMAIN tables.people : Addressed(tables, p) \/ ProfileEdits(p) # {}

\* People and logins are well and addressed, in the tables and in what a request sees; who
\* has not committed has no row there.
AddressesInv ==
    /\ AddressesOK(db) /\ Reachable(db) /\ DOMAIN OpeningTables.logins \subseteq DOMAIN db.logins
    /\ \A q \in Requests : stage[q] \in {"waiting", "open"} =>
          \A k \in DOMAIN db.people \cup DOMAIN db.logins : k[1] # q
    /\ \A q \in Requests : stage[q] = "open" =>
          /\ AddressesOK(seen[q]) /\ Reachable(seen[q]) /\ DOMAIN OpeningTables.logins \subseteq DOMAIN seen[q].logins
          /\ SameLogins(seen[q], db)

\* What a commit does to people and logins.
AddressesKept(r) ==
    /\ AddressesOK(db') /\ SameLogins(db, db')
    /\ \A k \in DOMAIN db'.people : k \in DOMAIN db.people \/ k[1] = r
    /\ \A k \in DOMAIN db'.logins : k \in DOMAIN db.logins \/ k[1] = r
    /\ \A p \in DOMAIN db'.people :
          IF p \in DOMAIN db.people THEN Addressed(db, p) => Addressed(db', p) \/ ProfileEdits(p)' # {}
          ELSE Addressed(db', p)

LEMMA SameLoginsPass ==
    ASSUME NEW old, NEW middle, NEW new, SameLogins(old, middle), SameLogins(middle, new)
    PROVE  SameLogins(old, new)
  BY DEF SameLogins

\* The login of an edit is one there was from the start.
LEMMA EditsLogin ==
    ASSUME WatchedInv, NEW q \in Requests, body[q].op = "update_user_details"
    PROVE  body[q].login \in DOMAIN OpeningTables.logins
  BY OpeningAddresses DEF WatchedInv, Requests

LEMMA ProfileEditsGrow ==
    ASSUME WatchedInv, AddressesInv, NEW r \in Requests, Commits(r), SameLogins(db, db'), NEW p
    PROVE  ProfileEdits(p) \subseteq ProfileEdits(p)'
<1> SUFFICES ASSUME NEW q \in ProfileEdits(p)
             PROVE  q \in ProfileEdits(p)'
  OBVIOUS
<1>1. /\ q \in Writing({"update_user_details"}) /\ q \in Requests /\ body[q].op = "update_user_details"
      /\ body[q].email # None /\ own_row(db.logins[body[q].login]) = <<"people", p>>
  BY DEF ProfileEdits, Writing
<1>2. q \in Writing({"update_user_details"})' /\ body' = body
  BY <1>1, WritingGrows DEF WatchedInv
<1>3. body[q].login \in DOMAIN db.logins
  BY <1>1, EditsLogin DEF AddressesInv
<1>4. own_row(db'.logins[body[q].login]) = own_row(db.logins[body[q].login])
  BY <1>3 DEF SameLogins, own_row
<1> QED
  BY <1>1, <1>2, <1>4 DEF ProfileEdits

LEMMA CommitAddresses ==
    ASSUME WatchedInv, AddressesInv, NEW r \in Requests, Commits(r), AddressesKept(r)
    PROVE  AddressesInv'
<1>1. Requests' = Requests
  BY DEF Commits, Requests
<1>2. \A q \in Requests : stage'[q] \in {"waiting", "open"} => q # r /\ stage'[q] = stage[q] /\ seen'[q] = seen[q]
  BY DEF Commits, Committed
<1>3. SameLogins(db, db') /\ AddressesOK(db') /\ DOMAIN OpeningTables.logins \subseteq DOMAIN db'.logins
  BY DEF AddressesKept, AddressesInv, SameLogins
<1>4. \A p : ProfileEdits(p) # {} => ProfileEdits(p)' # {}
  BY <1>3, ProfileEditsGrow
<1>5. \A p \in DOMAIN db'.people : Addressed(db', p) \/ ProfileEdits(p)' # {}
  BY <1>4 DEF AddressesKept, AddressesInv, Reachable
<1>6. ASSUME NEW q \in Requests, stage'[q] \in {"waiting", "open"}, NEW k \in DOMAIN db'.people \cup DOMAIN db'.logins
      PROVE  k[1] # q
  BY <1>2, <1>6 DEF AddressesInv, AddressesKept
<1>7. ASSUME NEW q \in Requests, stage'[q] = "open"
      PROVE  /\ AddressesOK(seen'[q]) /\ DOMAIN OpeningTables.logins \subseteq DOMAIN seen'[q].logins
             /\ \A p \in DOMAIN seen'[q].people : Addressed(seen'[q], p) \/ ProfileEdits(p)' # {}
             /\ SameLogins(seen'[q], db')
  <2>1. stage[q] = "open" /\ seen'[q] = seen[q]
    BY <1>2, <1>7
  <2>2. /\ AddressesOK(seen[q]) /\ DOMAIN OpeningTables.logins \subseteq DOMAIN seen[q].logins
        /\ Reachable(seen[q]) /\ SameLogins(seen[q], db)
    BY <2>1 DEF AddressesInv
  <2>3. SameLogins(seen[q], db')
    BY <1>3, <2>2, SameLoginsPass
  <2> QED
    BY <1>4, <2>1, <2>2, <2>3 DEF Reachable
<1> QED
  BY <1>1, <1>3, <1>5, <1>6, <1>7, Zenon DEF AddressesInv, Reachable

LEMMA IdleAddresses ==
    ASSUME AddressesInv, Idle
    PROVE  AddressesInv'
<1>1. Requests' = Requests /\ db' = db
  BY DEF Idle, Requests
<1>2. \A p : ProfileEdits(p)' = ProfileEdits(p)
  BY WritingStays DEF ProfileEdits
<1>3. SameLogins(db, db)
  BY DEF SameLogins
<1>4. ASSUME NEW q \in Requests, stage'[q] = "open"
      PROVE  /\ AddressesOK(seen'[q]) /\ DOMAIN OpeningTables.logins \subseteq DOMAIN seen'[q].logins
             /\ Reachable(seen'[q]) /\ SameLogins(seen'[q], db)
  BY <1>3, <1>4 DEF AddressesInv, Idle
<1>5. /\ AddressesOK(db) /\ Reachable(db) /\ DOMAIN OpeningTables.logins \subseteq DOMAIN db.logins
      /\ \A q \in Requests : stage'[q] \in {"waiting", "open"} => \A k \in DOMAIN db.people \cup DOMAIN db.logins : k[1] # q
  BY DEF AddressesInv, Idle
<1>6. \A tables : Reachable(tables) => \A p \in DOMAIN tables.people : Addressed(tables, p) \/ ProfileEdits(p)' # {}
  BY <1>2 DEF Reachable
<1>7. \A p \in DOMAIN db.people : Addressed(db, p) \/ ProfileEdits(p)' # {}
  BY <1>5, <1>6
<1>8. \A q \in Requests : stage'[q] = "open" =>
         \A p \in DOMAIN seen'[q].people : Addressed(seen'[q], p) \/ ProfileEdits(p)' # {}
  BY <1>4, <1>6
<1> QED
  BY <1>1, <1>4, <1>5, <1>7, <1>8, Zenon DEF AddressesInv, Reachable

LEMMA InitAddresses == Init => AddressesInv
<1> SUFFICES ASSUME Init PROVE AddressesInv
  OBVIOUS
<1>1. db = OpeningTables /\ body \in Workloads /\ \A q \in Requests : stage[q] = "waiting"
  BY DEF Init
<1> QED
  BY <1>1, OpeningAddresses DEF AddressesInv, Reachable, Requests

\* What the invariant says of a login.
LoginColumns == {"person", "employee", "email"}

\* Rows change, and none is added.
LEMMA EditedAddresses ==
    ASSUME AddressesInv, NEW r, {"people", "logins"} \subseteq DOMAIN db', DOMAIN db'.people = DOMAIN db.people,
           DOMAIN db'.logins = DOMAIN db.logins, \A p \in DOMAIN db.people : "email" \in DOMAIN db'.people[p],
           \A l \in DOMAIN db.logins : /\ LoginColumns \subseteq DOMAIN db'.logins[l]
                                       /\ db'.logins[l].person = db.logins[l].person
                                       /\ db'.logins[l].employee = db.logins[l].employee,
           \A p \in DOMAIN db.people : Addressed(db, p) => Addressed(db', p) \/ ProfileEdits(p)' # {}
    PROVE  AddressesKept(r)
<1>1. AddressesOK(db)
  BY DEF AddressesInv
<1>2. AddressesOK(db')
  BY <1>1 DEF AddressesOK, LoginColumns
<1>3. SameLogins(db, db')
  BY DEF SameLogins
<1> QED
  BY <1>2, <1>3 DEF AddressesKept

\* A person is reached as before.
LEMMA SameAddressed ==
    ASSUME NEW old, NEW new, NEW p, DOMAIN new.logins = DOMAIN old.logins, new.people[p].email = old.people[p].email,
           \A l \in DOMAIN old.logins : new.logins[l].person = old.logins[l].person /\ new.logins[l].email = old.logins[l].email
    PROVE  Addressed(old, p) => Addressed(new, p)
  BY DEF Addressed, login_of

\* People and logins are added, each login with the address of its person.
Adds(r, P, L) ==
    /\ {"people", "logins"} \subseteq DOMAIN db'
    /\ DOMAIN db'.people = DOMAIN db.people \cup P /\ \A p \in DOMAIN db.people : db'.people[p] = db.people[p]
    /\ DOMAIN db'.logins = DOMAIN db.logins \cup L /\ \A l \in DOMAIN db.logins : db'.logins[l] = db.logins[l]
    /\ \A p \in P : p[1] = r /\ p # None /\ "email" \in DOMAIN db'.people[p]
    /\ \A l \in L : LET login == db'.logins[l]
                    IN  /\ l[1] = r /\ LoginColumns \subseteq DOMAIN login
                        /\ login.person = None \/ (login.person \in P /\ login.email = db'.people[login.person].email)

LEMMA AddedAddresses ==
    ASSUME AddressesInv, NEW r \in Requests, Commits(r), NEW P, NEW L, Adds(r, P, L)
    PROVE  AddressesKept(r)
<1> USE DEF Adds
<1>1. /\ AddressesOK(db) /\ \A p \in P : p \notin DOMAIN db.people
      /\ \A l \in L : l \notin DOMAIN db.logins
  BY DEF AddressesInv, Commits
<1>2. AddressesOK(db')
  <2>1. \A p \in DOMAIN db'.people : p # None /\ "email" \in DOMAIN db'.people[p]
    BY <1>1 DEF AddressesOK
  <2>2. \A l \in DOMAIN db'.logins : LoginColumns \subseteq DOMAIN db'.logins[l]
    BY <1>1 DEF AddressesOK, LoginColumns
  <2>3. \A l \in DOMAIN db'.logins : db'.logins[l].person \in DOMAIN db'.people \cup {None}
    BY <1>1 DEF AddressesOK
  <2> QED
    BY <2>1, <2>2, <2>3 DEF AddressesOK, LoginColumns
<1>3. SameLogins(db, db')
  <2>1. \A l \in L : db'.logins[l].person \notin DOMAIN db.people
    BY <1>1 DEF AddressesOK
  <2> QED
    BY <2>1 DEF SameLogins
<1>4. ASSUME NEW p \in DOMAIN db'.people
      PROVE  IF p \in DOMAIN db.people THEN Addressed(db, p) => Addressed(db', p) ELSE Addressed(db', p)
  <2>1. p # None
    BY <1>2, <1>4 DEF AddressesOK
  <2>2. CASE p \in DOMAIN db.people
    <3>1. \A l \in L : db'.logins[l].person # p
      BY <1>1, <2>1, <2>2
    <3> QED
      BY <2>2, <3>1 DEF Addressed, login_of
  <2>3. CASE p \notin DOMAIN db.people
    <3>1. \A l \in DOMAIN db.logins : db.logins[l].person # p
      BY <1>1, <2>1, <2>3 DEF AddressesOK
    <3> QED
      BY <1>4, <2>1, <2>3, <3>1 DEF Addressed, login_of
  <2> QED
    BY <2>2, <2>3
<1> QED
  BY <1>2, <1>3, <1>4 DEF AddressesKept

LEMMA CreateUserAddresses ==
    ASSUME WatchedInv, AddressesInv, NEW r \in Requests, Commits(r), create_user(r)
    PROVE  AddressesKept(r)
<1> DEFINE b == body[r]
           row == [email |-> b.email, phone |-> b.phone, role |-> b.role, association |-> b.association,
                   unit |-> b.home, code |-> "active", deleted |-> FALSE]
           k == <<r, "user", 1>>
           people == [x \in {k} |-> row]
<1>1. Commit(r, [db EXCEPT !.people = With(@, people)])
  BY Decided, ZenonT(30) DEF create_user, Decide, WatchedInv
<1>2. k[1] = r /\ k # None /\ "email" \in DOMAIN row
  BY NewKeys DEF WatchedInv, Requests
<1> HIDE DEF row, k
<1>3. {"people", "logins"} \subseteq DOMAIN db /\ \A p \in DOMAIN db.people : p[1] # r
  BY DEF AddressesInv, AddressesOK, Commits
<1>4. /\ {"people", "logins"} \subseteq DOMAIN db' /\ db'.people = With(db.people, people)
      /\ db'.logins = db.logins
  <2> HIDE DEF people
  <2> QED
    BY <1>1, <1>3 DEF Commit
<1>5. DOMAIN people = {k} /\ people[k] = row
  OBVIOUS
<1> HIDE DEF people
<1>6. /\ DOMAIN db'.people = DOMAIN db.people \cup {k} /\ db'.people[k] = row
      /\ \A p \in DOMAIN db.people : db'.people[p] = db.people[p]
  BY <1>2, <1>3, <1>4, <1>5 DEF With
<1>7. Adds(r, {k}, {})
  BY <1>2, <1>4, <1>6 DEF Adds
<1> QED
  BY <1>7, AddedAddresses

LEMMA CreateEmployeeAddresses ==
    ASSUME WatchedInv, AddressesInv, NEW r \in Requests, Commits(r), create_employee(r)
    PROVE  AddressesKept(r)
<1> DEFINE b == body[r]
           login == [person |-> None, employee |-> r, email |-> b.email, role |-> b.role,
                     manages |-> b.associations, active |-> TRUE]
           k == <<r, "login", 1>>
           logins == [x \in {k} |-> login]
<1>1. \E employees : Commit(r, [db EXCEPT !.employees = employees, !.logins = With(@, logins)])
  BY Decided, ZenonT(60) DEF create_employee, Decide, WatchedInv
<1>2. k[1] = r /\ login.person = None /\ LoginColumns \subseteq DOMAIN login
  BY DEF LoginColumns
<1> HIDE DEF login, k
<1>3. {"people", "logins"} \subseteq DOMAIN db /\ \A l \in DOMAIN db.logins : l[1] # r
  BY DEF AddressesInv, AddressesOK, Commits
<1>4. /\ {"people", "logins"} \subseteq DOMAIN db' /\ db'.logins = With(db.logins, logins)
      /\ db'.people = db.people
  <2> HIDE DEF logins
  <2> QED
    BY <1>1, <1>3 DEF Commit
<1>5. DOMAIN logins = {k} /\ logins[k] = login
  OBVIOUS
<1> HIDE DEF logins
<1>6. /\ DOMAIN db'.logins = DOMAIN db.logins \cup {k} /\ db'.logins[k] = login
      /\ \A l \in DOMAIN db.logins : db'.logins[l] = db.logins[l]
  BY <1>2, <1>3, <1>4, <1>5 DEF With
<1>7. Adds(r, {}, {k})
  BY <1>2, <1>4, <1>6 DEF Adds
<1> QED
  BY <1>7, AddedAddresses

\* The least of numbers is one of them.
LEMMA LeastRow ==
    ASSUME NEW T \in SUBSET Nat, T # {}
    PROVE  Sets!Min(T) \in T
<1>1. T \in SUBSET Nat /\ T # {}
  OBVIOUS
<1>2. PICK x \in T : \A y \in T : x <= y
  BY <1>1, LeastOfNaturals, Zenon
<1> QED
  BY <1>2, Zenon DEF Sets!Min

\* A board member is an owner of the workbook.
LEMMA MembersAreOwners ==
    ASSUME body \in Workloads, NEW r \in Requests, body[r].op = "onboard", NEW tables, NEW i \in board_rows(tables, body[r])
    PROVE  board_member(body[r], i) \in DOMAIN body[r].owners
<1> DEFINE b == body[r]
           named_so == {j \in DOMAIN b.owners : b.owners[j].name = b.board[i].name}
           there == {j \in named_so : unit_key(b.owners[j]) = unit_key(b.board[i])}
<1>1. DOMAIN b.owners \subseteq Nat
  <2>1. Len(b.owners) \in Nat /\ DOMAIN b.owners = 1..Len(b.owners)
    BY Payloads DEF Requests
  <2> QED
    BY <2>1
<1>2. board_member(b, i) # None
  BY DEF board_rows
<1>3. board_member(b, i) = CASE there # {} -> Sets!Min(there)
                             [] there = {} /\ Cardinality(named_so) = 1 -> CHOOSE j \in named_so : TRUE
                             [] OTHER -> None
  BY DEF board_member
<1>4. named_so \subseteq DOMAIN b.owners /\ there \subseteq named_so
  OBVIOUS
<1> HIDE DEF there, named_so
<1>5. CASE there # {}
  <2>1. there \in SUBSET Nat
    BY <1>1, <1>4
  <2>2. Sets!Min(there) \in there
    BY <1>5, <2>1, LeastRow
  <2> QED
    BY <1>3, <1>4, <1>5, <2>2
<1>6. CASE there = {} /\ Cardinality(named_so) = 1
  <2>1. named_so # {}
    BY <1>6, FS_EmptySet
  <2>2. (CHOOSE j \in named_so : TRUE) \in named_so
    BY <2>1
  <2> QED
    BY <1>3, <1>4, <1>6, <2>2
<1> QED
  BY <1>2, <1>3, <1>5, <1>6

\* The people of a workbook, the owners with the addresses of their rows.
LEMMA ImportedAddresses ==
    ASSUME body \in Workloads, NEW r \in Requests, body[r].op = "onboard"
    PROVE  /\ \A k \in DOMAIN imported_people(r) : /\ k[1] = r /\ k # None
                                                   /\ "email" \in DOMAIN imported_people(r)[k]
           /\ \A j \in DOMAIN body[r].owners :
                 /\ <<r, "owner", j>> \in DOMAIN imported_people(r)
                 /\ imported_people(r)[<<r, "owner", j>>].email = body[r].owners[j].email
<1> DEFINE owners == body[r].owners
           tenants == {j \in rented_out(body[r]) : ~blank(owners[j].tenant_email)}
           first == [k \in {<<r, "owner", j>> : j \in DOMAIN owners} |->
                       resident(r, k[3], owners[k[3]].email, owners[k[3]].phone, "homeowner")]
           second == [k \in {<<r, "tenant", j>> : j \in tenants} |->
                        resident(r, k[3], owners[k[3]].tenant_email, owners[k[3]].tenant_phone, "tenant")]
<1>1. imported_people(r) = With(first, second)
  BY Zenon DEF imported_people
<1>2. DOMAIN owners \subseteq Nat /\ tenants \subseteq DOMAIN owners
  <2>1. Len(owners) \in Nat /\ DOMAIN owners = 1..Len(owners)
    BY Payloads DEF Requests
  <2> QED
    BY <2>1 DEF rented_out
<1>3. \A j \in Nat : <<r, "owner", j>> # None /\ <<r, "tenant", j>> # None
  BY NewKeys DEF Requests
<1>4. ASSUME NEW j, NEW email, NEW phone, NEW code
      PROVE  "email" \in DOMAIN resident(r, j, email, phone, code) /\ resident(r, j, email, phone, code).email = email
  BY DEF resident
<1> HIDE DEF owners, tenants
<1>5. /\ \A j \in DOMAIN owners : /\ <<r, "owner", j>> \in DOMAIN first
                                  /\ first[<<r, "owner", j>>].email = owners[j].email
      /\ \A k \in DOMAIN first : k[1] = r /\ k[2] = "owner" /\ k # None /\ "email" \in DOMAIN first[k]
  BY <1>2, <1>3, <1>4
<1>6. \A k \in DOMAIN second : k[1] = r /\ k[2] = "tenant" /\ k # None /\ "email" \in DOMAIN second[k]
  BY <1>2, <1>3, <1>4
<1>7. \A j : <<r, "owner", j>>[2] = "owner"
  OBVIOUS
<1> HIDE DEF first, second
<1>8. /\ DOMAIN imported_people(r) = DOMAIN first \cup DOMAIN second
      /\ \A k \in DOMAIN first : k \notin DOMAIN second => imported_people(r)[k] = first[k]
      /\ \A k \in DOMAIN second : imported_people(r)[k] = second[k]
  BY <1>1 DEF With
<1>9. \A k \in DOMAIN first : k \notin DOMAIN second
  BY <1>5, <1>6
<1> QED
  BY <1>5, <1>6, <1>8, <1>9 DEF owners

LEMMA OnboardAddresses ==
    ASSUME WatchedInv, AddressesInv, NEW r \in Requests, Commits(r), onboard(r)
    PROVE  AddressesKept(r)
<1> DEFINE b == body[r]
           members == {board_member(b, i) : i \in board_rows(seen[r], b)}
           P == DOMAIN imported_people(r)
           L == {<<r, "login", j>> : j \in members}
           board == CHOOSE k \in role_with(seen[r], "board_member") : TRUE
<1>1. {"people", "logins"} \subseteq DOMAIN db /\ Sessions /\ body \in Workloads
  BY DEF AddressesInv, AddressesOK, WatchedInv
<1>2. b.op = "onboard" /\ DOMAIN db' = DOMAIN db /\ db'.people = With(db.people, imported_people(r))
  BY <1>1, MembersWritten, Zenon
<1>3. PICK login : /\ db'.logins = With(db.logins, [k \in L |-> login[k[3]]])
                   /\ \A j \in members : /\ LoginColumns \subseteq DOMAIN login[j]
                                         /\ login[j].person = <<r, "owner", j>>
                                         /\ login[j].email = b.owners[j].email
  <2>1. PICK login : /\ db'.logins = With(db.logins, [k \in L |-> login[k[3]]])
                     /\ \A j \in members : login[j] =
                           [person |-> <<r, "owner", j>>, employee |-> None, email |-> b.owners[j].email,
                            role |-> board, manages |-> {}, active |-> FALSE]
    BY <1>1, MembersWritten, Zenon
  <2> HIDE DEF members, board, L
  <2>2. ASSUME NEW j \in members
        PROVE  /\ LoginColumns \subseteq DOMAIN login[j]
               /\ login[j].person = <<r, "owner", j>> /\ login[j].email = b.owners[j].email
    <3>1. login[j] = [person |-> <<r, "owner", j>>, employee |-> None, email |-> b.owners[j].email,
                      role |-> board, manages |-> {}, active |-> FALSE]
      BY <2>1, <2>2, Zenon
    <3> QED
      BY <3>1 DEF LoginColumns
  <2> QED
    BY <2>1, <2>2, Zenon
<1>4. members \subseteq DOMAIN b.owners
  BY <1>1, <1>2, MembersAreOwners
<1>5. /\ \A p \in P : p[1] = r /\ p # None /\ "email" \in DOMAIN imported_people(r)[p]
      /\ \A j \in DOMAIN b.owners : /\ <<r, "owner", j>> \in P
                                    /\ imported_people(r)[<<r, "owner", j>>].email = b.owners[j].email
  BY <1>1, <1>2, ImportedAddresses
<1>6. /\ \A p \in DOMAIN db.people : p[1] # r
      /\ \A l \in DOMAIN db.logins : l[1] # r
  BY DEF AddressesInv, Commits
<1>7. /\ DOMAIN db'.people = DOMAIN db.people \cup P
      /\ \A p \in P : db'.people[p] = imported_people(r)[p]
      /\ \A p \in DOMAIN db.people : db'.people[p] = db.people[p]
  BY <1>2, <1>5, <1>6 DEF With
<1> HIDE DEF members, P
<1>8. /\ DOMAIN db'.logins = DOMAIN db.logins \cup L
      /\ \A l \in DOMAIN db.logins : db'.logins[l] = db.logins[l]
      /\ \A l \in L : l[1] = r /\ l[3] \in members /\ db'.logins[l] = login[l[3]]
  <2>1. \A l \in L : l[1] = r /\ l[3] \in members
    OBVIOUS
  <2> HIDE DEF L
  <2> QED
    BY <1>3, <1>6, <2>1 DEF With
<1> HIDE DEF L
<1>9. ASSUME NEW l \in L
      PROVE  /\ l[1] = r /\ LoginColumns \subseteq DOMAIN db'.logins[l]
             /\ db'.logins[l].person \in P /\ db'.logins[l].email = db'.people[db'.logins[l].person].email
  <2>1. PICK j \in members : j = l[3]
    BY <1>8
  <2>2. /\ LoginColumns \subseteq DOMAIN db'.logins[l] /\ db'.logins[l].person = <<r, "owner", j>>
        /\ db'.logins[l].email = b.owners[j].email
    BY <1>3, <1>8, <2>1
  <2>3. <<r, "owner", j>> \in P /\ db'.people[<<r, "owner", j>>].email = b.owners[j].email
    BY <1>4, <1>5, <1>7
  <2> QED
    BY <1>8, <2>2, <2>3
<1>10. Adds(r, P, L)
  BY <1>1, <1>2, <1>5, <1>7, <1>8, <1>9 DEF Adds
<1> QED
  BY <1>10, AddedAddresses

\* An edit of a person writes the address to the login too, and finds them the same if they were.
LEMMA UpdateUserAddresses ==
    ASSUME WatchedInv, AddressesInv, NEW r \in Requests, Commits(r), update_user(r)
    PROVE  AddressesKept(r)
<1> DEFINE b == body[r]
<1>1. PICK k : k = b.person
  OBVIOUS
<1>2. PICK email : email = b.email
  OBVIOUS
<1>3. PICK old, logins : old = seen[r] /\ logins = login_of(seen[r], k)
  OBVIOUS
<1>4. {"people", "logins"} \subseteq DOMAIN db /\ Sessions
  BY DEF AddressesInv, AddressesOK, WatchedInv
<1>5. /\ k \in DOMAIN old.people /\ DOMAIN db' = DOMAIN db /\ db'.logins = EditedLogins(r)
      /\ \E new : db'.people = Save(db.people, old.people, k, new) /\ new.email = Given(email, old.people[k].email)
  <2>1. /\ b.person \in DOMAIN seen[r].people /\ DOMAIN db' = DOMAIN db /\ db'.logins = EditedLogins(r)
        /\ \E unit : db'.people = Save(db.people, seen[r].people, b.person, EditedPerson(r, unit))
    BY <1>4, UserWritten, Zenon
  <2>2. "email" \in DOMAIN seen[r].people[b.person]
    BY <2>1 DEF AddressesInv, AddressesOK, Commits
  <2>3. \A unit : EditedPerson(r, unit).email = Given(b.email, seen[r].people[b.person].email)
    BY <2>2 DEF EditedPerson
  <2> QED
    BY <1>1, <1>2, <1>3, <2>1, <2>3
<1>6. PICK new : db'.people = Save(db.people, old.people, k, new) /\ new.email = Given(email, old.people[k].email)
  BY <1>5
<1>7. /\ AddressesOK(old) /\ AddressesOK(db) /\ SameLogins(old, db) /\ Reachable(old)
  BY <1>3 DEF AddressesInv, Commits
<1>8. /\ DOMAIN db'.people = DOMAIN db.people /\ k \in DOMAIN db.people
      /\ \A p \in DOMAIN db.people : "email" \in DOMAIN db'.people[p] /\ (p # k => db'.people[p] = db.people[p])
      /\ db'.people[k].email = IF new.email # old.people[k].email THEN new.email ELSE db.people[k].email
  <2>1. k \in DOMAIN db.people /\ \A p \in DOMAIN db.people : "email" \in DOMAIN db.people[p]
    BY <1>5, <1>7 DEF AddressesOK, SameLogins
  <2>2. /\ DOMAIN db'.people = DOMAIN db.people
        /\ \A p \in DOMAIN db.people : p # k => db'.people[p] = db.people[p]
        /\ db'.people[k] = Changed(db.people[k], old.people[k], new)
    BY <1>6, <2>1 DEF Save
  <2>3. /\ DOMAIN db'.people[k] = DOMAIN db.people[k]
        /\ db'.people[k].email = IF new.email # old.people[k].email THEN new.email ELSE db.people[k].email
    BY <2>1, <2>2 DEF Changed
  <2> QED
    BY <2>1, <2>2, <2>3
<1>9. ASSUME NEW l \in DOMAIN db.logins
      PROVE  /\ LoginColumns \subseteq DOMAIN db'.logins[l]
             /\ db'.logins[l].person = db.logins[l].person
             /\ db'.logins[l].employee = db.logins[l].employee
             /\ l \notin logins => db'.logins[l].email = db.logins[l].email
             /\ l \in logins =>
                   db'.logins[l].email = IF Given(email, old.logins[l].email) # old.logins[l].email
                                         THEN Given(email, old.logins[l].email) ELSE db.logins[l].email
  <2>1. LoginColumns \subseteq DOMAIN db.logins[l]
    BY <1>7, <1>9 DEF AddressesOK, LoginColumns
  <2>2. CASE l \notin logins
    <3>1. db'.logins[l] = db.logins[l]
      BY <1>1, <1>3, <1>5, <1>9, <2>2 DEF EditedLogins
    <3> QED
      BY <2>1, <2>2, <3>1
  <2>3. CASE l \in logins
    <3>1. l \in DOMAIN old.logins /\ LoginColumns \subseteq DOMAIN old.logins[l]
      BY <1>3, <1>7, <2>3 DEF AddressesOK, LoginColumns, login_of
    <3>2. LET wanted == EditedLogin(r, l)
          IN  /\ wanted.person = old.logins[l].person /\ wanted.employee = old.logins[l].employee
              /\ wanted.email = Given(email, old.logins[l].email)
      BY <1>2, <1>3, <3>1 DEF LoginColumns, EditedLogin
    <3>3. db'.logins[l] = Changed(db.logins[l], old.logins[l], EditedLogin(r, l))
      BY <1>1, <1>3, <1>5, <1>9, <2>3 DEF EditedLogins
    <3> QED
      BY <2>1, <2>3, <3>2, <3>3 DEF Changed, LoginColumns
  <2> QED
    BY <2>2, <2>3
<1>10. DOMAIN db'.logins = DOMAIN db.logins
  BY <1>5 DEF EditedLogins
<1>11. logins = login_of(db, k)
  BY <1>3, <1>5, <1>7 DEF SameLogins, login_of
<1>12. \A p : login_of(db', p) = login_of(db, p)
  BY <1>9, <1>10 DEF login_of
<1>13. ASSUME NEW p \in DOMAIN db.people, p # k, Addressed(db, p)
       PROVE  Addressed(db', p)
  <2>1. \A l \in login_of(db, p) : l \notin logins /\ l \in DOMAIN db.logins
    BY <1>11, <1>13 DEF login_of
  <2> QED
    BY <1>8, <1>9, <1>12, <1>13, <2>1 DEF Addressed
<1>14. ASSUME Addressed(db, k)
       PROVE  Addressed(db', k) \/ ProfileEdits(k)' # {}
  <2>1. SameLogins(db, db')
    BY <1>8, <1>9, <1>10 DEF SameLogins
  <2>2. CASE ~Addressed(old, k)
    BY <1>5, <1>7, <2>1, <2>2, ProfileEditsGrow DEF Reachable
  <2>3. CASE Addressed(old, k)
    <3> SUFFICES ASSUME NEW l \in logins
                 PROVE  db'.logins[l].email = db'.people[k].email
      BY <1>11, <1>12 DEF Addressed
    <3>1. /\ old.logins[l].email = old.people[k].email /\ db.logins[l].email = db.people[k].email
          /\ l \in DOMAIN db.logins
      BY <1>3, <1>11, <1>14, <2>3 DEF Addressed, login_of
    <3> QED
      BY <1>6, <1>8, <1>9, <3>1
  <2> QED
    BY <2>2, <2>3
<1>15. \A l \in DOMAIN db.logins : /\ LoginColumns \subseteq DOMAIN db'.logins[l]
                                   /\ db'.logins[l].person = db.logins[l].person
                                   /\ db'.logins[l].employee = db.logins[l].employee
  BY <1>9
<1>16. \A p \in DOMAIN db.people : Addressed(db, p) => Addressed(db', p) \/ ProfileEdits(p)' # {}
  BY <1>13, <1>14
<1> QED
  BY <1>4, <1>5, <1>8, <1>10, <1>15, <1>16, EditedAddresses, Zenon

\* Who leaves people their addresses, and logins whole.
LEMMA LeftAddresses ==
    ASSUME AddressesInv, NEW r, {"people", "logins"} \subseteq DOMAIN db', DOMAIN db'.people = DOMAIN db.people,
           db'.logins = db.logins,
           \A p \in DOMAIN db.people : "email" \in DOMAIN db'.people[p] /\ db'.people[p].email = db.people[p].email
    PROVE  AddressesKept(r)
<1>1. \A p \in DOMAIN db.people : Addressed(db, p) => Addressed(db', p)
  BY DEF Addressed, login_of
<1>2. \A l \in DOMAIN db.logins : LoginColumns \subseteq DOMAIN db.logins[l]
  BY DEF AddressesInv, AddressesOK, LoginColumns
<1> QED
  BY <1>1, <1>2, EditedAddresses

LEMMA DeleteUserAddresses ==
    ASSUME WatchedInv, AddressesInv, NEW r \in Requests, Commits(r), delete_user(r)
    PROVE  AddressesKept(r)
<1>1. {"people", "logins"} \subseteq DOMAIN db /\ \A p \in DOMAIN db.people : "email" \in DOMAIN db.people[p]
  BY DEF AddressesInv, AddressesOK
<1>2. PICK k : k = body[r].person
  OBVIOUS
<1>3. Commit(r, [db EXCEPT !.people = Delete(@, seen[r].people, {body[r].person})])
  BY Decided, Zenon DEF delete_user, Decide, WatchedInv
<1>4. PICK loaded : loaded = seen[r].people
  OBVIOUS
<1>5. /\ {"people", "logins"} \subseteq DOMAIN db' /\ db'.logins = db.logins
      /\ db'.people = Delete(db.people, loaded, {k})
  BY <1>1, <1>2, <1>3, <1>4 DEF Commit
<1>6. /\ DOMAIN db'.people = DOMAIN db.people
      /\ \A p \in DOMAIN db.people : DOMAIN db'.people[p] = DOMAIN db.people[p] /\ db'.people[p].email = db.people[p].email
  BY <1>1, <1>5 DEF Delete, Mark
<1> QED
  BY <1>1, <1>5, <1>6, LeftAddresses

LEMMA UpdateEmployeeAddresses ==
    ASSUME WatchedInv, AddressesInv, NEW r \in Requests, Commits(r), update_employee(r)
    PROVE  AddressesKept(r)
<1>1. {"people", "logins"} \subseteq DOMAIN db /\ AddressesOK(db) /\ AddressesOK(seen[r]) /\ Sessions
  BY DEF AddressesInv, AddressesOK, Commits, WatchedInv
<1>2. /\ body[r].login \in DOMAIN seen[r].logins /\ DOMAIN db' = DOMAIN db
      /\ db'.people = db.people /\ db'.logins = EmployeeLogins(r)
  BY <1>1, EmployeeWritten
<1>3. DOMAIN db'.logins = DOMAIN db.logins
  BY <1>2 DEF EmployeeLogins, Save
<1>4. \A l \in DOMAIN db.logins : \A column \in LoginColumns :
         column \in DOMAIN db'.logins[l] /\ db'.logins[l][column] = db.logins[l][column]
  <2>1. \A column \in LoginColumns : /\ column \notin {"role", "manages"}
                                     /\ \A l \in DOMAIN db.logins : column \in DOMAIN db.logins[l]
                                     /\ column \in DOMAIN seen[r].logins[body[r].login]
    BY <1>1, <1>2 DEF AddressesOK, LoginColumns
  <2> QED
    BY <1>2, <2>1, EmployeeColumns
<1>5. \A l \in DOMAIN db.logins : /\ LoginColumns \subseteq DOMAIN db'.logins[l]
                                  /\ db'.logins[l].person = db.logins[l].person
                                  /\ db'.logins[l].employee = db.logins[l].employee
                                  /\ db'.logins[l].email = db.logins[l].email
  BY <1>4 DEF LoginColumns
<1>6. \A p \in DOMAIN db.people : Addressed(db, p) => Addressed(db', p)
  BY <1>2, <1>3, <1>5 DEF Addressed, login_of
<1>7. \A p \in DOMAIN db.people : "email" \in DOMAIN db'.people[p]
  BY <1>1, <1>2 DEF AddressesOK
<1> QED
  BY <1>1, <1>2, <1>3, <1>5, <1>6, <1>7, EditedAddresses

\* A profile writes the address to the person, and that it did is known.
LEMMA DetailsAddresses ==
    ASSUME WatchedInv, AddressesInv, NEW r \in Requests, Commits(r), update_user_details(r)
    PROVE  AddressesKept(r)
<1>1. Sessions
  BY DEF WatchedInv
<1>2. body[r].op = "update_user_details"
  BY <1>1, DetailsWritten
<1>3. PICK t, k, e, p : DetailsSaved(r, t, k, e, p)
  BY <1>1, DetailsWritten
<1>4. db' = [[db EXCEPT ![t][k].email = e] EXCEPT ![t][k].phone = p]
  BY <1>3 DEF DetailsSaved
<1>5. own_row(seen[r].logins[body[r].login]) = <<t, k>> /\ t \in {"people", "employees"}
  BY <1>3, Zenon DEF DetailsSaved
<1>6. e = IF body[r].email # None THEN body[r].email ELSE db[t][k].email
  BY <1>3, Zenon DEF DetailsSaved
<1>7. {"people", "logins"} \subseteq DOMAIN db /\ \A x \in DOMAIN db.people : "email" \in DOMAIN db.people[x]
  BY DEF AddressesInv, AddressesOK
<1>8. DOMAIN db' = DOMAIN db /\ db'.logins = db.logins
  BY <1>4, <1>5, <1>7
<1>9. CASE t = "employees"
  <2>1. db'.people = db.people
    BY <1>4, <1>7, <1>9
  <2> QED
    BY <1>7, <1>8, <2>1, LeftAddresses
<1>10. CASE t = "people"
  <2>1. db'.people = [[db.people EXCEPT ![k].email = e] EXCEPT ![k].phone = p]
    BY <1>4, <1>7, <1>10
  <2>2. /\ DOMAIN db'.people = DOMAIN db.people
        /\ \A x \in DOMAIN db.people : x # k => db'.people[x] = db.people[x]
        /\ k \in DOMAIN db.people => /\ DOMAIN db'.people[k] = DOMAIN db.people[k]
                                     /\ db'.people[k].email = e
    BY <1>7, <2>1
  <2>3. CASE body[r].email = None
    <3>1. k \in DOMAIN db.people => db'.people[k].email = db.people[k].email
      BY <1>6, <1>10, <2>2, <2>3
    <3>2. \A x \in DOMAIN db.people : "email" \in DOMAIN db'.people[x] /\ db'.people[x].email = db.people[x].email
      BY <1>7, <2>2, <3>1
    <3> QED
      BY <1>7, <1>8, <2>2, <3>2, LeftAddresses
  <2>4. CASE body[r].email # None
    <3>1. r \in Writing({"update_user_details"})' /\ body' = body
      <4>1. Sessions /\ body' = body /\ body[r].op \in {"update_user_details"}
        BY <1>1, <1>2 DEF Commits
      <4> QED
        BY <4>1, WritingGrows
    <3>2. own_row(db'.logins[body[r].login]) = <<"people", k>>
      <4>1. body[r].login \in DOMAIN seen[r].logins /\ SameLogins(seen[r], db)
        BY <1>2, EditsLogin DEF AddressesInv, Commits
      <4>2. own_row(db.logins[body[r].login]) = own_row(seen[r].logins[body[r].login])
        BY <4>1 DEF SameLogins, own_row
      <4> QED
        BY <1>5, <1>8, <1>10, <4>2
    <3>3. r \in ProfileEdits(k)'
      BY <2>4, <3>1, <3>2 DEF ProfileEdits
    <3>4. \A x \in DOMAIN db.people : x # k => (Addressed(db, x) => Addressed(db', x))
      BY <1>8, <2>2 DEF Addressed, login_of
    <3>5. \A x \in DOMAIN db.people : Addressed(db, x) => Addressed(db', x) \/ ProfileEdits(x)' # {}
      BY <3>3, <3>4
    <3>6. \A l \in DOMAIN db.logins : LoginColumns \subseteq DOMAIN db.logins[l]
      BY DEF AddressesInv, AddressesOK, LoginColumns
    <3>7. \A x \in DOMAIN db.people : "email" \in DOMAIN db'.people[x]
      BY <1>7, <2>2
    <3> QED
      BY <1>7, <1>8, <2>2, <3>5, <3>6, <3>7, EditedAddresses
  <2> QED
    BY <2>3, <2>4
<1> QED
  BY <1>5, <1>9, <1>10

LEMMA NextAddresses == TogetherInv /\ AddressesInv /\ [Next]_vars => AddressesInv'
<1> SUFFICES ASSUME TogetherInv, AddressesInv, [Next]_vars PROVE AddressesInv'
  OBVIOUS
<1>1. Sessions /\ WatchedInv /\ {"people", "logins"} \subseteq DOMAIN db
  BY DEF TogetherInv, WatchedInv, AddressesInv, AddressesOK
<1>2. ASSUME NEW r \in Requests, Commits(r), Step(r)
      PROVE  AddressesKept(r)
  <2>1. CASE create_user(r) \/ update_user(r) \/ delete_user(r)
    BY <1>1, <1>2, <2>1, CreateUserAddresses, UpdateUserAddresses, DeleteUserAddresses
  <2>2. CASE create_employee(r) \/ update_employee(r) \/ update_user_details(r) \/ onboard(r)
    BY <1>1, <1>2, <2>2, CreateEmployeeAddresses, UpdateEmployeeAddresses, DetailsAddresses, OnboardAddresses
  <2>3. CASE ~(\/ create_user(r) \/ update_user(r) \/ delete_user(r)
               \/ create_employee(r) \/ update_employee(r) \/ update_user_details(r) \/ onboard(r))
    <3>1. "logins" \in DOMAIN db' /\ db'.logins = db.logins
      BY <1>1, <1>2, <2>3, LoginsWritten DEF WritesLogins
    <3>2. "people" \in DOMAIN db' /\ db'.people = db.people
      BY <1>1, <1>2, <2>3, PeopleStay DEF WritesPeople
    <3> QED
      BY <3>1, <3>2, LeftAddresses DEF AddressesInv, AddressesOK
  <2> QED
    BY <2>1, <2>2, <2>3
<1> QED
  BY <1>1, <1>2, IdleAddresses, CommitAddresses, StepCases

\* In every reachable state the logins of a person have the person's address, unless the
\* person gave another in the profile, which changes the person and not the login
\* (update_user_details); update_user changes both at once.
THEOREM AddressesInvariant == Spec => []AddressesInv
  BY InitAddresses, NextAddresses, TogetherInvariant, PTL DEF Spec

\* A person's address is that of the login and the unit one of the association, but for what
\* overlapped, what the profile changed and an edit that leaves the unit out.
THEOREM PeopleStayWhole == Spec => []PeopleWhole
<1>1. TogetherInv /\ AddressesInv => PeopleWhole
  <2> SUFFICES ASSUME TogetherInv, AddressesInv, NEW p \in DOMAIN db.people
               PROVE  LET person == db.people[p]
                          edits == On(<<"person", p>>, {"update_user"})
                      IN  /\ Addressed(db, p) \/ ProfileEdits(p) # {}
                          /\ \/ person.unit \in units_of(db, person.association) \cup {None}
                             \/ Raced(edits)
                             \/ \E q \in edits : body[q].association # None /\ body[q].home = None
    BY DEF PeopleWhole, Live
  <2>1. Settling("person", p)
    BY DEF TogetherInv, WatchedInv, Rows, Watched
  <2>2. EditsOf("person", p) = On(<<"person", p>>, {"update_user"})
    BY DEF EditsOf, PathField, Rewriting
  <2>3. Together(db, "person", p) => db.people[p].unit \in units_of(db, db.people[p].association) \cup {None}
    BY Housed
  <2> QED
    BY <2>1, <2>2, <2>3 DEF Settling, Excused, AddressesInv, Reachable
<1> QED
  BY <1>1, TogetherInvariant, AddressesInvariant, PTL

\* Whatever the workload, the columns and rows that belong together stay together in every
\* table of the server, unless edits of them overlapped.
THEOREM RowsStayWhole == Spec => []WholeUnlessRaced
<1>1. TogetherInv => \A e \in DOMAIN db.events : validate_pass_settings(db.events[e]) \/ Raced(On(<<"event", e>>, {"update_event"}))
  <2> SUFFICES ASSUME TogetherInv, NEW e \in DOMAIN db.events
               PROVE  validate_pass_settings(db.events[e]) \/ Raced(On(<<"event", e>>, {"update_event"}))
    OBVIOUS
  <2>1. Settling("event", e)
    BY DEF TogetherInv, WatchedInv, Rows, Watched
  <2> QED
    BY <2>1 DEF Settling, Together, Excused, EditsOf, Watched, PathField, Rewriting
<1>2. TogetherInv /\ PollsWhole /\ ImagesWhole /\ TicketsWhole /\ InvoicesWhole /\ ReportsWhole
      /\ PeopleWhole /\ SettingsWhole /\ CataloguesWhole => WholeUnlessRaced
  BY <1>1 DEF WholeUnlessRaced
<1> QED
  BY <1>2, TogetherInvariant, PollsStayWhole, ImagesStayWhole, TicketsStayWhole, InvoicesStayWhole, ReportsStayWhole,
     PeopleStayWhole, SettingsStayWhole, CataloguesStayWhole, PTL
=============================================================================
