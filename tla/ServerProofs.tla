---------------------------- MODULE ServerProofs ----------------------------
(* Invariants of the server, for any tables, accounts and workloads.            *)
(*                                                                           *)
(* A step either leaves the tables alone or is the commit of one request        *)
(* (lemma StepCases), and the commit of a service leaves the tables of the      *)
(* others (the footprints). Each invariant is then proved from the handlers     *)
(* that write the tables it is about. What a handler decides on is its          *)
(* snapshot; the invariants say what a snapshot may lack: the writes of          *)
(* requests that committed since, all of them in `missed'.                     *)
EXTENDS Server, FiniteSetTheorems, SumsTheorems, TLAPS

Sessions == StageOK /\ DOMAIN seen = Requests /\ DOMAIN missed = Requests

\* A step that writes no table; the snapshot of a request that begins is of the tables
\* there are.
Idle ==
    /\ UNCHANGED <<db, body, missed>> /\ now' \in {now, now + 1} /\ StageOK' /\ DOMAIN seen' = Requests
    /\ \A q \in Requests :
         /\ Committed(q)' <=> Committed(q)
         /\ stage'[q] \in {"waiting", "open"} => stage[q] \in {"waiting", "open"}
         /\ stage'[q] = "open" => seen'[q] = IF stage[q] = "open" THEN seen[q] ELSE db

\* r commits, whatever it writes: the requests that are open have missed that.
Commits(r) ==
    /\ UNCHANGED <<body, now>> /\ StageOK' /\ DOMAIN seen' = Requests
    /\ stage[r] = "open" /\ Committed(r)'
    /\ \A q \in Requests \ {r} : stage'[q] = stage[q] /\ seen'[q] = seen[q]
    /\ missed' = [q \in Requests |-> IF stage[q] = "open" /\ q # r THEN missed[q] \cup {r}
                                     ELSE missed[q]]

Leaves(tables, written) ==
    DOMAIN tables = DOMAIN db /\ \A t \in DOMAIN db \ written : tables[t] = db[t]

\* r ends; if it commits, it leaves all tables but those that are written.
Handles(r, written) ==
    \/ Refuse(r) \/ Abort(r)
    \/ \E tables : Commit(r, tables) /\ Leaves(tables, written)

\* A commit writes the tables and ends its request alone.
LEMMA CommitCommits ==
    ASSUME Sessions, NEW r \in Requests, NEW tables, Commit(r, tables)
    PROVE  Commits(r) /\ db' = tables
  BY DEF Sessions, StageOK, Commit, Ends, Commits, Committed, Requests

\* A request that is refused or fails writes nothing.
LEMMA RefuseIdles ==
    ASSUME Sessions, NEW r \in Requests, Refuse(r) \/ Abort(r)
    PROVE  Idle
  BY DEF Sessions, StageOK, Refuse, Abort, Ends, Idle, Committed, Requests

\* A request that commits was not refused and did not fail.
LEMMA Decided ==
    ASSUME Sessions, NEW r \in Requests, Commits(r)
    PROVE  ~Refuse(r) /\ ~Abort(r)
  BY DEF Sessions, StageOK, Commits, Committed, Refuse, Abort, Ends

\* So a handler's step is one or the other, and leaves the other tables.
LEMMA HandlesFrame ==
    ASSUME Sessions, NEW r \in Requests, NEW written, Handles(r, written)
    PROVE  (Idle \/ Commits(r)) /\ Leaves(db', written)
<1>1. CASE Refuse(r) \/ Abort(r)
  <2>1. Idle
    BY <1>1, RefuseIdles
  <2> QED
    BY <2>1 DEF Idle, Leaves
<1>2. CASE \E tables : Commit(r, tables) /\ Leaves(tables, written)
  <2>1. PICK tables : Commit(r, tables) /\ Leaves(tables, written)
    BY <1>2
  <2> QED
    BY <2>1, CommitCommits
<1> QED
  BY <1>1, <1>2 DEF Handles
-----------------------------------------------------------------------------
(* The footprints: which tables the handlers of a service write                 *)

\* Posting and editing polls.
LEMMA PollsTell ==
    ASSUME NEW r \in Requests, create_poll(r) \/ update_poll(r)
    PROVE  Handles(r, {"polls", "pollOptions", "pollVotes", "notifications"})
  BY Zenon DEF create_poll, update_poll, Decide, Handles, Leaves

\* Deleting them.
LEMMA PollsDelete ==
    ASSUME NEW r \in Requests, delete_poll(r)
    PROVE  Handles(r, {"polls"})
  BY Zenon DEF delete_poll, Decide, Handles, Leaves

\* Answering them.
LEMMA PollsWrite ==
    ASSUME NEW r \in Requests, vote_poll(r) \/ toggle_poll_like(r) \/ add_poll_comment(r)
    PROVE  Handles(r, {"pollVotes", "pollLikes", "pollComments"})
  BY Zenon DEF vote_poll, toggle_poll_like, add_poll_comment, Decide, Handles, Leaves

\* Posting and editing events.
LEMMA EventsTell ==
    ASSUME NEW r \in Requests, create_event(r) \/ update_event(r)
    PROVE  Handles(r, {"events", "notifications"})
  BY Zenon DEF create_event, update_event, Decide, Handles, Leaves

\* Deleting them.
LEMMA EventsDelete ==
    ASSUME NEW r \in Requests, delete_event(r)
    PROVE  Handles(r, {"events"})
  BY Zenon DEF delete_event, Decide, Handles, Leaves

\* Liking and commenting on them.
LEMMA EventsWrite ==
    ASSUME NEW r \in Requests, toggle_event_like(r) \/ add_event_comment(r)
    PROVE  Handles(r, {"eventLikes", "eventComments"})
  BY Zenon DEF toggle_event_like, add_event_comment, Decide, Handles, Leaves

\* Answering an invitation.
LEMMA AnswersWrite ==
    ASSUME NEW r \in Requests, rsvp(r) \/ clear_rsvp(r)
    PROVE  Handles(r, {"rsvps"})
  BY Zenon DEF rsvp, clear_rsvp, Decide, Handles, Leaves

\* Posting announcements.
LEMMA AnnouncementsTell ==
    ASSUME NEW r \in Requests, create_announcement(r)
    PROVE  Handles(r, {"announcements", "notifications"})
  BY Zenon DEF create_announcement, Decide, Handles, Leaves

\* Editing, deleting and commenting on them.
LEMMA AnnouncementsWrite ==
    ASSUME NEW r \in Requests,
           update_announcement(r) \/ delete_announcement(r) \/ add_announcement_comment(r)
    PROVE  Handles(r, {"announcements", "announcementComments"})
  BY Zenon DEF update_announcement, delete_announcement, add_announcement_comment, Decide, Handles,
         Leaves

\* Liking them.
LEMMA LikesWrite ==
    ASSUME NEW r \in Requests, toggle_like(r)
    PROVE  Handles(r, {"likes"})
  BY Zenon DEF toggle_like, Decide, Handles, Leaves

\* The chat about an item.
LEMMA ItemsTell ==
    ASSUME NEW r \in Requests, send_chat(r)
    PROVE  Handles(r, {"chat", "frames", "notifications"})
  BY Zenon DEF send_chat, Decide, Handles, Leaves

\* Listing, editing, deleting and reporting items.
LEMMA ItemsWrite ==
    ASSUME NEW r \in Requests, create_item(r) \/ update_item(r) \/ delete_item(r) \/ add_report(r)
    PROVE  Handles(r, {"items", "images", "reports"})
  BY Zenon DEF create_item, update_item, delete_item, add_report, Decide, Handles, Leaves

\* Keeping an item in mind.
LEMMA FavoritesWrite ==
    ASSUME NEW r \in Requests, toggle_favorite(r)
    PROVE  Handles(r, {"favorites"})
  BY Zenon DEF toggle_favorite, Decide, Handles, Leaves

\* Looking at an item.
LEMMA ViewsWrite ==
    ASSUME NEW r \in Requests, record_view(r)
    PROVE  Handles(r, {"views"})
  BY SMT DEF record_view, Decide, Handles, Leaves

\* Service requests but their deletion.
LEMMA RequestsTell ==
    ASSUME NEW r \in Requests,
           create_service_request(r) \/ update_service_status(r) \/ map_service_request(r) \/ send_service_message(r)
    PROVE  Handles(r, {"serviceRequests", "serviceMessages", "frames", "notifications"})
  BY Zenon DEF create_service_request, update_service_status, map_service_request,
         send_service_message, Decide, Handles, Leaves

\* Deleting service requests.
LEMMA RequestsWrite ==
    ASSUME NEW r \in Requests, delete_service_request(r)
    PROVE  Handles(r, {"serviceRequests"})
  BY Zenon DEF delete_service_request, Decide, Handles, Leaves

\* Board tasks but their deletion.
LEMMA TasksTell ==
    ASSUME NEW r \in Requests, create_task(r) \/ update_task_status(r) \/ send_task_message(r)
    PROVE  Handles(r, {"boardTasks", "taskMessages", "frames", "notifications"})
  BY Zenon DEF create_task, update_task_status, send_task_message, Decide, Handles, Leaves

\* Deleting board tasks.
LEMMA TasksWrite ==
    ASSUME NEW r \in Requests, delete_task(r)
    PROVE  Handles(r, {"boardTasks"})
  BY Zenon DEF delete_task, Decide, Handles, Leaves

\* Calling a meeting.
LEMMA MeetingsTell ==
    ASSUME NEW r \in Requests, create_meeting(r)
    PROVE  Handles(r, {"meetings", "notifications"})
  BY Zenon DEF create_meeting, Decide, Handles, Leaves

\* Editing, closing and deleting meetings.
LEMMA MeetingsWrite ==
    ASSUME NEW r \in Requests, update_details(r) \/ add_minutes(r) \/ delete_meeting(r)
    PROVE  Handles(r, {"meetings"})
  BY Zenon DEF update_details, add_minutes, delete_meeting, Decide, Handles, Leaves

\* Answering to a meeting.
LEMMA AttendanceWrite ==
    ASSUME NEW r \in Requests, update_attendance(r)
    PROVE  Handles(r, {"attendance"})
  BY Zenon DEF update_attendance, Decide, Handles, Leaves

\* Documents.
LEMMA DocumentsWrite ==
    ASSUME NEW r \in Requests, DocumentStep(r)
    PROVE  Handles(r, {"documents", "unitDocuments"})
  BY Zenon DEF DocumentStep, create_document, update_document, delete_document,
         create_unit_document, update_unit_document, delete_unit_document, Decide, Handles, Leaves

\* Invoices.
LEMMA InvoicesWrite ==
    ASSUME NEW r \in Requests, InvoiceStep(r)
    PROVE  Handles(r, {"invoices", "invoiceLines"})
  BY Zenon DEF InvoiceStep, create_invoice, update_invoice, update_invoice_status, delete_invoice,
         Decide, Handles, Leaves

\* Financial reports.
LEMMA ReportsWrite ==
    ASSUME NEW r \in Requests, ReportStep(r)
    PROVE  Handles(r, {"financialReports"})
  BY Zenon DEF ReportStep, create_report, import_report, update_report, CreateReport, Decide,
         Handles, Leaves

\* Charts of accounts, balance sheets and income statements.
LEMMA StatementsWrite ==
    ASSUME NEW r \in Requests, StatementStep(r)
    PROVE  Handles(r, {"globalChart", "chart", "balanceSheets", "incomeStatements"})
  BY ZenonT(60) DEF StatementStep, upload_global, map_global, add_association, update_association,
         delete_association, create_balance_sheet, update_balance_sheet, import_workbook,
         create_income_statement, update_income_statement, import_income_statement,
         CreateBalanceSheet, SaveNew, Decide, Handles, Leaves

\* Roles, plans and the other catalogues.
LEMMA CataloguesWrite ==
    ASSUME NEW r \in Requests, CatalogueStep(r)
    PROVE  Handles(r, {"entityTypes", "entities", "plans", "planFeatures", "features", "roles", "permissions"})
  BY ZenonT(60) DEF CatalogueStep, create_entity_type, update_entity_type, delete_entity_type,
         create_entity, update_entity, delete_entity, create_plan, update_plan, delete_plan,
         set_features, create_feature, update_feature, delete_feature, create_role, update_role,
         delete_role, create_permission, update_permission, delete_permission, bulk_update,
         CreateEntry, UpdateEntry, DeleteEntry, DeleteCoded, Decide, Handles, Leaves

\* Logins, with their people and employees.
LEMMA LoginsWrite ==
    ASSUME NEW r \in Requests, update_user(r) \/ create_employee(r) \/ update_employee(r)
    PROVE  Handles(r, {"people", "logins", "employees"})
  BY ZenonT(60) DEF update_user, create_employee, update_employee, Decide, Handles, Leaves

\* Users without one, vendors and bank accounts.
LEMMA DirectoryWrite ==
    ASSUME NEW r \in Requests, DirectoryStep(r), ~(update_user(r) \/ create_employee(r) \/ update_employee(r))
    PROVE  Handles(r, {"people", "vendors", "bankAccounts"})
  BY ZenonT(60) DEF DirectoryStep, create_user, delete_user, create_vendor, update_vendor,
         delete_vendor, create_bank_account, update_bank_account, delete_bank_account, Decide, Handles, Leaves

\* Onboarding.
LEMMA OnboardingWrite ==
    ASSUME NEW r \in Requests, onboard(r)
    PROVE  Handles(r, {"associations", "blocks", "units", "people", "logins", "boardTerms"})
  BY ZenonT(60) DEF onboard, Decide, Handles, Leaves

\* Settings.
LEMMA SettingsWrite ==
    ASSUME NEW r \in Requests, update_settings(r) \/ set_unit_occupancy(r) \/ update_subscription(r)
    PROVE  Handles(r, {"associations", "units", "assessmentRules", "fineRules"})
  BY ZenonT(60) DEF update_settings, set_unit_occupancy, update_subscription, Decide, Handles, Leaves

\* Read marks.
LEMMA InboxWrite ==
    ASSUME NEW r \in Requests, InboxStep(r)
    PROVE  Handles(r, {"read"})
  BY Zenon DEF InboxStep, mark_read, mark_all_read, Decide, Handles, Leaves

\* The addresses people have in their profile.
LEMMA DetailsWrite ==
    ASSUME NEW r \in Requests, update_user_details(r)
    PROVE  Handles(r, {"people", "employees"})
<1> DEFINE own == own_row(seen[r].logins[body[r].login])
           rows == [db EXCEPT ![own[1]][own[2]].email = Given(body[r].email, @),
                              ![own[1]][own[2]].phone = Given(body[r].phone, @)]
<1>1. own[1] \in {"people", "employees"}
  BY DEF own_row
<1>2. Decide(r, own[2] # None, FALSE, rows)
  BY Zenon DEF update_user_details
<1> HIDE DEF own
<1>3. Leaves(rows, {"people", "employees"})
  BY <1>1 DEF Leaves
<1> HIDE DEF rows
<1> QED
  BY <1>2, <1>3 DEF Decide, Handles

\* What people keep about themselves.
LEMMA RecordsWrite ==
    ASSUME NEW r \in Requests, insert_record(r) \/ update_record(r) \/ delete_record(r)
    PROVE  Handles(r, {"profileRecords"})
  BY SMT DEF insert_record, update_record, delete_record, ChangeRecord, Decide, Handles, Leaves
-----------------------------------------------------------------------------
(* The steps *)

\* Every handler's step is idle or a commit.
LEMMA StepFrame ==
    ASSUME Sessions, NEW r \in Requests, Step(r)
    PROVE  Idle \/ Commits(r)
<1>1. CASE PollStep(r)
  <2>1. \E written : Handles(r, written)
    BY <1>1, PollsTell, PollsDelete, PollsWrite DEF PollStep
  <2> QED
    BY <2>1, HandlesFrame
<1>2. CASE EventStep(r)
  <2>1. \E written : Handles(r, written)
    BY <1>2, EventsTell, EventsDelete, EventsWrite, AnswersWrite DEF EventStep
  <2> QED
    BY <2>1, HandlesFrame
<1>3. CASE AnnouncementStep(r)
  <2>1. \E written : Handles(r, written)
    BY <1>3, AnnouncementsTell, AnnouncementsWrite, LikesWrite DEF AnnouncementStep
  <2> QED
    BY <2>1, HandlesFrame
<1>4. CASE MarketStep(r)
  <2>1. \E written : Handles(r, written)
    BY <1>4, ItemsTell, ItemsWrite, FavoritesWrite, ViewsWrite DEF MarketStep
  <2> QED
    BY <2>1, HandlesFrame
<1>5. CASE ServiceStep(r)
  <2>1. \E written : Handles(r, written)
    BY <1>5, RequestsTell, RequestsWrite DEF ServiceStep
  <2> QED
    BY <2>1, HandlesFrame
<1>6. CASE BoardTaskStep(r)
  <2>1. \E written : Handles(r, written)
    BY <1>6, TasksTell, TasksWrite DEF BoardTaskStep
  <2> QED
    BY <2>1, HandlesFrame
<1>7. CASE MeetingStep(r)
  <2>1. \E written : Handles(r, written)
    BY <1>7, MeetingsTell, MeetingsWrite, AttendanceWrite DEF MeetingStep
  <2> QED
    BY <2>1, HandlesFrame
<1>8. CASE DocumentStep(r) \/ InvoiceStep(r) \/ ReportStep(r) \/ StatementStep(r) \/ CatalogueStep(r) \/ DirectoryStep(r) \/ ProfileStep(r) \/ OnboardingStep(r) \/ InboxStep(r)
  <2>1. \E written : Handles(r, written)
    BY <1>8, DocumentsWrite, InvoicesWrite, ReportsWrite, StatementsWrite, CataloguesWrite, LoginsWrite,
       DirectoryWrite, DetailsWrite, RecordsWrite, OnboardingWrite, SettingsWrite, InboxWrite
       DEF ProfileStep, OnboardingStep
  <2> QED
    BY <2>1, HandlesFrame
<1> QED
  BY <1>1, <1>2, <1>3, <1>4, <1>5, <1>6, <1>7, <1>8 DEF Step

\* A step of the server is idle or the commit of one request.
LEMMA StepCases ==
    ASSUME Sessions, [Next]_vars
    PROVE  Idle \/ \E r \in Requests : Commits(r) /\ Step(r)
<1>1. ASSUME NEW r \in Requests, Begin(r) \/ Publish(r) \/ WorkerStops(r)
      PROVE  Idle
  BY <1>1 DEF Begin, Publish, WorkerStops, Sessions, StageOK, Idle, Committed, Requests
<1>2. ASSUME NEW r \in Requests, ConnectionLost(r)
      PROVE  Idle
  BY <1>2, RefuseIdles DEF ConnectionLost
<1>3. ASSUME Tick \/ UNCHANGED vars \/ \E a \in Browsers : Connect(a) \/ Disconnect(a)
      PROVE  Idle
  BY <1>3 DEF Tick, vars, Connect, Disconnect, Sessions, StageOK, Idle, Committed, Requests
<1> QED
  BY <1>1, <1>2, <1>3, StepFrame DEF Next

\* The sessions are well formed always.
LEMMA StepSessions ==
    ASSUME Sessions, Idle \/ \E r \in Requests : Commits(r)
    PROVE  Sessions'
  BY DEF Sessions, Idle, Commits, Requests

LEMMA InitSessions == Init => Sessions
  BY DEF Init, Sessions, StageOK, Requests
-----------------------------------------------------------------------------
(* One row to a member: a handler inserts a row where its snapshot has none of    *)
(* the member, so a second one comes from a request that overlapped the first. *)

Tables == DOMAIN MemberRows

\* What the snapshot of q shows of a table: rows that are still there with the member
\* and the thing they had, all but those of requests that committed since.
Shows(q, t) ==
    /\ DOMAIN seen[q][t] \subseteq DOMAIN db[t]
    /\ \A k \in DOMAIN seen[q][t] : /\ seen[q][t][k].by = db[t][k].by
                                  /\ seen[q][t][k][MemberRows[t]] = db[t][k][MemberRows[t]]
    /\ DOMAIN db[t] \ DOMAIN seen[q][t] \subseteq missed[q] \cap Requests

\* The rows of a table have their columns, and none is of a request that did not end.
RowsOK(t) ==
    /\ t \in DOMAIN db
    /\ \A k \in DOMAIN db[t] : {"by", MemberRows[t]} \subseteq DOMAIN db[t][k]
    /\ \A q \in Requests : stage[q] \in {"waiting", "open"} => q \notin DOMAIN db[t]

RowsInv ==
    /\ Sessions
    /\ \A t \in Tables : RowsOK(t)
    /\ \A t \in Tables : \A q \in Requests : stage[q] = "open" => Shows(q, t)
    /\ OneRowPerMember

Keeps(t) == t \in DOMAIN db' /\ db'[t] = db[t]

\* A table has one row more at most, of r, where the snapshot of r has none of the
\* member at the thing.
Grows(r, t) ==
    /\ t \in DOMAIN db'
    /\ DOMAIN db[t] \subseteq DOMAIN db'[t] /\ DOMAIN db'[t] \subseteq DOMAIN db[t] \cup {r}
    /\ \A k \in DOMAIN db[t] : /\ db'[t][k].by = db[t][k].by
                             /\ db'[t][k][MemberRows[t]] = db[t][k][MemberRows[t]]
    /\ \A k \in DOMAIN db'[t] : {"by", MemberRows[t]} \subseteq DOMAIN db'[t][k]
    /\ r \in DOMAIN db'[t] =>
          \A k \in DOMAIN seen[r][t] :
              ~(/\ seen[r][t][k].by = db'[t][r].by
                /\ seen[r][t][k][MemberRows[t]] = db'[t][r][MemberRows[t]])

\* A table that a step leaves alone keeps every row.
LEMMA KeepsGrows ==
    ASSUME RowsInv, NEW r \in Requests, stage[r] = "open", NEW t \in Tables, Keeps(t)
    PROVE  Grows(r, t)
  BY DEF RowsInv, RowsOK, Keeps, Grows

\* A row of r is inserted where its snapshot has none of the member.
LEMMA WithGrows ==
    ASSUME RowsInv, NEW r \in Requests, stage[r] = "open", NEW t \in Tables, t \in DOMAIN db',
           NEW row, {"by", MemberRows[t]} \subseteq DOMAIN row,
           db'[t] = With(db[t], [k \in {r} |-> row]),
           \A k \in DOMAIN seen[r][t] :
               ~(seen[r][t][k].by = row.by /\ seen[r][t][k][MemberRows[t]] = row[MemberRows[t]])
    PROVE  Grows(r, t)
<1>1. r \notin DOMAIN db[t] /\ \A k \in DOMAIN db[t] : {"by", MemberRows[t]} \subseteq DOMAIN db[t][k]
  BY DEF RowsInv, RowsOK
<1>2. /\ DOMAIN db'[t] = DOMAIN db[t] \cup {r}
      /\ db'[t][r] = row
      /\ \A k \in DOMAIN db[t] : db'[t][k] = db[t][k]
  BY <1>1 DEF With
<1> QED
  BY <1>1, <1>2 DEF Grows

\* An UPDATE of a row the snapshot shows leaves its member and its thing.
LEMMA SaveGrows ==
    ASSUME RowsInv, NEW r \in Requests, stage[r] = "open", NEW t \in Tables, t \in DOMAIN db',
           NEW j \in DOMAIN seen[r][t], NEW wanted,
           wanted.by = seen[r][t][j].by, wanted[MemberRows[t]] = seen[r][t][j][MemberRows[t]],
           db'[t] = Save(db[t], seen[r][t], j, wanted)
    PROVE  Grows(r, t)
<1>1. /\ r \notin DOMAIN db[t] /\ j \in DOMAIN db[t]
      /\ \A k \in DOMAIN db[t] : {"by", MemberRows[t]} \subseteq DOMAIN db[t][k]
  BY DEF RowsInv, RowsOK, Shows
<1>2. DOMAIN db'[t] = DOMAIN db[t]
  BY DEF Save
<1>3. ASSUME NEW k \in DOMAIN db[t]
      PROVE  /\ db'[t][k].by = db[t][k].by
             /\ db'[t][k][MemberRows[t]] = db[t][k][MemberRows[t]]
             /\ {"by", MemberRows[t]} \subseteq DOMAIN db'[t][k]
  <2>1. CASE k = j
    BY <1>1, <2>1 DEF Save, Changed
  <2>2. CASE k # j
    BY <1>1, <2>2 DEF Save
  <2> QED
    BY <2>1, <2>2
<1> QED
  BY <1>1, <1>2, <1>3 DEF Grows

\* So does a change of the flag of some rows.
LEMMA FlagGrows ==
    ASSUME RowsInv, NEW r \in Requests, stage[r] = "open", NEW t \in Tables, t \in DOMAIN db',
           DOMAIN db'[t] = DOMAIN db[t],
           \A k \in DOMAIN db[t] :
               db'[t][k] = db[t][k] \/ \E flag : db'[t][k] = [db[t][k] EXCEPT !.deleted = flag]
    PROVE  Grows(r, t)
<1>1. r \notin DOMAIN db[t] /\ \A k \in DOMAIN db[t] : {"by", MemberRows[t]} \subseteq DOMAIN db[t][k]
  BY DEF RowsInv, RowsOK
<1>2. MemberRows[t] # "deleted"
  BY DEF Tables, MemberRows
<1>3. ASSUME NEW k \in DOMAIN db[t]
      PROVE  /\ db'[t][k].by = db[t][k].by
             /\ db'[t][k][MemberRows[t]] = db[t][k][MemberRows[t]]
             /\ {"by", MemberRows[t]} \subseteq DOMAIN db'[t][k]
  <2>1. CASE db'[t][k] = db[t][k]
    BY <1>1, <2>1
  <2>2. CASE \E flag : db'[t][k] = [db[t][k] EXCEPT !.deleted = flag]
    BY <1>1, <1>2, <2>2
  <2> QED
    BY <2>1, <2>2, Zenon
<1> QED
  BY <1>1, <1>3 DEF Grows

\* Setting the deleted flag of a row keeps every row and adds none.
LEMMA MarkGrows ==
    ASSUME RowsInv, NEW r \in Requests, stage[r] = "open", NEW t \in Tables, t \in DOMAIN db',
           NEW deleted, db'[t] = Mark(db[t], seen[r][t], deleted)
    PROVE  Grows(r, t)
<1>1. DOMAIN db'[t] = DOMAIN db[t]
  BY DEF Mark
<1>2. ASSUME NEW k \in DOMAIN db[t]
      PROVE  db'[t][k] = db[t][k] \/ \E flag : db'[t][k] = [db[t][k] EXCEPT !.deleted = flag]
  BY Zenon DEF Mark
<1> QED
  BY <1>1, <1>2, FlagGrows, Zenon
-----------------------------------------------------------------------------
(* The handlers that write them *)

\* A handler of r that writes the table t alone of the five.
Writes(r, t) == Leaves(db', {t}) /\ Grows(r, t)

\* An RSVP writes one row of its member, which was not there or is the row it
\* read.
LEMMA RsvpGrows ==
    ASSUME RowsInv, NEW r \in Requests, rsvp(r)
    PROVE  Writes(r, "rsvps")
<1> DEFINE mine == rsvp_rows(seen[r], body[r].event, body[r].by)
           Row == [event |-> body[r].event, by |-> body[r].by, status |-> body[r].status, deleted |-> FALSE]
<1>0. Sessions
  BY DEF RowsInv
<1>1. "rsvps" \in Tables /\ MemberRows["rsvps"] = "event" /\ Tables \subseteq DOMAIN db /\ stage[r] = "open"
  BY DEF Tables, MemberRows, RowsInv, RowsOK, rsvp, Asks
<1>2. Leaves(db', {"rsvps"}) /\ "rsvps" \in DOMAIN db'
  BY <1>0, <1>1, AnswersWrite, HandlesFrame DEF Leaves
<1>3. \/ db' = db
      \/ mine = {} /\ db'["rsvps"] = With(db["rsvps"], [k \in {r} |-> Row])
      \/ \E j \in mine : db'["rsvps"] = Save(db["rsvps"], seen[r]["rsvps"], j, Row)
  BY <1>1 DEF rsvp, Decide, Commit, Refuse, Abort, Ends, Asks
<1>4. \A j : j \in mine <=> /\ j \in DOMAIN seen[r]["rsvps"]
                            /\ seen[r]["rsvps"][j].by = Row.by /\ seen[r]["rsvps"][j]["event"] = Row["event"]
  BY DEF rsvp_rows
<1>5. {"by", "event"} \subseteq DOMAIN Row
  OBVIOUS
<1> HIDE DEF mine, Row
<1>6. CASE db' = db
  BY <1>1, <1>2, <1>6, KeepsGrows DEF Keeps, Writes
<1>7. CASE mine = {} /\ db'["rsvps"] = With(db["rsvps"], [k \in {r} |-> Row])
  <2>1. {"by", MemberRows["rsvps"]} \subseteq DOMAIN Row
    BY <1>1, <1>5
  <2>2. \A k \in DOMAIN seen[r]["rsvps"] :
           ~(/\ seen[r]["rsvps"][k].by = Row.by
             /\ seen[r]["rsvps"][k][MemberRows["rsvps"]] = Row[MemberRows["rsvps"]])
    BY <1>1, <1>4, <1>7
  <2>3. db'["rsvps"] = With(db["rsvps"], [k \in {r} |-> Row])
    BY <1>7
  <2>4. Grows(r, "rsvps")
    BY <1>1, <1>2, <2>1, <2>2, <2>3, WithGrows, Zenon
  <2> QED
    BY <1>2, <2>4 DEF Writes
<1>8. CASE \E j \in mine : db'["rsvps"] = Save(db["rsvps"], seen[r]["rsvps"], j, Row)
  <2>1. Grows(r, "rsvps")
    BY <1>1, <1>2, <1>4, <1>8, SaveGrows
  <2> QED
    BY <1>2, <2>1 DEF Writes
<1> QED
  BY <1>2, <1>3, <1>6, <1>7, <1>8

\* Clearing an RSVP writes its member's row only.
LEMMA ClearRsvpGrows ==
    ASSUME RowsInv, NEW r \in Requests, clear_rsvp(r)
    PROVE  Writes(r, "rsvps")
<1>0. Sessions
  BY DEF RowsInv
<1>1. "rsvps" \in Tables /\ Tables \subseteq DOMAIN db /\ stage[r] = "open"
  BY DEF Tables, MemberRows, RowsInv, RowsOK, clear_rsvp, Asks
<1>2. Leaves(db', {"rsvps"}) /\ "rsvps" \in DOMAIN db'
  BY <1>0, <1>1, AnswersWrite, HandlesFrame DEF Leaves
<1>3. \/ db'["rsvps"] = db["rsvps"]
      \/ \E j : db'["rsvps"] = Mark(db["rsvps"], seen[r]["rsvps"], [k \in {j} |-> TRUE])
  BY <1>1, Zenon DEF clear_rsvp, Commit, Asks, Delete
<1>4. Grows(r, "rsvps")
  BY <1>1, <1>2, <1>3, KeepsGrows, MarkGrows, Zenon DEF Keeps
<1> QED
  BY <1>2, <1>4 DEF Writes

\* A like writes one row of its member, which was not there or is the row it
\* read.
LEMMA LikeGrows ==
    ASSUME RowsInv, NEW r \in Requests, toggle_like(r)
    PROVE  Writes(r, "likes")
<1> DEFINE mine == likes_of(seen[r], body[r].announcement, body[r].by)
           Row == [announcement |-> body[r].announcement, by |-> body[r].by, deleted |-> FALSE]
<1>0. Sessions
  BY DEF RowsInv
<1>1. "likes" \in Tables /\ MemberRows["likes"] = "announcement" /\ Tables \subseteq DOMAIN db /\ stage[r] = "open"
  BY DEF Tables, MemberRows, RowsInv, RowsOK, toggle_like, Asks
<1>2. Leaves(db', {"likes"}) /\ "likes" \in DOMAIN db'
  BY <1>0, <1>1, LikesWrite, HandlesFrame DEF Leaves
<1>3. \/ db'["likes"] = db["likes"]
      \/ mine = {} /\ db'["likes"] = With(db["likes"], [k \in {r} |-> Row])
      \/ \E j \in mine : db'["likes"] = Toggle(db["likes"], seen[r]["likes"], j)
  BY <1>1 DEF toggle_like, Decide, Commit, Refuse, Abort, Ends, Asks
<1>4. \A j : j \in mine <=> /\ j \in DOMAIN seen[r]["likes"]
                            /\ seen[r]["likes"][j].by = Row.by /\ seen[r]["likes"][j]["announcement"] = Row["announcement"]
  BY DEF likes_of
<1>5. {"by", "announcement"} \subseteq DOMAIN Row
  OBVIOUS
<1> HIDE DEF mine, Row
<1>6. CASE db'["likes"] = db["likes"]
  BY <1>1, <1>2, <1>6, KeepsGrows DEF Keeps, Writes
<1>7. CASE mine = {} /\ db'["likes"] = With(db["likes"], [k \in {r} |-> Row])
  <2>1. {"by", MemberRows["likes"]} \subseteq DOMAIN Row
    BY <1>1, <1>5
  <2>2. \A k \in DOMAIN seen[r]["likes"] :
           ~(/\ seen[r]["likes"][k].by = Row.by
             /\ seen[r]["likes"][k][MemberRows["likes"]] = Row[MemberRows["likes"]])
    BY <1>1, <1>4, <1>7
  <2>3. db'["likes"] = With(db["likes"], [k \in {r} |-> Row])
    BY <1>7
  <2>4. Grows(r, "likes")
    BY <1>1, <1>2, <2>1, <2>2, <2>3, WithGrows, Zenon
  <2> QED
    BY <1>2, <2>4 DEF Writes
<1>8. CASE \E j \in mine : db'["likes"] = Toggle(db["likes"], seen[r]["likes"], j)
  <2>1. PICK j \in mine : db'["likes"] = Toggle(db["likes"], seen[r]["likes"], j)
    BY <1>8
  <2>2. db'["likes"] = Mark(db["likes"], seen[r]["likes"], [x \in {j} |-> ~seen[r]["likes"][j].deleted])
    BY <1>4, <2>1 DEF Toggle
  <2>3. Grows(r, "likes")
    BY <1>1, <1>2, <2>2, MarkGrows
  <2> QED
    BY <1>2, <2>3 DEF Writes
<1> QED
  BY <1>2, <1>3, <1>6, <1>7, <1>8

\* A favourite writes one row of its member, which was not there or is the
\* row it read.
LEMMA FavoriteGrows ==
    ASSUME RowsInv, NEW r \in Requests, toggle_favorite(r)
    PROVE  Writes(r, "favorites")
<1> DEFINE mine == own_rows(seen[r].favorites, body[r].item, body[r].by)
           Row == [item |-> body[r].item, by |-> body[r].by, deleted |-> FALSE]
<1>0. Sessions
  BY DEF RowsInv
<1>1. "favorites" \in Tables /\ MemberRows["favorites"] = "item" /\ Tables \subseteq DOMAIN db /\ stage[r] = "open"
  BY DEF Tables, MemberRows, RowsInv, RowsOK, toggle_favorite, Asks
<1>2. Leaves(db', {"favorites"}) /\ "favorites" \in DOMAIN db'
  BY <1>0, <1>1, FavoritesWrite, HandlesFrame DEF Leaves
<1>3. \/ db'["favorites"] = db["favorites"]
      \/ mine = {} /\ db'["favorites"] = With(db["favorites"], [k \in {r} |-> Row])
      \/ \E j \in mine : \E flag : db'["favorites"] = [db["favorites"] EXCEPT ![j].deleted = flag]
  BY <1>1, Zenon DEF toggle_favorite, Decide, Commit, Refuse, Abort, Ends, Asks
<1>4. \A j : j \in mine <=> /\ j \in DOMAIN seen[r]["favorites"]
                            /\ seen[r]["favorites"][j].by = Row.by /\ seen[r]["favorites"][j]["item"] = Row["item"]
  BY DEF own_rows
<1>5. {"by", "item"} \subseteq DOMAIN Row
  OBVIOUS
<1> HIDE DEF mine, Row
<1>6. CASE db'["favorites"] = db["favorites"]
  BY <1>1, <1>2, <1>6, KeepsGrows DEF Keeps, Writes
<1>7. CASE mine = {} /\ db'["favorites"] = With(db["favorites"], [k \in {r} |-> Row])
  <2>1. {"by", MemberRows["favorites"]} \subseteq DOMAIN Row
    BY <1>1, <1>5
  <2>2. \A k \in DOMAIN seen[r]["favorites"] :
           ~(/\ seen[r]["favorites"][k].by = Row.by
             /\ seen[r]["favorites"][k][MemberRows["favorites"]] = Row[MemberRows["favorites"]])
    BY <1>1, <1>4, <1>7
  <2>3. db'["favorites"] = With(db["favorites"], [k \in {r} |-> Row])
    BY <1>7
  <2>4. Grows(r, "favorites")
    BY <1>1, <1>2, <2>1, <2>2, <2>3, WithGrows, Zenon
  <2> QED
    BY <1>2, <2>4 DEF Writes
<1>8. CASE \E j \in mine : \E flag : db'["favorites"] = [db["favorites"] EXCEPT ![j].deleted = flag]
  <2>1. PICK j \in mine : \E flag : db'["favorites"] = [db["favorites"] EXCEPT ![j].deleted = flag]
    BY <1>8, Zenon
  <2>2. PICK flag : db'["favorites"] = [db["favorites"] EXCEPT ![j].deleted = flag]
    BY <2>1, Zenon
  <2>3. Grows(r, "favorites")
    BY <1>1, <1>2, <2>2, FlagGrows, Zenon
  <2> QED
    BY <1>2, <2>3 DEF Writes
<1> QED
  BY <1>2, <1>3, <1>6, <1>7, <1>8

\* A view writes one row of its member, which was not there or is the row it
\* read.
LEMMA ViewGrows ==
    ASSUME RowsInv, NEW r \in Requests, record_view(r)
    PROVE  Writes(r, "views")
<1> DEFINE mine == own_rows(seen[r].views, body[r].item, body[r].by)
           Row == [item |-> body[r].item, by |-> body[r].by]
<1>0. Sessions
  BY DEF RowsInv
<1>1. "views" \in Tables /\ MemberRows["views"] = "item" /\ Tables \subseteq DOMAIN db /\ stage[r] = "open"
  BY DEF Tables, MemberRows, RowsInv, RowsOK, record_view, Asks
<1>2. Leaves(db', {"views"}) /\ "views" \in DOMAIN db'
  BY <1>0, <1>1, ViewsWrite, HandlesFrame DEF Leaves
<1>3. \/ db'["views"] = db["views"]
      \/ mine = {} /\ db'["views"] = With(db["views"], [k \in {r} |-> Row])
  BY <1>1 DEF record_view, Decide, Commit, Refuse, Abort, Ends, Asks
<1>4. \A j : j \in mine <=> /\ j \in DOMAIN seen[r]["views"]
                            /\ seen[r]["views"][j].by = Row.by /\ seen[r]["views"][j]["item"] = Row["item"]
  BY DEF own_rows
<1>5. {"by", "item"} \subseteq DOMAIN Row
  OBVIOUS
<1> HIDE DEF mine, Row
<1>6. CASE db'["views"] = db["views"]
  BY <1>1, <1>2, <1>6, KeepsGrows DEF Keeps, Writes
<1>7. CASE mine = {} /\ db'["views"] = With(db["views"], [k \in {r} |-> Row])
  <2>1. {"by", MemberRows["views"]} \subseteq DOMAIN Row
    BY <1>1, <1>5
  <2>2. \A k \in DOMAIN seen[r]["views"] :
           ~(/\ seen[r]["views"][k].by = Row.by
             /\ seen[r]["views"][k][MemberRows["views"]] = Row[MemberRows["views"]])
    BY <1>1, <1>4, <1>7
  <2>3. db'["views"] = With(db["views"], [k \in {r} |-> Row])
    BY <1>7
  <2>4. Grows(r, "views")
    BY <1>1, <1>2, <2>1, <2>2, <2>3, WithGrows, Zenon
  <2> QED
    BY <1>2, <2>4 DEF Writes
<1> QED
  BY <1>2, <1>3, <1>6, <1>7

\* A meeting's attendance writes one row of its member, new or the row it
\* read.
LEMMA AttendanceGrows ==
    ASSUME RowsInv, NEW r \in Requests, update_attendance(r)
    PROVE  Writes(r, "attendance")
<1> DEFINE mine == {k \in DOMAIN seen[r].attendance :
                     seen[r].attendance[k].meeting = body[r].meeting /\ seen[r].attendance[k].by = body[r].by}
           Row == [meeting |-> body[r].meeting, by |-> body[r].by, status |-> body[r].status]
<1>0. Sessions
  BY DEF RowsInv
<1>1. "attendance" \in Tables /\ MemberRows["attendance"] = "meeting" /\ Tables \subseteq DOMAIN db /\ stage[r] = "open"
  BY DEF Tables, MemberRows, RowsInv, RowsOK, update_attendance, Asks
<1>2. Leaves(db', {"attendance"}) /\ "attendance" \in DOMAIN db'
  BY <1>0, <1>1, AttendanceWrite, HandlesFrame DEF Leaves
<1>3. \/ db'["attendance"] = db["attendance"]
      \/ mine = {} /\ db'["attendance"] = With(db["attendance"], [k \in {r} |-> Row])
      \/ \E j \in mine : db'["attendance"] = Save(db["attendance"], seen[r]["attendance"], j, Row)
  BY <1>1, Zenon DEF update_attendance, Decide, Commit, Refuse, Abort, Ends, Asks
<1>4. \A j : j \in mine <=> /\ j \in DOMAIN seen[r]["attendance"]
                            /\ seen[r]["attendance"][j].by = Row.by /\ seen[r]["attendance"][j]["meeting"] = Row["meeting"]
  OBVIOUS
<1>5. {"by", "meeting"} \subseteq DOMAIN Row
  OBVIOUS
<1> HIDE DEF mine, Row
<1>6. CASE db'["attendance"] = db["attendance"]
  BY <1>1, <1>2, <1>6, KeepsGrows DEF Keeps, Writes
<1>7. CASE mine = {} /\ db'["attendance"] = With(db["attendance"], [k \in {r} |-> Row])
  <2>1. {"by", MemberRows["attendance"]} \subseteq DOMAIN Row
    BY <1>1, <1>5
  <2>2. \A k \in DOMAIN seen[r]["attendance"] :
           ~(/\ seen[r]["attendance"][k].by = Row.by
             /\ seen[r]["attendance"][k][MemberRows["attendance"]] = Row[MemberRows["attendance"]])
    BY <1>1, <1>4, <1>7
  <2>3. db'["attendance"] = With(db["attendance"], [k \in {r} |-> Row])
    BY <1>7
  <2>4. Grows(r, "attendance")
    BY <1>1, <1>2, <2>1, <2>2, <2>3, WithGrows, Zenon
  <2> QED
    BY <1>2, <2>4 DEF Writes
<1>8. CASE \E j \in mine : db'["attendance"] = Save(db["attendance"], seen[r]["attendance"], j, Row)
  <2>1. Grows(r, "attendance")
    BY <1>1, <1>2, <1>4, <1>8, SaveGrows
  <2> QED
    BY <1>2, <2>1 DEF Writes
<1> QED
  BY <1>2, <1>3, <1>6, <1>7, <1>8

\* A step that writes one table of members' rows keeps every row of all of

\* The other tables of members' rows stay as they are.
LEMMA WritesGrows ==
    ASSUME RowsInv, NEW r \in Requests, stage[r] = "open", NEW t \in Tables, Writes(r, t)
    PROVE  \A u \in Tables : Grows(r, u)
<1> SUFFICES ASSUME NEW u \in Tables PROVE Grows(r, u)
  OBVIOUS
<1>1. CASE u = t
  BY <1>1 DEF Writes
<1>2. CASE u # t
  <2>1. u \in DOMAIN db
    BY DEF RowsInv, RowsOK
  <2>2. Keeps(u)
    BY <1>2, <2>1 DEF Writes, Leaves, Keeps
  <2> QED
    BY <2>2, KeepsGrows
<1> QED
  BY <1>1, <1>2

\* And so do all five where a handler writes none of them.
LEMMA LeavesGrows ==
    ASSUME RowsInv, NEW r \in Requests, stage[r] = "open", NEW written, Handles(r, written),
           written \cap Tables = {}
    PROVE  \A u \in Tables : Grows(r, u)
<1> SUFFICES ASSUME NEW u \in Tables PROVE Grows(r, u)
  OBVIOUS
<1>1. u \in DOMAIN db /\ u \notin written /\ Sessions
  BY DEF RowsInv, RowsOK
<1>2. Leaves(db', written)
  BY <1>1, HandlesFrame
<1>3. Keeps(u)
  BY <1>1, <1>2 DEF Leaves, Keeps
<1> QED
  BY <1>3, KeepsGrows

\* Every handler keeps every row of a member.
LEMMA StepGrows ==
    ASSUME RowsInv, NEW r \in Requests, stage[r] = "open", Step(r)
    PROVE  \A u \in Tables : Grows(r, u)
<1> USE DEF Tables, MemberRows
<1>1. CASE rsvp(r)
  BY <1>1, RsvpGrows, WritesGrows
<1>2. CASE clear_rsvp(r)
  BY <1>2, ClearRsvpGrows, WritesGrows
<1>3. CASE toggle_like(r)
  BY <1>3, LikeGrows, WritesGrows
<1>4. CASE toggle_favorite(r)
  BY <1>4, FavoriteGrows, WritesGrows
<1>5. CASE record_view(r)
  BY <1>5, ViewGrows, WritesGrows
<1>6. CASE update_attendance(r)
  BY <1>6, AttendanceGrows, WritesGrows
<1>7. CASE create_poll(r) \/ update_poll(r)
  BY <1>7, PollsTell, LeavesGrows
<1>8. CASE vote_poll(r) \/ toggle_poll_like(r) \/ add_poll_comment(r)
  BY <1>8, PollsWrite, LeavesGrows
<1>9. CASE create_event(r) \/ update_event(r)
  BY <1>9, EventsTell, LeavesGrows
<1>10. CASE toggle_event_like(r) \/ add_event_comment(r)
  BY <1>10, EventsWrite, LeavesGrows
<1>11. CASE create_announcement(r)
  BY <1>11, AnnouncementsTell, LeavesGrows
<1>12. CASE update_announcement(r) \/ delete_announcement(r) \/ add_announcement_comment(r)
  BY <1>12, AnnouncementsWrite, LeavesGrows
<1>13. CASE send_chat(r)
  BY <1>13, ItemsTell, LeavesGrows
<1>14. CASE create_item(r) \/ update_item(r) \/ delete_item(r) \/ add_report(r)
  BY <1>14, ItemsWrite, LeavesGrows
<1>15. CASE create_service_request(r) \/ update_service_status(r) \/ map_service_request(r) \/ send_service_message(r)
  BY <1>15, RequestsTell, LeavesGrows
<1>16. CASE delete_service_request(r)
  BY <1>16, RequestsWrite, LeavesGrows
<1>17. CASE create_task(r) \/ update_task_status(r) \/ send_task_message(r)
  BY <1>17, TasksTell, LeavesGrows
<1>18. CASE delete_task(r)
  BY <1>18, TasksWrite, LeavesGrows
<1>19. CASE create_meeting(r)
  BY <1>19, MeetingsTell, LeavesGrows
<1>20. CASE update_details(r) \/ add_minutes(r) \/ delete_meeting(r)
  BY <1>20, MeetingsWrite, LeavesGrows
<1>21. CASE DocumentStep(r)
  BY <1>21, DocumentsWrite, LeavesGrows
<1>22. CASE InvoiceStep(r)
  BY <1>22, InvoicesWrite, LeavesGrows
<1>23. CASE ReportStep(r)
  BY <1>23, ReportsWrite, LeavesGrows
<1>24. CASE StatementStep(r)
  BY <1>24, StatementsWrite, LeavesGrows
<1>25. CASE CatalogueStep(r)
  BY <1>25, CataloguesWrite, LeavesGrows
<1>26. CASE DirectoryStep(r)
  BY <1>26, LoginsWrite, DirectoryWrite, LeavesGrows
<1>27. CASE ProfileStep(r)
  BY <1>27, DetailsWrite, RecordsWrite, LeavesGrows DEF ProfileStep
<1>28. CASE OnboardingStep(r)
  BY <1>28, OnboardingWrite, SettingsWrite, LeavesGrows DEF OnboardingStep
<1>29. CASE InboxStep(r)
  BY <1>29, InboxWrite, LeavesGrows
<1>30. CASE delete_poll(r)
  BY <1>30, PollsDelete, LeavesGrows
<1>31. CASE delete_event(r)
  BY <1>31, EventsDelete, LeavesGrows
<1> QED
  BY <1>1, <1>2, <1>3, <1>4, <1>5, <1>6, <1>7, <1>8, <1>9, <1>10, <1>11, <1>12, <1>13, <1>14, <1>15, <1>16, <1>17, <1>18, <1>19, <1>20, <1>21, <1>22, <1>23, <1>24, <1>25, <1>26, <1>27, <1>28, <1>29, <1>30, <1>31
  DEF Step, PollStep, EventStep, AnnouncementStep, MarketStep, ServiceStep, BoardTaskStep, MeetingStep
-----------------------------------------------------------------------------
(* The invariant *)

\* It holds of the opening tables.
LEMMA InitRows == Init => RowsInv
<1> SUFFICES ASSUME Init PROVE RowsInv
  OBVIOUS
<1>1. Sessions
  BY InitSessions
<1>2. \A q \in Requests : stage[q] = "waiting"
  BY DEF Init
<1>3. ASSUME NEW t \in Tables
      PROVE  RowsOK(t) /\ OnePerMember(db[t], MemberRows[t])
  <2>1. db[t] = OpeningTables[t] /\ body \in Workloads /\ DOMAIN db = DOMAIN OpeningTables
    BY DEF Init
  <2> QED
    BY <2>1, OpeningRows DEF RowsOK, OnePerMember, Tables, Requests
<1> QED
  BY <1>1, <1>2, <1>3 DEF RowsInv, OneRowPerMember, Tables

\* When r commits, an open snapshot still shows all rows but those of requests it missed.
LEMMA ShowsKept ==
    ASSUME RowsInv, NEW r \in Requests, Commits(r), NEW t \in Tables, Grows(r, t),
           NEW q \in Requests, stage'[q] = "open"
    PROVE  Shows(q, t)'
<1>1. q # r /\ stage[q] = "open" /\ seen'[q] = seen[q] /\ Requests' = Requests
  BY DEF Commits, Committed, Requests
<1>2. Shows(q, t)
  BY <1>1 DEF RowsInv
<1>3. missed'[q] = missed[q] \cup {r}
  BY <1>1 DEF Commits
<1>4. DOMAIN seen'[q][t] \subseteq DOMAIN db'[t]
  BY <1>1, <1>2 DEF Shows, Grows
<1>5. \A k \in DOMAIN seen'[q][t] : /\ seen'[q][t][k].by = db'[t][k].by
                                   /\ seen'[q][t][k][MemberRows[t]] = db'[t][k][MemberRows[t]]
  BY <1>1, <1>2 DEF Shows, Grows
<1>6. DOMAIN db'[t] \ DOMAIN seen'[q][t] \subseteq missed'[q] \cap Requests'
  BY <1>1, <1>2, <1>3 DEF Shows, Grows
<1> QED
  BY <1>4, <1>5, <1>6 DEF Shows, MemberRows

\* A second row of one member comes from a request that missed the first.
LEMMA OneRowKept ==
    ASSUME RowsInv, NEW r \in Requests, Commits(r), NEW t \in Tables, Grows(r, t)
    PROVE  OnePerMember(db[t], MemberRows[t])'
<1>1. /\ OnePerMember(db[t], MemberRows[t]) /\ Shows(r, t) /\ r \notin DOMAIN db[t]
      /\ Requests' = Requests /\ MemberRows' = MemberRows
  BY DEF RowsInv, RowsOK, OneRowPerMember, Tables, Commits, Requests, MemberRows
<1>2. \A q \in Requests : missed[q] \subseteq missed'[q]
  BY DEF Commits, RowsInv, Sessions
<1>3. ASSUME NEW j \in DOMAIN db'[t], NEW k \in DOMAIN db'[t], j # k,
             db'[t][j].by = db'[t][k].by, db'[t][j][MemberRows[t]] = db'[t][k][MemberRows[t]]
      PROVE  {j, k} \subseteq Requests /\ Overlapped(j, k)'
  <2>1. CASE j \in DOMAIN db[t] /\ k \in DOMAIN db[t]
    <3>1. {j, k} \subseteq Requests /\ Overlapped(j, k)
      BY <1>1, <1>3, <2>1 DEF OnePerMember, Grows
    <3> QED
      BY <1>2, <3>1 DEF Overlapped
  <2>2. CASE j = r /\ k \in DOMAIN db[t]
    <3>1. k \notin DOMAIN seen[r][t]
      BY <1>1, <1>3, <2>2 DEF Grows, Shows
    <3>2. k \in missed[r] /\ k \in Requests
      BY <1>1, <2>2, <3>1 DEF Shows
    <3> QED
      BY <1>2, <2>2, <3>2 DEF Overlapped
  <2>3. CASE k = r /\ j \in DOMAIN db[t]
    <3>1. j \notin DOMAIN seen[r][t]
      BY <1>1, <1>3, <2>3 DEF Grows, Shows
    <3>2. j \in missed[r] /\ j \in Requests
      BY <1>1, <2>3, <3>1 DEF Shows
    <3> QED
      BY <1>2, <2>3, <3>2 DEF Overlapped
  <2> QED
    BY <1>3, <2>1, <2>2, <2>3 DEF Grows
<1> QED
  BY <1>1, <1>3 DEF OnePerMember

\* A commit that keeps every row of a member preserves the invariant.
LEMMA CommitRows ==
    ASSUME RowsInv, NEW r \in Requests, Commits(r), \A t \in Tables : Grows(r, t)
    PROVE  RowsInv'
<1>1. Sessions'
  BY StepSessions DEF RowsInv
<1>2. ASSUME NEW t \in Tables
      PROVE  RowsOK(t)'
  <2>1. RowsOK(t) /\ Grows(r, t) /\ Requests' = Requests
    BY DEF RowsInv, Commits, Requests
  <2>2. \A q \in Requests : stage'[q] \in {"waiting", "open"} => q # r /\ q \notin DOMAIN db[t]
    BY <2>1 DEF RowsOK, Commits, Committed
  <2> QED
    BY <2>1, <2>2 DEF RowsOK, Grows, MemberRows
<1>3. \A t \in Tables : \A q \in Requests : stage'[q] = "open" => Shows(q, t)'
  BY ShowsKept
<1>4. \A t \in Tables : OnePerMember(db[t], MemberRows[t])'
  BY OneRowKept
<1>5. Requests' = Requests /\ Tables' = Tables
  BY DEF Commits, Requests, Tables, MemberRows
<1>6. OneRowPerMember'
  BY <1>4 DEF OneRowPerMember, Tables
<1> QED
  BY <1>1, <1>2, <1>3, <1>5, <1>6 DEF RowsInv


\* A step that writes no table preserves it.
LEMMA IdleRows ==
    ASSUME RowsInv, Idle
    PROVE  RowsInv'
<1>1. Sessions' /\ Requests' = Requests
  BY StepSessions DEF RowsInv, Idle, Requests
<1>2. \A t \in Tables : RowsOK(t)'
  BY <1>1 DEF RowsInv, RowsOK, Idle, MemberRows
<1>3. ASSUME NEW t \in Tables, NEW q \in Requests, stage'[q] = "open"
      PROVE  Shows(q, t)'
  <2>1. CASE stage[q] = "open"
    BY <1>1, <1>3, <2>1 DEF RowsInv, Idle, Shows, MemberRows
  <2>2. CASE stage[q] # "open"
    BY <1>1, <1>3, <2>2 DEF Idle, Shows, MemberRows
  <2> QED
    BY <2>1, <2>2
<1>4. OneRowPerMember'
  BY <1>1 DEF RowsInv, Idle, OneRowPerMember, OnePerMember, Overlapped, MemberRows
<1> QED
  BY <1>1, <1>2, <1>3, <1>4 DEF RowsInv, Tables, MemberRows

\* Every step of the server, and a stutter, preserves the invariant.
LEMMA StepRows == RowsInv /\ [Next]_vars => RowsInv'
<1> SUFFICES ASSUME RowsInv, [Next]_vars PROVE RowsInv'
  OBVIOUS
<1>1. Sessions
  BY DEF RowsInv
<1>2. ASSUME NEW r \in Requests, Commits(r), Step(r)
      PROVE  RowsInv'
  <2>1. stage[r] = "open"
    BY <1>2 DEF Commits
  <2> QED
    BY <1>2, <2>1, StepGrows, CommitRows
<1> QED
  BY <1>1, <1>2, IdleRows, StepCases

\* The strengthened invariant of the rows kept one to a member holds in every
\* reachable state.
THEOREM RowsInvariant == Spec => []RowsInv
  BY InitRows, StepRows, PTL DEF Spec

\* A member has one row of each kind at a thing - an answer to an invitation, a like, a
\* favourite, a view, an attendance - unless the two requests that inserted them overlapped
\* (rsvp, toggle_like, toggle_favorite, record_view, update_attendance).
THEOREM MemberRowsDiffer == Spec => []OneRowPerMember
<1>1. RowsInv => OneRowPerMember
  BY DEF RowsInv
<1> QED
  BY RowsInvariant, <1>1, PTL
-----------------------------------------------------------------------------
(* The inbox: a commit adds one notice at most, of its request *)

\* At most one notice is added, by r about a thing of the kind.
Told(r, kind) ==
    /\ db.notifications \subseteq db'.notifications
    /\ \A m \in db'.notifications \ db.notifications :
          m.by = r /\ m.about[1] = kind /\ m.at = now /\ m.to \subseteq Accounts
    /\ \A m, n \in db'.notifications \ db.notifications : m = n

\* notify_accounts adds one.
LEMMA NotifyAllTells ==
    ASSUME NEW r, NEW kind, NEW x, NEW to,
           db'.notifications = NotifyAll(db.notifications, r, <<kind, x>>, to)
    PROVE  Told(r, kind)
<1> DEFINE message == Message(r, <<kind, x>>, to)
<1>1. /\ message.by = r /\ message.about = <<kind, x>> /\ message.at = now
      /\ message.to \subseteq Accounts
  BY DEF Message
<1>2. db'.notifications = db.notifications \cup {m \in {message} : m.to # {}}
  BY DEF NotifyAll
<1> HIDE DEF message
<1>3. message.about[1] = kind
  BY <1>1
<1>4. \A m \in db'.notifications \ db.notifications : m = message
  BY <1>2
<1> QED
  BY <1>1, <1>2, <1>3, <1>4 DEF Told

\* Without the sender too.
LEMMA NotifyTells ==
    ASSUME NEW r, NEW kind, NEW x, NEW to,
           db'.notifications = Notify(db.notifications, r, <<kind, x>>, to)
    PROVE  Told(r, kind)
  BY NotifyAllTells, Zenon DEF Notify

\* A handler that leaves the notices tells nobody.
LEMMA NobodyTold ==
    ASSUME NEW r, NEW kind, db'.notifications = db.notifications
    PROVE  Told(r, kind)
  BY DEF Told


\* The chat about an item tells of the item.
LEMMA ChatTold ==
    ASSUME "notifications" \in DOMAIN db, NEW r \in Requests,
           send_chat(r)
    PROVE  Told(r, "item")
<1>1. CASE send_chat(r)
  <2>1. \/ db'.notifications = db.notifications
        \/ \E to : db'.notifications = NotifyAll(db.notifications, r, <<"item", body[r].item>>, to)
    BY <1>1, ZenonT(20) DEF send_chat, Decide, Commit, Refuse, Abort
  <2> QED
    BY <2>1, NobodyTold, NotifyAllTells, Zenon
<1> QED
  BY <1>1

\* Posting and editing a poll tells of the poll.
LEMMA PollTold ==
    ASSUME "notifications" \in DOMAIN db, NEW r \in Requests,
           create_poll(r) \/ update_poll(r)
    PROVE  Told(r, "poll")
<1>1. CASE create_poll(r)
  <2>1. \/ db'.notifications = db.notifications
        \/ \E to : db'.notifications = Notify(db.notifications, r, <<"poll", r>>, to)
    BY <1>1, ZenonT(20) DEF create_poll, Decide, Commit, Refuse, Abort
  <2> QED
    BY <2>1, NobodyTold, NotifyTells, Zenon
<1>2. CASE update_poll(r)
  <2>1. \/ db'.notifications = db.notifications
        \/ \E to : db'.notifications = Notify(db.notifications, r, <<"poll", body[r].poll>>, to)
    BY <1>2, ZenonT(20) DEF update_poll, Decide, Commit, Refuse, Abort
  <2> QED
    BY <2>1, NobodyTold, NotifyTells, Zenon
<1> QED
  BY <1>1, <1>2

\* Posting and editing an event tells of the event.
LEMMA EventTold ==
    ASSUME "notifications" \in DOMAIN db, NEW r \in Requests,
           create_event(r) \/ update_event(r)
    PROVE  Told(r, "event")
<1>1. CASE create_event(r)
  <2>1. \/ db'.notifications = db.notifications
        \/ \E to : db'.notifications = Notify(db.notifications, r, <<"event", r>>, to)
    BY <1>1, ZenonT(20) DEF create_event, Decide, Commit, Refuse, Abort
  <2> QED
    BY <2>1, NobodyTold, NotifyTells, Zenon
<1>2. CASE update_event(r)
  <2>1. \/ db'.notifications = db.notifications
        \/ \E to : db'.notifications = Notify(db.notifications, r, <<"event", body[r].event>>, to)
    BY <1>2, ZenonT(20) DEF update_event, Decide, Commit, Refuse, Abort
  <2> QED
    BY <2>1, NobodyTold, NotifyTells, Zenon
<1> QED
  BY <1>1, <1>2

\* The service requests' handlers tell of the request.
LEMMA RequestTold ==
    ASSUME "notifications" \in DOMAIN db, NEW r \in Requests,
           create_service_request(r) \/ update_service_status(r) \/ map_service_request(r) \/ send_service_message(r)
    PROVE  Told(r, "request")
<1>1. CASE create_service_request(r)
  <2>1. \/ db'.notifications = db.notifications
        \/ \E to : db'.notifications = NotifyAll(db.notifications, r, <<"request", r>>, to)
    BY <1>1, ZenonT(20) DEF create_service_request, Decide, Commit, Refuse, Abort
  <2> QED
    BY <2>1, NobodyTold, NotifyAllTells, Zenon
<1>2. CASE update_service_status(r)
  <2>1. \/ db'.notifications = db.notifications
        \/ \E to : db'.notifications = NotifyAll(db.notifications, r, <<"request", body[r].request>>, to)
    BY <1>2, ZenonT(20) DEF update_service_status, Decide, Commit, Refuse, Abort
  <2> QED
    BY <2>1, NobodyTold, NotifyAllTells, Zenon
<1>3. CASE map_service_request(r)
  <2>1. \/ db'.notifications = db.notifications
        \/ \E to : db'.notifications = NotifyAll(db.notifications, r, <<"request", body[r].request>>, to)
    BY <1>3, ZenonT(20) DEF map_service_request, Decide, Commit, Refuse, Abort
  <2> QED
    BY <2>1, NobodyTold, NotifyAllTells, Zenon
<1>4. CASE send_service_message(r)
  <2>1. \/ db'.notifications = db.notifications
        \/ \E to : db'.notifications = NotifyAll(db.notifications, r, <<"request", body[r].request>>, to)
    BY <1>4, ZenonT(20) DEF send_service_message, Decide, Commit, Refuse, Abort
  <2> QED
    BY <2>1, NobodyTold, NotifyAllTells, Zenon
<1> QED
  BY <1>1, <1>2, <1>3, <1>4

\* The board tasks' handlers tell of the task.
LEMMA TaskTold ==
    ASSUME "notifications" \in DOMAIN db, NEW r \in Requests,
           create_task(r) \/ update_task_status(r) \/ send_task_message(r)
    PROVE  Told(r, "task")
<1>1. CASE create_task(r)
  <2>1. \/ db'.notifications = db.notifications
        \/ \E to : db'.notifications = Notify(db.notifications, r, <<"task", r>>, to)
    BY <1>1, ZenonT(20) DEF create_task, Decide, Commit, Refuse, Abort
  <2> QED
    BY <2>1, NobodyTold, NotifyTells, Zenon
<1>2. CASE update_task_status(r)
  <2>1. \/ db'.notifications = db.notifications
        \/ \E to : db'.notifications = Notify(db.notifications, r, <<"task", body[r].task>>, to)
    BY <1>2, ZenonT(20) DEF update_task_status, Decide, Commit, Refuse, Abort
  <2> QED
    BY <2>1, NobodyTold, NotifyTells, Zenon
<1>3. CASE send_task_message(r)
  <2>1. \/ db'.notifications = db.notifications
        \/ \E to : db'.notifications = Notify(db.notifications, r, <<"task", body[r].task>>, to)
    BY <1>3, ZenonT(20) DEF send_task_message, Decide, Commit, Refuse, Abort
  <2> QED
    BY <2>1, NobodyTold, NotifyTells, Zenon
<1> QED
  BY <1>1, <1>2, <1>3

\* Posting an announcement tells of it.
LEMMA AnnouncementTold ==
    ASSUME "notifications" \in DOMAIN db, NEW r \in Requests,
           create_announcement(r)
    PROVE  Told(r, "announcement")
<1>1. CASE create_announcement(r)
  <2>1. \/ db'.notifications = db.notifications
        \/ \E to : db'.notifications = Notify(db.notifications, r, <<"announcement", r>>, to)
    BY <1>1, ZenonT(20) DEF create_announcement, Decide, Commit, Refuse, Abort
  <2> QED
    BY <2>1, NobodyTold, NotifyTells, Zenon
<1> QED
  BY <1>1

\* Calling a meeting tells of it.
LEMMA MeetingTold ==
    ASSUME "notifications" \in DOMAIN db, NEW r \in Requests,
           create_meeting(r)
    PROVE  Told(r, "meeting")
<1>1. CASE create_meeting(r)
  <2>1. \/ db'.notifications = db.notifications
        \/ \E to : db'.notifications = Notify(db.notifications, r, <<"meeting", r>>, to)
    BY <1>1, ZenonT(20) DEF create_meeting, Decide, Commit, Refuse, Abort
  <2> QED
    BY <2>1, NobodyTold, NotifyTells, Zenon
<1> QED
  BY <1>1

\* The other handlers leave the inbox.
LEMMA LeavesInbox ==
    ASSUME Sessions, "notifications" \in DOMAIN db, NEW r \in Requests, NEW written,
           Handles(r, written), "notifications" \notin written
    PROVE  db'.notifications = db.notifications
  BY HandlesFrame DEF Leaves

-----------------------------------------------------------------------------
(* Announced once: a handler announces what its snapshot shows unpublished; that   *)
(* was announced before only if an edit took it back or by a request it missed. *)

\* An edit that committed left the thing unpublished.
TakenBack(about) ==
    \E q \in On(about, {"update_poll", "update_event"}) : ~published(body[q].columns.status)

\* What the notices of some tables are about is there, and published unless it was taken back.
Settled(tables) ==
    \A n \in tables.notifications : n.about[1] \in DOMAIN Announced =>
        LET things == tables[Announced[n.about[1]]]
        IN  /\ n.about[2] \in DOMAIN things
            /\ published(things[n.about[2]].status) \/ TakenBack(n.about)

\* A thing has a status, and none the key of a request that has not committed.
ThingsOK(t) ==
    /\ t \in DOMAIN db
    /\ \A x \in DOMAIN db[t] : "status" \in DOMAIN db[t][x]
    /\ \A q \in Requests : stage[q] \in {"waiting", "open"} => q \notin DOMAIN db[t]

\* What the snapshot of q lacks is of requests it missed.
Reads(q) ==
    /\ seen[q].notifications \subseteq db.notifications
    /\ \A n \in db.notifications \ seen[q].notifications : n.by \in missed[q] \cap Requests
    /\ \A kind \in DOMAIN Announced :
          LET t == Announced[kind]
          IN  /\ DOMAIN seen[q][t] \subseteq DOMAIN db[t]
              /\ \A x \in DOMAIN seen[q][t] : "status" \in DOMAIN seen[q][t][x]
    /\ Settled(seen[q])

\* Two notices of one thing are of requests that overlapped, unless it was taken back.
ToldOnce ==
    \A m, n \in db.notifications :
        m # n /\ m.about = n.about /\ m.about[1] \in DOMAIN Announced =>
            \/ m.by \in Requests /\ n.by \in Requests /\ Overlapped(m.by, n.by)
            \/ TakenBack(m.about)

AnnouncedInv ==
    /\ Sessions
    /\ body \in Workloads
    /\ "notifications" \in DOMAIN db
    /\ \A kind \in DOMAIN Announced : ThingsOK(Announced[kind])
    /\ Settled(db)
    /\ \A q \in Requests : stage[q] = "open" => Reads(q)
    /\ ToldOnce

\* The things of a kind stay, r may add one under its own key, and a status changes only
\* by an edit to what the edit says.
Edited(r, kind) ==
    LET t == Announced[kind]
    IN  /\ DOMAIN db[t] \subseteq DOMAIN db'[t] /\ DOMAIN db'[t] \subseteq DOMAIN db[t] \cup {r}
        /\ \A x \in DOMAIN db'[t] : "status" \in DOMAIN db'[t][x]
        /\ \A x \in DOMAIN db[t] :
              \/ db'[t][x].status = db[t][x].status
              \/ /\ body[r].op \in {"update_poll", "update_event"}
                 /\ kind \in DOMAIN body[r] /\ body[r][kind] = x
                 /\ db'[t][x].status = body[r].columns.status

\* What r announces is published now, and new or unpublished in the snapshot of r.
Announces(r) ==
    \A n \in db'.notifications \ db.notifications : n.about[1] \in DOMAIN Announced =>
        LET t == Announced[n.about[1]]
            x == n.about[2]
        IN  /\ x \in DOMAIN db'[t] /\ published(db'[t][x].status)
            /\ x = r \/ (x \in DOMAIN seen[r][t] /\ ~published(seen[r][t][x].status))

\* What was taken back remains so.
LEMMA TakenBackStays ==
    ASSUME UNCHANGED body, \A q \in Requests : Committed(q) => Committed(q)',
           NEW about, TakenBack(about)
    PROVE  TakenBack(about)'
  BY DEF TakenBack, On, Requests

\* What has committed remains committed.
LEMMA CommittedStays ==
    ASSUME NEW r \in Requests, Commits(r), NEW q \in Requests, Committed(q)
    PROVE  Committed(q)'
  BY DEF Commits, Committed

\* An overlap of two requests too.
LEMMA OverlapStays ==
    ASSUME Sessions, NEW r \in Requests, Commits(r), NEW p \in Requests, NEW q \in Requests, Overlapped(p, q)
    PROVE  Overlapped(p, q)'
  BY DEF Sessions, Commits, Overlapped

\* What was settled remains so, whatever becomes of the tables.
LEMMA SettledStays ==
    ASSUME UNCHANGED body, \A q \in Requests : Committed(q) => Committed(q)', NEW q, NEW p, Settled(seen[q]), seen'[p] = seen[q]
    PROVE  Settled(seen[p])'
  BY TakenBackStays DEF Settled, Announced

\* After a commit what was announced is still there, and published or taken back.
LEMMA CommitSettled ==
    ASSUME AnnouncedInv, NEW r \in Requests, Commits(r), NEW k, Told(r, k), Announces(r),
           \A kind \in DOMAIN Announced : Edited(r, kind)
    PROVE  Settled(db)'
<1>1. body' = body /\ Requests' = Requests /\ \A q \in Requests : Committed(q) => Committed(q)'
  BY CommittedStays, Zenon DEF Commits, Requests
<1>2. ASSUME NEW n \in db'.notifications, n.about[1] \in DOMAIN Announced
      PROVE  /\ n.about[2] \in DOMAIN db'[Announced[n.about[1]]]
             /\ published(db'[Announced[n.about[1]]][n.about[2]].status) \/ TakenBack(n.about)'
  <2>1. CASE n \notin db.notifications
    BY <1>2, <2>1 DEF Announces
  <2>2. CASE n \in db.notifications
    <3> DEFINE t == Announced[n.about[1]]
    <3>1. /\ n.about[2] \in DOMAIN db[t]
          /\ published(db[t][n.about[2]].status) \/ TakenBack(n.about)
      BY <1>2, <2>2 DEF AnnouncedInv, Settled
    <3>2. Edited(r, n.about[1])
      BY <1>2
    <3>3. n.about[2] \in DOMAIN db'[t]
      BY <3>1, <3>2 DEF Edited
    <3>4. CASE db'[t][n.about[2]].status = db[t][n.about[2]].status
      BY <1>1, <3>1, <3>3, <3>4, TakenBackStays
    <3>5. CASE /\ body[r].op \in {"update_poll", "update_event"}
               /\ n.about[1] \in DOMAIN body[r] /\ body[r][n.about[1]] = n.about[2]
               /\ db'[t][n.about[2]].status = body[r].columns.status
      <4>1. Committed(r)'
        BY DEF Commits
      <4>2. r \in On(n.about, {"update_poll", "update_event"})'
        BY <1>1, <3>5, <4>1 DEF On
      <4> QED
        BY <1>1, <3>3, <3>5, <4>2 DEF TakenBack
    <3> QED
      BY <3>1, <3>2, <3>4, <3>5, Zenon DEF Edited
  <2> QED
    BY <2>1, <2>2
<1> QED
  BY <1>2 DEF Settled, Announced

\* The snapshots lack what r wrote, and know that they miss it.
LEMMA CommitReads ==
    ASSUME AnnouncedInv, NEW r \in Requests, Commits(r), NEW k, Told(r, k),
           \A kind \in DOMAIN Announced : Edited(r, kind),
           NEW q \in Requests, stage'[q] = "open"
    PROVE  Reads(q)'
<1>1. body' = body /\ Requests' = Requests /\ \A p \in Requests : Committed(p) => Committed(p)'
  BY CommittedStays, Zenon DEF Commits, Requests
<1>2. q # r /\ stage[q] = "open" /\ seen'[q] = seen[q] /\ missed'[q] = missed[q] \cup {r}
  BY DEF Commits, Committed
<1>3. Reads(q)
  BY <1>2 DEF AnnouncedInv
<1>4. Settled(seen[q])'
  BY <1>1, <1>2, <1>3, SettledStays DEF Reads
<1>5. /\ seen'[q].notifications \subseteq db'.notifications
      /\ \A n \in db'.notifications \ seen'[q].notifications : n.by \in missed'[q] \cap Requests
  BY <1>2, <1>3 DEF Reads, Told
<1>6. ASSUME NEW kind \in DOMAIN Announced
      PROVE  /\ DOMAIN seen'[q][Announced[kind]] \subseteq DOMAIN db'[Announced[kind]]
             /\ \A x \in DOMAIN seen'[q][Announced[kind]] : "status" \in DOMAIN seen'[q][Announced[kind]][x]
  BY <1>2, <1>3 DEF Reads, Edited
<1> QED
  BY <1>1, <1>4, <1>5, <1>6 DEF Reads, Announced

\* A second notice of a thing comes from a request that missed the first, or of a thing
\* that was taken back.
LEMMA CommitToldOnce ==
    ASSUME AnnouncedInv, NEW r \in Requests, Commits(r), NEW k, Told(r, k), Announces(r)
    PROVE  ToldOnce'
<1>1. body' = body /\ Requests' = Requests /\ \A p \in Requests : Committed(p) => Committed(p)'
  BY CommittedStays, Zenon DEF Commits, Requests
<1>2. \A p, q \in Requests : Overlapped(p, q) => Overlapped(p, q)'
  BY OverlapStays DEF AnnouncedInv
<1>3. \A about : TakenBack(about) => TakenBack(about)'
  BY <1>1, TakenBackStays
<1>4. stage[r] = "open" /\ Reads(r)
  BY DEF Commits, AnnouncedInv
<1>5. ASSUME NEW m \in db'.notifications \ db.notifications, NEW n \in db.notifications,
             m.about = n.about, m.about[1] \in DOMAIN Announced
      PROVE  \/ m.by = r /\ n.by \in Requests /\ n.by \in missed[r]
             \/ TakenBack(m.about)
  <2> DEFINE t == Announced[m.about[1]]
             x == m.about[2]
  <2>1. m.by = r
    BY <1>5 DEF Told
  <2>2. x = r \/ (x \in DOMAIN seen[r][t] /\ ~published(seen[r][t][x].status))
    BY <1>5, Zenon DEF Announces
  <2>3. x # r
    BY <1>4, <1>5 DEF AnnouncedInv, Settled, ThingsOK
  <2>4. CASE n \in seen[r].notifications
    BY <1>4, <1>5, <2>2, <2>3, <2>4 DEF Reads, Settled
  <2>5. CASE n \notin seen[r].notifications
    BY <1>4, <1>5, <2>1, <2>5 DEF Reads
  <2> QED
    BY <2>4, <2>5
<1>6. \A q \in Requests : missed[q] \subseteq missed'[q]
  BY DEF Commits, AnnouncedInv, Sessions
<1>7. ASSUME NEW m \in db'.notifications, NEW n \in db'.notifications,
             m # n, m.about = n.about, m.about[1] \in DOMAIN Announced
      PROVE  \/ m.by \in Requests /\ n.by \in Requests /\ Overlapped(m.by, n.by)'
             \/ TakenBack(m.about)'
  <2>1. CASE m \in db.notifications /\ n \in db.notifications
    <3>1. \/ m.by \in Requests /\ n.by \in Requests /\ Overlapped(m.by, n.by)
          \/ TakenBack(m.about)
      BY <1>7, <2>1 DEF AnnouncedInv, ToldOnce
    <3> QED
      BY <1>2, <1>3, <3>1
  <2>2. CASE m \notin db.notifications /\ n \in db.notifications
    BY <1>3, <1>5, <1>6, <1>7, <2>2 DEF Overlapped
  <2>3. CASE m \in db.notifications /\ n \notin db.notifications
    <3>1. \/ n.by = r /\ m.by \in Requests /\ m.by \in missed[r]
          \/ TakenBack(m.about)
      BY <1>5, <1>7, <2>3
    <3> QED
      BY <1>3, <1>6, <3>1 DEF Overlapped
  <2>4. CASE m \notin db.notifications /\ n \notin db.notifications
    BY <1>7, <2>4 DEF Told
  <2> QED
    BY <2>1, <2>2, <2>3, <2>4
<1> QED
  BY <1>1, <1>7 DEF ToldOnce, Announced

\* A commit that announces so and edits so preserves the invariant.
LEMMA CommitAnnounced ==
    ASSUME AnnouncedInv, NEW r \in Requests, Commits(r), DOMAIN db' = DOMAIN db,
           NEW k, Told(r, k), Announces(r), \A kind \in DOMAIN Announced : Edited(r, kind)
    PROVE  AnnouncedInv'
<1>1. Sessions' /\ body' = body /\ Requests' = Requests
  BY StepSessions, Zenon DEF AnnouncedInv, Commits, Requests
<1>2. ASSUME NEW kind \in DOMAIN Announced
      PROVE  ThingsOK(Announced[kind])'
  <2>1. ThingsOK(Announced[kind]) /\ Edited(r, kind)
    BY DEF AnnouncedInv
  <2>2. \A q \in Requests : stage'[q] \in {"waiting", "open"} => q # r /\ q \notin DOMAIN db[Announced[kind]]
    BY <2>1 DEF ThingsOK, Commits, Committed
  <2> QED
    BY <1>1, <2>1, <2>2 DEF ThingsOK, Edited, Announced
<1>3. Settled(db)'
  BY CommitSettled, Zenon
<1>4. \A q \in Requests : stage'[q] = "open" => Reads(q)'
  BY CommitReads, Zenon
<1>5. ToldOnce'
  BY CommitToldOnce, Zenon
<1> QED
  BY <1>1, <1>2, <1>3, <1>4, <1>5 DEF AnnouncedInv, Announced

\* A step that writes no table preserves it.
LEMMA IdleAnnounced ==
    ASSUME AnnouncedInv, Idle
    PROVE  AnnouncedInv'
<1>1. Sessions' /\ body' = body /\ Requests' = Requests /\ db' = db /\ missed' = missed
  BY StepSessions DEF AnnouncedInv, Idle, Requests
<1>2. \A q \in Requests : Committed(q) => Committed(q)'
  BY DEF Idle
<1>3. \A about : TakenBack(about) => TakenBack(about)'
  BY <1>1, <1>2, TakenBackStays
<1>4. \A kind \in DOMAIN Announced : ThingsOK(Announced[kind])'
  BY <1>1 DEF AnnouncedInv, ThingsOK, Idle, Announced
<1>5. Settled(db)'
  BY <1>1, <1>3 DEF AnnouncedInv, Settled, Announced
<1>6. ASSUME NEW q \in Requests, stage'[q] = "open"
      PROVE  Reads(q)'
  <2>1. CASE stage[q] = "open"
    <3>1. Reads(q) /\ seen'[q] = seen[q]
      BY <1>6, <2>1 DEF AnnouncedInv, Idle
    <3>2. Settled(seen[q])'
      BY <1>1, <1>2, <3>1, SettledStays DEF Reads
    <3> QED
      BY <1>1, <3>1, <3>2 DEF Reads, Announced
  <2>2. CASE stage[q] # "open"
    <3>1. seen'[q] = db'
      BY <1>1, <1>6, <2>2 DEF Idle
    <3>2. Settled(seen[q])'
      BY <1>5, <3>1 DEF Settled, Announced
    <3> QED
      BY <1>1, <1>4, <3>1, <3>2 DEF Reads, ThingsOK, Announced
  <2> QED
    BY <2>1, <2>2
<1>7. ToldOnce'
  BY <1>1, <1>3 DEF AnnouncedInv, ToldOnce, Overlapped, Announced
<1> QED
  BY <1>1, <1>4, <1>5, <1>6, <1>7 DEF AnnouncedInv, Announced

\* A kind whose table stays is not edited.
LEMMA NotEdited ==
    ASSUME AnnouncedInv, NEW r, NEW kind \in DOMAIN Announced, db'[Announced[kind]] = db[Announced[kind]]
    PROVE  Edited(r, kind)
  BY DEF AnnouncedInv, ThingsOK, Edited

\* Notify tells of nothing but what it is given.
LEMMA NotifyAbout ==
    ASSUME NEW r, NEW about, NEW to, db'.notifications = Notify(db.notifications, r, about, to)
    PROVE  \A n \in db'.notifications \ db.notifications : n.about = about
  BY DEF Notify, NotifyAll, Message

\* Posting a poll adds it, announced if it is published.
LEMMA CreatePollAnnounces ==
    ASSUME AnnouncedInv, NEW r \in Requests, Commits(r), create_poll(r)
    PROVE  Edited(r, "poll") /\ Announces(r)
<1>1. /\ "polls" \in DOMAIN db /\ "notifications" \in DOMAIN db
      /\ \A x \in DOMAIN db.polls : "status" \in DOMAIN db.polls[x]
      /\ r \notin DOMAIN db.polls /\ Sessions
  BY DEF AnnouncedInv, ThingsOK, Announced, Commits
<1>2. "status" \in DOMAIN body[r].columns
  BY Payloads DEF AnnouncedInv, Requests, create_poll, Asks
<1> DEFINE b == body[r]
           association == IF b.association = None /\ RoleOf[b.by] = "board_member"
                          THEN HomeOf[b.by] ELSE b.association
           row == With(b.columns, [association |-> association, created |-> now, deleted |-> FALSE])
<1>3. db'.polls = With(db.polls, [k \in {r} |-> row])
  BY <1>1, Decided, ZenonT(30) DEF create_poll, Decide, Commit
<1>4. "status" \in DOMAIN row
  BY <1>2 DEF With
<1>5. \/ db'.notifications = db.notifications
      \/ published(row.status) /\ \E to : db'.notifications = Notify(db.notifications, r, <<"poll", r>>, to)
  BY <1>1, Decided, ZenonT(30) DEF create_poll, Decide, Commit
<1> HIDE DEF row
<1>6. /\ DOMAIN db'.polls = DOMAIN db.polls \cup {r} /\ db'.polls[r] = row
      /\ \A x \in DOMAIN db.polls : db'.polls[x] = db.polls[x]
  BY <1>1, <1>3 DEF With
<1>7. Edited(r, "poll")
  BY <1>1, <1>4, <1>6 DEF Edited, Announced
<1>8. ASSUME NEW n \in db'.notifications \ db.notifications
      PROVE  n.about = <<"poll", r>> /\ published(row.status)
  BY <1>5, <1>8, NotifyAbout
<1>9. Announces(r)
  BY <1>6, <1>8 DEF Announces, Announced
<1> QED
  BY <1>7, <1>9

\* An edit writes the status it changes, and no other row.
StatusSaved(table, loaded, k, columns) ==
    LET wanted == With(loaded[k], columns)
        saved == Save(table, loaded, k, wanted)
    IN  /\ DOMAIN saved = DOMAIN table /\ "status" \in DOMAIN saved[k]
        /\ \A x \in DOMAIN table \ {k} : saved[x] = table[x]
        /\ \/ saved[k].status = table[k].status /\ wanted.status = loaded[k].status
           \/ /\ "status" \in DOMAIN columns
              /\ saved[k].status = columns.status /\ wanted.status = columns.status

LEMMA SaveStatus ==
    ASSUME NEW table, NEW loaded, NEW k, NEW columns,
           k \in DOMAIN table, "status" \in DOMAIN table[k], "status" \in DOMAIN loaded[k]
    PROVE  StatusSaved(table, loaded, k, columns)
<1> DEFINE wanted == With(loaded[k], columns)
           saved == Save(table, loaded, k, wanted)
<1>1. \/ wanted.status = loaded[k].status
      \/ "status" \in DOMAIN columns /\ wanted.status = columns.status
  BY DEF With
<1> HIDE DEF wanted
<1>2. /\ DOMAIN saved = DOMAIN table /\ \A x \in DOMAIN table \ {k} : saved[x] = table[x]
      /\ saved[k] = Changed(table[k], loaded[k], wanted)
  BY DEF Save
<1> HIDE DEF saved
<1>3. /\ "status" \in DOMAIN saved[k]
      /\ saved[k].status = IF wanted.status # loaded[k].status THEN wanted.status ELSE table[k].status
  BY <1>2 DEF Changed
<1> QED
  BY <1>1, <1>2, <1>3 DEF wanted, saved, StatusSaved

\* Editing a poll or an event changes its status to what the edit says, and announces it
\* where the snapshot had it unpublished.
EditOf(r, kind, columns) ==
    LET t == Announced[kind]
        x == body[r][kind]
        new == With(seen[r][t][x], columns)
    IN  /\ body[r].op \in {"update_poll", "update_event"} /\ kind \in DOMAIN body[r]
        /\ x \in DOMAIN seen[r][t] /\ db'[t] = Save(db[t], seen[r][t], x, new)
        /\ "status" \in DOMAIN columns => columns.status = body[r].columns.status
        /\ \/ db'.notifications = db.notifications
           \/ /\ ~published(seen[r][t][x].status) /\ published(new.status)
              /\ \E to : db'.notifications = Notify(db.notifications, r, <<kind, x>>, to)

LEMMA EditAnnounces ==
    ASSUME AnnouncedInv, NEW r \in Requests, Commits(r), NEW kind \in DOMAIN Announced, NEW columns,
           EditOf(r, kind, columns)
    PROVE  Edited(r, kind) /\ Announces(r)
<1>0. PICK t, x, new :
         /\ t = Announced[kind] /\ x = body[r][kind] /\ new = With(seen[r][t][x], columns)
         /\ body[r].op \in {"update_poll", "update_event"} /\ kind \in DOMAIN body[r]
         /\ x \in DOMAIN seen[r][t] /\ db'[t] = Save(db[t], seen[r][t], x, new)
         /\ "status" \in DOMAIN columns => columns.status = body[r].columns.status
         /\ \/ db'.notifications = db.notifications
            \/ /\ ~published(seen[r][t][x].status) /\ published(new.status)
               /\ \E to : db'.notifications = Notify(db.notifications, r, <<kind, x>>, to)
  BY Zenon DEF EditOf
<1> DEFINE old == seen[r][t][x]
<1>1. /\ x \in DOMAIN db[t] /\ "status" \in DOMAIN old
      /\ \A y \in DOMAIN db[t] : "status" \in DOMAIN db[t][y]
  BY <1>0 DEF AnnouncedInv, ThingsOK, Reads, Commits
<1>2. /\ DOMAIN db'[t] = DOMAIN db[t] /\ "status" \in DOMAIN db'[t][x]
      /\ \A y \in DOMAIN db[t] \ {x} : db'[t][y] = db[t][y]
      /\ \/ db'[t][x].status = db[t][x].status /\ new.status = old.status
         \/ "status" \in DOMAIN columns /\ db'[t][x].status = columns.status /\ new.status = columns.status
  <2>1. db'[t] = Save(db[t], seen[r][t], x, With(seen[r][t][x], columns)) /\ new = With(seen[r][t][x], columns)
    BY <1>0
  <2>2. "status" \in DOMAIN db[t][x] /\ "status" \in DOMAIN seen[r][t][x] /\ x \in DOMAIN db[t]
    BY <1>1
  <2>3. StatusSaved(db[t], seen[r][t], x, columns)
    BY <2>2, SaveStatus, Zenon
  <2> QED
    BY <2>1, <2>3 DEF StatusSaved
<1>3. \/ db'[t][x].status = db[t][x].status /\ new.status = old.status
      \/ db'[t][x].status = body[r].columns.status /\ new.status = db'[t][x].status
  BY <1>0, <1>2, Zenon
<1> HIDE DEF old
<1>4. Edited(r, kind)
  BY <1>0, <1>1, <1>2, <1>3, Zenon DEF Edited
<1>5. ASSUME NEW n \in db'.notifications \ db.notifications
      PROVE  n.about = <<kind, x>> /\ ~published(old.status) /\ published(new.status)
  BY <1>0, <1>5, NotifyAbout DEF old
<1>6. Announces(r)
  <2>1. ASSUME NEW n \in db'.notifications \ db.notifications
        PROVE  /\ x \in DOMAIN db'[t] /\ published(db'[t][x].status)
               /\ x \in DOMAIN seen[r][t] /\ ~published(seen[r][t][x].status)
               /\ n.about[1] = kind /\ n.about[2] = x
    <3>1. n.about = <<kind, x>> /\ ~published(old.status) /\ published(new.status)
      BY <1>5, <2>1
    <3>2. new.status = db'[t][x].status
      <4>1. new.status # old.status
        BY <3>1, Zenon
      <4> QED
        BY <1>3, <4>1, Zenon
    <3>3. published(db'[t][x].status) /\ ~published(seen[r][t][x].status)
      BY <3>1, <3>2, Zenon DEF old
    <3>4. n.about[1] = kind /\ n.about[2] = x
      BY <3>1
    <3> QED
      BY <1>0, <1>1, <1>2, <3>3, <3>4, Zenon
  <2> QED
    BY <1>0, <2>1, Zenon DEF Announces
<1> QED
  BY <1>4, <1>6

\* Posting an event adds it, announced if it is published and asked for.
LEMMA CreateEventAnnounces ==
    ASSUME AnnouncedInv, NEW r \in Requests, Commits(r), create_event(r)
    PROVE  Edited(r, "event") /\ Announces(r)
<1>1. /\ "events" \in DOMAIN db /\ "notifications" \in DOMAIN db
      /\ \A x \in DOMAIN db.events : "status" \in DOMAIN db.events[x]
      /\ r \notin DOMAIN db.events /\ Sessions
  BY DEF AnnouncedInv, ThingsOK, Announced, Commits
<1>2. "status" \in DOMAIN body[r].columns
  BY Payloads DEF AnnouncedInv, Requests, create_event, Asks
<1> DEFINE b == body[r]
           association == IF b.association = None /\ RoleOf[b.by] = "board_member"
                          THEN HomeOf[b.by] ELSE b.association
           row == With(event_columns(b.columns), [association |-> association, created |-> now, deleted |-> FALSE])
<1>3. db'.events = With(db.events, [k \in {r} |-> row])
  BY <1>1, Decided, ZenonT(30) DEF create_event, Decide, Commit
<1>4. "status" \in DOMAIN row
  BY <1>2 DEF With, event_columns
<1>5. \/ db'.notifications = db.notifications
      \/ event_published(row.status) /\ \E to : db'.notifications = Notify(db.notifications, r, <<"event", r>>, to)
  BY <1>1, Decided, ZenonT(30) DEF create_event, Decide, Commit
<1> HIDE DEF row
<1>6. /\ DOMAIN db'.events = DOMAIN db.events \cup {r} /\ db'.events[r] = row
      /\ \A x \in DOMAIN db.events : db'.events[x] = db.events[x]
  BY <1>1, <1>3 DEF With
<1>7. Edited(r, "event")
  BY <1>1, <1>4, <1>6 DEF Edited, Announced
<1>8. ASSUME NEW n \in db'.notifications \ db.notifications
      PROVE  n.about = <<"event", r>> /\ published(row.status)
  BY <1>5, <1>8, NotifyAbout DEF event_published, published
<1>9. Announces(r)
  BY <1>6, <1>8 DEF Announces, Announced
<1> QED
  BY <1>7, <1>9

\* Editing a poll.
LEMMA UpdatePollAnnounces ==
    ASSUME AnnouncedInv, NEW r \in Requests, Commits(r), update_poll(r)
    PROVE  Edited(r, "poll") /\ Announces(r)
<1>1. "polls" \in DOMAIN db /\ "notifications" \in DOMAIN db /\ Sessions
  BY DEF AnnouncedInv, ThingsOK, Announced
<1>2. body[r].op = "update_poll" /\ "poll" \in DOMAIN body[r]
  BY Payloads DEF AnnouncedInv, Requests, update_poll, Asks
<1> DEFINE x == body[r].poll
           new == With(seen[r].polls[x], body[r].columns)
<1>3. x \in DOMAIN seen[r].polls
  BY <1>1, Decided, ZenonT(30) DEF update_poll, Decide, _manager_poll, poll_get, IsLive
<1>4. db'.polls = Save(db.polls, seen[r].polls, x, new)
  BY <1>1, Decided, ZenonT(30) DEF update_poll, Decide, Commit
<1>5. \/ db'.notifications = db.notifications
      \/ /\ ~published(seen[r].polls[x].status) /\ published(new.status)
         /\ \E to : db'.notifications = Notify(db.notifications, r, <<"poll", x>>, to)
  BY <1>1, Decided, ZenonT(30) DEF update_poll, Decide, Commit
<1>6. "poll" \in DOMAIN Announced /\ Announced["poll"] = "polls"
  BY DEF Announced
<1>7. EditOf(r, "poll", body[r].columns)
  BY <1>2, <1>3, <1>4, <1>5, <1>6 DEF EditOf
<1> QED
  BY <1>6, <1>7, EditAnnounces

\* Editing an event.
LEMMA UpdateEventAnnounces ==
    ASSUME AnnouncedInv, NEW r \in Requests, Commits(r), update_event(r)
    PROVE  Edited(r, "event") /\ Announces(r)
<1>1. "events" \in DOMAIN db /\ "notifications" \in DOMAIN db /\ Sessions
  BY DEF AnnouncedInv, ThingsOK, Announced
<1>2. body[r].op = "update_event" /\ "event" \in DOMAIN body[r]
  BY Payloads DEF AnnouncedInv, Requests, update_event, Asks
<1> DEFINE x == body[r].event
           columns == event_columns(body[r].columns)
           new == With(seen[r].events[x], columns)
<1>3. x \in DOMAIN seen[r].events
  BY <1>1, Decided, ZenonT(30) DEF update_event, Decide, _manager_event, event_get, IsLive
<1>4. db'.events = Save(db.events, seen[r].events, x, new)
  BY <1>1, Decided, ZenonT(30) DEF update_event, Decide, Commit
<1>5. \/ db'.notifications = db.notifications
      \/ /\ ~event_published(seen[r].events[x].status) /\ event_published(new.status)
         /\ \E to : db'.notifications = Notify(db.notifications, r, <<"event", x>>, to)
  BY <1>1, Decided, ZenonT(30) DEF update_event, Decide, Commit, announces
<1>6. "event" \in DOMAIN Announced /\ Announced["event"] = "events"
  BY DEF Announced
<1>7. "status" \in DOMAIN columns => columns.status = body[r].columns.status
  BY DEF event_columns
<1>8. \A status : event_published(status) <=> published(status)
  BY DEF event_published, published
<1> HIDE DEF columns
<1>9. \/ db'.notifications = db.notifications
      \/ /\ ~published(seen[r].events[x].status) /\ published(new.status)
         /\ \E to : db'.notifications = Notify(db.notifications, r, <<"event", x>>, to)
  BY <1>5, <1>8, Zenon
<1>10. EditOf(r, "event", columns)
  BY <1>2, <1>3, <1>4, <1>6, <1>7, <1>9 DEF EditOf
<1> QED
  BY <1>6, <1>10, EditAnnounces

\* Deleting a thing leaves every status.
StatusesStay(old, new) ==
    /\ DOMAIN new = DOMAIN old
    /\ \A x \in DOMAIN old : "status" \in DOMAIN new[x] /\ new[x].status = old[x].status

LEMMA DeleteLeavesStatus ==
    ASSUME NEW table, \A x \in DOMAIN table : "status" \in DOMAIN table[x], NEW loaded, NEW k
    PROVE  StatusesStay(table, Delete(table, loaded, {k}))
  BY DEF Delete, Mark, StatusesStay

\* Deleting polls or events tells nobody.
LEMMA DeletesAnnounce ==
    ASSUME AnnouncedInv, NEW r \in Requests, Commits(r), delete_poll(r) \/ delete_event(r)
    PROVE  db'.notifications = db.notifications /\ \A kind \in DOMAIN Announced : Edited(r, kind)
<1>1. /\ "polls" \in DOMAIN db /\ "events" \in DOMAIN db /\ "notifications" \in DOMAIN db /\ Sessions
      /\ \A x \in DOMAIN db.polls : "status" \in DOMAIN db.polls[x]
      /\ \A x \in DOMAIN db.events : "status" \in DOMAIN db.events[x]
  BY DEF AnnouncedInv, ThingsOK, Announced
<1>2. CASE delete_poll(r)
  <2>1. db' = [db EXCEPT !.polls = Delete(@, seen[r].polls, {body[r].poll})]
    BY <1>1, <1>2, Decided, ZenonT(30) DEF delete_poll, Decide, Commit
  <2>2. db'.polls = Delete(db.polls, seen[r].polls, {body[r].poll})
    BY <1>1, <2>1
  <2>3. Edited(r, "poll")
    <3>1. StatusesStay(db.polls, Delete(db.polls, seen[r].polls, {body[r].poll}))
      BY <1>1, DeleteLeavesStatus, Zenon
    <3> QED
      BY <2>2, <3>1, Zenon DEF StatusesStay, Edited, Announced
  <2>4. Edited(r, "event") /\ db'.notifications = db.notifications
    BY <1>1, <2>1 DEF Edited, Announced
  <2> QED
    BY <2>3, <2>4 DEF Announced
<1>3. CASE delete_event(r)
  <2>1. db' = [db EXCEPT !.events = Delete(@, seen[r].events, {body[r].event})]
    BY <1>1, <1>3, Decided, ZenonT(30) DEF delete_event, Decide, Commit
  <2>2. db'.events = Delete(db.events, seen[r].events, {body[r].event})
    BY <1>1, <2>1
  <2>3. Edited(r, "event")
    <3>1. StatusesStay(db.events, Delete(db.events, seen[r].events, {body[r].event}))
      BY <1>1, DeleteLeavesStatus, Zenon
    <3> QED
      BY <2>2, <3>1, Zenon DEF StatusesStay, Edited, Announced
  <2>4. Edited(r, "poll") /\ db'.notifications = db.notifications
    BY <1>1, <2>1 DEF Edited, Announced
  <2> QED
    BY <2>3, <2>4 DEF Announced
<1> QED
  BY <1>2, <1>3

\* A handler that writes neither and tells of something else preserves the invariant.
LEMMA OthersAnnounce ==
    ASSUME AnnouncedInv, NEW r \in Requests, Commits(r), NEW written, Handles(r, written),
           "polls" \notin written, "events" \notin written,
           \E k : k \notin DOMAIN Announced /\ Told(r, k)
    PROVE  AnnouncedInv'
<1>1. PICK k : k \notin DOMAIN Announced /\ Told(r, k)
  OBVIOUS
<1>2. Leaves(db', written)
  BY HandlesFrame DEF AnnouncedInv
<1>3. \A kind \in DOMAIN Announced : db'[Announced[kind]] = db[Announced[kind]]
  BY <1>2 DEF Leaves, Announced, AnnouncedInv, ThingsOK
<1>4. \A kind \in DOMAIN Announced : Edited(r, kind)
  BY <1>3, NotEdited
<1>5. Announces(r)
  BY <1>1 DEF Told, Announces
<1>6. DOMAIN db' = DOMAIN db
  BY <1>2 DEF Leaves
<1> QED
  BY <1>1, <1>4, <1>5, <1>6, CommitAnnounced, Zenon

\* So does one that leaves the inbox too.
LEMMA SilentAnnounce ==
    ASSUME AnnouncedInv, NEW r \in Requests, Commits(r), NEW written, Handles(r, written),
           "polls" \notin written, "events" \notin written, "notifications" \notin written
    PROVE  AnnouncedInv'
<1>1. Told(r, "none")
  BY LeavesInbox, NobodyTold DEF AnnouncedInv
<1>2. "none" \notin DOMAIN Announced
  BY DEF Announced
<1> QED
  BY <1>1, <1>2, OthersAnnounce, Zenon

\* Every commit preserves the invariant.
LEMMA StepAnnounced ==
    ASSUME AnnouncedInv, NEW r \in Requests, Commits(r), Step(r)
    PROVE  AnnouncedInv'
<1>1. /\ Sessions /\ "notifications" \in DOMAIN db
      /\ {"item", "announcement", "request", "task", "meeting"} \cap DOMAIN Announced = {}
      /\ DOMAIN Announced = {"poll", "event"} /\ Announced["poll"] = "polls" /\ Announced["event"] = "events"
      /\ "polls" \in DOMAIN db /\ "events" \in DOMAIN db
  BY DEF AnnouncedInv, Announced, ThingsOK
<1>2. CASE create_poll(r) \/ update_poll(r)
  <2>1. Leaves(db', {"polls", "pollOptions", "pollVotes", "notifications"})
    BY <1>1, <1>2, PollsTell, HandlesFrame
  <2>2. Told(r, "poll") /\ Announces(r) /\ Edited(r, "poll")
    BY <1>1, <1>2, PollTold, CreatePollAnnounces, UpdatePollAnnounces
  <2>3. Edited(r, "event") /\ DOMAIN db' = DOMAIN db
    BY <1>1, <2>1, NotEdited DEF Leaves
  <2>4. \A kind \in DOMAIN Announced : Edited(r, kind)
    BY <1>1, <2>2, <2>3
  <2> QED
    BY <2>2, <2>3, <2>4, CommitAnnounced, Zenon
<1>3. CASE create_event(r) \/ update_event(r)
  <2>1. Leaves(db', {"events", "notifications"})
    BY <1>1, <1>3, EventsTell, HandlesFrame
  <2>2. Told(r, "event") /\ Announces(r) /\ Edited(r, "event")
    BY <1>1, <1>3, EventTold, CreateEventAnnounces, UpdateEventAnnounces
  <2>3. Edited(r, "poll") /\ DOMAIN db' = DOMAIN db
    BY <1>1, <2>1, NotEdited DEF Leaves
  <2>4. \A kind \in DOMAIN Announced : Edited(r, kind)
    BY <1>1, <2>2, <2>3
  <2> QED
    BY <2>2, <2>3, <2>4, CommitAnnounced, Zenon
<1>4. CASE delete_poll(r) \/ delete_event(r)
  <2>1. DOMAIN db' = DOMAIN db
    BY <1>1, <1>4, PollsDelete, EventsDelete, HandlesFrame DEF Leaves
  <2>2. Told(r, "none") /\ Announces(r) /\ \A kind \in DOMAIN Announced : Edited(r, kind)
    BY <1>1, <1>4, DeletesAnnounce, NobodyTold DEF Announces
  <2> QED
    BY <2>1, <2>2, CommitAnnounced, Zenon
<1>5. CASE vote_poll(r) \/ toggle_poll_like(r) \/ add_poll_comment(r) \/ toggle_event_like(r) \/ add_event_comment(r) \/ rsvp(r) \/ clear_rsvp(r)
  BY <1>1, <1>5, PollsWrite, EventsWrite, AnswersWrite, SilentAnnounce
<1>6. CASE AnnouncementStep(r)
  <2>1. CASE create_announcement(r)
    BY <1>1, <2>1, AnnouncementsTell, AnnouncementTold, OthersAnnounce
  <2> QED
    BY <1>6, <2>1, AnnouncementsWrite, LikesWrite, SilentAnnounce DEF AnnouncementStep
<1>7. CASE MarketStep(r)
  <2>1. CASE send_chat(r)
    BY <1>1, <2>1, ItemsTell, ChatTold, OthersAnnounce
  <2> QED
    BY <1>7, <2>1, ItemsWrite, FavoritesWrite, ViewsWrite, SilentAnnounce DEF MarketStep
<1>8. CASE ServiceStep(r)
  <2>1. CASE delete_service_request(r)
    BY <2>1, RequestsWrite, SilentAnnounce
  <2> QED
    BY <1>1, <1>8, <2>1, RequestsTell, RequestTold, OthersAnnounce DEF ServiceStep
<1>9. CASE BoardTaskStep(r)
  <2>1. CASE delete_task(r)
    BY <2>1, TasksWrite, SilentAnnounce
  <2> QED
    BY <1>1, <1>9, <2>1, TasksTell, TaskTold, OthersAnnounce DEF BoardTaskStep
<1>10. CASE MeetingStep(r)
  <2>1. CASE create_meeting(r)
    BY <1>1, <2>1, MeetingsTell, MeetingTold, OthersAnnounce
  <2> QED
    BY <1>10, <2>1, MeetingsWrite, AttendanceWrite, SilentAnnounce DEF MeetingStep
<1>11. CASE DocumentStep(r) \/ InvoiceStep(r) \/ ReportStep(r) \/ StatementStep(r)
  BY <1>11, DocumentsWrite, InvoicesWrite, ReportsWrite, StatementsWrite, SilentAnnounce
<1>12. CASE CatalogueStep(r) \/ DirectoryStep(r) \/ ProfileStep(r) \/ OnboardingStep(r) \/ InboxStep(r)
  BY <1>12, CataloguesWrite, LoginsWrite, DirectoryWrite, DetailsWrite, RecordsWrite, OnboardingWrite,
     SettingsWrite, InboxWrite, SilentAnnounce DEF ProfileStep, OnboardingStep
<1> QED
  BY <1>2, <1>3, <1>4, <1>5, <1>6, <1>7, <1>8, <1>9, <1>10, <1>11, <1>12 DEF Step, PollStep, EventStep

\* The opening tables are settled.
LEMMA InitAnnounced == Init => AnnouncedInv
<1> SUFFICES ASSUME Init PROVE AnnouncedInv
  OBVIOUS
<1>1. Sessions /\ body \in Workloads /\ db = OpeningTables /\ \A q \in Requests : stage[q] = "waiting"
  BY InitSessions DEF Init
<1>2. \A kind \in DOMAIN Announced : ThingsOK(Announced[kind])
  BY <1>1, OpeningAnnounced DEF ThingsOK, Requests
<1>3. Settled(db)
  BY <1>1, OpeningAnnounced DEF Settled
<1>4. ToldOnce
  BY <1>1, OpeningAnnounced DEF ToldOnce
<1> QED
  BY <1>1, <1>2, <1>3, <1>4, OpeningAnnounced DEF AnnouncedInv

\* Every step preserves it, and a stutter.
LEMMA NextAnnounced == AnnouncedInv /\ [Next]_vars => AnnouncedInv'
  BY IdleAnnounced, StepAnnounced, StepCases DEF AnnouncedInv

\* What is announced is there, and every second notice of it is of a request that missed
\* the first or follows an edit that took the thing back, in every reachable state.
THEOREM AnnouncedInvariant == Spec => []AnnouncedInv
  BY InitAnnounced, NextAnnounced, PTL DEF Spec

\* A poll or an event is announced once, unless an edit took it back or two edits overlapped
\* (create_poll, update_poll, create_event, update_event).
THEOREM PollsAndEventsAnnouncedOnce == Spec => []AnnouncedOnce
<1>1. AnnouncedInv => AnnouncedOnce
  BY DEF AnnouncedInv, ToldOnce, AnnouncedOnce, Announced, TakenBack
<1> QED
  BY AnnouncedInvariant, <1>1, PTL
-----------------------------------------------------------------------------
(* What is listed may be opened: list filters against authorization. All but the   *)
(* records of a profile agree whatever the tables are; those rest on a login       *)
(* being a person's or an employee's and never both.                           *)

ProfilesInv ==
    /\ Sessions
    /\ body \in Workloads
    /\ {"logins", "profileRecords"} \subseteq DOMAIN db
    /\ LoginsOK(db)
    /\ \A q \in Requests : stage[q] = "open" => LoginsOK(seen[q])
    /\ \A k \in DOMAIN db.profileRecords :
          {"table", "owner"} \subseteq DOMAIN db.profileRecords[k] /\ db.profileRecords[k].table \in RecordTables

\* A profile shows the records its reader owns: its own row is one of its housemates.
LEMMA OwnRecordsListed ==
    ASSUME ProfilesInv, NEW l \in DOMAIN db.logins, NEW k \in DOMAIN db.profileRecords,
           owned(db, k, db.profileRecords[k].table, db.logins[l])
    PROVE  k \in profile_data(db, db.logins[l])
<1> DEFINE login == db.logins[l]
           table == db.profileRecords[k].table
           owner == db.profileRecords[k].owner
<1>1. /\ table \in RecordTables /\ None \in {login.person, login.employee}
      /\ owner = owner_in(table, login) /\ owner # None
  BY DEF ProfilesInv, LoginsOK, owned
<1>2. CASE table \in EMPLOYEE_TABLES
  <2>1. login.employee # None /\ owner = login.employee
    BY <1>1, <1>2 DEF owner_in
  <2> QED
    BY <1>2, <2>1 DEF profile_data
<1>3. CASE table \notin EMPLOYEE_TABLES
  <2>1. login.employee = None /\ owner = login.person
    BY <1>1, <1>3 DEF owner_in
  <2>2. CASE table = "family_members"
    BY <2>1, <2>2 DEF profile_data
  <2>3. CASE table \in MEMBER_TABLES
    <3> DEFINE person == IF IsLive(db.people, login.person) THEN {login.person} ELSE {}
               housemates == {p \in Live(db.people) : \E q \in person : /\ db.people[q].unit # None
                                                                       /\ db.people[p].unit = db.people[q].unit}
    <3>1. owner \in IF housemates = {} THEN {login.person} ELSE housemates
      BY <2>1 DEF Live, IsLive
    <3> QED
      BY <2>1, <2>3, <3>1 DEF profile_data
  <2> QED
    BY <1>1, <1>3, <2>2, <2>3 DEF RecordTables
<1> QED
  BY <1>2, <1>3

\* The lists of the community's things show what may be opened.
LEMMA ThingsListed ==
    ASSUME NEW a \in Accounts
    PROVE  /\ \A p \in poll_list(db, a) : _authorized_poll(db, p, a)
           /\ \A e \in event_list(db, a) : RoleOf[a] = "board_member" \/ _authorized_event(db, e, a)
           /\ \A x \in announcement_list(db, a) : _authorized_announcement(db, x, a)
           /\ \A i \in item_list(db, a) : _authorized_item(db, i, a)
           /\ \A k \in service_list(db, a) : _authorized_request(db, k, a)
           /\ \A t \in board_task_list(db, a) : _authorized_task(db, t, a)
<1>1. \A p \in poll_list(db, a) : _authorized_poll(db, p, a)
  BY DEF poll_list, _authorized_poll, poll_get, Live
<1>2. \A e \in event_list(db, a) : RoleOf[a] = "board_member" \/ _authorized_event(db, e, a)
  BY DEF event_list, _authorized_event, event_get, Live, MayView
<1>3. \A x \in announcement_list(db, a) : _authorized_announcement(db, x, a)
  BY DEF announcement_list, _authorized_announcement, announcement_model, Live
<1>4. \A i \in item_list(db, a) : _authorized_item(db, i, a)
  BY DEF item_list, _authorized_item, item_get, Live
<1>5. \A k \in service_list(db, a) : _authorized_request(db, k, a)
  BY DEF service_list, _authorized_request, Live, _resident_can_access
<1>6. \A t \in board_task_list(db, a) : _authorized_task(db, t, a)
  BY DEF board_task_list, _authorized_task, Live
<1> QED
  BY <1>1, <1>2, <1>3, <1>4, <1>5, <1>6

\* A document that a reader may change is in the reader's list.
LEMMA DocumentsListed ==
    ASSUME NEW a \in Accounts
    PROVE  /\ \A d \in Live(db.documents) \ document_list(db, a) :
                manages_document(db, d, a) => ~association_exists(db, db.documents[d].association)
           /\ \A d \in Live(db.unitDocuments) \ unit_document_list(db, a) :
                writes_unit_document(db, d, a) => ~association_exists(db, db.unitDocuments[d].association)
<1>1. ASSUME NEW d \in Live(db.documents), manages_document(db, d, a),
             association_exists(db, db.documents[d].association)
      PROVE  d \in document_list(db, a)
  BY <1>1 DEF manages_document, document_list, DOCUMENT_MANAGER_ROLES, DOCUMENT_VIEW_ROLES
<1>2. ASSUME NEW d \in Live(db.unitDocuments), writes_unit_document(db, d, a),
             association_exists(db, db.unitDocuments[d].association)
      PROVE  d \in unit_document_list(db, a)
  BY <1>2 DEF writes_unit_document, unit_document_list
<1> QED
  BY <1>1, <1>2

\* The board sees what a tenant of its association filed.
LEMMA TenantsDocumentsListed ==
    ASSUME NEW a \in Accounts, NEW b \in Accounts, RoleOf[a] = "tenant",
           RoleOf[b] = "board_member", HomeOf[b] = HomeOf[a],
           NEW d \in unit_document_list(db, a), db.unitDocuments[d].by = a
    PROVE  d \in board_visible_list(db, b)
<1>1. /\ d \in Live(db.unitDocuments) /\ association_exists(db, db.unitDocuments[d].association)
      /\ db.unitDocuments[d].association \in scoped_associations(db, a)
  BY DEF unit_document_list
<1>2. scoped_associations(db, a) = {HomeOf[a]}
  BY DEF scoped_associations
<1>3. HomeOf[b] \in scoped_associations(db, b)
  BY SeatsAtHome DEF scoped_associations
<1> QED
  BY <1>1, <1>2, <1>3 DEF board_visible_list

\* The invariant gives the property.
LEMMA ProfilesListed == ProfilesInv => ListedMayOpen
  BY OwnRecordsListed, ThingsListed, DocumentsListed, TenantsDocumentsListed, Zenon DEF ListedMayOpen

\* A commit preserves the invariant if the logins and records it leaves are so.
LEMMA CommitProfiles ==
    ASSUME ProfilesInv, NEW r \in Requests, Commits(r), DOMAIN db' = DOMAIN db, LoginsOK(db'),
           \A k \in DOMAIN db'.profileRecords :
              {"table", "owner"} \subseteq DOMAIN db'.profileRecords[k] /\ db'.profileRecords[k].table \in RecordTables
    PROVE  ProfilesInv'
<1>1. Sessions' /\ body' = body /\ Requests' = Requests
  BY StepSessions, Zenon DEF ProfilesInv, Commits, Requests
<1>2. ASSUME NEW q \in Requests, stage'[q] = "open"
      PROVE  LoginsOK(seen'[q])
  <2>1. stage[q] = "open" /\ seen'[q] = seen[q]
    BY <1>2 DEF Commits, Committed
  <2> QED
    BY <2>1 DEF ProfilesInv
<1>3. RecordTables' = RecordTables /\ LoginsOK(db)' /\ \A q : LoginsOK(seen[q])' <=> LoginsOK(seen'[q])
  BY DEF RecordTables, EMPLOYEE_TABLES, MEMBER_TABLES, LoginsOK
<1> QED
  BY <1>1, <1>2, <1>3 DEF ProfilesInv

\* A step that writes no table preserves it.
LEMMA IdleProfiles ==
    ASSUME ProfilesInv, Idle
    PROVE  ProfilesInv'
<1>1. Sessions' /\ body' = body /\ Requests' = Requests /\ db' = db
  BY StepSessions DEF ProfilesInv, Idle, Requests
<1>2. ASSUME NEW q \in Requests, stage'[q] = "open"
      PROVE  LoginsOK(seen'[q])
  <2>1. seen'[q] = IF stage[q] = "open" THEN seen[q] ELSE db
    BY <1>2 DEF Idle
  <2> QED
    BY <2>1 DEF ProfilesInv
<1>3. RecordTables' = RecordTables /\ LoginsOK(db)' /\ \A q : LoginsOK(seen[q])' <=> LoginsOK(seen'[q])
  BY <1>1 DEF RecordTables, EMPLOYEE_TABLES, MEMBER_TABLES, LoginsOK, ProfilesInv
<1> QED
  BY <1>1, <1>2, <1>3 DEF ProfilesInv

\* A handler that leaves the logins and the records preserves it.
LEMMA OthersProfiles ==
    ASSUME ProfilesInv, NEW r \in Requests, Commits(r), NEW written, Handles(r, written),
           "logins" \notin written, "profileRecords" \notin written
    PROVE  ProfilesInv'
<1>1. DOMAIN db' = DOMAIN db /\ db'.logins = db.logins /\ db'.profileRecords = db.profileRecords
  BY HandlesFrame DEF ProfilesInv, Leaves
<1>2. LoginsOK(db')
  BY <1>1 DEF ProfilesInv, LoginsOK
<1> QED
  BY <1>1, <1>2, CommitProfiles DEF ProfilesInv

\* A login is a person's or an employee's.
OneOwner(login) == {"person", "employee"} \subseteq DOMAIN login /\ None \in {login.person, login.employee}

\* New logins of people or employees keep them so.
LEMMA NewLogins ==
    ASSUME NEW logins, \A l \in DOMAIN logins : OneOwner(logins[l]),
           NEW rows, \A l \in DOMAIN rows : OneOwner(rows[l])
    PROVE  \A l \in DOMAIN With(logins, rows) : OneOwner(With(logins, rows)[l])
  BY DEF With

\* An edit of a login's other columns too.
LEMMA ChangedLogin ==
    ASSUME NEW row, OneOwner(row), NEW loaded, NEW wanted,
           wanted.person = loaded.person, wanted.employee = loaded.employee
    PROVE  OneOwner(Changed(row, loaded, wanted))
  BY DEF OneOwner, Changed

\* The handlers of logins keep them so.
LEMMA LoginsKept ==
    ASSUME ProfilesInv, NEW r \in Requests, Commits(r), update_user(r) \/ create_employee(r) \/ update_employee(r) \/ onboard(r)
    PROVE  LoginsOK(db')
<1>1. /\ Sessions /\ "logins" \in DOMAIN db /\ stage[r] = "open"
      /\ \A l \in DOMAIN db.logins : OneOwner(db.logins[l])
      /\ \A l \in DOMAIN seen[r].logins : {"person", "employee"} \subseteq DOMAIN seen[r].logins[l]
  BY DEF ProfilesInv, LoginsOK, OneOwner, Commits
<1>2. SUFFICES \A l \in DOMAIN db'.logins : OneOwner(db'.logins[l])
  BY DEF LoginsOK, OneOwner
<1>3. CASE update_user(r)
  <2> DEFINE b == body[r]
             logins == login_of(seen[r], b.person)
             wanted(l) == [seen[r].logins[l] EXCEPT !.role = Given(b.role, @), !.email = Given(b.email, @)]
             saved == [l \in DOMAIN db.logins |->
                         IF l \notin logins THEN db.logins[l]
                         ELSE Changed(db.logins[l], seen[r].logins[l], wanted(l))]
  <2>1. db'.logins = saved
    BY <1>1, <1>3, Decided, ZenonT(60) DEF update_user, Decide, Commit
  <2>2. ASSUME NEW l \in logins
        PROVE  wanted(l).person = seen[r].logins[l].person /\ wanted(l).employee = seen[r].logins[l].employee
    BY <1>1 DEF login_of
  <2> HIDE DEF logins, wanted
  <2>3. ASSUME NEW l \in DOMAIN db.logins
        PROVE  OneOwner(saved[l])
    <3>1. CASE l \in logins
      BY <1>1, <2>2, <3>1, ChangedLogin
    <3>2. CASE l \notin logins
      BY <1>1, <3>2
    <3> QED
      BY <3>1, <3>2
  <2> QED
    BY <2>1, <2>3
<1>4. CASE create_employee(r)
  <2> DEFINE b == body[r]
             login == [person |-> None, employee |-> r, email |-> b.email, role |-> b.role,
                       manages |-> b.associations, active |-> TRUE]
             rows == [k \in {<<r, "login", 1>>} |-> login]
  <2>1. db'.logins = With(db.logins, rows)
    BY <1>1, <1>4, Decided, ZenonT(60) DEF create_employee, Decide, Commit
  <2>2. \A l \in DOMAIN rows : OneOwner(rows[l])
    BY DEF OneOwner
  <2> HIDE DEF rows
  <2> QED
    BY <1>1, <2>1, <2>2, NewLogins
<1>5. CASE update_employee(r)
  <2> DEFINE b == body[r]
             login == seen[r].logins[b.login]
             wanted == [login EXCEPT !.role = b.role]
             saved == Save(db.logins, seen[r].logins, b.login, wanted)
  <2>1. db'.logins = [saved EXCEPT ![b.login].manages = b.associations] /\ b.login \in DOMAIN seen[r].logins
    BY <1>1, <1>5, Decided, ZenonT(60) DEF update_employee, Decide, Commit
  <2>2. wanted.person = login.person /\ wanted.employee = login.employee
    BY <1>1, <2>1, Zenon
  <2> HIDE DEF wanted, login
  <2>3. DOMAIN saved = DOMAIN db.logins /\ \A l \in DOMAIN db.logins : OneOwner(saved[l])
    BY <1>1, <2>2, ChangedLogin DEF Save, login
  <2> HIDE DEF saved
  <2> QED
    BY <2>1, <2>3 DEF OneOwner
<1>6. CASE onboard(r)
  <2> DEFINE b == body[r]
             members == {board_member(b, i) : i \in board_rows(seen[r], b)}
             login(j) == [person |-> <<r, "owner", j>>, employee |-> None, email |-> b.owners[j].email,
                          role |-> CHOOSE k \in role_with(seen[r], "board_member") : TRUE, manages |-> {}, active |-> FALSE]
             rows == [k \in {<<r, "login", j>> : j \in members} |-> login(k[3])]
  <2>1. db'.logins = With(db.logins, rows)
    BY <1>1, <1>6, Decided, ZenonT(60) DEF onboard, Decide, Commit
  <2>2. \A l \in DOMAIN rows : OneOwner(rows[l])
    BY DEF OneOwner
  <2> HIDE DEF rows
  <2> QED
    BY <1>1, <2>1, <2>2, NewLogins
<1> QED
  BY <1>3, <1>4, <1>5, <1>6

\* The handlers of records keep them in their tables.
LEMMA RecordsKept ==
    ASSUME ProfilesInv, NEW r \in Requests, Commits(r), insert_record(r) \/ update_record(r) \/ delete_record(r)
    PROVE  \A k \in DOMAIN db'.profileRecords :
              {"table", "owner"} \subseteq DOMAIN db'.profileRecords[k] /\ db'.profileRecords[k].table \in RecordTables
<1>1. /\ Sessions /\ "profileRecords" \in DOMAIN db
      /\ \A k \in DOMAIN db.profileRecords :
            {"table", "owner"} \subseteq DOMAIN db.profileRecords[k] /\ db.profileRecords[k].table \in RecordTables
  BY DEF ProfilesInv
<1>2. CASE insert_record(r)
  <2>1. PICK owner : db'.profileRecords = With(db.profileRecords, [k \in {r} |-> [table |-> body[r].table, owner |-> owner, text |-> body[r].text]])
    BY <1>1, <1>2, Decided, ZenonT(60) DEF insert_record, Decide, Commit
  <2>2. body[r].table \in RecordTables
    BY <1>2, Payloads DEF insert_record, Asks, ProfilesInv, Requests
  <2> QED
    BY <1>1, <2>1, <2>2 DEF With
<1>3. CASE update_record(r)
  <2>1. \/ db'.profileRecords = db.profileRecords
        \/ /\ body[r].record \in DOMAIN db.profileRecords
           /\ db'.profileRecords = [db.profileRecords EXCEPT ![body[r].record].text = body[r].text]
    BY <1>1, <1>3, Decided, SMT DEF update_record, ChangeRecord, Decide, Commit
  <2> QED
    BY <1>1, <2>1
<1>4. CASE delete_record(r)
  <2>1. \/ db'.profileRecords = db.profileRecords
        \/ db'.profileRecords = [k \in DOMAIN db.profileRecords \ {body[r].record} |-> db.profileRecords[k]]
    BY <1>1, <1>4, Decided, SMT DEF delete_record, ChangeRecord, Decide, Commit
  <2> QED
    BY <1>1, <2>1
<1> QED
  BY <1>2, <1>3, <1>4

\* Every commit preserves the invariant.
LEMMA StepProfiles ==
    ASSUME ProfilesInv, NEW r \in Requests, Commits(r), Step(r)
    PROVE  ProfilesInv'
<1>1. CASE update_user(r) \/ create_employee(r) \/ update_employee(r) \/ onboard(r)
  <2>1. \E written : Handles(r, written) /\ "profileRecords" \notin written
    BY <1>1, LoginsWrite, OnboardingWrite
  <2>2. DOMAIN db' = DOMAIN db /\ db'.profileRecords = db.profileRecords
    BY <2>1, HandlesFrame DEF ProfilesInv, Leaves
  <2> QED
    BY <1>1, <2>2, LoginsKept, CommitProfiles DEF ProfilesInv
<1>2. CASE insert_record(r) \/ update_record(r) \/ delete_record(r)
  <2>1. DOMAIN db' = DOMAIN db /\ db'.logins = db.logins
    BY <1>2, RecordsWrite, HandlesFrame DEF ProfilesInv, Leaves
  <2>2. LoginsOK(db')
    BY <2>1 DEF ProfilesInv, LoginsOK
  <2> QED
    BY <1>2, <2>1, <2>2, RecordsKept, CommitProfiles
<1>3. CASE ~\/ update_user(r) \/ create_employee(r) \/ update_employee(r) \/ onboard(r)
            \/ insert_record(r) \/ update_record(r) \/ delete_record(r)
  <2>1. \E written : Handles(r, written) /\ "logins" \notin written /\ "profileRecords" \notin written
    <3>1. CASE PollStep(r) \/ EventStep(r) \/ AnnouncementStep(r) \/ MarketStep(r)
      BY <3>1, PollsTell, PollsDelete, PollsWrite, EventsTell, EventsDelete, EventsWrite, AnswersWrite, AnnouncementsTell,
         AnnouncementsWrite, LikesWrite, ItemsTell, ItemsWrite, FavoritesWrite, ViewsWrite
         DEF PollStep, EventStep, AnnouncementStep, MarketStep
    <3>2. CASE ServiceStep(r) \/ BoardTaskStep(r) \/ MeetingStep(r)
      BY <3>2, RequestsTell, RequestsWrite, TasksTell, TasksWrite, MeetingsTell, MeetingsWrite, AttendanceWrite
         DEF ServiceStep, BoardTaskStep, MeetingStep
    <3>3. CASE DocumentStep(r) \/ InvoiceStep(r) \/ ReportStep(r) \/ StatementStep(r) \/ CatalogueStep(r) \/ InboxStep(r)
      BY <3>3, DocumentsWrite, InvoicesWrite, ReportsWrite, StatementsWrite, CataloguesWrite, InboxWrite
    <3>4. CASE DirectoryStep(r) \/ ProfileStep(r) \/ OnboardingStep(r)
      BY <1>3, <3>4, DirectoryWrite, DetailsWrite, SettingsWrite DEF ProfileStep, OnboardingStep
    <3> QED
      BY <3>1, <3>2, <3>3, <3>4 DEF Step
  <2> QED
    BY <2>1, OthersProfiles
<1> QED
  BY <1>1, <1>2, <1>3

\* The opening logins and records are so.
LEMMA InitProfiles == Init => ProfilesInv
  BY InitSessions, OpeningRecords DEF Init, ProfilesInv, Requests

\* Every step preserves it, and a stutter.
LEMMA NextProfiles == ProfilesInv /\ [Next]_vars => ProfilesInv'
  BY IdleProfiles, StepProfiles, StepCases DEF ProfilesInv

\* A login is a person's or an employee's and a record is in a table of its kind, in every
\* reachable state.
THEOREM ProfilesInvariant == Spec => []ProfilesInv
  BY InitProfiles, NextProfiles, PTL DEF Spec

\* What a list shows its reader may open: the list queries of every module agree with
\* its authorization.
THEOREM ListsMayBeOpened == Spec => []ListedMayOpen
  BY ProfilesInvariant, ProfilesListed, PTL
-----------------------------------------------------------------------------
(* Seats: an answer counts the places in its snapshot, which shows every answer  *)
(* to the event but those of requests that overlapped.                          *)

AnswersTo(e) == On(<<"event", e>>, {"rsvp", "clear_rsvp"})
EventEdits(e) == On(<<"event", e>>, {"update_event"})

Seated(e) ==
    \/ db.events[e].capacity = NoLimit
    \/ going_count(db, e) <= db.events[e].capacity
    \/ Raced(AnswersTo(e))
    \/ EventEdits(e) # {}

\* The columns of events and answers. An answer is to an event there is, and no event is
\* of a request that did not end.
EventsOK ==
    /\ \A e \in DOMAIN db.events :
          /\ "capacity" \in DOMAIN db.events[e]
          /\ EventEdits(e) = {} => db.events[e].capacity \in Nat \cup {NoLimit}
    /\ \A q \in Requests : stage[q] \in {"waiting", "open"} => q \notin DOMAIN db.events

AnswersOK ==
    /\ IsFiniteSet(DOMAIN db.rsvps)
    /\ \A k \in DOMAIN db.rsvps : /\ DOMAIN db.rsvps[k] = AnswerColumns
                                  /\ db.rsvps[k].event \in DOMAIN db.events

\* The snapshot of q shows the capacity of an event that was not edited, and all answers to
\* it where q missed none.
ShowsSeats(q) ==
    /\ DOMAIN seen[q].events \subseteq DOMAIN db.events
    /\ \A e \in DOMAIN seen[q].events :
          EventEdits(e) = {} => seen[q].events[e].capacity = db.events[e].capacity
    /\ \A e \in DOMAIN db.events : missed[q] \cap AnswersTo(e) = {} =>
          \A k \in DOMAIN db.rsvps : db.rsvps[k].event = e =>
              k \in DOMAIN seen[q].rsvps /\ seen[q].rsvps[k] = db.rsvps[k]

SeatsInv ==
    /\ Sessions /\ body \in Workloads /\ {"events", "rsvps"} \subseteq DOMAIN db
    /\ EventsOK /\ AnswersOK
    /\ \A e \in DOMAIN db.events : Seated(e)
    /\ \A q \in Requests : stage[q] = "open" => ShowsSeats(q)

\* What r does to the events: it adds one with a capacity, or edits those it names.
EventsKept(r) ==
    /\ "events" \in DOMAIN db'
    /\ DOMAIN db.events \subseteq DOMAIN db'.events /\ DOMAIN db'.events \subseteq DOMAIN db.events \cup {r}
    /\ \A e \in DOMAIN db.events :
          /\ "capacity" \in DOMAIN db'.events[e]
          /\ EventEdits(e)' = {} => db'.events[e].capacity = db.events[e].capacity
    /\ r \in DOMAIN db'.events => /\ "capacity" \in DOMAIN db'.events[r]
                                  /\ db'.events[r].capacity \in Nat \cup {NoLimit}

\* What r does to the answers: the rows it writes are of the event it answers.
RsvpsKept(r) ==
    /\ "rsvps" \in DOMAIN db'
    /\ DOMAIN db.rsvps \subseteq DOMAIN db'.rsvps /\ DOMAIN db'.rsvps \subseteq DOMAIN db.rsvps \cup {r}
    /\ \A k \in DOMAIN db'.rsvps :
          /\ DOMAIN db'.rsvps[k] = AnswerColumns /\ db'.rsvps[k].event \in DOMAIN db.events
          /\ k \in DOMAIN db.rsvps => db'.rsvps[k].event = db.rsvps[k].event
          /\ \A e : db'.rsvps[k].event = e /\ r \notin AnswersTo(e)' =>
                k \in DOMAIN db.rsvps /\ db'.rsvps[k] = db.rsvps[k]

\* An answer that missed no other leaves room.
HeldBy(r) ==
    \A e \in DOMAIN db.events :
        /\ EventEdits(e) = {} /\ missed[r] \cap AnswersTo(e) = {}
        /\ db.events[e].capacity # NoLimit /\ going_count(db, e) <= db.events[e].capacity
        => going_count(db', e) <= db.events[e].capacity

\* Committed requests stay so, and of one commit only r is new among them.
LEMMA OnGrows ==
    ASSUME Sessions, NEW r \in Requests, Commits(r), NEW about, NEW ops
    PROVE  /\ On(about, ops) \subseteq On(about, ops)'
           /\ On(about, ops)' \subseteq On(about, ops) \cup {r}
           /\ r \notin On(about, ops)
           /\ Requests' = Requests
           /\ \A q \in Requests : missed[q] \subseteq missed'[q]
           /\ Raced(On(about, ops)) => Raced(On(about, ops))'
<1>1. Requests' = Requests /\ body' = body
  BY DEF Commits, Requests
<1>2. \A q \in Requests : missed[q] \subseteq missed'[q]
  BY DEF Commits, Sessions
<1>3. \A q \in Requests \ {r} : Committed(q)' <=> Committed(q)
  BY DEF Commits, Committed
<1>4. ~Committed(r) /\ Committed(r)'
  BY DEF Commits, Committed
<1>5. On(about, ops) \subseteq On(about, ops)' /\ On(about, ops)' \subseteq On(about, ops) \cup {r} /\ r \notin On(about, ops)
  BY <1>1, <1>3, <1>4 DEF On
<1>6. On(about, ops) \subseteq Requests
  BY DEF On
<1>7. Raced(On(about, ops)) => Raced(On(about, ops))'
  BY <1>1, <1>2, <1>5, <1>6 DEF Raced, Overlapped
<1> QED
  BY <1>1, <1>2, <1>5, <1>7

\* The commit of an answer to an event keeps its seats.
LEMMA SeatKept ==
    ASSUME SeatsInv, NEW r \in Requests, Commits(r), EventsKept(r), RsvpsKept(r), HeldBy(r),
           NEW e \in DOMAIN db.events
    PROVE  Seated(e)'
<1>1. /\ AnswersTo(e) \subseteq AnswersTo(e)' /\ AnswersTo(e)' \subseteq AnswersTo(e) \cup {r}
      /\ r \notin AnswersTo(e)
      /\ \A q \in Requests : missed[q] \subseteq missed'[q]
      /\ Raced(AnswersTo(e)) => Raced(AnswersTo(e))'
      /\ EventEdits(e) \subseteq EventEdits(e)'
  BY OnGrows DEF SeatsInv, AnswersTo, EventEdits
<1>2. CASE EventEdits(e)' # {} \/ Raced(AnswersTo(e))
  BY <1>1, <1>2 DEF Seated
<1>3. CASE EventEdits(e)' = {} /\ ~Raced(AnswersTo(e))
  <2>1. EventEdits(e) = {} /\ db'.events[e].capacity = db.events[e].capacity
    BY <1>1, <1>3 DEF EventsKept
  <2>2. CASE db.events[e].capacity = NoLimit
    BY <2>1, <2>2 DEF Seated
  <2>3. CASE db.events[e].capacity # NoLimit
    <3>1. going_count(db, e) <= db.events[e].capacity
      BY <1>3, <2>1, <2>3 DEF SeatsInv, Seated
    <3>2. CASE missed[r] \cap AnswersTo(e) = {}
      <4>1. going_count(db', e) <= db.events[e].capacity
        BY <2>1, <2>3, <3>1, <3>2 DEF HeldBy
      <4> QED
        BY <2>1, <4>1 DEF Seated
    <3>3. CASE missed[r] \cap AnswersTo(e) # {}
      <4>1. PICK p \in missed[r] : p \in AnswersTo(e)
        BY <3>3
      <4>2. CASE r \in AnswersTo(e)'
        <5>1. p \in AnswersTo(e)' /\ p # r /\ p \in missed'[r]
          BY <1>1, <4>1
        <5>2. Raced(AnswersTo(e))'
          BY <4>2, <5>1 DEF Raced, Overlapped
        <5> QED
          BY <5>2 DEF Seated
      <4>3. CASE r \notin AnswersTo(e)'
        <5>1. \A k : k \in DOMAIN db.rsvps /\ db.rsvps[k].event = e <=> k \in DOMAIN db'.rsvps /\ db'.rsvps[k].event = e
          BY <4>3 DEF RsvpsKept
        <5>2. \A k \in DOMAIN db.rsvps : db.rsvps[k].event = e => db'.rsvps[k] = db.rsvps[k]
          BY <4>3, <5>1 DEF RsvpsKept
        <5>3. going(db', e) = going(db, e)
          BY <5>1, <5>2 DEF going, Live, IsLive
        <5>4. going_count(db', e) = going_count(db, e)
          BY <5>3 DEF going_count
        <5> QED
          BY <2>1, <3>1, <5>4 DEF Seated
      <4> QED
        BY <4>2, <4>3
    <3> QED
      BY <3>2, <3>3
  <2> QED
    BY <2>2, <2>3
<1> QED
  BY <1>2, <1>3

\* A new event has no answer yet.
LEMMA NewSeats ==
    ASSUME SeatsInv, NEW r \in Requests, Commits(r), EventsKept(r), RsvpsKept(r), r \in DOMAIN db'.events
    PROVE  Seated(r)'
<1>1. r \notin DOMAIN db.events
  BY DEF SeatsInv, EventsOK, Commits
<1>2. going(db', r) = {}
  BY <1>1 DEF going, Live, IsLive, RsvpsKept
<1>3. going_count(db', r) = Cardinality({})
  BY <1>2 DEF going_count
<1>4. db'.events[r].capacity \in Nat \cup {NoLimit}
  BY DEF EventsKept
<1> QED
  BY <1>3, <1>4, FS_EmptySet DEF Seated

\* An open snapshot still shows what it should.
LEMMA ShowsSeatsKept ==
    ASSUME SeatsInv, NEW r \in Requests, Commits(r), EventsKept(r), RsvpsKept(r),
           NEW q \in Requests, stage'[q] = "open"
    PROVE  ShowsSeats(q)'
<1>1. q # r /\ stage[q] = "open" /\ seen'[q] = seen[q] /\ r \notin DOMAIN db.events
  BY DEF Commits, Committed, SeatsInv, EventsOK
<1>2. ShowsSeats(q) /\ missed'[q] = missed[q] \cup {r}
  BY <1>1 DEF SeatsInv, Commits
<1>3. \A e : /\ AnswersTo(e) \subseteq AnswersTo(e)' /\ EventEdits(e) \subseteq EventEdits(e)'
  BY OnGrows DEF SeatsInv, AnswersTo, EventEdits
<1>4. DOMAIN seen'[q].events \subseteq DOMAIN db'.events
  BY <1>1, <1>2 DEF ShowsSeats, EventsKept
<1>5. ASSUME NEW e \in DOMAIN seen'[q].events, EventEdits(e)' = {}
      PROVE  seen'[q].events[e].capacity = db'.events[e].capacity
  <2>1. e \in DOMAIN db.events /\ EventEdits(e) = {}
    BY <1>1, <1>2, <1>3, <1>5 DEF ShowsSeats
  <2>2. seen[q].events[e].capacity = db.events[e].capacity
    BY <1>1, <1>2, <1>5, <2>1 DEF ShowsSeats
  <2>3. db'.events[e].capacity = db.events[e].capacity
    BY <1>5, <2>1 DEF EventsKept
  <2> QED
    BY <1>1, <2>2, <2>3
<1>6. ASSUME NEW e \in DOMAIN db'.events, missed'[q] \cap AnswersTo(e)' = {},
             NEW k \in DOMAIN db'.rsvps, db'.rsvps[k].event = e
      PROVE  k \in DOMAIN seen'[q].rsvps /\ seen'[q].rsvps[k] = db'.rsvps[k]
  <2>1. r \notin AnswersTo(e)' /\ missed[q] \cap AnswersTo(e) = {}
    BY <1>2, <1>3, <1>6
  <2>2. e \in DOMAIN db.events /\ k \in DOMAIN db.rsvps /\ db'.rsvps[k] = db.rsvps[k]
    BY <1>6, <2>1 DEF RsvpsKept
  <2> QED
    BY <1>1, <1>2, <1>6, <2>1, <2>2 DEF ShowsSeats
<1> QED
  BY <1>4, <1>5, <1>6 DEF ShowsSeats

\* A commit that keeps events and answers preserves the invariant.
LEMMA CommitSeats ==
    ASSUME SeatsInv, NEW r \in Requests, Commits(r), EventsKept(r), RsvpsKept(r), HeldBy(r)
    PROVE  SeatsInv'
<1>1. Sessions' /\ body' = body /\ Requests' = Requests /\ {"events", "rsvps"} \subseteq DOMAIN db'
  BY StepSessions, Zenon DEF SeatsInv, Commits, Requests, EventsKept, RsvpsKept
<1>2. EventsOK'
  <2>1. \A q \in Requests : stage'[q] \in {"waiting", "open"} => q # r /\ stage'[q] = stage[q]
    BY DEF Commits, Committed
  <2>2. \A e : EventEdits(e) \subseteq EventEdits(e)'
    BY OnGrows DEF SeatsInv, EventEdits
  <2>3. ASSUME NEW e \in DOMAIN db'.events
        PROVE  /\ "capacity" \in DOMAIN db'.events[e]
               /\ EventEdits(e)' = {} => db'.events[e].capacity \in Nat \cup {NoLimit}
    BY <2>2 DEF SeatsInv, EventsOK, EventsKept
  <2>4. \A q \in Requests : stage'[q] \in {"waiting", "open"} => q \notin DOMAIN db'.events
    BY <2>1 DEF SeatsInv, EventsOK, EventsKept
  <2> QED
    BY <1>1, <2>3, <2>4 DEF EventsOK
<1>3. AnswersOK'
  <2>1. IsFiniteSet(DOMAIN db.rsvps \cup {r})
    BY FS_AddElement DEF SeatsInv, AnswersOK
  <2>2. IsFiniteSet(DOMAIN db'.rsvps)
    BY <2>1, FS_Subset DEF RsvpsKept
  <2> QED
    BY <2>2 DEF RsvpsKept, EventsKept, AnswersOK
<1>4. \A e \in DOMAIN db'.events : Seated(e)'
  BY SeatKept, NewSeats DEF EventsKept
<1>5. \A q \in Requests : stage'[q] = "open" => ShowsSeats(q)'
  BY ShowsSeatsKept
<1> QED
  BY <1>1, <1>2, <1>3, <1>4, <1>5 DEF SeatsInv

\* A step that writes no table preserves it.
LEMMA IdleSeats ==
    ASSUME SeatsInv, Idle
    PROVE  SeatsInv'
<1>1. Sessions' /\ Requests' = Requests /\ body' = body /\ db' = db /\ missed' = missed
  BY StepSessions DEF SeatsInv, Idle, Requests
<1>2. \A about, ops : On(about, ops)' = On(about, ops)
  BY <1>1 DEF Idle, On
<1>3. \A e : AnswersTo(e)' = AnswersTo(e) /\ EventEdits(e)' = EventEdits(e)
  BY <1>2 DEF AnswersTo, EventEdits
<1>4. EventsOK' /\ AnswersOK'
  BY <1>1, <1>3 DEF SeatsInv, EventsOK, AnswersOK, Idle
<1>5. \A e \in DOMAIN db'.events : Seated(e)'
  BY <1>1, <1>3 DEF SeatsInv, Seated, Raced, Overlapped
<1>6. ASSUME NEW q \in Requests, stage'[q] = "open"
      PROVE  ShowsSeats(q)'
  <2>1. CASE stage[q] = "open"
    <3>1. ShowsSeats(q) /\ seen'[q] = seen[q]
      BY <1>6, <2>1 DEF SeatsInv, Idle
    <3> QED
      BY <1>1, <1>3, <3>1 DEF ShowsSeats
  <2>2. CASE stage[q] # "open"
    BY <1>1, <1>6, <2>2 DEF Idle, ShowsSeats
  <2> QED
    BY <2>1, <2>2
<1> QED
  BY <1>1, <1>4, <1>5, <1>6 DEF SeatsInv

\* A handler that writes no event keeps them.
LEMMA EventsStay ==
    ASSUME SeatsInv, NEW r \in Requests, Commits(r), "events" \in DOMAIN db', db'.events = db.events
    PROVE  EventsKept(r)
<1>1. r \notin DOMAIN db.events
  BY DEF SeatsInv, EventsOK, Commits
<1> QED
  BY <1>1 DEF SeatsInv, EventsOK, EventsKept

\* A handler that writes no answer takes no seat.
LEMMA AnswersStay ==
    ASSUME SeatsInv, NEW r \in Requests, "rsvps" \in DOMAIN db', db'.rsvps = db.rsvps
    PROVE  RsvpsKept(r) /\ HeldBy(r)
<1>1. RsvpsKept(r)
  BY DEF SeatsInv, AnswersOK, RsvpsKept
<1>2. \A e : going_count(db', e) = going_count(db, e)
  BY DEF going_count, going, Live, IsLive
<1> QED
  BY <1>1, <1>2 DEF HeldBy

\* Posting an event adds one with a capacity.
LEMMA CreateEventSeats ==
    ASSUME SeatsInv, NEW r \in Requests, Commits(r), create_event(r)
    PROVE  EventsKept(r)
<1>1. "events" \in DOMAIN db /\ r \notin DOMAIN db.events /\ Sessions
  BY DEF SeatsInv, EventsOK, Commits
<1>2. "capacity" \in DOMAIN body[r].columns /\ body[r].columns.capacity \in Nat \cup {NoLimit}
  BY Payloads DEF SeatsInv, Requests, create_event, Asks
<1> DEFINE b == body[r]
           association == IF b.association = None /\ RoleOf[b.by] = "board_member"
                          THEN HomeOf[b.by] ELSE b.association
           row == With(event_columns(b.columns), [association |-> association, created |-> now, deleted |-> FALSE])
<1>3. db'.events = With(db.events, [k \in {r} |-> row])
  BY <1>1, Decided, ZenonT(30) DEF create_event, Decide, Commit
<1>4. "events" \in DOMAIN db'
  BY <1>1, EventsTell, HandlesFrame DEF Leaves
<1>5. "capacity" \in DOMAIN row /\ row.capacity \in Nat \cup {NoLimit}
  BY <1>2 DEF With, event_columns
<1> HIDE DEF row
<1>6. /\ DOMAIN db'.events = DOMAIN db.events \cup {r} /\ db'.events[r] = row
      /\ \A x \in DOMAIN db.events : db'.events[x] = db.events[x]
  BY <1>1, <1>3 DEF With
<1> QED
  BY <1>1, <1>4, <1>5, <1>6 DEF EventsKept, SeatsInv, EventsOK

\* Editing an event changes none but it.
LEMMA UpdateEventSeats ==
    ASSUME SeatsInv, NEW r \in Requests, Commits(r), update_event(r)
    PROVE  EventsKept(r)
<1>1. "events" \in DOMAIN db /\ r \notin DOMAIN db.events /\ Sessions
  BY DEF SeatsInv, EventsOK, Commits
<1>2. "event" \in DOMAIN body[r] /\ body[r].op = "update_event"
  BY Payloads DEF SeatsInv, Requests, update_event, Asks
<1> DEFINE x == body[r].event
           new == With(seen[r].events[x], event_columns(body[r].columns))
<1>3. db'.events = Save(db.events, seen[r].events, x, new)
  BY <1>1, Decided, ZenonT(30) DEF update_event, Decide, Commit
<1>4. "events" \in DOMAIN db'
  BY <1>1, EventsTell, HandlesFrame DEF Leaves
<1>5. \A e : e = x => EventEdits(e)' # {}
  BY <1>2 DEF EventEdits, On, Commits, Requests
<1> HIDE DEF new, x
<1>6. /\ DOMAIN db'.events = DOMAIN db.events
      /\ \A e \in DOMAIN db.events : /\ DOMAIN db'.events[e] = DOMAIN db.events[e]
                                     /\ e # x => db'.events[e] = db.events[e]
  BY <1>3 DEF Save, Changed
<1>7. ASSUME NEW e \in DOMAIN db.events
      PROVE  /\ "capacity" \in DOMAIN db'.events[e]
             /\ EventEdits(e)' = {} => db'.events[e].capacity = db.events[e].capacity
  <2>1. "capacity" \in DOMAIN db'.events[e]
    BY <1>6 DEF SeatsInv, EventsOK
  <2>2. CASE e = x
    BY <1>5, <2>1, <2>2
  <2>3. CASE e # x
    BY <1>6, <2>1, <2>3
  <2> QED
    BY <2>2, <2>3
<1> QED
  BY <1>1, <1>4, <1>6, <1>7 DEF EventsKept

\* Deleting an event leaves its capacity.
LEMMA DeleteEventSeats ==
    ASSUME SeatsInv, NEW r \in Requests, Commits(r), delete_event(r)
    PROVE  EventsKept(r)
<1>1. "events" \in DOMAIN db /\ r \notin DOMAIN db.events /\ Sessions
  BY DEF SeatsInv, EventsOK, Commits
<1>2. db'.events = Delete(db.events, seen[r].events, {body[r].event})
  BY <1>1, Decided, ZenonT(30) DEF delete_event, Decide, Commit
<1>3. "events" \in DOMAIN db'
  BY <1>1, EventsDelete, HandlesFrame DEF Leaves
<1>4. /\ DOMAIN db'.events = DOMAIN db.events
      /\ \A e \in DOMAIN db.events : \/ db'.events[e] = db.events[e]
                                     \/ db'.events[e] = [db.events[e] EXCEPT !.deleted = TRUE]
  BY <1>2, Zenon DEF Delete, Mark
<1>5. \A e \in DOMAIN db.events : DOMAIN db'.events[e] = DOMAIN db.events[e] /\ db'.events[e].capacity = db.events[e].capacity
  BY <1>4, Zenon DEF SeatsInv, EventsOK
<1> QED
  BY <1>1, <1>3, <1>4, <1>5 DEF EventsKept, SeatsInv, EventsOK

\* r answers the event its path names with the row k, and writes no other row.
OneAnswer(r, k) ==
    /\ "rsvps" \in DOMAIN db' /\ body[r].event \in DOMAIN db.events
    /\ DOMAIN db'.rsvps = DOMAIN db.rsvps \cup {k} /\ k \in DOMAIN db.rsvps \cup {r}
    /\ \A j \in DOMAIN db.rsvps \ {k} : db'.rsvps[j] = db.rsvps[j]
    /\ DOMAIN db'.rsvps[k] = AnswerColumns /\ db'.rsvps[k].event = body[r].event
    /\ k \in DOMAIN db.rsvps => db.rsvps[k].event = body[r].event

\* If it takes a seat then there is one, where it missed no answer.
SeatFree(r, k) ==
    LET e == body[r].event
    IN  /\ EventEdits(e) = {} /\ missed[r] \cap AnswersTo(e) = {} /\ db.events[e].capacity # NoLimit
        => \/ k \notin going(db', e) \/ k \in going(db, e)
           \/ going_count(db, e) < db.events[e].capacity

LEMMA OneAnswerKept ==
    ASSUME SeatsInv, NEW r \in Requests, Commits(r), NEW k, OneAnswer(r, k), SeatFree(r, k),
           "event" \in DOMAIN body[r], body[r].op \in {"rsvp", "clear_rsvp"}
    PROVE  RsvpsKept(r) /\ HeldBy(r)
<1>1. \A e : e = body[r].event => r \in AnswersTo(e)'
  BY DEF AnswersTo, On, Commits, Requests
<1>2. RsvpsKept(r)
  <2>1. \A j \in DOMAIN db'.rsvps : j = k \/ (j \in DOMAIN db.rsvps /\ j # k)
    BY DEF OneAnswer
  <2>2. \A j \in DOMAIN db.rsvps : DOMAIN db.rsvps[j] = AnswerColumns /\ db.rsvps[j].event \in DOMAIN db.events
    BY DEF SeatsInv, AnswersOK
  <2>3. ASSUME NEW j \in DOMAIN db'.rsvps
        PROVE  /\ DOMAIN db'.rsvps[j] = AnswerColumns /\ db'.rsvps[j].event \in DOMAIN db.events
               /\ j \in DOMAIN db.rsvps => db'.rsvps[j].event = db.rsvps[j].event
               /\ \A e : db'.rsvps[j].event = e /\ r \notin AnswersTo(e)' =>
                     j \in DOMAIN db.rsvps /\ db'.rsvps[j] = db.rsvps[j]
    <3>1. CASE j = k
      BY <1>1, <3>1 DEF OneAnswer
    <3>2. CASE j \in DOMAIN db.rsvps /\ j # k
      BY <2>2, <3>2 DEF OneAnswer
    <3> QED
      BY <2>1, <3>1, <3>2
  <2>4. DOMAIN db.rsvps \subseteq DOMAIN db'.rsvps /\ DOMAIN db'.rsvps \subseteq DOMAIN db.rsvps \cup {r} /\ "rsvps" \in DOMAIN db'
    BY DEF OneAnswer
  <2> QED
    BY <2>3, <2>4 DEF RsvpsKept
<1>3. ASSUME NEW e \in DOMAIN db.events, EventEdits(e) = {}, missed[r] \cap AnswersTo(e) = {},
             db.events[e].capacity # NoLimit, going_count(db, e) <= db.events[e].capacity
      PROVE  going_count(db', e) <= db.events[e].capacity
  <2>1. IsFiniteSet(going(db, e)) /\ going_count(db, e) \in Nat
    <3>1. going(db, e) \in SUBSET DOMAIN db.rsvps /\ IsFiniteSet(DOMAIN db.rsvps)
      BY DEF going, Live, SeatsInv, AnswersOK
    <3> QED
      BY <3>1, FS_Subset, FS_CardinalityType DEF going_count
  <2>2. db.events[e].capacity \in Nat
    BY <1>3 DEF SeatsInv, EventsOK
  <2>3. going(db', e) \subseteq going(db, e) \cup {k}
    BY DEF OneAnswer, going, Live, IsLive
  <2>4. CASE k \notin going(db', e) \/ k \in going(db, e)
    <3>1. going(db', e) \in SUBSET going(db, e)
      BY <2>3, <2>4
    <3>2. Cardinality(going(db', e)) <= Cardinality(going(db, e)) /\ Cardinality(going(db', e)) \in Nat
      BY <2>1, <3>1, FS_Subset, FS_CardinalityType
    <3> QED
      BY <1>3, <2>1, <2>2, <3>2 DEF going_count
  <2>5. CASE k \in going(db', e) /\ k \notin going(db, e)
    <3>1. e = body[r].event
      BY <2>5 DEF going, OneAnswer, Live, IsLive
    <3>2. going_count(db, e) < db.events[e].capacity
      BY <1>3, <2>5, <3>1 DEF SeatFree
    <3>3. IsFiniteSet(going(db, e) \cup {k}) /\ Cardinality(going(db, e) \cup {k}) = Cardinality(going(db, e)) + 1
      BY <2>1, <2>5, FS_AddElement, Zenon
    <3>4. Cardinality(going(db', e)) <= Cardinality(going(db, e) \cup {k}) /\ Cardinality(going(db', e)) \in Nat
      BY <2>3, <3>3, FS_Subset, FS_CardinalityType
    <3> QED
      BY <2>1, <2>2, <3>2, <3>3, <3>4 DEF going_count
  <2> QED
    BY <2>4, <2>5
<1> QED
  BY <1>2, <1>3 DEF HeldBy

\* Where r missed no answer its snapshot counts those there are.
LEMMA SeesGoing ==
    ASSUME SeatsInv, RowsInv, NEW r \in Requests, stage[r] = "open", NEW e \in DOMAIN db.events,
           missed[r] \cap AnswersTo(e) = {}
    PROVE  going(seen[r], e) = going(db, e)
<1>1. \A k \in DOMAIN db.rsvps : db.rsvps[k].event = e => k \in DOMAIN seen[r].rsvps /\ seen[r].rsvps[k] = db.rsvps[k]
  BY DEF SeatsInv, ShowsSeats
<1>2. Shows(r, "rsvps") /\ MemberRows["rsvps"] = "event"
  BY DEF RowsInv, Tables, MemberRows
<1>3. \A k \in DOMAIN seen[r].rsvps : k \in DOMAIN db.rsvps /\ seen[r].rsvps[k].event = db.rsvps[k].event
  BY <1>2 DEF Shows
<1> QED
  BY <1>1, <1>3 DEF going, Live, IsLive

\* An RSVP takes a seat where its snapshot has one.
LEMMA RsvpSeats ==
    ASSUME SeatsInv, RowsInv, NEW r \in Requests, Commits(r), rsvp(r)
    PROVE  RsvpsKept(r) /\ HeldBy(r)
<1> DEFINE b == body[r]
           mine == rsvp_rows(seen[r], b.event, b.by)
           Row == [event |-> b.event, by |-> b.by, status |-> b.status, deleted |-> FALSE]
<1>1. Sessions /\ "rsvps" \in DOMAIN db /\ stage[r] = "open" /\ r \notin DOMAIN db.rsvps
  BY DEF SeatsInv, RowsInv, RowsOK, Commits, Tables, MemberRows
<1>2. "event" \in DOMAIN b /\ b.op = "rsvp"
  BY Payloads DEF SeatsInv, Requests, rsvp, Asks
<1>3. PICK row \in IF mine = {} THEN {r} ELSE mine :
        /\ _authorized_event(seen[r], b.event, b.by)
        /\ ~(b.status = "going" /\ row \notin going(seen[r], b.event) /\ full(seen[r], b.event))
        /\ db' = [db EXCEPT !.rsvps = IF mine = {} THEN With(@, [k \in {r} |-> Row])
                                      ELSE Save(@, seen[r].rsvps, row, Row)]
  BY <1>1, Decided, ZenonT(60) DEF rsvp, Decide, Commit
<1>4. b.event \in DOMAIN seen[r].events /\ b.event \in DOMAIN db.events
  BY <1>1, <1>3 DEF _authorized_event, event_get, IsLive, SeatsInv, ShowsSeats
<1>5. Shows(r, "rsvps") /\ MemberRows["rsvps"] = "event"
  BY <1>1 DEF RowsInv, Tables, MemberRows
<1> DEFINE e == b.event
<1> HIDE DEF mine, Row
<1>6. \A k : k \in mine => k \in DOMAIN seen[r].rsvps /\ seen[r].rsvps[k].event = e
  BY DEF mine, rsvp_rows
<1>7. DOMAIN Row = AnswerColumns /\ Row.event = e /\ Row.status = b.status
  BY DEF Row, AnswerColumns
<1>8. "rsvps" \in DOMAIN db'
  BY <1>1, <1>3
<1>9. /\ OneAnswer(r, row)
      /\ missed[r] \cap AnswersTo(e) = {} => db'.rsvps[row].status = b.status
  <2>1. CASE mine = {}
    <3>1. row = r /\ db'.rsvps = With(db.rsvps, [k \in {r} |-> Row])
      BY <1>1, <1>3, <2>1
    <3>2. /\ DOMAIN db'.rsvps = DOMAIN db.rsvps \cup {r} /\ db'.rsvps[r] = Row
          /\ \A k \in DOMAIN db.rsvps : db'.rsvps[k] = db.rsvps[k]
      BY <1>1, <3>1 DEF With
    <3> QED
      BY <1>1, <1>4, <1>7, <1>8, <3>1, <3>2 DEF OneAnswer
  <2>2. CASE mine # {}
    <3>1. row \in mine /\ db'.rsvps = Save(db.rsvps, seen[r].rsvps, row, Row)
      BY <1>1, <1>3, <2>2
    <3>2. /\ row \in DOMAIN db.rsvps /\ DOMAIN db.rsvps[row] = AnswerColumns
          /\ db.rsvps[row].event = e /\ seen[r].rsvps[row].event = e
      BY <1>5, <1>6, <3>1 DEF Shows, SeatsInv, AnswersOK
    <3>3. /\ DOMAIN db'.rsvps = DOMAIN db.rsvps /\ DOMAIN db'.rsvps[row] = AnswerColumns
          /\ \A k \in DOMAIN db.rsvps \ {row} : db'.rsvps[k] = db.rsvps[k]
          /\ db'.rsvps[row].event = e
          /\ db'.rsvps[row].status = IF Row.status # seen[r].rsvps[row].status THEN Row.status ELSE db.rsvps[row].status
      BY <1>7, <3>1, <3>2 DEF Save, Changed, AnswerColumns
    <3>4. missed[r] \cap AnswersTo(e) = {} => seen[r].rsvps[row] = db.rsvps[row]
      BY <1>1, <1>4, <3>2 DEF SeatsInv, ShowsSeats
    <3> QED
      BY <1>4, <1>7, <1>8, <3>2, <3>3, <3>4 DEF OneAnswer
  <2> QED
    BY <2>1, <2>2
<1>10. SeatFree(r, row)
  <2> SUFFICES ASSUME EventEdits(e) = {}, missed[r] \cap AnswersTo(e) = {}, db.events[e].capacity # NoLimit,
                      row \in going(db', e), row \notin going(db, e)
               PROVE  going_count(db, e) < db.events[e].capacity
    BY DEF SeatFree
  <2>1. b.status = "going"
    BY <1>9 DEF going
  <2>2. going(seen[r], e) = going(db, e)
    BY <1>1, <1>4, SeesGoing
  <2>3. seen[r].events[e].capacity = db.events[e].capacity
    BY <1>1, <1>4 DEF SeatsInv, ShowsSeats
  <2>4. ~(going_count(db, e) >= db.events[e].capacity)
    BY <1>3, <2>1, <2>2, <2>3 DEF full, going_count
  <2>5. db.events[e].capacity \in Nat
    BY <1>4 DEF SeatsInv, EventsOK
  <2>6. going_count(db, e) \in Nat
    <3>1. going(db, e) \in SUBSET DOMAIN db.rsvps /\ IsFiniteSet(DOMAIN db.rsvps)
      BY DEF going, Live, SeatsInv, AnswersOK
    <3> QED
      BY <3>1, FS_Subset, FS_CardinalityType DEF going_count
  <2> QED
    BY <2>4, <2>5, <2>6
<1> QED
  BY <1>2, <1>9, <1>10, OneAnswerKept, Zenon

\* Taking an answer back takes no seat.
LEMMA ClearRsvpSeats ==
    ASSUME SeatsInv, RowsInv, NEW r \in Requests, Commits(r), clear_rsvp(r)
    PROVE  RsvpsKept(r) /\ HeldBy(r)
<1> DEFINE b == body[r]
           e == b.event
           mine == rsvp_rows(seen[r], e, b.by)
<1>1. Sessions /\ "rsvps" \in DOMAIN db /\ stage[r] = "open"
  BY DEF SeatsInv, Commits
<1>2. "event" \in DOMAIN b /\ b.op = "clear_rsvp"
  BY Payloads DEF SeatsInv, Requests, clear_rsvp, Asks
<1>3. Shows(r, "rsvps") /\ MemberRows["rsvps"] = "event"
  BY <1>1 DEF RowsInv, Tables, MemberRows
<1>4. \A k : k \in mine => k \in DOMAIN seen[r].rsvps /\ seen[r].rsvps[k].event = e
  BY DEF rsvp_rows
<1>5. \/ db' = db
      \/ \E k \in mine : db' = [db EXCEPT !.rsvps = Delete(@, seen[r].rsvps, {k})]
  BY <1>1, ZenonT(30) DEF clear_rsvp, Commit
<1>6. CASE db' = db
  BY <1>1, <1>6, AnswersStay
<1>7. CASE \E k \in mine : db' = [db EXCEPT !.rsvps = Delete(@, seen[r].rsvps, {k})]
  <2>1. PICK k \in mine : db' = [db EXCEPT !.rsvps = Delete(@, seen[r].rsvps, {k})]
    BY <1>7
  <2>2. "rsvps" \in DOMAIN db' /\ db'.rsvps = Delete(db.rsvps, seen[r].rsvps, {k})
    BY <1>1, <2>1
  <2>3. /\ k \in DOMAIN db.rsvps /\ DOMAIN db.rsvps[k] = AnswerColumns
        /\ db.rsvps[k].event = e /\ e \in DOMAIN db.events
    BY <1>3, <1>4, <2>1 DEF Shows, SeatsInv, AnswersOK
  <2> HIDE DEF mine
  <2>4. /\ DOMAIN db'.rsvps = DOMAIN db.rsvps
        /\ \A j \in DOMAIN db.rsvps \ {k} : db'.rsvps[j] = db.rsvps[j]
        /\ \/ db'.rsvps[k] = db.rsvps[k]
           \/ db'.rsvps[k] = [db.rsvps[k] EXCEPT !.deleted = TRUE]
    BY <2>2, <2>3, Zenon DEF Delete, Mark
  <2>5. DOMAIN db'.rsvps[k] = AnswerColumns /\ db'.rsvps[k].event = e
    BY <2>3, <2>4 DEF AnswerColumns
  <2>6. OneAnswer(r, k)
    BY <2>2, <2>3, <2>4, <2>5, Zenon DEF OneAnswer
  <2>7. k \notin going(db', e) \/ k \in going(db, e)
    BY <2>3, <2>4 DEF going, Live, IsLive, AnswerColumns
  <2> QED
    BY <1>2, <2>6, <2>7, OneAnswerKept DEF SeatFree
<1> QED
  BY <1>5, <1>6, <1>7, Zenon

\* A handler that writes neither table preserves the invariant.
LEMMA OthersSeats ==
    ASSUME SeatsInv, NEW r \in Requests, Commits(r), NEW written, Handles(r, written),
           "events" \notin written, "rsvps" \notin written
    PROVE  SeatsInv'
<1>1. Leaves(db', written)
  BY HandlesFrame DEF SeatsInv
<1>2. {"events", "rsvps"} \subseteq DOMAIN db' /\ db'.events = db.events /\ db'.rsvps = db.rsvps
  BY <1>1 DEF Leaves, SeatsInv
<1> QED
  BY <1>2, EventsStay, AnswersStay, CommitSeats

\* Every commit preserves the invariant.
LEMMA StepSeats ==
    ASSUME SeatsInv, RowsInv, NEW r \in Requests, Commits(r), Step(r)
    PROVE  SeatsInv'
<1>1. Sessions /\ {"events", "rsvps"} \subseteq DOMAIN db
  BY DEF SeatsInv
<1>2. CASE create_event(r) \/ update_event(r) \/ delete_event(r)
  <2>1. "rsvps" \in DOMAIN db' /\ db'.rsvps = db.rsvps
    BY <1>1, <1>2, EventsTell, EventsDelete, HandlesFrame DEF Leaves
  <2>2. EventsKept(r)
    BY <1>2, CreateEventSeats, UpdateEventSeats, DeleteEventSeats
  <2> QED
    BY <2>1, <2>2, AnswersStay, CommitSeats
<1>3. CASE rsvp(r) \/ clear_rsvp(r)
  <2>1. "events" \in DOMAIN db' /\ db'.events = db.events
    BY <1>1, <1>3, AnswersWrite, HandlesFrame DEF Leaves
  <2>2. RsvpsKept(r) /\ HeldBy(r)
    BY <1>3, RsvpSeats, ClearRsvpSeats
  <2> QED
    BY <2>1, <2>2, EventsStay, CommitSeats
<1>4. CASE ~(create_event(r) \/ update_event(r) \/ delete_event(r) \/ rsvp(r) \/ clear_rsvp(r))
  <2>1. \E written : Handles(r, written) /\ "events" \notin written /\ "rsvps" \notin written
    <3>1. CASE PollStep(r) \/ EventStep(r) \/ AnnouncementStep(r) \/ MarketStep(r)
      BY <1>4, <3>1, PollsTell, PollsDelete, PollsWrite, EventsWrite, AnnouncementsTell,
         AnnouncementsWrite, LikesWrite, ItemsTell, ItemsWrite, FavoritesWrite, ViewsWrite
         DEF PollStep, EventStep, AnnouncementStep, MarketStep
    <3>2. CASE ServiceStep(r) \/ BoardTaskStep(r) \/ MeetingStep(r)
      BY <3>2, RequestsTell, RequestsWrite, TasksTell, TasksWrite, MeetingsTell, MeetingsWrite, AttendanceWrite
         DEF ServiceStep, BoardTaskStep, MeetingStep
    <3>3. CASE DocumentStep(r) \/ InvoiceStep(r) \/ ReportStep(r) \/ StatementStep(r) \/ CatalogueStep(r) \/ InboxStep(r)
      BY <3>3, DocumentsWrite, InvoicesWrite, ReportsWrite, StatementsWrite, CataloguesWrite, InboxWrite
    <3>4. CASE DirectoryStep(r) \/ ProfileStep(r) \/ OnboardingStep(r)
      BY <3>4, LoginsWrite, DirectoryWrite, DetailsWrite, RecordsWrite, OnboardingWrite, SettingsWrite
         DEF ProfileStep, OnboardingStep
    <3> QED
      BY <3>1, <3>2, <3>3, <3>4 DEF Step
  <2> QED
    BY <2>1, OthersSeats
<1> QED
  BY <1>2, <1>3, <1>4

\* The opening events have room.
LEMMA InitSeats == Init => SeatsInv
<1> SUFFICES ASSUME Init PROVE SeatsInv
  OBVIOUS
<1>1. Sessions /\ body \in Workloads /\ db = OpeningTables /\ \A q \in Requests : stage[q] = "waiting"
  BY InitSessions DEF Init
<1>2. {"events", "rsvps"} \subseteq DOMAIN db /\ AnswersOK
  BY <1>1, OpeningSeats DEF AnswersOK
<1>3. DOMAIN db.events \cap Requests = {}
  BY <1>1, OpeningAnnounced DEF Announced, Requests
<1>4. EventsOK
  BY <1>1, <1>3, OpeningSeats DEF EventsOK, HasRoom
<1>5. \A e \in DOMAIN db.events : Seated(e)
  BY <1>1, OpeningSeats DEF Seated, HasRoom
<1> QED
  BY <1>1, <1>2, <1>4, <1>5 DEF SeatsInv

\* Every step preserves it, and a stutter.
LEMMA NextSeats == SeatsInv /\ RowsInv /\ [Next]_vars => SeatsInv'
  BY IdleSeats, StepSeats, StepCases DEF SeatsInv

\* No event that was not edited seats more than its capacity unless two answers to it
\* overlapped, and a snapshot shows every answer but missed ones, in every reachable state.
THEOREM SeatsInvariant == Spec => []SeatsInv
  BY InitSeats, NextSeats, RowsInvariant, PTL DEF Spec
-----------------------------------------------------------------------------
(* Attendance: who answers to a meeting is of its association, and one row of a    *)
(* member more is of a request that overlapped the one of the other.             *)

Attenders(m) == On(<<"meeting", m>>, {"attend_meeting"})

\* Meetings are of an association there is, and none is of a request that did not end.
MeetingsOK ==
    /\ \A m \in DOMAIN db.meetings :
          "association" \in DOMAIN db.meetings[m] /\ db.meetings[m].association # None
    /\ \A q \in Requests : stage[q] \in {"waiting", "open"} => q \notin DOMAIN db.meetings
    /\ None \notin DOMAIN db.associations /\ None \notin Requests

\* The row of k in attendance is of a member who is asked.
Attends(k) ==
    LET answer == db.attendance[k]
    IN  /\ answer.meeting \in DOMAIN db.meetings
        /\ answer.by \in Audience(db.meetings[answer.meeting].association, "All")
        /\ k \in Requests => k \in Attenders(answer.meeting)

\* A snapshot shows meetings there are, of the association they are of.
ShowsMeetings(q) ==
    /\ None \notin DOMAIN seen[q].associations
    /\ DOMAIN seen[q].meetings \subseteq DOMAIN db.meetings
    /\ \A m \in DOMAIN seen[q].meetings :
          /\ "association" \in DOMAIN seen[q].meetings[m]
          /\ seen[q].meetings[m].association = db.meetings[m].association

AttendInv ==
    /\ Sessions /\ body \in Workloads /\ {"meetings", "attendance", "associations"} \subseteq DOMAIN db
    /\ MeetingsOK
    /\ \A k \in DOMAIN db.attendance : Attends(k)
    /\ \A q \in Requests : stage[q] = "open" => ShowsMeetings(q)

\* What a commit does to the three tables.
AssociationsKept(r) == DOMAIN db'.associations \subseteq DOMAIN db.associations \cup {r}

MeetingsKept(r) ==
    /\ DOMAIN db.meetings \subseteq DOMAIN db'.meetings /\ DOMAIN db'.meetings \subseteq DOMAIN db.meetings \cup {r}
    /\ \A m \in DOMAIN db.meetings : /\ "association" \in DOMAIN db'.meetings[m]
                                    /\ db'.meetings[m].association = db.meetings[m].association
    /\ r \in DOMAIN db'.meetings => /\ "association" \in DOMAIN db'.meetings[r]
                                    /\ db'.meetings[r].association # None

AttendanceKept(r) ==
    \A k \in DOMAIN db'.attendance :
        LET answer == db'.attendance[k]
        IN  \/ /\ k \in DOMAIN db.attendance
               /\ answer.meeting = db.attendance[k].meeting /\ answer.by = db.attendance[k].by
            \/ /\ k = r /\ answer.meeting \in DOMAIN db.meetings
               /\ answer.by \in Audience(db.meetings[answer.meeting].association, "All")
               /\ body[r].op = "attend_meeting" /\ "meeting" \in DOMAIN body[r] /\ body[r].meeting = answer.meeting

\* A commit that does no more preserves the invariant.
LEMMA CommitAttends ==
    ASSUME AttendInv, NEW r \in Requests, Commits(r), DOMAIN db' = DOMAIN db,
           AssociationsKept(r), MeetingsKept(r), AttendanceKept(r)
    PROVE  AttendInv'
<1>1. Sessions' /\ body' = body /\ Requests' = Requests /\ r \notin DOMAIN db.meetings
  BY StepSessions, Zenon DEF AttendInv, MeetingsOK, Commits, Requests
<1>2. MeetingsOK'
  <2>1. \A q \in Requests : stage'[q] \in {"waiting", "open"} => q # r /\ stage'[q] = stage[q]
    BY DEF Commits, Committed
  <2> QED
    BY <1>1, <2>1 DEF AttendInv, MeetingsOK, MeetingsKept, AssociationsKept
<1>3. ASSUME NEW k \in DOMAIN db'.attendance
      PROVE  Attends(k)'
  <2>1. PICK m : m = db'.attendance[k].meeting
    OBVIOUS
  <2>2. Attenders(m) \subseteq Attenders(m)'
    BY OnGrows DEF AttendInv, Attenders
  <2>3. CASE /\ k \in DOMAIN db.attendance
             /\ m = db.attendance[k].meeting /\ db'.attendance[k].by = db.attendance[k].by
    <3>1. /\ m \in DOMAIN db.meetings /\ db.attendance[k].by \in Audience(db.meetings[m].association, "All")
          /\ k \in Requests => k \in Attenders(m)
      BY <2>3 DEF AttendInv, Attends
    <3>2. m \in DOMAIN db'.meetings /\ db'.meetings[m].association = db.meetings[m].association
      BY <3>1 DEF MeetingsKept
    <3>3. \A x : m = x => Attenders(m)' = Attenders(x)'
      OBVIOUS
    <3> QED
      BY <1>1, <2>1, <2>2, <2>3, <3>1, <3>2 DEF Attends, Audience, Attenders, On
  <2>4. CASE /\ k = r /\ m \in DOMAIN db.meetings
             /\ db'.attendance[k].by \in Audience(db.meetings[m].association, "All")
             /\ body[r].op = "attend_meeting" /\ "meeting" \in DOMAIN body[r] /\ body[r].meeting = m
    <3>1. r \in Attenders(m)'
      BY <1>1, <2>4 DEF Attenders, On, Commits
    <3>2. m \in DOMAIN db'.meetings /\ db'.meetings[m].association = db.meetings[m].association
      BY <2>4 DEF MeetingsKept
    <3> QED
      BY <1>1, <2>1, <2>4, <3>1, <3>2 DEF Attends, Audience, Attenders, On
  <2> QED
    BY <2>1, <2>3, <2>4 DEF AttendanceKept
<1>4. ASSUME NEW q \in Requests, stage'[q] = "open"
      PROVE  ShowsMeetings(q)'
  <2>1. q # r /\ stage[q] = "open" /\ seen'[q] = seen[q]
    BY <1>4 DEF Commits, Committed
  <2> QED
    BY <2>1 DEF AttendInv, ShowsMeetings, MeetingsKept
<1> QED
  BY <1>1, <1>2, <1>3, <1>4 DEF AttendInv

\* A step that writes no table preserves it.
LEMMA IdleAttends ==
    ASSUME AttendInv, Idle
    PROVE  AttendInv'
<1>1. Sessions' /\ Requests' = Requests /\ body' = body /\ db' = db
  BY StepSessions DEF AttendInv, Idle, Requests
<1>2. \A about, ops : On(about, ops)' = On(about, ops)
  BY <1>1 DEF Idle, On
<1>3. MeetingsOK'
  BY <1>1 DEF AttendInv, MeetingsOK, Idle
<1>4. ASSUME NEW k \in DOMAIN db.attendance PROVE Attends(k)'
  BY <1>1, <1>2 DEF AttendInv, Attends, Attenders, Audience
<1>5. ASSUME NEW q \in Requests, stage'[q] = "open" PROVE ShowsMeetings(q)'
  <2>1. CASE stage[q] = "open"
    BY <1>1, <1>5, <2>1 DEF AttendInv, Idle, ShowsMeetings
  <2>2. CASE stage[q] # "open"
    BY <1>1, <1>5, <2>2 DEF AttendInv, Idle, ShowsMeetings, MeetingsOK
  <2> QED
    BY <2>1, <2>2
<1> QED
  BY <1>1, <1>3, <1>4, <1>5 DEF AttendInv

\* What stays is kept.
LEMMA AttendanceStays ==
    ASSUME AttendInv, NEW r \in Requests, Commits(r)
    PROVE  /\ db'.associations = db.associations => AssociationsKept(r)
           /\ db'.meetings = db.meetings => MeetingsKept(r)
           /\ db'.attendance = db.attendance => AttendanceKept(r)
<1>1. r \notin DOMAIN db.meetings
  BY DEF AttendInv, MeetingsOK, Commits
<1> QED
  BY <1>1 DEF AttendInv, MeetingsOK, AssociationsKept, MeetingsKept, AttendanceKept

\* Onboarding adds one association, settings and subscriptions none.
LEMMA AssociationsGrow ==
    ASSUME AttendInv, NEW r \in Requests, Commits(r), OnboardingStep(r)
    PROVE  AssociationsKept(r)
<1>1. "associations" \in DOMAIN db /\ Sessions
  BY DEF AttendInv
<1>2. CASE onboard(r)
  <2> DEFINE b == body[r]
             trial == IF b.plan = None THEN 0 ELSE seen[r].plans[b.plan].trial
             association == [plan |-> b.plan, status |-> "Active", payment |-> None,
                             start |-> IF b.plan = None THEN None ELSE now,
                             end |-> IF trial = 0 THEN None ELSE now + trial, end_date |-> None,
                             deleted |-> FALSE]
  <2>1. db'.associations = With(db.associations, [k \in {r} |-> association])
    BY <1>1, <1>2, Decided, ZenonT(60) DEF onboard, Decide, Commit
  <2> QED
    BY <2>1 DEF With, AssociationsKept
<1>3. CASE update_settings(r)
  <2> DEFINE b == body[r]
  <2>1. db'.associations = [db.associations EXCEPT ![b.association].end_date = IF b.names_end THEN b.end_date ELSE @]
    BY <1>1, <1>3, Decided, ZenonT(60) DEF update_settings, Decide, Commit
  <2> QED
    BY <2>1 DEF AssociationsKept
<1>4. CASE set_unit_occupancy(r)
  <2>1. db'.associations = db.associations
    BY <1>1, <1>4, Decided, ZenonT(60) DEF set_unit_occupancy, Decide, Commit
  <2> QED
    BY <2>1 DEF AssociationsKept
<1>5. CASE update_subscription(r)
  <2> DEFINE b == body[r]
             old == seen[r].associations[b.association]
             asked == [old EXCEPT !.plan = b.plan, !.status = b.status, !.payment = b.payment,
                                  !.start = b.start, !.end = b.end]
             start == Given(b.start, now)
             trial == seen[r].plans[b.plan].trial
             new == CASE b.plan = None -> asked
                      [] b.plan # None /\ trial > 0 /\ b.payment # "Paid" ->
                            [asked EXCEPT !.start = start, !.end = Given(@, start + trial)]
                      [] OTHER -> [asked EXCEPT !.start = start,
                                                !.status = IF @ = "Inactive" THEN @ ELSE "Active"]
  <2>1. db'.associations = Save(db.associations, seen[r].associations, b.association, new)
    BY <1>1, <1>5, Decided, ZenonT(60) DEF update_subscription, Decide, Commit
  <2> QED
    BY <2>1 DEF Save, AssociationsKept
<1> QED
  BY <1>2, <1>3, <1>4, <1>5 DEF OnboardingStep

\* Calling a meeting adds one of an association there is.
LEMMA CreateMeetingKeeps ==
    ASSUME AttendInv, NEW r \in Requests, Commits(r), create_meeting(r)
    PROVE  MeetingsKept(r)
<1>1. "meetings" \in DOMAIN db /\ Sessions /\ r \notin DOMAIN db.meetings /\ stage[r] = "open"
  BY DEF AttendInv, MeetingsOK, Commits
<1> DEFINE b == body[r]
           association == IF b.association = None /\ RoleOf[b.by] = "board_member"
                          THEN meeting_home(b.by) ELSE b.association
           row == With(b.columns, [association |-> association, created |-> now, minutes |-> None,
                                   status |-> "Scheduled", deleted |-> FALSE])
<1>2. /\ db'.meetings = With(db.meetings, [k \in {r} |-> row])
      /\ association_exists(seen[r], association)
  BY <1>1, Decided, ZenonT(30) DEF create_meeting, Decide, Commit
<1>3. association # None
  BY <1>1, <1>2 DEF association_exists, IsLive, AttendInv, ShowsMeetings
<1>4. "association" \in DOMAIN row /\ row.association = association
  BY DEF With
<1> HIDE DEF row, association
<1>5. /\ DOMAIN db'.meetings = DOMAIN db.meetings \cup {r} /\ db'.meetings[r] = row
      /\ \A m \in DOMAIN db.meetings : db'.meetings[m] = db.meetings[m]
  BY <1>1, <1>2 DEF With
<1> QED
  BY <1>1, <1>3, <1>4, <1>5 DEF MeetingsKept, AttendInv, MeetingsOK

\* A column that neither the old row nor the new one differs in stays.
AssociationStays(row, loaded, wanted) ==
    LET new == Changed(row, loaded, wanted)
    IN  "association" \in DOMAIN new /\ new.association = row.association

LEMMA ChangedAssociation ==
    ASSUME NEW row, NEW loaded, NEW wanted, "association" \in DOMAIN row,
           wanted.association = loaded.association
    PROVE  AssociationStays(row, loaded, wanted)
  BY DEF AssociationStays, Changed

\* No edit of a meeting moves it.
LEMMA MeetingEditsKeep ==
    ASSUME AttendInv, NEW r \in Requests, Commits(r), update_details(r) \/ add_minutes(r) \/ delete_meeting(r)
    PROVE  MeetingsKept(r)
<1>1. /\ "meetings" \in DOMAIN db /\ Sessions /\ r \notin DOMAIN db.meetings
      /\ \A m \in DOMAIN db.meetings : "association" \in DOMAIN db.meetings[m]
  BY DEF AttendInv, MeetingsOK, Commits
<1>2. CASE update_details(r) \/ add_minutes(r)
  <2>1. \E m, wanted : /\ db'.meetings = Save(db.meetings, seen[r].meetings, m, wanted)
                       /\ m \in DOMAIN seen[r].meetings => wanted.association = seen[r].meetings[m].association
                       /\ m \in DOMAIN seen[r].meetings
    <3>1. CASE update_details(r)
      <4>1. "association" \notin DOMAIN body[r].columns
        BY <3>1, Payloads DEF AttendInv, Requests, update_details, Asks
      <4>2. /\ db'.meetings = Save(db.meetings, seen[r].meetings, body[r].meeting,
                                   With(seen[r].meetings[body[r].meeting], body[r].columns))
            /\ body[r].meeting \in DOMAIN seen[r].meetings
        BY <1>1, <3>1, Decided, ZenonT(30) DEF update_details, Decide, Commit, meeting_get, IsLive
      <4>3. "association" \in DOMAIN seen[r].meetings[body[r].meeting]
        BY <1>1, <4>2 DEF AttendInv, ShowsMeetings, Commits
      <4>4. PICK row, columns : row = seen[r].meetings[body[r].meeting] /\ columns = body[r].columns
        OBVIOUS
      <4>5. With(row, columns).association = row.association
        BY <4>1, <4>3, <4>4 DEF With
      <4> QED
        BY <4>2, <4>4, <4>5, Zenon
    <3>2. CASE add_minutes(r)
      <4>1. PICK wanted : /\ wanted = [seen[r].meetings[body[r].meeting] EXCEPT !.minutes = body[r].minutes,
                                                                                !.status = "Completed"]
                          /\ db'.meetings = Save(db.meetings, seen[r].meetings, body[r].meeting, wanted)
                          /\ body[r].meeting \in DOMAIN seen[r].meetings
        BY <1>1, <3>2, Decided, ZenonT(30) DEF add_minutes, Decide, Commit, meeting_get, IsLive
      <4>2. wanted.association = seen[r].meetings[body[r].meeting].association
        BY <4>1
      <4> QED
        BY <4>1, <4>2, Zenon
    <3> QED
      BY <1>2, <3>1, <3>2
  <2>2. PICK m, wanted : /\ db'.meetings = Save(db.meetings, seen[r].meetings, m, wanted)
                         /\ wanted.association = seen[r].meetings[m].association
    BY <2>1
  <2>3. ASSUME NEW x \in DOMAIN db.meetings
        PROVE  /\ "association" \in DOMAIN db'.meetings[x]
               /\ db'.meetings[x].association = db.meetings[x].association
    <3>1. CASE x = m
      <4>1. db'.meetings[x] = Changed(db.meetings[x], seen[r].meetings[m], wanted)
        BY <2>2, <3>1 DEF Save
      <4>2. AssociationStays(db.meetings[x], seen[r].meetings[m], wanted)
        BY <1>1, <2>2, ChangedAssociation, Zenon
      <4> QED
        BY <4>1, <4>2 DEF AssociationStays
    <3>2. CASE x # m
      BY <1>1, <2>2, <3>2 DEF Save
    <3> QED
      BY <3>1, <3>2
  <2>4. DOMAIN db'.meetings = DOMAIN db.meetings
    BY <2>2 DEF Save
  <2> QED
    BY <1>1, <2>3, <2>4 DEF MeetingsKept
<1>3. CASE delete_meeting(r)
  <2>1. db'.meetings = Delete(db.meetings, seen[r].meetings, {body[r].meeting})
    BY <1>1, <1>3, Decided, ZenonT(30) DEF delete_meeting, Decide, Commit
  <2>2. /\ DOMAIN db'.meetings = DOMAIN db.meetings
        /\ \A m \in DOMAIN db.meetings : \/ db'.meetings[m] = db.meetings[m]
                                         \/ db'.meetings[m] = [db.meetings[m] EXCEPT !.deleted = TRUE]
    BY <2>1, Zenon DEF Delete, Mark
  <2> QED
    BY <1>1, <2>2, Zenon DEF MeetingsKept
<1> QED
  BY <1>2, <1>3

\* Who answers lives in the association of the meeting.
LEMMA AttendanceAdds ==
    ASSUME AttendInv, RowsInv, NEW r \in Requests, Commits(r), update_attendance(r)
    PROVE  AttendanceKept(r)
<1> DEFINE b == body[r]
           mine == {k \in DOMAIN seen[r].attendance :
                      seen[r].attendance[k].meeting = b.meeting /\ seen[r].attendance[k].by = b.by}
           Row == [meeting |-> b.meeting, by |-> b.by, status |-> b.status]
<1>1. "attendance" \in DOMAIN db /\ Sessions /\ stage[r] = "open"
  BY DEF AttendInv, Commits
<1>2. b.op = "attend_meeting" /\ "meeting" \in DOMAIN b /\ b.by \in Accounts
  BY Payloads DEF AttendInv, Requests, update_attendance, Asks
<1>3. Grows(r, "attendance") /\ MemberRows["attendance"] = "meeting"
  BY AttendanceGrows DEF Writes, MemberRows
<1>4. /\ RoleOf[b.by] \in MEETING_RSVP_ROLES /\ meeting_get(seen[r], b.meeting)
      /\ meeting_home(b.by) = seen[r].meetings[b.meeting].association
      /\ \/ mine = {} /\ db'.attendance = With(db.attendance, [x \in {r} |-> Row])
         \/ \E k : db'.attendance = Save(db.attendance, seen[r].attendance, k, Row)
  BY <1>1, Decided, ZenonT(60) DEF update_attendance, Decide, Commit
<1>5. /\ b.meeting \in DOMAIN db.meetings
      /\ seen[r].meetings[b.meeting].association = db.meetings[b.meeting].association
      /\ db.meetings[b.meeting].association # None
  BY <1>1, <1>4 DEF meeting_get, IsLive, AttendInv, ShowsMeetings, MeetingsOK
<1>6. b.by \in Audience(db.meetings[b.meeting].association, "All")
  BY <1>2, <1>4, <1>5 DEF Audience, _audience_role_codes, meeting_home, MEETING_RSVP_ROLES
<1>7. r \notin DOMAIN db.attendance
  BY <1>1 DEF RowsInv, RowsOK, Tables, MemberRows
<1>8. r \in DOMAIN db'.attendance => db'.attendance[r] = Row
  <2>1. CASE db'.attendance = With(db.attendance, [x \in {r} |-> Row])
    BY <2>1 DEF With
  <2>2. CASE \E k : db'.attendance = Save(db.attendance, seen[r].attendance, k, Row)
    BY <1>7, <2>2 DEF Save
  <2> QED
    BY <1>4, <2>1, <2>2
<1>9. Row.meeting = b.meeting /\ Row.by = b.by
  OBVIOUS
<1> HIDE DEF Row, mine
<1> QED
  BY <1>2, <1>3, <1>5, <1>6, <1>8, <1>9 DEF Grows, AttendanceKept

\* A handler that writes none of the three preserves the invariant.
LEMMA OthersAttend ==
    ASSUME AttendInv, NEW r \in Requests, Commits(r), NEW written, Handles(r, written),
           {"meetings", "attendance", "associations"} \cap written = {}
    PROVE  AttendInv'
<1>1. Leaves(db', written)
  BY HandlesFrame DEF AttendInv
<1>2. /\ DOMAIN db' = DOMAIN db /\ db'.meetings = db.meetings /\ db'.attendance = db.attendance
      /\ db'.associations = db.associations
  BY <1>1 DEF Leaves, AttendInv
<1> QED
  BY <1>2, AttendanceStays, CommitAttends

\* Every commit preserves the invariant.
LEMMA StepAttends ==
    ASSUME AttendInv, RowsInv, NEW r \in Requests, Commits(r), Step(r)
    PROVE  AttendInv'
<1>1. Sessions /\ {"meetings", "attendance", "associations"} \subseteq DOMAIN db
  BY DEF AttendInv
<1>2. CASE MeetingStep(r)
  <2>1. CASE update_attendance(r)
    <3>1. DOMAIN db' = DOMAIN db /\ db'.meetings = db.meetings /\ db'.associations = db.associations
      BY <1>1, <2>1, AttendanceWrite, HandlesFrame DEF Leaves
    <3> QED
      BY <2>1, <3>1, AttendanceStays, AttendanceAdds, CommitAttends
  <2>2. CASE ~update_attendance(r)
    <3>1. DOMAIN db' = DOMAIN db /\ db'.attendance = db.attendance /\ db'.associations = db.associations
      BY <1>1, <1>2, <2>2, MeetingsTell, MeetingsWrite, HandlesFrame DEF Leaves, MeetingStep
    <3>2. MeetingsKept(r)
      BY <1>2, <2>2, CreateMeetingKeeps, MeetingEditsKeep DEF MeetingStep
    <3> QED
      BY <3>1, <3>2, AttendanceStays, CommitAttends
  <2> QED
    BY <2>1, <2>2
<1>3. CASE OnboardingStep(r)
  <2>1. DOMAIN db' = DOMAIN db /\ db'.meetings = db.meetings /\ db'.attendance = db.attendance
    BY <1>1, <1>3, OnboardingWrite, SettingsWrite, HandlesFrame DEF Leaves, OnboardingStep
  <2> QED
    BY <1>3, <2>1, AssociationsGrow, AttendanceStays, CommitAttends
<1>4. CASE ~(MeetingStep(r) \/ OnboardingStep(r))
  <2>1. \E written : Handles(r, written) /\ {"meetings", "attendance", "associations"} \cap written = {}
    <3>1. CASE PollStep(r) \/ EventStep(r) \/ AnnouncementStep(r) \/ MarketStep(r)
      BY <3>1, PollsTell, PollsDelete, PollsWrite, EventsTell, EventsDelete, EventsWrite, AnswersWrite, AnnouncementsTell,
         AnnouncementsWrite, LikesWrite, ItemsTell, ItemsWrite, FavoritesWrite, ViewsWrite
         DEF PollStep, EventStep, AnnouncementStep, MarketStep
    <3>2. CASE ServiceStep(r) \/ BoardTaskStep(r)
      BY <3>2, RequestsTell, RequestsWrite, TasksTell, TasksWrite DEF ServiceStep, BoardTaskStep
    <3>3. CASE DocumentStep(r) \/ InvoiceStep(r) \/ ReportStep(r) \/ StatementStep(r) \/ CatalogueStep(r) \/ InboxStep(r)
      BY <3>3, DocumentsWrite, InvoicesWrite, ReportsWrite, StatementsWrite, CataloguesWrite, InboxWrite
    <3>4. CASE DirectoryStep(r) \/ ProfileStep(r)
      BY <3>4, LoginsWrite, DirectoryWrite, DetailsWrite, RecordsWrite DEF ProfileStep
    <3> QED
      BY <1>4, <3>1, <3>2, <3>3, <3>4 DEF Step
  <2> QED
    BY <2>1, OthersAttend
<1> QED
  BY <1>2, <1>3, <1>4

\* Who answered before the first request was asked.
LEMMA InitAttends == Init => AttendInv
<1> SUFFICES ASSUME Init PROVE AttendInv
  OBVIOUS
<1>1. Sessions /\ body \in Workloads /\ db = OpeningTables /\ \A q \in Requests : stage[q] = "waiting"
  BY InitSessions DEF Init
<1>2. {"meetings", "attendance", "associations"} \subseteq DOMAIN db /\ None \notin DOMAIN db.associations
  BY <1>1, OpeningSeats
<1>3. None \notin Requests /\ DOMAIN db.meetings \cap Requests = {}
  BY <1>1, OpeningSeats DEF Requests
<1>4. DOMAIN db.attendance \cap Requests = {}
  BY <1>1, OpeningRows DEF MemberRows, Requests
<1>5. \A m \in DOMAIN db.meetings : /\ "association" \in DOMAIN db.meetings[m]
                                    /\ db.meetings[m].association \in DOMAIN db.associations
  BY <1>1, OpeningSeats
<1>6. MeetingsOK
  BY <1>2, <1>3, <1>5 DEF MeetingsOK
<1>7. ASSUME NEW k \in DOMAIN db.attendance PROVE Attends(k)
  BY <1>1, <1>4, OpeningSeats DEF Attends
<1> QED
  BY <1>1, <1>2, <1>6, <1>7 DEF AttendInv

\* Every step preserves it, and a stutter.
LEMMA NextAttends == AttendInv /\ RowsInv /\ [Next]_vars => AttendInv'
  BY IdleAttends, StepAttends, StepCases DEF AttendInv

\* Who answers to a meeting is a member of its association, in every reachable state.
THEOREM AttendInvariant == Spec => []AttendInv
  BY InitAttends, NextAttends, RowsInvariant, PTL DEF Spec

\* Three kinds of answers with no row in two of them are no more than the rows.
LEMMA ThreeParts ==
    ASSUME NEW all, IsFiniteSet(all), NEW p \in SUBSET all, NEW q \in SUBSET all, NEW s \in SUBSET all,
           p \cap q = {}, p \cap s = {}, q \cap s = {}
    PROVE  Cardinality(p) + Cardinality(q) + Cardinality(s) <= Cardinality(all)
<1>1. IsFiniteSet(p) /\ IsFiniteSet(q) /\ IsFiniteSet(s)
  BY FS_Subset
<1>2. /\ Cardinality(p) \in Nat /\ Cardinality(q) \in Nat /\ Cardinality(s) \in Nat
      /\ Cardinality(all) \in Nat /\ Cardinality(p \cup q) \in Nat /\ IsFiniteSet(p \cup q)
  BY <1>1, FS_CardinalityType, FS_Union, Zenon
<1>3. Cardinality(p \cup q) = Cardinality(p) + Cardinality(q)
  <2>1. Cardinality(p \cup q) = Cardinality(p) + Cardinality(q) - Cardinality(p \cap q)
    BY <1>1, FS_Union
  <2>2. Cardinality(p \cap q) = 0
    BY FS_EmptySet
  <2> QED
    BY <1>2, <2>1, <2>2
<1>4. Cardinality((p \cup q) \cup s) = Cardinality(p \cup q) + Cardinality(s)
  <2>1. Cardinality((p \cup q) \cup s) = Cardinality(p \cup q) + Cardinality(s) - Cardinality((p \cup q) \cap s)
    BY <1>1, <1>2, FS_Union
  <2>2. (p \cup q) \cap s = {}
    OBVIOUS
  <2>3. Cardinality((p \cup q) \cap s) = 0
    BY <2>2, FS_EmptySet
  <2> QED
    BY <1>2, <2>1, <2>3
<1>5. Cardinality((p \cup q) \cup s) <= Cardinality(all)
  <2>1. (p \cup q) \cup s \in SUBSET all
    OBVIOUS
  <2> QED
    BY <2>1, FS_Subset
<1> QED
  BY <1>2, <1>3, <1>4, <1>5

\* Where no two answers to a meeting overlapped a member has one, and no more answered
\* than are asked.
LEMMA AttendersCounted ==
    ASSUME AttendInv, RowsInv, NEW m \in DOMAIN db.meetings, ~Raced(Attenders(m))
    PROVE  answers(db, m, "Yes") + answers(db, m, "No") + answers(db, m, "Maybe")
              <= _eligible_count(db.meetings[m].association)
<1> DEFINE asked == Audience(db.meetings[m].association, "All")
           rows == {k \in DOMAIN db.attendance : db.attendance[k].meeting = m}
           given(status) == {k \in DOMAIN db.attendance : db.attendance[k].meeting = m
                                                          /\ db.attendance[k].status = status}
           who == [k \in rows |-> db.attendance[k].by]
<1>1. \A k \in rows : db.attendance[k].by \in asked
  BY DEF AttendInv, Attends
<1>2. ASSUME NEW j \in rows, NEW k \in rows, db.attendance[j].by = db.attendance[k].by
      PROVE  j = k
  <2>1. SUFFICES ASSUME j # k PROVE FALSE
    OBVIOUS
  <2>2. OnePerMember(db["attendance"], "meeting")
    BY DEF RowsInv, OneRowPerMember, MemberRows
  <2>3. {j, k} \subseteq Requests /\ Overlapped(j, k)
    BY <1>2, <2>1, <2>2 DEF OnePerMember
  <2>4. j \in Attenders(m) /\ k \in Attenders(m)
    BY <2>3 DEF AttendInv, Attends
  <2> QED
    BY <2>1, <2>3, <2>4 DEF Raced
<1>3. IsFiniteSet(asked)
  <2>1. IsFiniteSet(Accounts)
    BY OpeningSeats
  <2>2. asked \in SUBSET Accounts
    BY DEF Audience
  <2> QED
    BY <2>1, <2>2, FS_Subset
<1>4. IsFiniteSet(rows) /\ Cardinality(rows) <= Cardinality(asked)
  <2> HIDE DEF rows, asked
  <2>1. who \in Injection(rows, asked)
    BY <1>1, <1>2 DEF Injection, IsInjective
  <2> HIDE DEF who
  <2> QED
    BY <1>3, <2>1, FS_Injection
<1>5. given("Yes") \in SUBSET rows /\ given("No") \in SUBSET rows /\ given("Maybe") \in SUBSET rows
  OBVIOUS
<1>6. given("Yes") \cap given("No") = {} /\ given("Yes") \cap given("Maybe") = {} /\ given("No") \cap given("Maybe") = {}
  OBVIOUS
<1>7. Cardinality(given("Yes")) + Cardinality(given("No")) + Cardinality(given("Maybe")) <= Cardinality(rows)
  <2> HIDE DEF rows, given
  <2> QED
    BY <1>4, <1>5, <1>6, ThreeParts
<1>8. /\ Cardinality(given("Yes")) \in Nat /\ Cardinality(given("No")) \in Nat
      /\ Cardinality(given("Maybe")) \in Nat /\ Cardinality(rows) \in Nat /\ Cardinality(asked) \in Nat
  <2> HIDE DEF rows, given, asked
  <2> QED
    BY <1>3, <1>4, <1>5, FS_Subset, FS_CardinalityType
<1>9. /\ answers(db, m, "Yes") = Cardinality(given("Yes")) /\ answers(db, m, "No") = Cardinality(given("No"))
      /\ answers(db, m, "Maybe") = Cardinality(given("Maybe"))
      /\ _eligible_count(db.meetings[m].association) = Cardinality(asked)
  BY DEF answers, _eligible_count
<1> HIDE DEF rows, given, asked
<1> QED
  BY <1>4, <1>7, <1>8, <1>9

\* No event seats more than its capacity, unless an answer overlapped another one or the
\* event was edited (rsvp, clear_rsvp, update_event); no meeting has more answers than members
\* asked, unless two answers overlapped (update_attendance).
THEOREM SeatsHeld == Spec => []SeatsHeldUnlessRaced
<1>1. SeatsInv /\ AttendInv /\ RowsInv => SeatsHeldUnlessRaced
  <2> SUFFICES ASSUME SeatsInv, AttendInv, RowsInv PROVE SeatsHeldUnlessRaced
    OBVIOUS
  <2>1. \A e \in DOMAIN db.events : Seated(e)
    BY DEF SeatsInv
  <2>2. \A m \in DOMAIN db.meetings :
           \/ answers(db, m, "Yes") + answers(db, m, "No") + answers(db, m, "Maybe")
                <= _eligible_count(db.meetings[m].association)
           \/ Raced(Attenders(m))
    BY AttendersCounted
  <2> QED
    BY <2>1, <2>2 DEF SeatsHeldUnlessRaced, Seated, AnswersTo, EventEdits, Attenders, Live
<1> QED
  BY SeatsInvariant, AttendInvariant, RowsInvariant, <1>1, PTL
-----------------------------------------------------------------------------
(* Who is told of a thing may open it. The authorization of a thing reads some      *)
(* columns of its row; a handler tells those its snapshot lets open, and what may     *)
(* have changed since was changed by a request in `missed'. From then on the         *)
(* columns stay until another edit or deletion.                               *)

Changers(about) == On(about, Edits \cup Deletes)

\* Rows that the authorization of a kind does not tell apart.
Alike(kind, row, other) == \A c \in AuthorizedBy[kind] : row[c] = other[c]

\* The things of a kind have their columns, and name those they may while nobody changed
\* them; none has the key of a request that has not committed.
ThingsTold(kind) ==
    LET t == ToldTables[kind]
    IN  /\ t \in DOMAIN db
        /\ \A x \in DOMAIN db[t] : /\ AuthorizedBy[kind] \subseteq DOMAIN db[t][x]
                                 /\ (Rightful(kind, db[t][x]) \/ Changers(<<kind, x>>) # {})
        /\ \A q \in Requests : stage[q] \in {"waiting", "open"} => q \notin DOMAIN db[t]

\* The snapshot of q shows things there are, as they are but for what q missed, and
\* associations that are there still.
ShowsThings(q, kind) ==
    LET t == ToldTables[kind]
    IN  \A x \in DOMAIN seen[q][t] :
            /\ x \in DOMAIN db[t] /\ AuthorizedBy[kind] \subseteq DOMAIN seen[q][t][x]
            /\ (Alike(kind, seen[q][t][x], db[t][x]) \/ missed[q] \cap Changers(<<kind, x>>) # {})

ShowsAssociations(q) ==
    /\ \A a \in DOMAIN seen[q].associations : "deleted" \in DOMAIN seen[q].associations[a]
    /\ \A a : association_exists(seen[q], a) => association_exists(db, a)

\* A notice is of a request that committed, about a thing there is.
Sent(n) ==
    /\ n.by \in Requests => Committed(n.by)
    /\ n.about[1] \in DOMAIN ToldTables => n.about[2] \in DOMAIN db[ToldTables[n.about[1]]]

\* Its recipients may open the thing, but for the exceptions.
Opens(n) ==
    \A a \in n.to : \/ MayOpen(db, a, n.about)
                    \/ ToldBesides(db, a, n.about)
                    \/ Changers(n.about) \ {n.by} # {}

Notices == db.notifications \cup db.frames

ToldInv ==
    /\ Sessions /\ body \in Workloads
    /\ {"notifications", "frames", "chat", "associations"} \subseteq DOMAIN db
    /\ \A kind \in DOMAIN ToldTables : ThingsTold(kind)
    /\ \A q \in Requests : stage[q] \in {"waiting", "open"} => q \notin DOMAIN db.chat \cup DOMAIN db.associations
    /\ \A a \in DOMAIN db.associations : "deleted" \in DOMAIN db.associations[a]
    /\ \A q \in Requests : stage[q] = "open" =>
          /\ \A kind \in DOMAIN ToldTables : ShowsThings(q, kind)
          /\ ShowsAssociations(q)
    /\ \A n \in Notices : Sent(n) /\ Opens(n)

\* r edits or deletes the thing.
Changes(r, kind, x) == body[r].op \in Changing[kind] /\ body[r][kind] = x

\* What a commit does to the things of a kind, to the associations and to the chat.
ThingsKept(r, kind) ==
    LET t == ToldTables[kind]
    IN  /\ t \in DOMAIN db'
        /\ DOMAIN db[t] \subseteq DOMAIN db'[t] /\ DOMAIN db'[t] \subseteq DOMAIN db[t] \cup {r}
        /\ \A x \in DOMAIN db'[t] : AuthorizedBy[kind] \subseteq DOMAIN db'[t][x]
        /\ \A x \in DOMAIN db[t] : Alike(kind, db[t][x], db'[t][x]) \/ Changes(r, kind, x)
        /\ r \in DOMAIN db'[t] => Rightful(kind, db'[t][r])

AssociationsLast(r) ==
    /\ DOMAIN db'.associations \subseteq DOMAIN db.associations \cup {r}
    /\ \A a \in DOMAIN db'.associations : "deleted" \in DOMAIN db'.associations[a]
    /\ \A a \in DOMAIN db.associations : /\ a \in DOMAIN db'.associations
                                       /\ db'.associations[a].deleted = db.associations[a].deleted

ChatGrows(r) ==
    /\ DOMAIN db'.chat \subseteq DOMAIN db.chat \cup {r}
    /\ \A k \in DOMAIN db.chat : k \in DOMAIN db'.chat /\ db'.chat[k] = db.chat[k]

\* Whom it tells may open what it tells of.
TellsWell(r) ==
    \A n \in Notices' \ Notices :
        /\ n.by = r
        /\ n.about[1] \in DOMAIN ToldTables => n.about[2] \in DOMAIN db'[ToldTables[n.about[1]]]
        /\ Opens(n)'

\* The kinds.
LEMMA TellKinds ==
    /\ DOMAIN ToldTables = {"poll", "event", "announcement", "item", "request", "task", "meeting"}
    /\ DOMAIN AuthorizedBy = DOMAIN ToldTables /\ DOMAIN Changing = DOMAIN ToldTables
    /\ ToldTables["poll"] = "polls" /\ ToldTables["event"] = "events"
    /\ ToldTables["announcement"] = "announcements" /\ ToldTables["item"] = "items"
    /\ ToldTables["request"] = "serviceRequests" /\ ToldTables["task"] = "boardTasks"
    /\ ToldTables["meeting"] = "meetings"
  BY DEF ToldTables, AuthorizedBy, Changing

\* What a change is among the changers of a thing.
LEMMA ChangesTold ==
    ASSUME ToldInv, NEW r \in Requests, Commits(r), NEW kind \in DOMAIN ToldTables, NEW x, NEW about,
           about[1] = kind, about[2] = x, Changes(r, kind, x)
    PROVE  r \in Changers(about)'
<1>1. body' = body /\ Requests' = Requests /\ Committed(r)'
  BY DEF Commits, Requests
<1>2. kind \in DOMAIN body[r]
  BY TellKinds, Payloads DEF ToldInv, Requests, Changes
<1>3. body[r].op \in Edits \cup Deletes
  <2>1. Changing[kind] \subseteq Edits \cup Deletes
    BY TellKinds DEF Changing, Edits, Deletes
  <2> QED
    BY <2>1 DEF Changes
<1> QED
  BY <1>1, <1>2, <1>3 DEF Changers, On, Changes

\* The rows of a thing that are alike let the same accounts open it, where the associations
\* last.
LEMMA AlikeOpens ==
    ASSUME NEW tables, NEW others, NEW a, NEW about, NEW kind, NEW x,
           about[1] = kind, about[2] = x,
           kind \in DOMAIN ToldTables, x \in DOMAIN tables[ToldTables[kind]], x \in DOMAIN others[ToldTables[kind]],
           Alike(kind, tables[ToldTables[kind]][x], others[ToldTables[kind]][x]),
           \A y : association_exists(tables, y) => association_exists(others, y),
           MayOpen(tables, a, about)
    PROVE  MayOpen(others, a, about)
<1>1. CASE kind = "poll"
  BY <1>1, TellKinds DEF MayOpen, _authorized_poll, poll_get, IsLive, Alike, AuthorizedBy
<1>2. CASE kind = "event"
  BY <1>2, TellKinds DEF MayOpen, _authorized_event, event_get, IsLive, Alike, AuthorizedBy
<1>3. CASE kind = "announcement"
  BY <1>3, TellKinds DEF MayOpen, _authorized_announcement, announcement_model, IsLive, Alike, AuthorizedBy
<1>4. CASE kind = "item"
  BY <1>4, TellKinds DEF MayOpen, _authorized_item, item_get, IsLive, Alike, AuthorizedBy
<1>5. CASE kind = "request"
  BY <1>5, TellKinds DEF MayOpen, _authorized_request, _resident_can_access, IsLive, Alike, AuthorizedBy
<1>6. CASE kind = "task"
  BY <1>6, TellKinds DEF MayOpen, _authorized_task, IsLive, Alike, AuthorizedBy
<1>7. CASE kind = "meeting"
  <2>1. x \in meeting_list(tables, a)
    BY <1>7 DEF MayOpen
  <2>2. /\ x \in DOMAIN tables.meetings /\ x \in DOMAIN others.meetings
        /\ others.meetings[x].association = tables.meetings[x].association
        /\ others.meetings[x].audience = tables.meetings[x].audience
        /\ others.meetings[x].block = tables.meetings[x].block
        /\ others.meetings[x].deleted = tables.meetings[x].deleted
    BY <1>7, TellKinds DEF Alike, AuthorizedBy
  <2>3. x \in meeting_list(others, a)
    BY <2>1, <2>2, ZenonT(60) DEF meeting_list, Live, IsLive
  <2> QED
    BY <1>7, <2>3 DEF MayOpen
<1> QED
  BY <1>1, <1>2, <1>3, <1>4, <1>5, <1>6, <1>7, TellKinds

\* And the exceptions of the one are those of the other, where the chat grows.
LEMMA AlikeBesides ==
    ASSUME NEW tables, NEW others, NEW a, NEW about, NEW kind, NEW x,
           about[1] = kind, about[2] = x,
           kind \in DOMAIN ToldTables,
           Alike(kind, tables[ToldTables[kind]][x], others[ToldTables[kind]][x]),
           \A k \in DOMAIN tables.chat : k \in DOMAIN others.chat /\ others.chat[k] = tables.chat[k],
           ToldBesides(tables, a, about)
    PROVE  ToldBesides(others, a, about)
<1>1. CASE kind = "event"
  <2>1. others.events[x].audience = tables.events[x].audience
    BY <1>1, TellKinds DEF Alike, AuthorizedBy
  <2> QED
    BY <1>1, <2>1, Zenon DEF ToldBesides
<1>2. CASE kind = "item"
  <2>1. others.items[x].owner = tables.items[x].owner
    BY <1>2, TellKinds DEF Alike, AuthorizedBy
  <2> QED
    BY <1>2, <2>1 DEF ToldBesides
<1>3. CASE kind \notin {"event", "item"}
  BY <1>3, Zenon DEF ToldBesides
<1> QED
  BY <1>1, <1>2, <1>3

\* A notice that was sent keeps its exceptions or its recipients may open the thing still.
LEMMA OpensStay ==
    ASSUME ToldInv, NEW r \in Requests, Commits(r), NEW n \in Notices,
           \A kind \in DOMAIN ToldTables : ThingsKept(r, kind), AssociationsLast(r), ChatGrows(r)
    PROVE  Sent(n)' /\ Opens(n)'
<1>1. Sessions /\ Sent(n) /\ Opens(n)
  BY DEF ToldInv
<1>2. n.by # r
  BY <1>1 DEF Sent, Commits, Committed
<1>3. Changers(n.about) \subseteq Changers(n.about)'
  BY <1>1, OnGrows DEF Changers
<1>4. n.by \in Requests' => Committed(n.by)'
  BY <1>1, <1>2 DEF Sent, Commits, Committed, Requests
<1>5. CASE n.about[1] \notin DOMAIN ToldTables
  <2>1. \A a : MayOpen(db', a, n.about)
    BY <1>5, TellKinds DEF MayOpen
  <2> QED
    BY <1>4, <1>5, <2>1 DEF Sent, Opens
<1>6. CASE n.about[1] \in DOMAIN ToldTables
  <2>1. PICK kind, x : kind \in DOMAIN ToldTables /\ kind = n.about[1] /\ x = n.about[2]
    BY <1>6
  <2>2. PICK t : t = ToldTables[kind]
    OBVIOUS
  <2>3. x \in DOMAIN db[t] /\ x \in DOMAIN db'[t] /\ (Alike(kind, db[t][x], db'[t][x]) \/ Changes(r, kind, x))
    BY <1>1, <2>1, <2>2 DEF Sent, ThingsKept
  <2>4. \A y : association_exists(db, y) => association_exists(db', y)
    BY DEF AssociationsLast, association_exists, IsLive
  <2>5. ASSUME NEW a \in n.to
        PROVE  MayOpen(db', a, n.about) \/ ToldBesides(db', a, n.about) \/ Changers(n.about)' \ {n.by} # {}
    <3>1. CASE Changes(r, kind, x)
      BY <1>2, <2>1, <3>1, ChangesTold
    <3>2. CASE Alike(kind, db[t][x], db'[t][x]) /\ MayOpen(db, a, n.about)
      BY <2>1, <2>2, <2>3, <2>4, <3>2, AlikeOpens
    <3>3. CASE Alike(kind, db[t][x], db'[t][x]) /\ ToldBesides(db, a, n.about)
      <4>1. \A k \in DOMAIN db.chat : k \in DOMAIN db'.chat /\ db'.chat[k] = db.chat[k]
        BY DEF ChatGrows
      <4> QED
        BY <2>1, <2>2, <2>3, <3>3, <4>1, AlikeBesides
    <3>4. CASE Changers(n.about) \ {n.by} # {}
      BY <1>3, <3>4
    <3> QED
      BY <1>1, <2>3, <3>1, <3>2, <3>3, <3>4 DEF Opens
  <2> QED
    BY <1>4, <2>1, <2>2, <2>3, <2>5 DEF Sent, Opens
<1> QED
  BY <1>5, <1>6

\* The things of a kind are as the invariant says after a commit.
LEMMA CommitThings ==
    ASSUME ToldInv, NEW r \in Requests, Commits(r), NEW kind \in DOMAIN ToldTables, ThingsKept(r, kind)
    PROVE  ThingsTold(kind)'
<1>0. PICK t : t = ToldTables[kind]
  OBVIOUS
<1>1. /\ t \in DOMAIN db'
      /\ DOMAIN db[t] \subseteq DOMAIN db'[t] /\ DOMAIN db'[t] \subseteq DOMAIN db[t] \cup {r}
      /\ \A x \in DOMAIN db'[t] : AuthorizedBy[kind] \subseteq DOMAIN db'[t][x]
      /\ \A x \in DOMAIN db[t] : Alike(kind, db[t][x], db'[t][x]) \/ Changes(r, kind, x)
      /\ r \in DOMAIN db'[t] => Rightful(kind, db'[t][r])
  BY <1>0, Zenon DEF ThingsKept
<1>2. /\ \A x \in DOMAIN db[t] : Rightful(kind, db[t][x]) \/ Changers(<<kind, x>>) # {}
      /\ \A q \in Requests : stage[q] \in {"waiting", "open"} => q \notin DOMAIN db[t]
      /\ Sessions
  BY <1>0 DEF ToldInv, ThingsTold
<1>3. \A q \in Requests' : stage'[q] \in {"waiting", "open"} => q \notin DOMAIN db'[t]
  <2>1. \A q \in Requests : stage'[q] \in {"waiting", "open"} => q # r /\ stage'[q] = stage[q]
    BY DEF Commits, Committed
  <2> QED
    BY <1>1, <1>2, <2>1 DEF Commits, Requests
<1>4. ASSUME NEW x \in DOMAIN db'[t]
      PROVE  Rightful(kind, db'[t][x]) \/ Changers(<<kind, x>>)' # {}
  <2>1. CASE x = r
    BY <1>1, <2>1
  <2>2. CASE x \in DOMAIN db[t] /\ Changes(r, kind, x)
    <3>1. r \in Changers(<<kind, x>>)'
      BY <2>2, ChangesTold
    <3> QED
      BY <3>1
  <2>3. CASE x \in DOMAIN db[t] /\ Changers(<<kind, x>>) # {}
    <3>1. Changers(<<kind, x>>) \subseteq Changers(<<kind, x>>)'
      BY <1>2, OnGrows DEF Changers
    <3> QED
      BY <2>3, <3>1
  <2>4. CASE x \in DOMAIN db[t] /\ Alike(kind, db[t][x], db'[t][x]) /\ Rightful(kind, db[t][x])
    <3>1. PICK row, new : row = db[t][x] /\ new = db'[t][x] /\ Alike(kind, row, new) /\ Rightful(kind, row)
      BY <2>4
    <3>2. Rightful(kind, new)
      <4>1. CASE kind = "item"
        BY <3>1, <4>1 DEF Rightful, Alike, AuthorizedBy
      <4>2. CASE kind = "task"
        BY <3>1, <4>2 DEF Rightful, Alike, AuthorizedBy
      <4>3. CASE kind = "request"
        BY <3>1, <4>3 DEF Rightful, Alike, AuthorizedBy
      <4>4. CASE kind \notin {"item", "task", "request"}
        BY <4>4 DEF Rightful
      <4> QED
        BY <4>1, <4>2, <4>3, <4>4
    <3> QED
      BY <3>1, <3>2
  <2> QED
    BY <1>1, <1>2, <2>1, <2>2, <2>3, <2>4
<1> QED
  BY <1>0, <1>1, <1>3, <1>4 DEF ThingsTold

\* What the snapshots show after it.
LEMMA CommitShown ==
    ASSUME ToldInv, NEW r \in Requests, Commits(r), NEW kind \in DOMAIN ToldTables, ThingsKept(r, kind),
           NEW q \in Requests, stage'[q] = "open"
    PROVE  ShowsThings(q, kind)'
<1>0. PICK t : t = ToldTables[kind]
  OBVIOUS
<1>1. /\ DOMAIN db[t] \subseteq DOMAIN db'[t]
      /\ \A x \in DOMAIN db[t] : Alike(kind, db[t][x], db'[t][x]) \/ Changes(r, kind, x)
  BY <1>0, Zenon DEF ThingsKept
<1>2. q # r /\ stage[q] = "open" /\ seen'[q] = seen[q] /\ missed'[q] = missed[q] \cup {r} /\ Sessions
  BY DEF Commits, Committed, ToldInv
<1>3. ASSUME NEW x \in DOMAIN seen[q][t]
      PROVE  /\ x \in DOMAIN db'[t] /\ AuthorizedBy[kind] \subseteq DOMAIN seen[q][t][x]
             /\ (Alike(kind, seen[q][t][x], db'[t][x]) \/ missed'[q] \cap Changers(<<kind, x>>)' # {})
  <2>1. /\ x \in DOMAIN db[t] /\ AuthorizedBy[kind] \subseteq DOMAIN seen[q][t][x]
        /\ (Alike(kind, seen[q][t][x], db[t][x]) \/ missed[q] \cap Changers(<<kind, x>>) # {})
    BY <1>0, <1>2 DEF ToldInv, ShowsThings
  <2>2. Changers(<<kind, x>>) \subseteq Changers(<<kind, x>>)'
    BY <1>2, OnGrows DEF Changers
  <2>3. Changes(r, kind, x) => r \in Changers(<<kind, x>>)'
    BY ChangesTold
  <2>4. Alike(kind, seen[q][t][x], db[t][x]) /\ Alike(kind, db[t][x], db'[t][x]) => Alike(kind, seen[q][t][x], db'[t][x])
    BY DEF Alike
  <2> QED
    BY <1>1, <1>2, <2>1, <2>2, <2>3, <2>4
<1> QED
  BY <1>0, <1>2, <1>3 DEF ShowsThings

\* A commit that keeps the things and tells whom it may preserves the invariant.
LEMMA CommitTold ==
    ASSUME ToldInv, NEW r \in Requests, Commits(r), DOMAIN db' = DOMAIN db,
           \A kind \in DOMAIN ToldTables : ThingsKept(r, kind), AssociationsLast(r), ChatGrows(r), TellsWell(r)
    PROVE  ToldInv'
<1>1. Sessions' /\ body' = body /\ Requests' = Requests
  BY StepSessions, Zenon DEF ToldInv, Commits, Requests
<1>2. /\ \A kind \in DOMAIN ToldTables : ThingsTold(kind)'
      /\ \A q \in Requests : stage'[q] = "open" => \A kind \in DOMAIN ToldTables : ShowsThings(q, kind)'
  BY CommitThings, CommitShown
<1>3. \A q \in Requests : stage'[q] \in {"waiting", "open"} => q # r /\ stage'[q] = stage[q] /\ seen'[q] = seen[q]
  BY DEF Commits, Committed
<1>4. \A q \in Requests : stage'[q] \in {"waiting", "open"} => q \notin DOMAIN db'.chat \cup DOMAIN db'.associations
  BY <1>3 DEF ToldInv, AssociationsLast, ChatGrows
<1>5. ASSUME NEW q \in Requests, stage'[q] = "open"
      PROVE  ShowsAssociations(q)'
  <2>1. \A a : association_exists(db, a) => association_exists(db', a)
    BY DEF AssociationsLast, association_exists, IsLive
  <2>2. stage[q] = "open" /\ seen'[q] = seen[q]
    BY <1>3, <1>5
  <2>3. /\ \A a : association_exists(seen[q], a) => association_exists(db, a)
        /\ \A a \in DOMAIN seen[q].associations : "deleted" \in DOMAIN seen[q].associations[a]
    BY <2>2 DEF ToldInv, ShowsAssociations
  <2> QED
    BY <2>1, <2>2, <2>3 DEF ShowsAssociations
<1>6. ASSUME NEW n \in Notices'
      PROVE  Sent(n)' /\ Opens(n)'
  <2>1. CASE n \in Notices
    BY <2>1, OpensStay
  <2>2. CASE n \notin Notices
    <3>1. /\ n.by = r /\ Opens(n)'
          /\ n.about[1] \in DOMAIN ToldTables => n.about[2] \in DOMAIN db'[ToldTables[n.about[1]]]
      BY <1>6, <2>2 DEF TellsWell
    <3>2. Committed(r)'
      BY DEF Commits
    <3> QED
      BY <3>1, <3>2 DEF Sent, Committed
  <2> QED
    BY <2>1, <2>2
<1>7. \A a \in DOMAIN db'.associations : "deleted" \in DOMAIN db'.associations[a]
  BY DEF AssociationsLast
<1> QED
  BY <1>1, <1>2, <1>4, <1>5, <1>6, <1>7 DEF ToldInv

\* A step that writes no table preserves it.
LEMMA IdleTold ==
    ASSUME ToldInv, Idle
    PROVE  ToldInv'
<1>1. Sessions' /\ Requests' = Requests /\ body' = body /\ db' = db /\ missed' = missed
  BY StepSessions DEF ToldInv, Idle, Requests
<1>2. \A about : Changers(about)' = Changers(about)
  BY <1>1 DEF Idle, On, Changers
<1>3. \A kind \in DOMAIN ToldTables : ThingsTold(kind)'
  BY <1>1, <1>2 DEF ToldInv, ThingsTold, Idle
<1>4. ASSUME NEW q \in Requests, stage'[q] = "open"
      PROVE  ShowsAssociations(q)' /\ \A kind \in DOMAIN ToldTables : ShowsThings(q, kind)'
  <2>1. CASE stage[q] = "open"
    <3>1. seen'[q] = seen[q]
      BY <1>4, <2>1 DEF Idle
    <3> QED
      BY <1>1, <1>2, <2>1, <3>1 DEF ToldInv, ShowsAssociations, ShowsThings
  <2>2. CASE stage[q] # "open"
    <3>1. seen'[q] = db
      BY <1>4, <2>2 DEF Idle
    <3> QED
      BY <1>1, <3>1, Zenon DEF ShowsAssociations, ShowsThings, Alike, ToldInv, ThingsTold
  <2> QED
    BY <2>1, <2>2
<1>5. \A n \in Notices : Sent(n)' /\ Opens(n)'
  BY <1>1, <1>2 DEF ToldInv, Idle, Sent, Opens
<1>6. \A q \in Requests : stage'[q] \in {"waiting", "open"} => q \notin DOMAIN db'.chat \cup DOMAIN db'.associations
  BY <1>1 DEF ToldInv, Idle
<1>7. Notices' = Notices /\ \A a \in DOMAIN db'.associations : "deleted" \in DOMAIN db'.associations[a]
  BY <1>1 DEF Notices, ToldInv
<1> QED
  BY <1>1, <1>3, <1>4, <1>5, <1>6, <1>7 DEF ToldInv

\* What stays is kept.
LEMMA ThingsStay ==
    ASSUME ToldInv, NEW r \in Requests, Commits(r), NEW kind \in DOMAIN ToldTables,
           ToldTables[kind] \in DOMAIN db', db'[ToldTables[kind]] = db[ToldTables[kind]]
    PROVE  ThingsKept(r, kind)
  BY Zenon DEF ToldInv, ThingsTold, ThingsKept, Alike, Commits

\* A row of the thing is edited and keeps its columns; it is saved; it is deleted.
EditsRow(r, kind, t, x) ==
    /\ kind \in DOMAIN ToldTables /\ t = ToldTables[kind] /\ t \in DOMAIN db'
    /\ Changes(r, kind, x)
    /\ DOMAIN db'[t] = DOMAIN db[t]
    /\ \A y \in DOMAIN db[t] : db'[t][y] = db[t][y] \/ (y = x /\ DOMAIN db[t][y] \subseteq DOMAIN db'[t][y])

SavesRow(r, kind, t, x, wanted) ==
    /\ kind \in DOMAIN ToldTables /\ t = ToldTables[kind] /\ t \in DOMAIN db'
    /\ db'[t] = Save(db[t], seen[r][t], x, wanted)
    /\ (Alike(kind, seen[r][t][x], wanted) \/ Changes(r, kind, x))

DeletesRow(r, kind, t, x) ==
    /\ kind \in DOMAIN ToldTables /\ t = ToldTables[kind] /\ t \in DOMAIN db'
    /\ Changes(r, kind, x)
    /\ (db'[t] = Delete(db[t], seen[r][t], {x}) \/ db'[t] = [db[t] EXCEPT ![x].deleted = TRUE])

LEMMA RowEdited ==
    ASSUME ToldInv, NEW r \in Requests, Commits(r), NEW kind, NEW t, NEW x, EditsRow(r, kind, t, x)
    PROVE  ThingsKept(r, kind)
<1>1. /\ \A y \in DOMAIN db[t] : AuthorizedBy[kind] \subseteq DOMAIN db[t][y]
      /\ r \notin DOMAIN db[t]
  BY Zenon DEF ToldInv, ThingsTold, Commits, EditsRow
<1> QED
  BY <1>1 DEF ThingsKept, Alike, EditsRow

\* A row saved has the columns it had, and those that the edit leaves as they were loaded.
Keeping(kind, row, loaded, wanted) ==
    LET new == Changed(row, loaded, wanted)
    IN  /\ DOMAIN new = DOMAIN row
        /\ Alike(kind, loaded, wanted) => Alike(kind, row, new)

LEMMA SavedKeeping ==
    ASSUME NEW kind, NEW row, NEW loaded, NEW wanted, AuthorizedBy[kind] \subseteq DOMAIN row
    PROVE  Keeping(kind, row, loaded, wanted)
  BY DEF Keeping, Changed, Alike

LEMMA RowSaved ==
    ASSUME ToldInv, NEW r \in Requests, Commits(r), NEW kind, NEW t, NEW x, NEW wanted,
           SavesRow(r, kind, t, x, wanted)
    PROVE  ThingsKept(r, kind)
<1>1. /\ \A y \in DOMAIN db[t] : AuthorizedBy[kind] \subseteq DOMAIN db[t][y]
      /\ r \notin DOMAIN db[t]
  BY Zenon DEF ToldInv, ThingsTold, Commits, SavesRow
<1>2. /\ DOMAIN db'[t] = DOMAIN db[t]
      /\ \A y \in DOMAIN db[t] : \/ db'[t][y] = db[t][y]
                               \/ (y = x /\ db'[t][y] = Changed(db[t][y], seen[r][t][x], wanted))
  BY DEF Save, SavesRow
<1>3. ASSUME NEW y \in DOMAIN db[t]
      PROVE  /\ AuthorizedBy[kind] \subseteq DOMAIN db'[t][y]
             /\ (Alike(kind, db[t][y], db'[t][y]) \/ Changes(r, kind, y))
  <2>1. CASE db'[t][y] = db[t][y]
    BY <1>1, <2>1 DEF Alike
  <2>2. CASE y = x /\ db'[t][y] = Changed(db[t][y], seen[r][t][x], wanted)
    <3>1. Keeping(kind, db[t][y], seen[r][t][x], wanted)
      BY <1>1, <1>3, SavedKeeping, Zenon
    <3> QED
      BY <1>1, <2>2, <3>1 DEF Keeping, SavesRow
  <2> QED
    BY <1>2, <2>1, <2>2
<1> QED
  BY <1>1, <1>2, <1>3 DEF ThingsKept, SavesRow

\* A table from which a row is deleted.
LEMMA RowDeleted ==
    ASSUME ToldInv, NEW r \in Requests, Commits(r), NEW kind, NEW t, NEW x, DeletesRow(r, kind, t, x)
    PROVE  ThingsKept(r, kind)
<1>1. /\ DOMAIN db'[t] = DOMAIN db[t]
      /\ \A y \in DOMAIN db[t] : \/ db'[t][y] = db[t][y]
                               \/ (y = x /\ db'[t][y] = [db[t][y] EXCEPT !.deleted = TRUE])
  <2>1. CASE db'[t] = Delete(db[t], seen[r][t], {x})
    BY <2>1, Zenon DEF Delete, Mark
  <2>2. CASE db'[t] = [db[t] EXCEPT ![x].deleted = TRUE]
    BY <2>2, Zenon
  <2> QED
    BY <2>1, <2>2 DEF DeletesRow
<1>2. \A y \in DOMAIN db[t] : db'[t][y] = db[t][y] \/ (y = x /\ DOMAIN db[t][y] \subseteq DOMAIN db'[t][y])
  BY <1>1, Zenon
<1>3. EditsRow(r, kind, t, x)
  BY <1>1, <1>2 DEF DeletesRow, EditsRow
<1> QED
  BY <1>3, RowEdited, Zenon

\* The handlers that edit or delete a thing.
LEMMA EditsKeep ==
    ASSUME ToldInv, NEW r \in Requests, Commits(r)
    PROVE  /\ update_poll(r) \/ delete_poll(r) => ThingsKept(r, "poll")
           /\ update_event(r) \/ delete_event(r) => ThingsKept(r, "event")
           /\ update_announcement(r) \/ delete_announcement(r) => ThingsKept(r, "announcement")
           /\ update_item(r) \/ delete_item(r) => ThingsKept(r, "item")
           /\ map_service_request(r) \/ delete_service_request(r) => ThingsKept(r, "request")
           /\ delete_task(r) => ThingsKept(r, "task")
           /\ update_details(r) \/ delete_meeting(r) => ThingsKept(r, "meeting")
<1>1. Sessions /\ {"polls", "events", "announcements", "items", "serviceRequests", "boardTasks", "meetings"} \subseteq DOMAIN db
  BY TellKinds DEF ToldInv, ThingsTold
<1>2. \A kind \in DOMAIN ToldTables : body[r].op \in Changing[kind] => Changes(r, kind, body[r][kind])
  BY DEF Changes
<1> DEFINE b == body[r]
<1>3. ASSUME update_poll(r)
      PROVE  ThingsKept(r, "poll")
  <2>1. /\ body[r].op = "update_poll"
        /\ "polls" \in DOMAIN db'
        /\ db'.polls = Save(db.polls, seen[r].polls, b.poll, With(seen[r].polls[b.poll], b.columns))
    BY <1>1, <1>3, Decided, ZenonT(30) DEF update_poll, Decide, Commit, Asks
  <2>2. Changes(r, "poll", b.poll)
    BY <1>2, <2>1, TellKinds DEF Changing
  <2>3. SavesRow(r, "poll", "polls", b.poll, With(seen[r].polls[b.poll], b.columns))
    BY <2>1, <2>2, TellKinds DEF SavesRow
  <2> QED
    BY <2>3, RowSaved, Zenon
<1>4. ASSUME delete_poll(r)
      PROVE  ThingsKept(r, "poll")
  <2>1. /\ body[r].op = "delete_poll"
        /\ "polls" \in DOMAIN db'
        /\ db'.polls = Delete(db.polls, seen[r].polls, {b.poll})
    BY <1>1, <1>4, Decided, ZenonT(30) DEF delete_poll, Decide, Commit, Asks
  <2>2. Changes(r, "poll", b.poll)
    BY <1>2, <2>1, TellKinds DEF Changing
  <2>3. DeletesRow(r, "poll", "polls", b.poll)
    BY <2>1, <2>2, TellKinds DEF DeletesRow
  <2> QED
    BY <2>3, RowDeleted, Zenon
<1>5. ASSUME update_event(r)
      PROVE  ThingsKept(r, "event")
  <2>1. /\ body[r].op = "update_event"
        /\ "events" \in DOMAIN db'
        /\ db'.events = Save(db.events, seen[r].events, b.event, With(seen[r].events[b.event], event_columns(b.columns)))
    BY <1>1, <1>5, Decided, ZenonT(30) DEF update_event, Decide, Commit, Asks
  <2>2. Changes(r, "event", b.event)
    BY <1>2, <2>1, TellKinds DEF Changing
  <2>3. SavesRow(r, "event", "events", b.event, With(seen[r].events[b.event], event_columns(b.columns)))
    BY <2>1, <2>2, TellKinds DEF SavesRow
  <2> QED
    BY <2>3, RowSaved, Zenon
<1>6. ASSUME delete_event(r)
      PROVE  ThingsKept(r, "event")
  <2>1. /\ body[r].op = "delete_event"
        /\ "events" \in DOMAIN db'
        /\ db'.events = Delete(db.events, seen[r].events, {b.event})
    BY <1>1, <1>6, Decided, ZenonT(30) DEF delete_event, Decide, Commit, Asks
  <2>2. Changes(r, "event", b.event)
    BY <1>2, <2>1, TellKinds DEF Changing
  <2>3. DeletesRow(r, "event", "events", b.event)
    BY <2>1, <2>2, TellKinds DEF DeletesRow
  <2> QED
    BY <2>3, RowDeleted, Zenon
<1>7. ASSUME update_announcement(r)
      PROVE  ThingsKept(r, "announcement")
  <2>1. /\ body[r].op = "update_announcement"
        /\ "announcements" \in DOMAIN db'
        /\ db'.announcements = Save(db.announcements, seen[r].announcements, b.announcement,
                                    With(seen[r].announcements[b.announcement], b.columns))
    BY <1>1, <1>7, Decided, ZenonT(30) DEF update_announcement, Decide, Commit, Asks
  <2>2. Changes(r, "announcement", b.announcement)
    BY <1>2, <2>1, TellKinds DEF Changing
  <2>3. SavesRow(r, "announcement", "announcements", b.announcement, With(seen[r].announcements[b.announcement], b.columns))
    BY <2>1, <2>2, TellKinds DEF SavesRow
  <2> QED
    BY <2>3, RowSaved, Zenon
<1>8. ASSUME delete_announcement(r)
      PROVE  ThingsKept(r, "announcement")
  <2>1. /\ body[r].op = "delete_announcement"
        /\ "announcements" \in DOMAIN db'
        /\ db'.announcements = Delete(db.announcements, seen[r].announcements, {b.announcement})
    BY <1>1, <1>8, Decided, ZenonT(30) DEF delete_announcement, Decide, Commit, Asks
  <2>2. Changes(r, "announcement", b.announcement)
    BY <1>2, <2>1, TellKinds DEF Changing
  <2>3. DeletesRow(r, "announcement", "announcements", b.announcement)
    BY <2>1, <2>2, TellKinds DEF DeletesRow
  <2> QED
    BY <2>3, RowDeleted, Zenon
<1>9. ASSUME update_item(r)
      PROVE  ThingsKept(r, "item")
  <2> DEFINE images == IF b.images = None THEN db.images
                       ELSE With(Delete(db.images, db.images, images_of(db, b.item)), new_images(r, b.item, b.images))
             items == [db.items EXCEPT ![b.item] = With(@, b.columns)]
  <2>0. body[r].op = "update_item" /\ db' = [db EXCEPT !.items = items, !.images = images]
    BY <1>1, <1>9, Decided, ZenonT(30) DEF update_item, Decide, Commit, Asks
  <2> HIDE DEF images
  <2>1. "items" \in DOMAIN db' /\ db'.items = [db.items EXCEPT ![b.item] = With(@, b.columns)]
    BY <1>1, <2>0
  <2>2. Changes(r, "item", b.item)
    BY <1>2, <2>0, TellKinds DEF Changing
  <2>3. /\ DOMAIN db'.items = DOMAIN db.items
        /\ \A y \in DOMAIN db.items : \/ db'.items[y] = db.items[y]
                                     \/ (y = b.item /\ db'.items[y] = With(db.items[y], b.columns))
    BY <2>1
  <2>4. \A y \in DOMAIN db.items : DOMAIN db.items[y] \subseteq DOMAIN With(db.items[y], b.columns)
    BY DEF With
  <2>5. \A y \in DOMAIN db.items : \/ db'.items[y] = db.items[y]
                                  \/ (y = b.item /\ DOMAIN db.items[y] \subseteq DOMAIN db'.items[y])
    BY <2>3, <2>4
  <2>6. EditsRow(r, "item", "items", b.item)
    BY <2>1, <2>2, <2>3, <2>5, TellKinds DEF EditsRow
  <2> QED
    BY <2>6, RowEdited, Zenon
<1>10. ASSUME delete_item(r)
      PROVE  ThingsKept(r, "item")
  <2>1. /\ body[r].op = "delete_item"
        /\ "items" \in DOMAIN db'
        /\ db'.items = [db.items EXCEPT ![b.item].deleted = TRUE]
    BY <1>1, <1>10, Decided, ZenonT(30) DEF delete_item, Decide, Commit, Asks
  <2>2. Changes(r, "item", b.item)
    BY <1>2, <2>1, TellKinds DEF Changing
  <2>3. DeletesRow(r, "item", "items", b.item)
    BY <2>1, <2>2, TellKinds DEF DeletesRow
  <2> QED
    BY <2>3, RowDeleted, Zenon
<1>11. ASSUME map_service_request(r)
      PROVE  ThingsKept(r, "request")
  <2>1. /\ body[r].op = "map_service"
        /\ "serviceRequests" \in DOMAIN db'
        /\ db'.serviceRequests = Save(db.serviceRequests, seen[r].serviceRequests, b.request,
                 [seen[r].serviceRequests[b.request] EXCEPT !.association = b.association, !.unit = b.unit, !.user = b.user])
    BY <1>1, <1>11, Decided, ZenonT(30) DEF map_service_request, Decide, Commit, Asks
  <2>2. Changes(r, "request", b.request)
    BY <1>2, <2>1, TellKinds DEF Changing
  <2>3. SavesRow(r, "request", "serviceRequests", b.request, [seen[r].serviceRequests[b.request] EXCEPT !.association = b.association, !.unit = b.unit, !.user = b.user])
    BY <2>1, <2>2, TellKinds DEF SavesRow
  <2> QED
    BY <2>3, RowSaved, Zenon
<1>12. ASSUME delete_service_request(r)
      PROVE  ThingsKept(r, "request")
  <2>1. /\ body[r].op = "delete_service"
        /\ "serviceRequests" \in DOMAIN db'
        /\ db'.serviceRequests = Delete(db.serviceRequests, seen[r].serviceRequests, {b.request})
    BY <1>1, <1>12, Decided, ZenonT(30) DEF delete_service_request, Decide, Commit, Asks
  <2>2. Changes(r, "request", b.request)
    BY <1>2, <2>1, TellKinds DEF Changing
  <2>3. DeletesRow(r, "request", "serviceRequests", b.request)
    BY <2>1, <2>2, TellKinds DEF DeletesRow
  <2> QED
    BY <2>3, RowDeleted, Zenon
<1>13. ASSUME delete_task(r)
      PROVE  ThingsKept(r, "task")
  <2>1. /\ body[r].op = "delete_task"
        /\ "boardTasks" \in DOMAIN db'
        /\ db'.boardTasks = Delete(db.boardTasks, seen[r].boardTasks, {b.task})
    BY <1>1, <1>13, Decided, ZenonT(30) DEF delete_task, Decide, Commit, Asks
  <2>2. Changes(r, "task", b.task)
    BY <1>2, <2>1, TellKinds DEF Changing
  <2>3. DeletesRow(r, "task", "boardTasks", b.task)
    BY <2>1, <2>2, TellKinds DEF DeletesRow
  <2> QED
    BY <2>3, RowDeleted, Zenon
<1>14. ASSUME update_details(r)
      PROVE  ThingsKept(r, "meeting")
  <2>1. /\ body[r].op = "update_meeting"
        /\ "meetings" \in DOMAIN db'
        /\ db'.meetings = Save(db.meetings, seen[r].meetings, b.meeting, With(seen[r].meetings[b.meeting], b.columns))
    BY <1>1, <1>14, Decided, ZenonT(30) DEF update_details, Decide, Commit, Asks
  <2>2. Changes(r, "meeting", b.meeting)
    BY <1>2, <2>1, TellKinds DEF Changing
  <2>3. SavesRow(r, "meeting", "meetings", b.meeting, With(seen[r].meetings[b.meeting], b.columns))
    BY <2>1, <2>2, TellKinds DEF SavesRow
  <2> QED
    BY <2>3, RowSaved, Zenon
<1>15. ASSUME delete_meeting(r)
      PROVE  ThingsKept(r, "meeting")
  <2>1. /\ body[r].op = "delete_meeting"
        /\ "meetings" \in DOMAIN db'
        /\ db'.meetings = Delete(db.meetings, seen[r].meetings, {b.meeting})
    BY <1>1, <1>15, Decided, ZenonT(30) DEF delete_meeting, Decide, Commit, Asks
  <2>2. Changes(r, "meeting", b.meeting)
    BY <1>2, <2>1, TellKinds DEF Changing
  <2>3. DeletesRow(r, "meeting", "meetings", b.meeting)
    BY <2>1, <2>2, TellKinds DEF DeletesRow
  <2> QED
    BY <2>3, RowDeleted, Zenon
<1> QED
  BY <1>3, <1>4, <1>5, <1>6, <1>7, <1>8, <1>9, <1>10, <1>11, <1>12, <1>13, <1>14, <1>15

\* A row is added with the columns of its kind, and names those it may.
AddsRow(r, kind, t, row) ==
    /\ kind \in DOMAIN ToldTables /\ t = ToldTables[kind] /\ t \in DOMAIN db'
    /\ db'[t] = With(db[t], [k \in {r} |-> row])
    /\ AuthorizedBy[kind] \subseteq DOMAIN row /\ Rightful(kind, row)

Added(r, kind, t, row) == ThingsKept(r, kind) /\ r \in DOMAIN db'[t] /\ db'[t][r] = row

LEMMA RowAdded ==
    ASSUME ToldInv, NEW r \in Requests, Commits(r), NEW kind, NEW t, NEW row, AddsRow(r, kind, t, row)
    PROVE  Added(r, kind, t, row)
<1>1. /\ \A x \in DOMAIN db[t] : AuthorizedBy[kind] \subseteq DOMAIN db[t][x]
      /\ r \notin DOMAIN db[t]
  BY Zenon DEF ToldInv, ThingsTold, Commits, AddsRow
<1>2. /\ DOMAIN db'[t] = DOMAIN db[t] \cup {r} /\ db'[t][r] = row
      /\ \A x \in DOMAIN db[t] : db'[t][x] = db[t][x]
  BY <1>1 DEF With, AddsRow
<1> QED
  BY <1>1, <1>2 DEF ThingsKept, Alike, AddsRow, Added

\* The handlers that add one.
LEMMA CreatesAdd ==
    ASSUME ToldInv, NEW r \in Requests, Commits(r)
    PROVE  /\ create_poll(r) => \E row : Added(r, "poll", "polls", row)
           /\ create_event(r) => \E row : Added(r, "event", "events", row)
           /\ create_announcement(r) => \E row : Added(r, "announcement", "announcements", row)
           /\ create_item(r) => \E row : Added(r, "item", "items", row)
           /\ create_service_request(r) => \E row : Added(r, "request", "serviceRequests", row)
           /\ create_task(r) => \E row : Added(r, "task", "boardTasks", row)
           /\ create_meeting(r) => \E row : Added(r, "meeting", "meetings", row)
<1>1. Sessions /\ {"polls", "events", "announcements", "items", "serviceRequests", "boardTasks", "meetings"} \subseteq DOMAIN db
  BY TellKinds DEF ToldInv, ThingsTold
<1>2. body[r].op = "create_poll" => "visibility" \in DOMAIN body[r].columns
  BY Payloads DEF ToldInv, Requests
<1>3. body[r].op \in {"create_event", "create_announcement"} => "audience" \in DOMAIN body[r].columns
  BY Payloads DEF ToldInv, Requests
<1>4. body[r].op = "create_meeting" => {"audience", "block"} \subseteq DOMAIN body[r].columns
  BY Payloads DEF ToldInv, Requests
<1> DEFINE b == body[r]
<1>5. ASSUME create_poll(r)
      PROVE  \E row : Added(r, "poll", "polls", row)
  <2> DEFINE association == IF b.association = None /\ RoleOf[b.by] = "board_member"
                            THEN HomeOf[b.by] ELSE b.association
             row == With(b.columns, [association |-> association, created |-> now, deleted |-> FALSE])
  <2>1. /\ body[r].op = "create_poll" /\ "polls" \in DOMAIN db'
        /\ db'.polls = With(db.polls, [k \in {r} |-> row])
    BY <1>1, <1>5, Decided, ZenonT(30) DEF create_poll, Decide, Commit, Asks
  <2>2. AuthorizedBy["poll"] \subseteq DOMAIN row
    BY <1>2, <2>1 DEF With, AuthorizedBy
  <2> HIDE DEF row
  <2>3. AddsRow(r, "poll", "polls", row)
    BY <2>1, <2>2, TellKinds DEF AddsRow, Rightful
  <2> QED
    BY <2>3, RowAdded, Zenon
<1>6. ASSUME create_event(r)
      PROVE  \E row : Added(r, "event", "events", row)
  <2> DEFINE association == IF b.association = None /\ RoleOf[b.by] = "board_member"
                            THEN HomeOf[b.by] ELSE b.association
             row == With(event_columns(b.columns), [association |-> association, created |-> now, deleted |-> FALSE])
  <2>1. /\ body[r].op = "create_event" /\ "events" \in DOMAIN db'
        /\ db'.events = With(db.events, [k \in {r} |-> row])
    BY <1>1, <1>6, Decided, ZenonT(30) DEF create_event, Decide, Commit, Asks
  <2>2. AuthorizedBy["event"] \subseteq DOMAIN row
    <3>1. DOMAIN event_columns(b.columns) = DOMAIN b.columns
      BY DEF event_columns
    <3> QED
      BY <1>3, <2>1, <3>1 DEF With, AuthorizedBy
  <2> HIDE DEF row
  <2>3. AddsRow(r, "event", "events", row)
    BY <2>1, <2>2, TellKinds DEF AddsRow, Rightful
  <2> QED
    BY <2>3, RowAdded, Zenon
<1>7. ASSUME create_announcement(r)
      PROVE  \E row : Added(r, "announcement", "announcements", row)
  <2> DEFINE association == IF b.association = None /\ RoleOf[b.by] = "board_member"
                            THEN HomeOf[b.by] ELSE b.association
             row == With(b.columns, [association |-> association, created |-> now, deleted |-> FALSE])
  <2>1. /\ body[r].op = "create_announcement" /\ "announcements" \in DOMAIN db'
        /\ db'.announcements = With(db.announcements, [k \in {r} |-> row])
    BY <1>1, <1>7, Decided, ZenonT(30) DEF create_announcement, Decide, Commit, Asks
  <2>2. AuthorizedBy["announcement"] \subseteq DOMAIN row
    BY <1>3, <2>1 DEF With, AuthorizedBy
  <2> HIDE DEF row
  <2>3. AddsRow(r, "announcement", "announcements", row)
    BY <2>1, <2>2, TellKinds DEF AddsRow, Rightful
  <2> QED
    BY <2>3, RowAdded, Zenon
<1>8. ASSUME create_item(r)
      PROVE  \E row : Added(r, "item", "items", row)
  <2> DEFINE choices == CASE b.association # None -> {b.association}
                          [] RoleOf[b.by] = "super_admin" -> {}
                          [] OTHER -> scope(b.by)
             Row(a) == With(b.columns, [association |-> a, owner |-> b.by, deleted |-> FALSE])
             images == With(db.images, new_images(r, r, b.images))
  <2>0. IF choices = {} THEN Refuse(r)
        ELSE \E a \in choices :
               Decide(r, InScope(b.by, a) /\ association_exists(seen[r], a), FALSE,
                      [db EXCEPT !.items = With(@, [k \in {r} |-> Row(a)]), !.images = images])
    BY <1>8, Zenon DEF create_item
  <2> HIDE DEF choices, Row, images
  <2>1. \E a : /\ InScope(b.by, a)
              /\ db' = [db EXCEPT !.items = With(@, [k \in {r} |-> Row(a)]), !.images = images]
    BY <1>1, <2>0, Decided, ZenonT(30) DEF Decide, Commit
  <2>2. PICK association, row :
           /\ row = With(b.columns, [association |-> association, owner |-> b.by, deleted |-> FALSE])
           /\ InScope(b.by, association) /\ "items" \in DOMAIN db'
           /\ db'.items = With(db.items, [k \in {r} |-> row])
    BY <1>1, <2>1, Zenon DEF Row
  <2>3. /\ AuthorizedBy["item"] \subseteq DOMAIN row
        /\ row.owner = b.by /\ row.association = association
    BY <2>2 DEF With, AuthorizedBy
  <2>4. AddsRow(r, "item", "items", row)
    BY <2>2, <2>3, TellKinds, Zenon DEF AddsRow, Rightful
  <2> QED
    BY <2>4, RowAdded, Zenon
<1>9. ASSUME create_service_request(r)
      PROVE  \E row : Added(r, "request", "serviceRequests", row)
  <2> DEFINE user == IF b.user # None THEN b.user ELSE b.by
             row == [user |-> user, association |-> HomeOf[user], unit |-> UnitOf[user],
                     display |-> _display_id(seen[r], user),
                     status |-> IF b.user # None THEN "In Progress" ELSE "New", deleted |-> FALSE]
  <2>1. /\ body[r].op = "create_service" /\ "serviceRequests" \in DOMAIN db'
        /\ db'.serviceRequests = With(db.serviceRequests, [k \in {r} |-> row])
    BY <1>1, <1>9, Decided, ZenonT(30) DEF create_service_request, Decide, Commit, Asks
  <2>2. AuthorizedBy["request"] \subseteq DOMAIN row /\ HomeOf[row.user] = row.association
    BY DEF AuthorizedBy
  <2> HIDE DEF row
  <2>3. AddsRow(r, "request", "serviceRequests", row)
    BY <2>1, <2>2, TellKinds DEF AddsRow, Rightful
  <2> QED
    BY <2>3, RowAdded, Zenon
<1>10. ASSUME create_task(r)
      PROVE  \E row : Added(r, "task", "boardTasks", row)
  <2> DEFINE association == IF b.association = None /\ RoleOf[b.by] = "board_member"
                            THEN member_association_id(b.by) ELSE b.association
             row == [association |-> association, creator |-> b.by, supervisor |-> b.supervisor,
                     status |-> "New", deleted |-> FALSE]
  <2>1. /\ body[r].op = "create_task" /\ "boardTasks" \in DOMAIN db'
        /\ db'.boardTasks = With(db.boardTasks, [k \in {r} |-> row])
        /\ _require_board_association(b.by, association) /\ b.supervisor \in board_members(association)
    BY <1>1, <1>10, Decided, ZenonT(30) DEF create_task, Decide, Commit, Asks
  <2>2. AuthorizedBy["task"] \subseteq DOMAIN row /\ Rightful("task", row)
    BY <2>1 DEF AuthorizedBy, Rightful, board_members, _require_board_association
  <2> HIDE DEF row
  <2>3. AddsRow(r, "task", "boardTasks", row)
    BY <2>1, <2>2, TellKinds DEF AddsRow
  <2> QED
    BY <2>3, RowAdded, Zenon
<1>11. ASSUME create_meeting(r)
      PROVE  \E row : Added(r, "meeting", "meetings", row)
  <2> DEFINE association == IF b.association = None /\ RoleOf[b.by] = "board_member"
                            THEN meeting_home(b.by) ELSE b.association
             row == With(b.columns, [association |-> association, created |-> now, minutes |-> None,
                                     status |-> "Scheduled", deleted |-> FALSE])
  <2>1. /\ body[r].op = "create_meeting" /\ "meetings" \in DOMAIN db'
        /\ db'.meetings = With(db.meetings, [k \in {r} |-> row])
    BY <1>1, <1>11, Decided, ZenonT(30) DEF create_meeting, Decide, Commit, Asks
  <2>2. AuthorizedBy["meeting"] \subseteq DOMAIN row
    BY <1>4, <2>1 DEF With, AuthorizedBy
  <2> HIDE DEF row
  <2>3. AddsRow(r, "meeting", "meetings", row)
    BY <2>1, <2>2, TellKinds DEF AddsRow, Rightful
  <2> QED
    BY <2>3, RowAdded, Zenon
<1> QED
  BY <1>5, <1>6, <1>7, <1>8, <1>9, <1>10, <1>11

\* What edits a thing and leaves what authorizes to open it.
LEMMA EditsLeave ==
    ASSUME ToldInv, NEW r \in Requests, Commits(r)
    PROVE  /\ update_service_status(r) => ThingsKept(r, "request")
           /\ update_task_status(r) => ThingsKept(r, "task")
           /\ add_minutes(r) => ThingsKept(r, "meeting")
<1>1. Sessions /\ {"serviceRequests", "boardTasks", "meetings"} \subseteq DOMAIN db
  BY TellKinds DEF ToldInv, ThingsTold
<1>2. \A kind \in DOMAIN ToldTables : \A x \in DOMAIN seen[r][ToldTables[kind]] :
          AuthorizedBy[kind] \subseteq DOMAIN seen[r][ToldTables[kind]][x]
  BY Zenon DEF ToldInv, ShowsThings, Commits
<1> DEFINE b == body[r]
<1>3. ASSUME update_service_status(r)
      PROVE  ThingsKept(r, "request")
  <2> DEFINE old == seen[r].serviceRequests[b.request]
             new == [old EXCEPT !.status = b.status]
  <2>1. /\ "serviceRequests" \in DOMAIN db' /\ IsLive(seen[r].serviceRequests, b.request)
        /\ db'.serviceRequests = Save(db.serviceRequests, seen[r].serviceRequests, b.request, new)
    BY <1>1, <1>3, Decided, ZenonT(30) DEF update_service_status, Decide, Commit, Asks, _authorized_request
  <2>2. AuthorizedBy["request"] \subseteq DOMAIN old
    BY <1>2, <2>1, TellKinds DEF IsLive
  <2>3. Alike("request", old, new)
    BY <2>2 DEF Alike, AuthorizedBy
  <2> HIDE DEF new
  <2>4. SavesRow(r, "request", "serviceRequests", b.request, new)
    BY <2>1, <2>3, TellKinds DEF SavesRow
  <2> QED
    BY <2>4, RowSaved, Zenon
<1>4. ASSUME update_task_status(r)
      PROVE  ThingsKept(r, "task")
  <2> DEFINE old == seen[r].boardTasks[b.task]
             new == [old EXCEPT !.status = b.status]
  <2>1. /\ "boardTasks" \in DOMAIN db' /\ IsLive(seen[r].boardTasks, b.task)
        /\ db'.boardTasks = Save(db.boardTasks, seen[r].boardTasks, b.task, new)
    BY <1>1, <1>4, Decided, ZenonT(30) DEF update_task_status, Decide, Commit, Asks, _authorized_task
  <2>2. AuthorizedBy["task"] \subseteq DOMAIN old
    BY <1>2, <2>1, TellKinds DEF IsLive
  <2>3. Alike("task", old, new)
    BY <2>2 DEF Alike, AuthorizedBy
  <2> HIDE DEF new
  <2>4. SavesRow(r, "task", "boardTasks", b.task, new)
    BY <2>1, <2>3, TellKinds DEF SavesRow
  <2> QED
    BY <2>4, RowSaved, Zenon
<1>5. ASSUME add_minutes(r)
      PROVE  ThingsKept(r, "meeting")
  <2> DEFINE old == seen[r].meetings[b.meeting]
             new == [old EXCEPT !.minutes = b.minutes, !.status = "Completed"]
  <2>1. /\ "meetings" \in DOMAIN db' /\ IsLive(seen[r].meetings, b.meeting)
        /\ db'.meetings = Save(db.meetings, seen[r].meetings, b.meeting, new)
    BY <1>1, <1>5, Decided, ZenonT(30) DEF add_minutes, Decide, Commit, Asks, meeting_get
  <2>2. AuthorizedBy["meeting"] \subseteq DOMAIN old
    BY <1>2, <2>1, TellKinds DEF IsLive
  <2>3. Alike("meeting", old, new)
    BY <2>2, Zenon DEF Alike, AuthorizedBy
  <2> HIDE DEF new
  <2>4. SavesRow(r, "meeting", "meetings", b.meeting, new)
    BY <2>1, <2>3, TellKinds DEF SavesRow
  <2> QED
    BY <2>4, RowSaved, Zenon
<1> QED
  BY <1>3, <1>4, <1>5

\* Messages leave the things.
LEMMA MessagesLeave ==
    ASSUME ToldInv, NEW r \in Requests, Commits(r)
    PROVE  /\ send_chat(r) => ThingsKept(r, "item")
           /\ send_service_message(r) => ThingsKept(r, "request")
           /\ send_task_message(r) => ThingsKept(r, "task")
<1>1. Sessions /\ {"items", "serviceRequests", "boardTasks"} \subseteq DOMAIN db
  BY TellKinds DEF ToldInv, ThingsTold
<1>2. send_chat(r) => "items" \in DOMAIN db' /\ db'.items = db.items
  BY <1>1, ItemsTell, HandlesFrame DEF Leaves
<1>3. send_service_message(r) => "serviceRequests" \in DOMAIN db' /\ db'.serviceRequests = db.serviceRequests
  BY <1>1, Decided, ZenonT(30) DEF send_service_message, Decide, Commit
<1>4. send_task_message(r) => "boardTasks" \in DOMAIN db' /\ db'.boardTasks = db.boardTasks
  BY <1>1, Decided, ZenonT(30) DEF send_task_message, Decide, Commit
<1> QED
  BY <1>2, <1>3, <1>4, TellKinds, ThingsStay

\* The chat grows by one message.
LEMMA ChatKept ==
    ASSUME ToldInv, NEW r \in Requests, Commits(r), send_chat(r)
    PROVE  ChatGrows(r)
<1>1. Sessions /\ "chat" \in DOMAIN db /\ r \notin DOMAIN db.chat
  BY DEF ToldInv, Commits
<1>2. \E row : db'.chat = With(db.chat, [k \in {r} |-> row])
  BY <1>1, Decided, ZenonT(60) DEF send_chat, Decide, Commit
<1> QED
  BY <1>1, <1>2 DEF With, ChatGrows

\* Associations are onboarded, and their settings and plans edited; none is deleted.
LEMMA AssociationsKeep ==
    ASSUME ToldInv, NEW r \in Requests, Commits(r), OnboardingStep(r)
    PROVE  AssociationsLast(r)
<1>1. /\ "associations" \in DOMAIN db /\ Sessions /\ r \notin DOMAIN db.associations
      /\ \A a \in DOMAIN db.associations : "deleted" \in DOMAIN db.associations[a]
      /\ \A a \in DOMAIN seen[r].associations : "deleted" \in DOMAIN seen[r].associations[a]
  BY DEF ToldInv, Commits, ShowsAssociations
<1>2. CASE onboard(r)
  <2> DEFINE b == body[r]
             trial == IF b.plan = None THEN 0 ELSE seen[r].plans[b.plan].trial
             association == [plan |-> b.plan, status |-> "Active", payment |-> None,
                             start |-> IF b.plan = None THEN None ELSE now,
                             end |-> IF trial = 0 THEN None ELSE now + trial, end_date |-> None,
                             deleted |-> FALSE]
  <2>1. db'.associations = With(db.associations, [k \in {r} |-> association])
    BY <1>1, <1>2, Decided, ZenonT(60) DEF onboard, Decide, Commit
  <2>2. "deleted" \in DOMAIN association
    OBVIOUS
  <2> HIDE DEF association
  <2> QED
    BY <1>1, <2>1, <2>2 DEF With, AssociationsLast
<1>3. CASE update_settings(r)
  <2> DEFINE b == body[r]
  <2>1. db'.associations = [db.associations EXCEPT ![b.association].end_date = IF b.names_end THEN b.end_date ELSE @]
    BY <1>1, <1>3, Decided, ZenonT(60) DEF update_settings, Decide, Commit
  <2> QED
    BY <1>1, <2>1 DEF AssociationsLast
<1>4. CASE set_unit_occupancy(r)
  <2>1. db'.associations = db.associations
    BY <1>1, <1>4, Decided, ZenonT(60) DEF set_unit_occupancy, Decide, Commit
  <2> QED
    BY <1>1, <2>1 DEF AssociationsLast
<1>5. CASE update_subscription(r)
  <2> DEFINE b == body[r]
             old == seen[r].associations[b.association]
             asked == [old EXCEPT !.plan = b.plan, !.status = b.status, !.payment = b.payment,
                                  !.start = b.start, !.end = b.end]
             start == Given(b.start, now)
             trial == seen[r].plans[b.plan].trial
             new == CASE b.plan = None -> asked
                      [] b.plan # None /\ trial > 0 /\ b.payment # "Paid" ->
                            [asked EXCEPT !.start = start, !.end = Given(@, start + trial)]
                      [] OTHER -> [asked EXCEPT !.start = start,
                                                !.status = IF @ = "Inactive" THEN @ ELSE "Active"]
  <2>1. /\ db'.associations = Save(db.associations, seen[r].associations, b.association, new)
        /\ association_exists(seen[r], b.association)
    BY <1>1, <1>5, Decided, ZenonT(60) DEF update_subscription, Decide, Commit
  <2>2. "deleted" \in DOMAIN old
    BY <1>1, <2>1 DEF association_exists, IsLive
  <2>3. new.deleted = old.deleted
    <3>1. "deleted" \in DOMAIN asked /\ asked.deleted = old.deleted
      BY <2>2
    <3> HIDE DEF asked
    <3> QED
      BY <3>1
  <2> HIDE DEF new, old
  <2>4. Save(db.associations, seen[r].associations, b.association, new)
          = [db.associations EXCEPT ![b.association] = Changed(@, old, new)]
    BY DEF Save, old
  <2> QED
    BY <1>1, <2>1, <2>3, <2>4 DEF Changed, AssociationsLast
<1> QED
  BY <1>2, <1>3, <1>4, <1>5 DEF OnboardingStep

(* Whom a service tells of a thing may open it as its row is *)

MayRead(tables, a, about) == MayOpen(tables, a, about) \/ ToldBesides(tables, a, about)

\* The audience of a poll.
LEMMA PollReaders ==
    ASSUME NEW tables, NEW about, about[1] = "poll", IsLive(tables.polls, about[2]),
           NEW a \in Audience(tables.polls[about[2]].association, tables.polls[about[2]].visibility)
    PROVE  MayRead(tables, a, about)
<1> DEFINE visibility == tables.polls[about[2]].visibility
<1>1. /\ UnitOf[a] # None /\ UnitHome[UnitOf[a]] = tables.polls[about[2]].association
      /\ RoleOf[a] \in _audience_role_codes(visibility)
  BY DEF Audience
<1>2. CASE UnitHome[UnitOf[a]] # HomeOf[a]
  BY <1>1, <1>2 DEF MayRead, ToldBesides
<1>3. CASE UnitHome[UnitOf[a]] = HomeOf[a]
  <2>1. /\ RoleOf[a] \in {"homeowner", "tenant", "board_member", "committee_member"}
        /\ visibility \in poll_visibility(RoleOf[a])
    BY <1>1, Zenon DEF _audience_role_codes, poll_visibility
  <2>2. MayView(a, tables.polls[about[2]].association)
    BY <1>1, <1>3, <2>1 DEF MayView
  <2> QED
    BY <2>1, <2>2 DEF MayRead, MayOpen, _authorized_poll, poll_get
<1> QED
  BY <1>2, <1>3

\* That of an event.
LEMMA EventReaders ==
    ASSUME NEW tables, NEW about, about[1] = "event", IsLive(tables.events, about[2]),
           NEW a \in Audience(tables.events[about[2]].association, tables.events[about[2]].audience)
    PROVE  MayRead(tables, a, about)
<1> DEFINE audience == tables.events[about[2]].audience
<1>1. /\ UnitOf[a] # None /\ UnitHome[UnitOf[a]] = tables.events[about[2]].association
      /\ RoleOf[a] \in _audience_role_codes(audience)
  BY DEF Audience
<1>2. CASE UnitHome[UnitOf[a]] # HomeOf[a]
  BY <1>1, <1>2, Zenon DEF MayRead, ToldBesides
<1>3. CASE UnitHome[UnitOf[a]] = HomeOf[a]
  <2>1. \/ audience \in event_audiences(RoleOf[a])
        \/ audience = "Board Members" /\ RoleOf[a] = "board_member"
    BY <1>1, Zenon DEF _audience_role_codes, event_audiences
  <2>2. CASE audience \in event_audiences(RoleOf[a])
    BY <1>1, <1>3, <2>2 DEF MayRead, MayOpen, _authorized_event, event_get
  <2>3. CASE audience = "Board Members" /\ RoleOf[a] = "board_member"
    BY <2>3, Zenon DEF MayRead, ToldBesides
  <2> QED
    BY <2>1, <2>2, <2>3, Zenon
<1> QED
  BY <1>2, <1>3

\* That of an announcement.
LEMMA AnnouncementReaders ==
    ASSUME NEW tables, NEW about, about[1] = "announcement", IsLive(tables.announcements, about[2]),
           NEW a \in Audience(tables.announcements[about[2]].association, tables.announcements[about[2]].audience)
    PROVE  MayRead(tables, a, about)
<1> DEFINE audience == tables.announcements[about[2]].audience
<1>1. /\ UnitOf[a] # None /\ UnitHome[UnitOf[a]] = tables.announcements[about[2]].association
      /\ RoleOf[a] \in _audience_role_codes(audience)
  BY DEF Audience
<1>2. CASE UnitHome[UnitOf[a]] # HomeOf[a]
  BY <1>1, <1>2 DEF MayRead, ToldBesides
<1>3. CASE UnitHome[UnitOf[a]] = HomeOf[a]
  <2>1. /\ RoleOf[a] \in {"homeowner", "tenant", "board_member", "committee_member"}
        /\ _audiences_for_role(RoleOf[a], audience)
    BY <1>1, Zenon DEF _audience_role_codes, _audiences_for_role
  <2>2. MayView(a, tables.announcements[about[2]].association)
    BY <1>1, <1>3, <2>1 DEF MayView
  <2> QED
    BY <2>1, <2>2 DEF MayRead, MayOpen, _authorized_announcement, announcement_model
<1> QED
  BY <1>2, <1>3

\* The owner of an item.
LEMMA ItemReaders ==
    ASSUME NEW tables, NEW about, about[1] = "item", IsLive(tables.items, about[2]),
           Rightful("item", tables.items[about[2]])
    PROVE  MayRead(tables, tables.items[about[2]].owner, about)
  BY DEF MayRead, MayOpen, _authorized_item, item_get, Rightful

\* The resident of a request.
LEMMA RequestReaders ==
    ASSUME NEW tables, NEW about, about[1] = "request", IsLive(tables.serviceRequests, about[2]),
           NEW a, a = tables.serviceRequests[about[2]].user, IsResident(a),
           \/ HomeOf[a] = tables.serviceRequests[about[2]].association
           \/ UnitOf[a] # None /\ UnitHome[UnitOf[a]] = tables.serviceRequests[about[2]].association
    PROVE  MayRead(tables, a, about)
<1> DEFINE request == tables.serviceRequests[about[2]]
<1>1. CASE RoleOf[a] = "super_admin"
  BY <1>1 DEF MayRead, MayOpen, _authorized_request
<1>2. CASE RoleOf[a] = "admin"
  BY <1>2 DEF MayRead, ToldBesides, IsResident
<1>3. CASE RoleOf[a] = "security"
  <2>1. CASE HomeOf[a] = request.association
    BY <1>3, <2>1 DEF MayRead, MayOpen, _authorized_request, IsResident
  <2>2. CASE HomeOf[a] # request.association
    BY <2>2 DEF MayRead, ToldBesides
  <2> QED
    BY <2>1, <2>2
<1>4. CASE RoleOf[a] \notin {"super_admin", "admin", "security"}
  BY <1>4 DEF MayRead, MayOpen, _authorized_request, _resident_can_access
<1> QED
  BY <1>1, <1>2, <1>3, <1>4

\* The administrators of its association.
LEMMA RequestManagers ==
    ASSUME NEW tables, NEW about, about[1] = "request", IsLive(tables.serviceRequests, about[2]),
           NEW a, tables.serviceRequests[about[2]].association \in Manages[a]
    PROVE  MayRead(tables, a, about)
<1>1. CASE RoleOf[a] \in {"super_admin", "admin"}
  BY <1>1 DEF MayRead, MayOpen, _authorized_request
<1>2. CASE RoleOf[a] \notin {"super_admin", "admin"}
  BY <1>2 DEF MayRead, ToldBesides, ADMIN_ROLE_CODES
<1> QED
  BY <1>1, <1>2

\* Those who listen to its thread.
LEMMA RequestListeners ==
    ASSUME NEW tables, NEW about, about[1] = "request", Len(about) = 3, IsLive(tables.serviceRequests, about[2]),
           Rightful("request", tables.serviceRequests[about[2]]),
           NEW a \in participant_account_ids(tables.serviceRequests[about[2]])
    PROVE  MayRead(tables, a, about)
<1> DEFINE request == tables.serviceRequests[about[2]]
<1>1. CASE request.user = a /\ IsResident(a)
  BY <1>1, RequestReaders DEF Rightful
<1>2. CASE request.unit # None /\ request.association # None /\ UnitOf[a] = request.unit /\ HomeOf[a] = request.association
  <2>1. CASE RoleOf[a] = "super_admin"
    BY <2>1 DEF MayRead, MayOpen, _authorized_request
  <2>2. CASE RoleOf[a] = "admin"
    BY <1>2, <2>2 DEF MayRead, ToldBesides
  <2>3. CASE RoleOf[a] = "security"
    BY <1>2, <2>3 DEF MayRead, MayOpen, _authorized_request
  <2>4. CASE RoleOf[a] \notin {"super_admin", "admin", "security"}
    BY <1>2, <2>4 DEF MayRead, MayOpen, _authorized_request, _resident_can_access
  <2> QED
    BY <2>1, <2>2, <2>3, <2>4
<1>3. CASE request.association \in Manages[a]
  BY <1>3, RequestManagers
<1>4. CASE /\ RoleOf[a] \in {"security", "board_member", "committee_member"} /\ HomeOf[a] = request.association
           /\ request.association # None
  <2>1. CASE RoleOf[a] = "security"
    BY <1>4, <2>1 DEF MayRead, MayOpen, _authorized_request
  <2>2. CASE RoleOf[a] # "security"
    BY <1>4, <2>2 DEF MayRead, ToldBesides
  <2> QED
    BY <2>1, <2>2
<1>5. CASE RoleOf[a] = "super_admin"
  BY <1>5 DEF MayRead, MayOpen, _authorized_request
<1> QED
  BY <1>1, <1>2, <1>3, <1>4, <1>5 DEF participant_account_ids

\* The participants of a task.
LEMMA TaskReaders ==
    ASSUME NEW tables, NEW about, about[1] = "task", IsLive(tables.boardTasks, about[2]),
           Rightful("task", tables.boardTasks[about[2]]),
           NEW a \in task_participants(tables.boardTasks[about[2]])
    PROVE  MayRead(tables, a, about)
<1> DEFINE task == tables.boardTasks[about[2]]
<1>1. CASE _require_board_association(a, task.association)
  BY <1>1 DEF MayRead, MayOpen, _authorized_task
<1>2. CASE a \in {task.creator, task.supervisor}
  BY <1>1, <1>2 DEF Rightful
<1>3. CASE a \in board_members(task.association) \/ RoleOf[a] = "super_admin"
  <2>1. _require_board_association(a, task.association)
    BY <1>3 DEF board_members, _require_board_association
  <2> QED
    BY <1>1, <2>1
<1>4. CASE task.association \in Manages[a]
  <2>1. CASE RoleOf[a] \in {"super_admin", "admin"}
    <3>1. _require_board_association(a, task.association)
      BY <1>4, <2>1 DEF _require_board_association
    <3> QED
      BY <1>1, <3>1
  <2>2. CASE RoleOf[a] \notin {"super_admin", "admin"}
    BY <1>4, <2>2 DEF MayRead, ToldBesides, ADMIN_ROLE_CODES
  <2> QED
    BY <2>1, <2>2
<1> QED
  BY <1>2, <1>3, <1>4 DEF task_participants

\* Those invited to a meeting.
LEMMA MeetingReaders ==
    ASSUME NEW tables, NEW about, about[1] = "meeting", IsLive(tables.meetings, about[2]),
           tables.meetings[about[2]].audience \in MeetingAudiences,
           association_exists(tables, tables.meetings[about[2]].association),
           NEW a \in invited(tables.meetings[about[2]])
    PROVE  MayRead(tables, a, about)
<1> DEFINE meeting == tables.meetings[about[2]]
           audience == CASE meeting.audience = "Homeowner" -> "Homeowners"
                         [] meeting.audience = "Committee Member" -> "Committee Members"
                         [] OTHER -> meeting.audience
<1>1. a \in Audience(meeting.association, audience) /\ meeting.block \in {None, meeting_block(a)}
  BY Zenon DEF invited
<1>2. /\ UnitOf[a] # None /\ UnitHome[UnitOf[a]] = meeting.association
      /\ RoleOf[a] \in _audience_role_codes(audience)
  BY <1>1, Zenon DEF Audience
<1>3. /\ RoleOf[a] \in {"homeowner", "tenant", "board_member", "committee_member"}
      /\ \/ RoleOf[a] = "board_member"
         \/ meeting.audience = IF RoleOf[a] = "committee_member" THEN "Committee Member" ELSE "Homeowner"
  BY <1>2, Zenon DEF _audience_role_codes, MeetingAudiences
<1>4. meeting.association = meeting_home(a)
  BY <1>2, Zenon DEF meeting_home
<1>5. about[2] \in meeting_list(tables, a)
  <2>1. about[2] \in Live(tables.meetings)
    BY DEF Live, IsLive
  <2> HIDE DEF audience
  <2> QED
    BY <1>1, <1>3, <1>4, <2>1, Zenon DEF meeting_list, MEETING_RSVP_ROLES
<1> QED
  BY <1>5 DEF MayRead, MayOpen

\* r may tell them of the thing.
Lets(r, about, to) ==
    /\ about[1] \in DOMAIN ToldTables /\ about[2] \in DOMAIN db'[ToldTables[about[1]]]
    /\ \A a \in to \cap Accounts : MayRead(db', a, about) \/ Changers(about)' \ {r} # {}

\* It adds no notice, or one to them; and no frame, or one to them.
Notifies(r, about, to) ==
    \/ db'.notifications = db.notifications
    \/ db'.notifications = NotifyAll(db.notifications, r, about, to) /\ Lets(r, about, to)

Frames(r, about, to) ==
    \/ db'.frames = db.frames
    \/ db'.frames = db.frames \cup {Message(r, about, to)} /\ Lets(r, about, to)

LEMMA MessageOpens ==
    ASSUME NEW r, NEW about, NEW to, Lets(r, about, to), NEW n, n = Message(r, about, to)
    PROVE  /\ n.by = r
           /\ n.about[1] \in DOMAIN ToldTables => n.about[2] \in DOMAIN db'[ToldTables[n.about[1]]]
           /\ Opens(n)'
<1>1. n.by = r /\ n.about = about /\ n.to = to \cap Accounts
  BY DEF Message
<1>2. \A a \in n.to : MayOpen(db', a, about) \/ ToldBesides(db', a, about) \/ Changers(about)' \ {r} # {}
  BY <1>1 DEF Lets, MayRead
<1>3. n' = n
  OBVIOUS
<1> QED
  BY <1>1, <1>2 DEF Lets, Opens

LEMMA SentWell ==
    ASSUME NEW r, NEW about, NEW to, NEW other, NEW all, Notifies(r, about, to), Frames(r, other, all)
    PROVE  TellsWell(r)
<1> SUFFICES ASSUME NEW n \in Notices' \ Notices
             PROVE  /\ n.by = r
                    /\ n.about[1] \in DOMAIN ToldTables => n.about[2] \in DOMAIN db'[ToldTables[n.about[1]]]
                    /\ Opens(n)'
  BY DEF TellsWell
<1>1. CASE n \in db'.notifications
  <2>1. n = Message(r, about, to) /\ Lets(r, about, to)
    BY <1>1 DEF Notices, Notifies, NotifyAll
  <2> QED
    BY <2>1, MessageOpens, Zenon
<1>2. CASE n \in db'.frames
  <2>1. n = Message(r, other, all) /\ Lets(r, other, all)
    BY <1>2 DEF Notices, Frames
  <2> QED
    BY <2>1, MessageOpens, Zenon
<1> QED
  BY <1>1, <1>2 DEF Notices

\* What is right for a row is for one that is alike.
LEMMA AlikeRightful ==
    ASSUME NEW kind \in DOMAIN ToldTables, NEW row, NEW new, Alike(kind, row, new), Rightful(kind, row)
    PROVE  Rightful(kind, new)
<1>1. CASE kind = "item"
  BY <1>1 DEF Rightful, Alike, AuthorizedBy
<1>2. CASE kind = "task"
  BY <1>2 DEF Rightful, Alike, AuthorizedBy
<1>3. CASE kind = "request"
  BY <1>3 DEF Rightful, Alike, AuthorizedBy
<1>4. CASE kind \notin {"item", "task", "request"}
  BY <1>4 DEF Rightful
<1> QED
  BY <1>1, <1>2, <1>3, <1>4

\* What the snapshot of r shows of a thing stands after its commit, but where r missed a change.
Stands(r, kind, about, row) ==
    LET t == ToldTables[kind]
    IN  /\ kind \in DOMAIN ToldTables /\ about[1] = kind /\ about[2] \in DOMAIN db'[t]
        /\ \/ Changers(about)' \ {r} # {}
           \/ Alike(kind, row, db'[t][about[2]])

\* The thing that r reads.
Seen(r, kind, about, row) ==
    LET t == ToldTables[kind]
    IN  /\ kind \in DOMAIN ToldTables /\ about[1] = kind
        /\ about[2] \in DOMAIN seen[r][t] /\ row = seen[r][t][about[2]]

\* r edits it, and saves the row.
SeenSaved(r, kind, about, new) ==
    LET t == ToldTables[kind]
    IN  /\ kind \in DOMAIN ToldTables /\ about[1] = kind /\ about[2] \in DOMAIN seen[r][t]
        /\ db'[t] = Save(db[t], seen[r][t], about[2], new)

\* The changers that r missed are not r, and stay.
LEMMA MissedOthers ==
    ASSUME ToldInv, NEW r \in Requests, Commits(r), NEW about, Changers(about) # {}
    PROVE  Changers(about)' \ {r} # {}
<1>1. PICK q : q \in Changers(about)
  OBVIOUS
<1>2. q # r
  BY <1>1 DEF Changers, On, Committed, Commits
<1>3. Changers(about) \subseteq Changers(about)'
  BY OnGrows DEF Changers, ToldInv
<1> QED
  BY <1>1, <1>2, <1>3

\* A thing that r reads and does not change.
LEMMA ReadStands ==
    ASSUME ToldInv, NEW r \in Requests, Commits(r), NEW kind, NEW about, NEW row, Seen(r, kind, about, row),
           ThingsKept(r, kind), body[r].op \notin Changing[kind]
    PROVE  /\ Stands(r, kind, about, row)
           /\ Changers(about)' \ {r} # {} \/ Rightful(kind, db'[ToldTables[kind]][about[2]])
<1>1. PICK t, x : t = ToldTables[kind] /\ x = about[2]
  OBVIOUS
<1>2. kind \in DOMAIN ToldTables /\ about[1] = kind /\ x \in DOMAIN seen[r][t] /\ row = seen[r][t][x]
  BY <1>1 DEF Seen
<1>3. /\ x \in DOMAIN db[t] /\ (Alike(kind, row, db[t][x]) \/ missed[r] \cap Changers(<<kind, x>>) # {})
      /\ (Rightful(kind, db[t][x]) \/ Changers(<<kind, x>>) # {})
  BY <1>1, <1>2 DEF ToldInv, ShowsThings, ThingsTold, Commits
<1>4. x \in DOMAIN db'[t] /\ Alike(kind, db[t][x], db'[t][x])
  BY <1>1, <1>2, <1>3 DEF ThingsKept, Changes
<1>5. Changers(<<kind, x>>) = Changers(about)
  BY <1>1, <1>2 DEF Changers, On
<1>6. Changers(about) # {} => Changers(about)' \ {r} # {}
  BY MissedOthers
<1>7. Alike(kind, row, db[t][x]) => Alike(kind, row, db'[t][x])
  BY <1>4 DEF Alike
<1>8. Rightful(kind, db[t][x]) => Rightful(kind, db'[t][x])
  BY <1>2, <1>4, AlikeRightful, Zenon
<1> QED
  BY <1>1, <1>2, <1>3, <1>4, <1>5, <1>6, <1>7, <1>8 DEF Stands

\* One that it changes.
LEMMA SavedStands ==
    ASSUME ToldInv, NEW r \in Requests, Commits(r), NEW kind, NEW about, NEW new, SeenSaved(r, kind, about, new)
    PROVE  Stands(r, kind, about, new)
<1>1. PICK t, x : t = ToldTables[kind] /\ x = about[2]
  OBVIOUS
<1>2. /\ kind \in DOMAIN ToldTables /\ about[1] = kind /\ x \in DOMAIN seen[r][t]
      /\ db'[t] = Save(db[t], seen[r][t], x, new)
  BY <1>1 DEF SeenSaved
<1>3. /\ x \in DOMAIN db[t] /\ (Alike(kind, seen[r][t][x], db[t][x]) \/ missed[r] \cap Changers(<<kind, x>>) # {})
      /\ AuthorizedBy[kind] \subseteq DOMAIN db[t][x]
  BY <1>1, <1>2 DEF ToldInv, ShowsThings, ThingsTold, Commits
<1>4. x \in DOMAIN db'[t] /\ db'[t][x] = Changed(db[t][x], seen[r][t][x], new)
  BY <1>2, <1>3 DEF Save
<1>5. Alike(kind, seen[r][t][x], db[t][x]) => Alike(kind, new, db'[t][x])
  BY <1>3, <1>4 DEF Alike, Changed
<1>6. Changers(<<kind, x>>) = Changers(about)
  BY <1>1, <1>2 DEF Changers, On
<1>7. Changers(about) # {} => Changers(about)' \ {r} # {}
  BY MissedOthers
<1> QED
  BY <1>1, <1>2, <1>3, <1>4, <1>5, <1>6, <1>7 DEF Stands

\* An association that a snapshot shows is there after the commit.
LEMMA AssociationStands ==
    ASSUME ToldInv, NEW r \in Requests, Commits(r), AssociationsLast(r), NEW a, association_exists(seen[r], a)
    PROVE  association_exists(db', a)
<1>1. association_exists(db, a)
  BY DEF ToldInv, ShowsAssociations, Commits
<1> QED
  BY <1>1 DEF AssociationsLast, association_exists, IsLive

\* Posting a poll tells its audience.
LEMMA CreatePollWell ==
    ASSUME ToldInv, NEW r \in Requests, Commits(r), create_poll(r)
    PROVE  TellsWell(r)
<1>1. Sessions /\ {"polls", "notifications", "frames"} \subseteq DOMAIN db
  BY TellKinds DEF ToldInv, ThingsTold
<1> DEFINE b == body[r]
           association == IF b.association = None /\ RoleOf[b.by] = "board_member"
                          THEN HomeOf[b.by] ELSE b.association
           row == With(b.columns, [association |-> association, created |-> now, deleted |-> FALSE])
           about == <<"poll", r>>
           to == Audience(association, row.visibility)
<1>2. /\ db'.polls = With(db.polls, [k \in {r} |-> row]) /\ db'.frames = db.frames
      /\ (db'.notifications = db.notifications \/ db'.notifications = Notify(db.notifications, r, about, to))
  BY <1>1, Decided, ZenonT(30) DEF create_poll, Decide, Commit
<1>3. row.association = association /\ row.deleted = FALSE
  BY DEF With
<1> HIDE DEF row
<1>4. r \in DOMAIN db'.polls /\ db'.polls[r] = row
  BY <1>2 DEF With
<1> HIDE DEF association
<1>5. Lets(r, about, to \ {b.by})
  <2>1. about[1] = "poll" /\ about[2] = r
    OBVIOUS
  <2> HIDE DEF about
  <2>2. IsLive(db'.polls, about[2]) /\ Audience(db'.polls[about[2]].association, db'.polls[about[2]].visibility) = to
    BY <1>3, <1>4, <2>1 DEF IsLive
  <2>3. \A a \in to : MayRead(db', a, about)
    BY <2>1, <2>2, PollReaders
  <2> QED
    BY <1>4, <2>1, <2>3, TellKinds DEF Lets
<1>6. Notifies(r, about, to \ {b.by}) /\ Frames(r, about, {})
  BY <1>2, <1>5 DEF Notifies, Frames, Notify
<1> QED
  BY <1>6, SentWell, Zenon

\* Editing it, that of the snapshot.
LEMMA UpdatePollWell ==
    ASSUME ToldInv, NEW r \in Requests, Commits(r), update_poll(r)
    PROVE  TellsWell(r)
<1>1. Sessions /\ {"polls", "notifications", "frames"} \subseteq DOMAIN db
  BY TellKinds DEF ToldInv, ThingsTold
<1> DEFINE b == body[r]
           old == seen[r].polls[b.poll]
           new == With(old, b.columns)
           about == <<"poll", b.poll>>
           to == Audience(old.association, new.visibility)
<1>2. /\ db'.polls = Save(db.polls, seen[r].polls, b.poll, new) /\ db'.frames = db.frames
      /\ (db'.notifications = db.notifications \/ db'.notifications = Notify(db.notifications, r, about, to))
      /\ b.op = "update_poll" /\ poll_get(seen[r], b.poll)
  BY <1>1, Decided, ZenonT(30) DEF update_poll, Decide, Commit, Asks, _manager_poll
<1>3. new.association = old.association /\ new.deleted = old.deleted /\ ~old.deleted /\ b.poll \in DOMAIN seen[r].polls
  <2>1. {"association", "deleted"} \cap DOMAIN b.columns = {}
    BY <1>2, Payloads DEF ToldInv, Requests
  <2>2. AuthorizedBy["poll"] \subseteq DOMAIN old
    BY <1>2, TellKinds DEF ToldInv, ShowsThings, Commits, poll_get, IsLive
  <2> QED
    BY <1>2, <2>1, <2>2, Zenon DEF With, poll_get, IsLive, AuthorizedBy
<1> HIDE DEF new
<1>4. Stands(r, "poll", about, new)
  <2>1. SeenSaved(r, "poll", about, new)
    BY <1>2, <1>3, TellKinds DEF SeenSaved
  <2> QED
    BY <2>1, SavedStands, Zenon
<1>5. Lets(r, about, to \ {b.by})
  <2>1. about[1] = "poll" /\ about[2] = b.poll
    OBVIOUS
  <2> HIDE DEF about
  <2>2. CASE Changers(about)' \ {r} # {}
    BY <1>4, <2>1, <2>2, TellKinds DEF Lets, Stands
  <2>3. CASE Alike("poll", new, db'.polls[about[2]])
    <3>1. IsLive(db'.polls, about[2]) /\ Audience(db'.polls[about[2]].association, db'.polls[about[2]].visibility) = to
      BY <1>3, <1>4, <2>3, TellKinds DEF IsLive, Alike, AuthorizedBy, Stands
    <3>2. \A a \in to : MayRead(db', a, about)
      BY <2>1, <3>1, PollReaders
    <3> QED
      BY <1>4, <2>1, <3>2, TellKinds DEF Lets, Stands
  <2> QED
    BY <1>4, <2>2, <2>3, TellKinds DEF Stands
<1>6. Notifies(r, about, to \ {b.by}) /\ Frames(r, about, {})
  BY <1>2, <1>5 DEF Notifies, Frames, Notify
<1> QED
  BY <1>6, SentWell, Zenon

\* The same for an event.
LEMMA CreateEventWell ==
    ASSUME ToldInv, NEW r \in Requests, Commits(r), create_event(r)
    PROVE  TellsWell(r)
<1>1. Sessions /\ {"events", "notifications", "frames"} \subseteq DOMAIN db
  BY TellKinds DEF ToldInv, ThingsTold
<1> DEFINE b == body[r]
           association == IF b.association = None /\ RoleOf[b.by] = "board_member"
                          THEN HomeOf[b.by] ELSE b.association
           row == With(event_columns(b.columns), [association |-> association, created |-> now, deleted |-> FALSE])
           about == <<"event", r>>
           to == Audience(association, row.audience)
<1>2. /\ db'.events = With(db.events, [k \in {r} |-> row]) /\ db'.frames = db.frames
      /\ (db'.notifications = db.notifications \/ db'.notifications = Notify(db.notifications, r, about, to))
  BY <1>1, Decided, ZenonT(30) DEF create_event, Decide, Commit
<1>3. row.association = association /\ row.deleted = FALSE
  BY DEF With
<1> HIDE DEF row
<1>4. r \in DOMAIN db'.events /\ db'.events[r] = row
  BY <1>2 DEF With
<1> HIDE DEF association
<1>5. Lets(r, about, to \ {b.by})
  <2>1. about[1] = "event" /\ about[2] = r
    OBVIOUS
  <2> HIDE DEF about
  <2>2. IsLive(db'.events, about[2]) /\ Audience(db'.events[about[2]].association, db'.events[about[2]].audience) = to
    BY <1>3, <1>4, <2>1 DEF IsLive
  <2>3. \A a \in to : MayRead(db', a, about)
    BY <2>1, <2>2, EventReaders
  <2> QED
    BY <1>4, <2>1, <2>3, TellKinds DEF Lets
<1>6. Notifies(r, about, to \ {b.by}) /\ Frames(r, about, {})
  BY <1>2, <1>5 DEF Notifies, Frames, Notify
<1> QED
  BY <1>6, SentWell, Zenon

\* And its edit.
LEMMA UpdateEventWell ==
    ASSUME ToldInv, NEW r \in Requests, Commits(r), update_event(r)
    PROVE  TellsWell(r)
<1>1. Sessions /\ {"events", "notifications", "frames"} \subseteq DOMAIN db
  BY TellKinds DEF ToldInv, ThingsTold
<1> DEFINE b == body[r]
           old == seen[r].events[b.event]
           new == With(old, event_columns(b.columns))
           about == <<"event", b.event>>
           to == Audience(old.association, new.audience)
<1>2. /\ db'.events = Save(db.events, seen[r].events, b.event, new) /\ db'.frames = db.frames
      /\ (db'.notifications = db.notifications \/ db'.notifications = Notify(db.notifications, r, about, to))
      /\ b.op = "update_event" /\ event_get(seen[r], b.event)
  BY <1>1, Decided, ZenonT(30) DEF update_event, Decide, Commit, Asks, _manager_event
<1>3. new.association = old.association /\ new.deleted = old.deleted /\ ~old.deleted /\ b.event \in DOMAIN seen[r].events
  <2>1. {"association", "deleted"} \cap DOMAIN event_columns(b.columns) = {}
    <3>1. {"association", "deleted"} \cap DOMAIN b.columns = {}
      BY <1>2, Payloads DEF ToldInv, Requests
    <3> QED
      BY <3>1 DEF event_columns
  <2>2. AuthorizedBy["event"] \subseteq DOMAIN old
    BY <1>2, TellKinds DEF ToldInv, ShowsThings, Commits, event_get, IsLive
  <2> QED
    BY <1>2, <2>1, <2>2, Zenon DEF With, event_get, IsLive, AuthorizedBy
<1> HIDE DEF new
<1>4. Stands(r, "event", about, new)
  <2>1. SeenSaved(r, "event", about, new)
    BY <1>2, <1>3, TellKinds DEF SeenSaved
  <2> QED
    BY <2>1, SavedStands, Zenon
<1>5. Lets(r, about, to \ {b.by})
  <2>1. about[1] = "event" /\ about[2] = b.event
    OBVIOUS
  <2> HIDE DEF about
  <2>2. CASE Changers(about)' \ {r} # {}
    BY <1>4, <2>1, <2>2, TellKinds DEF Lets, Stands
  <2>3. CASE Alike("event", new, db'.events[about[2]])
    <3>1. IsLive(db'.events, about[2]) /\ Audience(db'.events[about[2]].association, db'.events[about[2]].audience) = to
      BY <1>3, <1>4, <2>3, TellKinds DEF IsLive, Alike, AuthorizedBy, Stands
    <3>2. \A a \in to : MayRead(db', a, about)
      BY <2>1, <3>1, EventReaders
    <3> QED
      BY <1>4, <2>1, <3>2, TellKinds DEF Lets, Stands
  <2> QED
    BY <1>4, <2>2, <2>3, TellKinds DEF Stands
<1>6. Notifies(r, about, to \ {b.by}) /\ Frames(r, about, {})
  BY <1>2, <1>5 DEF Notifies, Frames, Notify
<1> QED
  BY <1>6, SentWell, Zenon

\* Posting an announcement.
LEMMA CreateAnnouncementWell ==
    ASSUME ToldInv, NEW r \in Requests, Commits(r), create_announcement(r)
    PROVE  TellsWell(r)
<1>1. Sessions /\ {"announcements", "notifications", "frames"} \subseteq DOMAIN db
  BY TellKinds DEF ToldInv, ThingsTold
<1> DEFINE b == body[r]
           association == IF b.association = None /\ RoleOf[b.by] = "board_member"
                          THEN HomeOf[b.by] ELSE b.association
           row == With(b.columns, [association |-> association, created |-> now, deleted |-> FALSE])
           about == <<"announcement", r>>
           to == Audience(association, row.audience)
<1>2. /\ db'.announcements = With(db.announcements, [k \in {r} |-> row]) /\ db'.frames = db.frames
      /\ db'.notifications = Notify(db.notifications, r, about, to)
  BY <1>1, Decided, ZenonT(30) DEF create_announcement, Decide, Commit
<1>3. row.association = association /\ row.deleted = FALSE
  BY DEF With
<1> HIDE DEF row
<1>4. r \in DOMAIN db'.announcements /\ db'.announcements[r] = row
  BY <1>2 DEF With
<1> HIDE DEF association
<1>5. Lets(r, about, to \ {b.by})
  <2>1. about[1] = "announcement" /\ about[2] = r
    OBVIOUS
  <2> HIDE DEF about
  <2>2. /\ IsLive(db'.announcements, about[2])
        /\ Audience(db'.announcements[about[2]].association, db'.announcements[about[2]].audience) = to
    BY <1>3, <1>4, <2>1 DEF IsLive
  <2>3. \A a \in to : MayRead(db', a, about)
    BY <2>1, <2>2, AnnouncementReaders
  <2> QED
    BY <1>4, <2>1, <2>3, TellKinds DEF Lets
<1>6. Notifies(r, about, to \ {b.by}) /\ Frames(r, about, {})
  BY <1>2, <1>5 DEF Notifies, Frames, Notify
<1> QED
  BY <1>6, SentWell, Zenon

\* Calling a meeting tells those invited.
LEMMA CreateMeetingWell ==
    ASSUME ToldInv, NEW r \in Requests, Commits(r), create_meeting(r), AssociationsLast(r)
    PROVE  TellsWell(r)
<1>1. Sessions /\ {"meetings", "notifications", "frames"} \subseteq DOMAIN db
  BY TellKinds DEF ToldInv, ThingsTold
<1> DEFINE b == body[r]
           association == IF b.association = None /\ RoleOf[b.by] = "board_member"
                          THEN meeting_home(b.by) ELSE b.association
           row == With(b.columns, [association |-> association, created |-> now, minutes |-> None,
                                   status |-> "Scheduled", deleted |-> FALSE])
           about == <<"meeting", r>>
           to == invited(row)
<1>2. /\ db'.meetings = With(db.meetings, [k \in {r} |-> row]) /\ db'.frames = db.frames
      /\ db'.notifications = Notify(db.notifications, r, about, to)
      /\ b.op = "create_meeting" /\ association_exists(seen[r], association)
  BY <1>1, Decided, ZenonT(30) DEF create_meeting, Decide, Commit, Asks
<1>3. row.association = association /\ row.deleted = FALSE /\ row.audience \in MeetingAudiences
  <2>1. {"audience", "block"} \subseteq DOMAIN b.columns /\ b.columns.audience \in MeetingAudiences
    BY <1>2, Payloads DEF ToldInv, Requests
  <2> QED
    BY <2>1 DEF With
<1> HIDE DEF row
<1>4. r \in DOMAIN db'.meetings /\ db'.meetings[r] = row
  BY <1>2 DEF With
<1> HIDE DEF association
<1>5. Lets(r, about, to \ {b.by})
  <2>1. about[1] = "meeting" /\ about[2] = r
    OBVIOUS
  <2> HIDE DEF about
  <2>2. association_exists(db', association)
    BY <1>2, AssociationStands
  <2>3. /\ IsLive(db'.meetings, about[2]) /\ db'.meetings[about[2]].audience \in MeetingAudiences
        /\ association_exists(db', db'.meetings[about[2]].association) /\ invited(db'.meetings[about[2]]) = to
    BY <1>3, <1>4, <2>1, <2>2 DEF IsLive
  <2>4. \A a \in to : MayRead(db', a, about)
    BY <2>1, <2>3, MeetingReaders
  <2> QED
    BY <1>4, <2>1, <2>4, TellKinds DEF Lets
<1>6. Notifies(r, about, to \ {b.by}) /\ Frames(r, about, {})
  BY <1>2, <1>5 DEF Notifies, Frames, Notify
<1> QED
  BY <1>6, SentWell, Zenon

\* A chat tells its two ends: the owner of the item may open it, the sender does, and whom
\* the owner writes to is in the chat.
LEMMA SendChatWell ==
    ASSUME ToldInv, NEW r \in Requests, Commits(r), send_chat(r)
    PROVE  TellsWell(r)
<1>1. Sessions /\ {"items", "chat", "notifications", "frames"} \subseteq DOMAIN db
  BY TellKinds DEF ToldInv, ThingsTold
<1> DEFINE b == body[r]
           item == seen[r].items[b.item]
           Row(to) == [item |-> b.item, from |-> b.by, to |-> to, at |-> now]
           about == <<"item", b.item>>
           message == <<"item", b.item, "message">>
           targets == CASE item.owner # b.by -> {item.owner}
                        [] item.owner = b.by /\ b.to # None -> {b.to}
                        [] OTHER -> latest_chat_peer(seen[r], b.item, b.by)
           tables(to) == [db EXCEPT !.chat = With(@, [k \in {r} |-> Row(to)]),
                                    !.frames = @ \cup {Message(r, message, {b.by, to})},
                                    !.notifications = NotifyAll(@, r, about, {to})]
<1>2. \E to \in targets : db' = tables(to)
  <2>1. /\ b.op = "chat_item"
        /\ IF ~_authorized_item(seen[r], b.item, b.by) \/ targets = {} THEN Refuse(r)
           ELSE \E to \in targets : Decide(r, to # b.by, FALSE, tables(to))
    BY Zenon DEF send_chat, Asks
  <2> HIDE DEF targets, tables
  <2> QED
    BY <1>1, <2>1, Decided, ZenonT(30) DEF Decide, Commit
<1>3. b.op = "chat_item" /\ _authorized_item(seen[r], b.item, b.by)
  <2>1. /\ b.op = "chat_item"
        /\ ~_authorized_item(seen[r], b.item, b.by) => Refuse(r)
    BY ZenonT(30) DEF send_chat, Asks
  <2> QED
    BY <1>1, <2>1, Decided
<1>4. b.item \in DOMAIN seen[r].items /\ ~item.deleted
  BY <1>3 DEF _authorized_item, item_get, IsLive
<1>5. PICK to \in targets :
        /\ db'.chat = With(db.chat, [k \in {r} |-> Row(to)])
        /\ db'.frames = db.frames \cup {Message(r, message, {b.by, to})}
        /\ db'.notifications = NotifyAll(db.notifications, r, about, {to})
  BY <1>1, <1>2, Zenon
<1>6. item.owner = b.by \/ to = item.owner
  BY <1>5
<1> HIDE DEF targets, tables
<1>7. r \in DOMAIN db'.chat /\ db'.chat[r] = Row(to)
  BY <1>5 DEF With
<1>8. ASSUME NEW it, it[1] = "item", it[2] = b.item
      PROVE  Lets(r, it, {b.by, to})
  <2>1. Seen(r, "item", it, item)
    BY <1>4, <1>8, TellKinds DEF Seen
  <2>2. ThingsKept(r, "item")
    BY MessagesLeave
  <2>3. body[r].op \notin Changing["item"]
    BY <1>3 DEF Changing
  <2>4. /\ Stands(r, "item", it, item)
        /\ Changers(it)' \ {r} # {} \/ Rightful("item", db'[ToldTables["item"]][it[2]])
    BY <2>1, <2>2, <2>3, ReadStands, Zenon
  <2>5. "item" \in DOMAIN ToldTables /\ ToldTables["item"] = "items" /\ b.item \in DOMAIN db'.items
    BY <1>8, <2>4, TellKinds DEF Stands
  <2>6. CASE Changers(it)' \ {r} # {}
    BY <1>8, <2>5, <2>6 DEF Lets
  <2>7. CASE Alike("item", item, db'.items[b.item]) /\ Rightful("item", db'.items[b.item])
    <3>1. /\ IsLive(db'.items, it[2]) /\ db'.items[it[2]].owner = item.owner
          /\ db'.items[it[2]].association = item.association
      BY <1>4, <1>8, <2>5, <2>7 DEF IsLive, Alike, AuthorizedBy
    <3>2. MayRead(db', item.owner, it)
      BY <1>8, <2>7, <3>1, ItemReaders
    <3>3. MayRead(db', b.by, it)
      BY <1>3, <1>8, <3>1 DEF MayRead, MayOpen, _authorized_item, item_get
    <3>4. item.owner = b.by => MayRead(db', to, it)
      BY <1>7, <1>8, <3>1 DEF MayRead, ToldBesides
    <3> QED
      BY <1>6, <1>8, <2>5, <3>2, <3>3, <3>4 DEF Lets
  <2> QED
    BY <1>8, <2>4, <2>5, <2>6, <2>7 DEF Stands
<1>9. Lets(r, message, {b.by, to}) /\ Lets(r, about, {b.by, to})
  BY <1>8
<1>10. Lets(r, about, {to})
  BY <1>9 DEF Lets
<1>11. Notifies(r, about, {to}) /\ Frames(r, message, {b.by, to})
  BY <1>5, <1>9, <1>10 DEF Notifies, Frames
<1> QED
  BY <1>11, SentWell, Zenon

\* Filing a request tells its resident, or the administrators.
LEMMA CreateRequestWell ==
    ASSUME ToldInv, NEW r \in Requests, Commits(r), create_service_request(r)
    PROVE  TellsWell(r)
<1>1. Sessions /\ {"serviceRequests", "notifications", "frames"} \subseteq DOMAIN db
  BY TellKinds DEF ToldInv, ThingsTold
<1> DEFINE b == body[r]
           user == IF b.user # None THEN b.user ELSE b.by
           row == [user |-> user, association |-> HomeOf[user], unit |-> UnitOf[user],
                   display |-> _display_id(seen[r], user),
                   status |-> IF b.user # None THEN "In Progress" ELSE "New", deleted |-> FALSE]
           about == <<"request", r>>
           to == IF b.user # None THEN {user} ELSE AdminsOf(HomeOf[user])
<1>2. /\ db'.serviceRequests = With(db.serviceRequests, [k \in {r} |-> row]) /\ db'.frames = db.frames
      /\ db'.notifications = NotifyAll(db.notifications, r, about, to)
      /\ IsResident(user)
  BY <1>1, Decided, ZenonT(30) DEF create_service_request, Decide, Commit
<1>3. row.association = HomeOf[user] /\ row.deleted = FALSE /\ row.user = user
  OBVIOUS
<1> HIDE DEF row
<1>4. r \in DOMAIN db'.serviceRequests /\ db'.serviceRequests[r] = row
  BY <1>2 DEF With
<1>5. Lets(r, about, to)
  <2>1. about[1] = "request" /\ about[2] = r
    OBVIOUS
  <2> HIDE DEF about
  <2>2. IsLive(db'.serviceRequests, about[2]) /\ db'.serviceRequests[about[2]] = row
    BY <1>3, <1>4, <2>1 DEF IsLive
  <2>3. MayRead(db', user, about)
    BY <1>2, <1>3, <2>1, <2>2, RequestReaders
  <2>4. \A a \in AdminsOf(HomeOf[user]) : MayRead(db', a, about)
    BY <1>3, <2>1, <2>2, RequestManagers DEF AdminsOf
  <2> QED
    BY <1>4, <2>1, <2>3, <2>4, TellKinds DEF Lets
<1>6. Notifies(r, about, to) /\ Frames(r, about, {})
  BY <1>2, <1>5 DEF Notifies, Frames
<1> QED
  BY <1>6, SentWell, Zenon

\* What stands of a request whose handler reads it.
RequestStands(r, about) ==
    LET request == seen[r].serviceRequests[about[2]]
        row == db'.serviceRequests[about[2]]
    IN  /\ about[1] = "request" /\ "request" \in DOMAIN ToldTables
        /\ ToldTables["request"] = "serviceRequests" /\ about[2] \in DOMAIN db'.serviceRequests
        /\ \/ Changers(about)' \ {r} # {}
           \/ /\ IsLive(db'.serviceRequests, about[2]) /\ Rightful("request", row)
              /\ row.association = request.association /\ row.unit = request.unit /\ row.user = request.user

LEMMA RequestRead ==
    ASSUME ToldInv, NEW r \in Requests, Commits(r), NEW about, about[1] = "request",
           _authorized_request(seen[r], about[2], body[r].by),
           ThingsKept(r, "request"), body[r].op \notin Changing["request"]
    PROVE  RequestStands(r, about)
<1> DEFINE request == seen[r].serviceRequests[about[2]]
<1>1. about[2] \in DOMAIN seen[r].serviceRequests /\ ~request.deleted
  BY DEF _authorized_request, IsLive
<1>2. Seen(r, "request", about, request)
  BY <1>1, TellKinds DEF Seen
<1>3. /\ Stands(r, "request", about, request)
      /\ Changers(about)' \ {r} # {} \/ Rightful("request", db'[ToldTables["request"]][about[2]])
  BY <1>2, ReadStands, Zenon
<1>4. ToldTables["request"] = "serviceRequests" /\ "request" \in DOMAIN ToldTables
  BY TellKinds
<1> QED
  BY <1>1, <1>3, <1>4 DEF Stands, RequestStands, Alike, AuthorizedBy, IsLive

\* Its status is told to its resident.
LEMMA RequestStatusWell ==
    ASSUME ToldInv, NEW r \in Requests, Commits(r), update_service_status(r)
    PROVE  TellsWell(r)
<1>1. Sessions /\ {"serviceRequests", "notifications", "frames"} \subseteq DOMAIN db
  BY TellKinds DEF ToldInv, ThingsTold
<1> DEFINE b == body[r]
           old == seen[r].serviceRequests[b.request]
           about == <<"request", b.request>>
           to == {a \in {old.user} : IsResident(a)}
<1>2. /\ db'.frames = db.frames /\ db'.notifications = NotifyAll(db.notifications, r, about, to)
      /\ b.op = "service_status" /\ _authorized_request(seen[r], b.request, b.by)
  BY <1>1, Decided, ZenonT(30) DEF update_service_status, Decide, Commit, Asks
<1>3. about[1] = "request" /\ about[2] = b.request
  OBVIOUS
<1> HIDE DEF about
<1>4. RequestStands(r, about)
  <2>1. ThingsKept(r, "request") /\ body[r].op \notin Changing["request"]
    BY <1>2, EditsLeave DEF Changing
  <2> QED
    BY <1>2, <1>3, <2>1, RequestRead
<1>5. Lets(r, about, to)
  <2>1. CASE Changers(about)' \ {r} # {}
    BY <1>4, <2>1 DEF Lets, RequestStands
  <2>2. CASE Changers(about)' \ {r} = {}
    <3>1. \A a \in to : MayRead(db', a, about)
      BY <1>3, <1>4, <2>2, RequestReaders DEF RequestStands, Rightful
    <3> QED
      BY <1>4, <3>1 DEF Lets, RequestStands
  <2> QED
    BY <2>1, <2>2
<1>6. Notifies(r, about, to) /\ Frames(r, about, {})
  BY <1>2, <1>5 DEF Notifies, Frames
<1> QED
  BY <1>6, SentWell, Zenon

\* Messages about it are for its resident or the administrators, and those who listen.
LEMMA RequestMessageWell ==
    ASSUME ToldInv, NEW r \in Requests, Commits(r), send_service_message(r)
    PROVE  TellsWell(r)
<1>1. Sessions /\ {"serviceRequests", "notifications", "frames"} \subseteq DOMAIN db
  BY TellKinds DEF ToldInv, ThingsTold
<1> DEFINE b == body[r]
           request == seen[r].serviceRequests[b.request]
           about == <<"request", b.request>>
           message == <<"request", b.request, "message">>
           asker == {a \in {request.user} : IsResident(a)}
           to == CASE asker # {b.by} -> asker
                   [] asker = {b.by} /\ request.association # None -> AdminsOf(request.association)
                   [] OTHER -> {}
           all == participant_account_ids(request)
<1>2. /\ db'.frames = db.frames \cup {Message(r, message, all)}
      /\ db'.notifications = NotifyAll(db.notifications, r, about, to)
      /\ b.op = "service_message" /\ _authorized_request(seen[r], b.request, b.by)
  BY <1>1, Decided, ZenonT(30) DEF send_service_message, Decide, Commit, Asks
<1>3. ThingsKept(r, "request") /\ body[r].op \notin Changing["request"]
  BY <1>2, MessagesLeave, Zenon DEF Changing
<1>4. /\ about[1] = "request" /\ about[2] = b.request
      /\ message[1] = "request" /\ message[2] = b.request /\ Len(message) = 3
  OBVIOUS
<1> HIDE DEF about, message
<1>5. RequestStands(r, about) /\ RequestStands(r, message)
  BY <1>2, <1>3, <1>4, RequestRead, Zenon
<1>6. \A a \in to : a \in asker \/ (a \in AdminsOf(request.association))
  OBVIOUS
<1> HIDE DEF to
<1>7. Lets(r, about, to)
  <2>1. CASE Changers(about)' \ {r} # {}
    BY <1>5, <2>1 DEF Lets, RequestStands
  <2>2. CASE Changers(about)' \ {r} = {}
    <3>1. \A a \in asker : MayRead(db', a, about)
      BY <1>4, <1>5, <2>2, RequestReaders, Zenon DEF RequestStands, Rightful
    <3>2. \A a \in AdminsOf(request.association) : MayRead(db', a, about)
      BY <1>4, <1>5, <2>2, RequestManagers DEF RequestStands, AdminsOf
    <3> QED
      BY <1>5, <1>6, <3>1, <3>2, Zenon DEF Lets, RequestStands
  <2> QED
    BY <2>1, <2>2
<1>8. Lets(r, message, all)
  <2>1. CASE Changers(message)' \ {r} # {}
    BY <1>5, <2>1 DEF Lets, RequestStands
  <2>2. CASE Changers(message)' \ {r} = {}
    <3>1. all = participant_account_ids(db'.serviceRequests[message[2]])
      BY <1>4, <1>5, <2>2, Zenon DEF RequestStands, participant_account_ids
    <3>2. \A a \in all : MayRead(db', a, message)
      BY <1>4, <1>5, <2>2, <3>1, RequestListeners DEF RequestStands
    <3> QED
      BY <1>5, <3>2 DEF Lets, RequestStands
  <2> QED
    BY <2>1, <2>2
<1>9. Notifies(r, about, to) /\ Frames(r, message, all)
  BY <1>2, <1>7, <1>8 DEF Notifies, Frames
<1> QED
  BY <1>9, SentWell, Zenon

\* Assigning it tells its new resident.
LEMMA MapRequestWell ==
    ASSUME ToldInv, NEW r \in Requests, Commits(r), map_service_request(r)
    PROVE  TellsWell(r)
<1>1. Sessions /\ {"serviceRequests", "notifications", "frames"} \subseteq DOMAIN db
  BY TellKinds DEF ToldInv, ThingsTold
<1> DEFINE b == body[r]
           old == seen[r].serviceRequests[b.request]
           new == [old EXCEPT !.association = b.association, !.unit = b.unit, !.user = b.user]
           about == <<"request", b.request>>
<1>2. /\ db'.serviceRequests = Save(db.serviceRequests, seen[r].serviceRequests, b.request, new)
      /\ db'.frames = db.frames /\ db'.notifications = NotifyAll(db.notifications, r, about, {b.user})
      /\ b.op = "map_service" /\ IsLive(seen[r].serviceRequests, b.request)
      /\ UnitHome[b.unit] = b.association /\ IsResident(b.user) /\ UnitOf[b.user] = b.unit
  BY <1>1, Decided, ZenonT(30) DEF map_service_request, Decide, Commit, Asks
<1>3. b.request \in DOMAIN seen[r].serviceRequests /\ ~old.deleted
  BY <1>2 DEF IsLive
<1>4. new.association = b.association /\ new.user = b.user /\ new.deleted = old.deleted
  <2>1. AuthorizedBy["request"] \subseteq DOMAIN old
    BY <1>3, TellKinds, Zenon DEF ToldInv, ShowsThings, Commits
  <2> QED
    BY <2>1 DEF AuthorizedBy
<1>5. b.unit # None
  BY <1>2, Payloads DEF ToldInv, Requests
<1> HIDE DEF new
<1>6. about[1] = "request" /\ about[2] = b.request
  OBVIOUS
<1> HIDE DEF about
<1>7. Stands(r, "request", about, new)
  <2>1. SeenSaved(r, "request", about, new)
    BY <1>2, <1>3, <1>6, TellKinds DEF SeenSaved
  <2> QED
    BY <2>1, SavedStands, Zenon
<1>8. Lets(r, about, {b.user})
  <2>1. CASE Changers(about)' \ {r} # {}
    BY <1>6, <1>7, <2>1, TellKinds DEF Lets, Stands
  <2>2. CASE Alike("request", new, db'.serviceRequests[about[2]])
    <3>1. /\ IsLive(db'.serviceRequests, about[2])
          /\ db'.serviceRequests[about[2]].user = b.user
          /\ db'.serviceRequests[about[2]].association = b.association
      BY <1>3, <1>4, <1>7, <2>2, TellKinds DEF IsLive, Alike, AuthorizedBy, Stands
    <3>2. MayRead(db', b.user, about)
      BY <1>2, <1>5, <1>6, <3>1, RequestReaders
    <3> QED
      BY <1>6, <1>7, <3>2, TellKinds DEF Lets, Stands
  <2> QED
    BY <1>7, <2>1, <2>2, TellKinds DEF Stands
<1>9. Notifies(r, about, {b.user}) /\ Frames(r, about, {})
  BY <1>2, <1>8 DEF Notifies, Frames
<1> QED
  BY <1>9, SentWell, Zenon

\* A new task is told to its participants.
LEMMA CreateTaskWell ==
    ASSUME ToldInv, NEW r \in Requests, Commits(r), create_task(r)
    PROVE  TellsWell(r)
<1>1. Sessions /\ {"boardTasks", "notifications", "frames"} \subseteq DOMAIN db
  BY TellKinds DEF ToldInv, ThingsTold
<1> DEFINE b == body[r]
           association == IF b.association = None /\ RoleOf[b.by] = "board_member"
                          THEN member_association_id(b.by) ELSE b.association
           task == [association |-> association, creator |-> b.by, supervisor |-> b.supervisor,
                    status |-> "New", deleted |-> FALSE]
           about == <<"task", r>>
           to == task_participants(task)
<1>2. /\ db'.boardTasks = With(db.boardTasks, [k \in {r} |-> task]) /\ db'.frames = db.frames
      /\ db'.notifications = Notify(db.notifications, r, about, to)
      /\ _require_board_association(b.by, association) /\ b.supervisor \in board_members(association)
  BY <1>1, Decided, ZenonT(30) DEF create_task, Decide, Commit
<1>3. task.deleted = FALSE /\ Rightful("task", task)
  BY <1>2 DEF Rightful, board_members, _require_board_association
<1> HIDE DEF task
<1>4. r \in DOMAIN db'.boardTasks /\ db'.boardTasks[r] = task
  BY <1>2 DEF With
<1>5. Lets(r, about, to \ {b.by})
  <2>1. about[1] = "task" /\ about[2] = r
    OBVIOUS
  <2> HIDE DEF about
  <2>2. IsLive(db'.boardTasks, about[2]) /\ db'.boardTasks[about[2]] = task
    BY <1>3, <1>4, <2>1 DEF IsLive
  <2>3. \A a \in to : MayRead(db', a, about)
    BY <1>3, <2>1, <2>2, TaskReaders
  <2> QED
    BY <1>4, <2>1, <2>3, TellKinds DEF Lets
<1>6. Notifies(r, about, to \ {b.by}) /\ Frames(r, about, {})
  BY <1>2, <1>5 DEF Notifies, Frames, Notify
<1> QED
  BY <1>6, SentWell, Zenon

\* What stands of a task whose handler reads it.
TaskStands(r, about) ==
    LET task == seen[r].boardTasks[about[2]]
        row == db'.boardTasks[about[2]]
    IN  /\ about[1] = "task" /\ "task" \in DOMAIN ToldTables
        /\ ToldTables["task"] = "boardTasks" /\ about[2] \in DOMAIN db'.boardTasks
        /\ \/ Changers(about)' \ {r} # {}
           \/ /\ IsLive(db'.boardTasks, about[2]) /\ Rightful("task", row)
              /\ row.association = task.association /\ row.creator = task.creator
              /\ row.supervisor = task.supervisor

LEMMA TaskRead ==
    ASSUME ToldInv, NEW r \in Requests, Commits(r), NEW about, about[1] = "task",
           _authorized_task(seen[r], about[2], body[r].by),
           ThingsKept(r, "task"), body[r].op \notin Changing["task"]
    PROVE  TaskStands(r, about)
<1> DEFINE task == seen[r].boardTasks[about[2]]
<1>1. about[2] \in DOMAIN seen[r].boardTasks /\ ~task.deleted
  BY DEF _authorized_task, IsLive
<1>2. Seen(r, "task", about, task)
  BY <1>1, TellKinds DEF Seen
<1>3. /\ Stands(r, "task", about, task)
      /\ Changers(about)' \ {r} # {} \/ Rightful("task", db'[ToldTables["task"]][about[2]])
  BY <1>2, ReadStands, Zenon
<1>4. ToldTables["task"] = "boardTasks" /\ "task" \in DOMAIN ToldTables
  BY TellKinds
<1> QED
  BY <1>1, <1>3, <1>4 DEF Stands, TaskStands, Alike, AuthorizedBy, IsLive

\* So its participants may open it.
LEMMA TaskLets ==
    ASSUME NEW r, NEW about, TaskStands(r, about), NEW to,
           to \subseteq task_participants(seen[r].boardTasks[about[2]])
    PROVE  Lets(r, about, to)
<1>1. CASE Changers(about)' \ {r} # {}
  BY <1>1 DEF Lets, TaskStands
<1>2. CASE Changers(about)' \ {r} = {}
  <2>1. task_participants(seen[r].boardTasks[about[2]]) = task_participants(db'.boardTasks[about[2]])
    BY <1>2 DEF TaskStands, task_participants
  <2>2. \A a \in to : MayRead(db', a, about)
    BY <1>2, <2>1, TaskReaders DEF TaskStands
  <2> QED
    BY <2>2 DEF Lets, TaskStands
<1> QED
  BY <1>1, <1>2

\* Its status is told to its creator and its supervisor.
LEMMA TaskStatusWell ==
    ASSUME ToldInv, NEW r \in Requests, Commits(r), update_task_status(r)
    PROVE  TellsWell(r)
<1>1. Sessions /\ {"boardTasks", "notifications", "frames"} \subseteq DOMAIN db
  BY TellKinds DEF ToldInv, ThingsTold
<1> DEFINE b == body[r]
           old == seen[r].boardTasks[b.task]
           about == <<"task", b.task>>
           to == {old.creator, old.supervisor}
<1>2. /\ db'.frames = db.frames /\ db'.notifications = Notify(db.notifications, r, about, to)
      /\ b.op = "task_status" /\ _authorized_task(seen[r], b.task, b.by)
  BY <1>1, Decided, ZenonT(30) DEF update_task_status, Decide, Commit, Asks
<1>3. about[1] = "task" /\ about[2] = b.task
  OBVIOUS
<1> HIDE DEF about
<1>4. TaskStands(r, about)
  <2>1. ThingsKept(r, "task") /\ body[r].op \notin Changing["task"]
    BY <1>2, EditsLeave DEF Changing
  <2> QED
    BY <1>2, <1>3, <2>1, TaskRead
<1>5. Lets(r, about, to \ {b.by})
  <2>1. to \ {b.by} \subseteq task_participants(seen[r].boardTasks[about[2]])
    BY <1>3 DEF task_participants
  <2> QED
    BY <1>4, <2>1, TaskLets
<1>6. Notifies(r, about, to \ {b.by}) /\ Frames(r, about, {})
  BY <1>2, <1>5 DEF Notifies, Frames, Notify
<1> QED
  BY <1>6, SentWell, Zenon

\* Messages about it are for its participants.
LEMMA TaskMessageWell ==
    ASSUME ToldInv, NEW r \in Requests, Commits(r), send_task_message(r)
    PROVE  TellsWell(r)
<1>1. Sessions /\ {"boardTasks", "notifications", "frames"} \subseteq DOMAIN db
  BY TellKinds DEF ToldInv, ThingsTold
<1> DEFINE b == body[r]
           about == <<"task", b.task>>
           message == <<"task", b.task, "message">>
           to == task_participants(seen[r].boardTasks[b.task]) \ {b.by}
<1>2. /\ db'.frames = db.frames \cup {Message(r, message, to)}
      /\ db'.notifications = Notify(db.notifications, r, about, to)
      /\ b.op = "task_message" /\ _authorized_task(seen[r], b.task, b.by)
  BY <1>1, Decided, ZenonT(30) DEF send_task_message, Decide, Commit, Asks
<1>3. /\ about[1] = "task" /\ about[2] = b.task
      /\ message[1] = "task" /\ message[2] = b.task
  OBVIOUS
<1> HIDE DEF about, message
<1>4. TaskStands(r, about) /\ TaskStands(r, message)
  <2>1. ThingsKept(r, "task") /\ body[r].op \notin Changing["task"]
    BY <1>2, MessagesLeave DEF Changing
  <2> QED
    BY <1>2, <1>3, <2>1, TaskRead
<1>5. Lets(r, about, to \ {b.by}) /\ Lets(r, message, to)
  BY <1>3, <1>4, TaskLets
<1>6. Notifies(r, about, to \ {b.by}) /\ Frames(r, message, to)
  BY <1>2, <1>5 DEF Notifies, Frames, Notify
<1> QED
  BY <1>6, SentWell, Zenon

\* Who leaves the notices and the frames tells nobody.
LEMMA SilentWell ==
    ASSUME NEW r, db'.notifications = db.notifications, db'.frames = db.frames
    PROVE  TellsWell(r)
  BY DEF TellsWell, Notices

\* A handler leaves the tables it does not write; what it writes it keeps, and whom it tells it may.
WritesWell(r, written) ==
    /\ Handles(r, written)
    /\ \A kind \in DOMAIN ToldTables : ToldTables[kind] \in written => ThingsKept(r, kind)
    /\ "associations" \in written => AssociationsLast(r)
    /\ "chat" \in written => ChatGrows(r)
    /\ {"notifications", "frames"} \cap written # {} => TellsWell(r)

\* Where it leaves the associations they last.
LEMMA AssociationsStay ==
    ASSUME ToldInv, NEW r \in Requests, NEW written, Handles(r, written), "associations" \notin written
    PROVE  AssociationsLast(r)
<1>1. db'.associations = db.associations
  BY HandlesFrame DEF ToldInv, Leaves
<1> QED
  BY <1>1 DEF ToldInv, AssociationsLast

\* A request whose handler writes well keeps the invariant.
LEMMA WellTold ==
    ASSUME ToldInv, NEW r \in Requests, Commits(r), NEW written, WritesWell(r, written)
    PROVE  ToldInv'
<1>1. /\ {"notifications", "frames", "chat", "associations"} \subseteq DOMAIN db
      /\ \A kind \in DOMAIN ToldTables : ToldTables[kind] \in DOMAIN db
      /\ Handles(r, written) /\ Sessions
  BY DEF ToldInv, ThingsTold, WritesWell
<1>2. DOMAIN db' = DOMAIN db /\ \A t \in DOMAIN db \ written : db'[t] = db[t]
  BY <1>1, HandlesFrame DEF Leaves
<1>3. \A kind \in DOMAIN ToldTables : ThingsKept(r, kind)
  <2>1. ASSUME NEW kind \in DOMAIN ToldTables, ToldTables[kind] \notin written
        PROVE  ThingsKept(r, kind)
    BY <1>1, <1>2, <2>1, ThingsStay
  <2> QED
    BY <2>1 DEF WritesWell
<1>4. AssociationsLast(r)
  BY <1>1, AssociationsStay DEF WritesWell
<1>5. ChatGrows(r)
  <2>1. CASE "chat" \in written
    BY <2>1 DEF WritesWell
  <2>2. CASE "chat" \notin written
    BY <1>1, <1>2, <2>2 DEF ChatGrows
  <2> QED
    BY <2>1, <2>2
<1>6. TellsWell(r)
  <2>1. CASE {"notifications", "frames"} \cap written # {}
    BY <2>1 DEF WritesWell
  <2>2. CASE {"notifications", "frames"} \cap written = {}
    <3>1. db'.notifications = db.notifications /\ db'.frames = db.frames
      BY <1>1, <1>2, <2>2
    <3> QED
      BY <3>1, SilentWell, Zenon
  <2> QED
    BY <2>1, <2>2
<1> QED
  BY <1>2, <1>3, <1>4, <1>5, <1>6, CommitTold

\* The tables of the kinds.
LEMMA ToldTablesAre ==
    ASSUME NEW kind \in DOMAIN ToldTables
    PROVE  \/ kind = "poll" /\ ToldTables[kind] = "polls"
           \/ kind = "event" /\ ToldTables[kind] = "events"
           \/ kind = "announcement" /\ ToldTables[kind] = "announcements"
           \/ kind = "item" /\ ToldTables[kind] = "items"
           \/ kind = "request" /\ ToldTables[kind] = "serviceRequests"
           \/ kind = "task" /\ ToldTables[kind] = "boardTasks"
           \/ kind = "meeting" /\ ToldTables[kind] = "meetings"
  BY TellKinds

\* Of the tables of things, only that of a kind is written: a thing of a table that is written is of it.
LEMMA OnlyTheKind ==
    ASSUME NEW kind \in DOMAIN ToldTables, NEW other \in DOMAIN ToldTables, NEW written,
           {"polls", "events", "announcements", "items", "serviceRequests", "boardTasks", "meetings"} \cap written
               \subseteq {ToldTables[kind]},
           ToldTables[other] \in written
    PROVE  other = kind
<1>1. PICK t : t = ToldTables[kind]
  OBVIOUS
<1>2. PICK u : u = ToldTables[other]
  OBVIOUS
<1>3. u \in {"polls", "events", "announcements", "items", "serviceRequests", "boardTasks", "meetings"}
  BY <1>2, ToldTablesAre
<1>4. u = t
  BY <1>1, <1>2, <1>3
<1> QED
  BY <1>1, <1>2, <1>4, ToldTablesAre, Zenon

\* A service that writes none of these tables.
LEMMA OthersTold ==
    ASSUME ToldInv, NEW r \in Requests, Commits(r), NEW written, Handles(r, written),
           written \cap {"polls", "events", "announcements", "items", "serviceRequests", "boardTasks", "meetings",
                         "associations", "chat", "notifications", "frames"} = {}
    PROVE  ToldInv'
<1>1. \A kind \in DOMAIN ToldTables : ToldTables[kind] \notin written
  BY ToldTablesAre
<1>2. WritesWell(r, written)
  BY <1>1 DEF WritesWell
<1> QED
  BY <1>2, WellTold, Zenon

\* One that writes the things of a kind and tells nobody.
LEMMA ThingTold ==
    ASSUME ToldInv, NEW r \in Requests, Commits(r), NEW written, Handles(r, written),
           NEW kind, kind \in DOMAIN ToldTables, ThingsKept(r, kind),
           written \cap ({"polls", "events", "announcements", "items", "serviceRequests", "boardTasks", "meetings",
                          "associations", "chat", "notifications", "frames"} \ {ToldTables[kind]}) = {}
    PROVE  ToldInv'
<1>1. \A other \in DOMAIN ToldTables : ToldTables[other] \in written => other = kind
  <2>1. PICK t : t = ToldTables[kind]
    OBVIOUS
  <2>2. {"polls", "events", "announcements", "items", "serviceRequests", "boardTasks", "meetings"} \cap written
            \subseteq {t}
    BY <2>1
  <2> QED
    BY <2>1, <2>2, OnlyTheKind
<1>2. \A other \in DOMAIN ToldTables : ToldTables[other] \in written => ThingsKept(r, other)
  BY <1>1
<1>3. "associations" \notin written /\ "chat" \notin written /\ "notifications" \notin written /\ "frames" \notin written
  BY ToldTablesAre
<1>4. WritesWell(r, written)
  BY <1>2, <1>3 DEF WritesWell
<1> QED
  BY <1>4, WellTold, Zenon

\* One that tells of them.
LEMMA ThingAndNoticeTold ==
    ASSUME ToldInv, NEW r \in Requests, Commits(r), NEW written, Handles(r, written),
           NEW kind, kind \in DOMAIN ToldTables, ThingsKept(r, kind), TellsWell(r),
           "chat" \in written => ChatGrows(r),
           written \cap ({"polls", "events", "announcements", "items", "serviceRequests", "boardTasks", "meetings",
                          "associations"} \ {ToldTables[kind]}) = {}
    PROVE  ToldInv'
<1>1. \A other \in DOMAIN ToldTables : ToldTables[other] \in written => other = kind
  <2>1. PICK t : t = ToldTables[kind]
    OBVIOUS
  <2>2. {"polls", "events", "announcements", "items", "serviceRequests", "boardTasks", "meetings"} \cap written
            \subseteq {t}
    BY <2>1
  <2> QED
    BY <2>1, <2>2, OnlyTheKind
<1>2. \A other \in DOMAIN ToldTables : ToldTables[other] \in written => ThingsKept(r, other)
  BY <1>1
<1>3. "associations" \notin written
  BY ToldTablesAre
<1>4. WritesWell(r, written)
  BY <1>2, <1>3 DEF WritesWell
<1> QED
  BY <1>4, WellTold, Zenon

\* The commits of each service.
LEMMA PollsTold ==
    ASSUME ToldInv, NEW r \in Requests, Commits(r), PollStep(r)
    PROVE  ToldInv'
<1>1. CASE create_poll(r) \/ update_poll(r)
  <2>1. Handles(r, {"polls", "pollOptions", "pollVotes", "notifications"})
    BY <1>1, PollsTell
  <2>2. ThingsKept(r, "poll") /\ TellsWell(r)
    BY <1>1, CreatesAdd, EditsKeep, CreatePollWell, UpdatePollWell DEF Added
  <2> QED
    BY <2>1, <2>2, TellKinds, ThingAndNoticeTold
<1>2. CASE delete_poll(r)
  <2>1. Handles(r, {"polls"}) /\ ThingsKept(r, "poll")
    BY <1>2, PollsDelete, EditsKeep
  <2> QED
    BY <2>1, TellKinds, ThingTold
<1>3. CASE vote_poll(r) \/ toggle_poll_like(r) \/ add_poll_comment(r)
  <2>1. Handles(r, {"pollVotes", "pollLikes", "pollComments"})
    BY <1>3, PollsWrite
  <2> QED
    BY <2>1, OthersTold
<1> QED
  BY <1>1, <1>2, <1>3 DEF PollStep

\* The event service.
LEMMA EventsTold ==
    ASSUME ToldInv, NEW r \in Requests, Commits(r), EventStep(r)
    PROVE  ToldInv'
<1>1. CASE create_event(r) \/ update_event(r)
  <2>1. Handles(r, {"events", "notifications"})
    BY <1>1, EventsTell
  <2>2. ThingsKept(r, "event") /\ TellsWell(r)
    BY <1>1, CreatesAdd, EditsKeep, CreateEventWell, UpdateEventWell DEF Added
  <2> QED
    BY <2>1, <2>2, TellKinds, ThingAndNoticeTold
<1>2. CASE delete_event(r)
  <2>1. Handles(r, {"events"}) /\ ThingsKept(r, "event")
    BY <1>2, EventsDelete, EditsKeep
  <2> QED
    BY <2>1, TellKinds, ThingTold
<1>3. CASE toggle_event_like(r) \/ add_event_comment(r)
  <2>1. Handles(r, {"eventLikes", "eventComments"})
    BY <1>3, EventsWrite
  <2> QED
    BY <2>1, OthersTold
<1>4. CASE rsvp(r) \/ clear_rsvp(r)
  <2>1. Handles(r, {"rsvps"})
    BY <1>4, AnswersWrite
  <2> QED
    BY <2>1, OthersTold
<1> QED
  BY <1>1, <1>2, <1>3, <1>4 DEF EventStep

\* The announcement service.
LEMMA AnnouncementsTold ==
    ASSUME ToldInv, NEW r \in Requests, Commits(r), AnnouncementStep(r)
    PROVE  ToldInv'
<1>1. CASE create_announcement(r)
  <2>1. Handles(r, {"announcements", "notifications"})
    BY <1>1, AnnouncementsTell
  <2>2. ThingsKept(r, "announcement") /\ TellsWell(r)
    BY <1>1, CreatesAdd, CreateAnnouncementWell DEF Added
  <2> QED
    BY <2>1, <2>2, TellKinds, ThingAndNoticeTold
<1>2. CASE update_announcement(r) \/ delete_announcement(r)
  <2>1. Handles(r, {"announcements", "announcementComments"}) /\ ThingsKept(r, "announcement")
    BY <1>2, AnnouncementsWrite, EditsKeep
  <2> QED
    BY <2>1, TellKinds, ThingTold
<1>3. CASE add_announcement_comment(r)
  <2>1. Handles(r, {"announcements", "announcementComments"})
    BY <1>3, AnnouncementsWrite
  <2>2. "announcements" \in DOMAIN db' /\ db'.announcements = db.announcements
    <3>1. Sessions /\ "announcements" \in DOMAIN db
      BY TellKinds DEF ToldInv, ThingsTold
    <3> QED
      BY <1>3, <3>1, Decided, ZenonT(30) DEF add_announcement_comment, Decide, Commit
  <2>3. ThingsKept(r, "announcement")
    BY <2>2, TellKinds, ThingsStay
  <2> QED
    BY <2>1, <2>3, TellKinds, ThingTold
<1>4. CASE toggle_like(r)
  <2>1. Handles(r, {"likes"})
    BY <1>4, LikesWrite
  <2> QED
    BY <2>1, OthersTold
<1> QED
  BY <1>1, <1>2, <1>3, <1>4 DEF AnnouncementStep

\* The marketplace and its chat.
LEMMA ItemsTold ==
    ASSUME ToldInv, NEW r \in Requests, Commits(r), MarketStep(r)
    PROVE  ToldInv'
<1>1. CASE send_chat(r)
  <2>1. Handles(r, {"chat", "frames", "notifications"})
    BY <1>1, ItemsTell
  <2>2. ThingsKept(r, "item") /\ TellsWell(r) /\ ChatGrows(r)
    BY <1>1, MessagesLeave, SendChatWell, ChatKept
  <2> QED
    BY <2>1, <2>2, TellKinds, ThingAndNoticeTold
<1>2. CASE create_item(r) \/ update_item(r) \/ delete_item(r)
  <2>1. Handles(r, {"items", "images", "reports"}) /\ ThingsKept(r, "item")
    BY <1>2, ItemsWrite, CreatesAdd, EditsKeep DEF Added
  <2> QED
    BY <2>1, TellKinds, ThingTold
<1>3. CASE add_report(r)
  <2>1. Handles(r, {"items", "images", "reports"})
    BY <1>3, ItemsWrite
  <2>2. "items" \in DOMAIN db' /\ db'.items = db.items
    <3>1. Sessions /\ "items" \in DOMAIN db
      BY TellKinds DEF ToldInv, ThingsTold
    <3> QED
      BY <1>3, <3>1, Decided, ZenonT(30) DEF add_report, Decide, Commit
  <2>3. ThingsKept(r, "item")
    BY <2>2, TellKinds, ThingsStay
  <2> QED
    BY <2>1, <2>3, TellKinds, ThingTold
<1>4. CASE toggle_favorite(r)
  <2>1. Handles(r, {"favorites"})
    BY <1>4, FavoritesWrite
  <2> QED
    BY <2>1, OthersTold
<1>5. CASE record_view(r)
  <2>1. Handles(r, {"views"})
    BY <1>5, ViewsWrite
  <2> QED
    BY <2>1, OthersTold
<1> QED
  BY <1>1, <1>2, <1>3, <1>4, <1>5 DEF MarketStep

\* The service requests.
LEMMA RequestsTold ==
    ASSUME ToldInv, NEW r \in Requests, Commits(r), ServiceStep(r)
    PROVE  ToldInv'
<1>1. CASE create_service_request(r) \/ update_service_status(r) \/ map_service_request(r) \/ send_service_message(r)
  <2>1. Handles(r, {"serviceRequests", "serviceMessages", "frames", "notifications"})
    BY <1>1, RequestsTell
  <2>2. ThingsKept(r, "request")
    BY <1>1, CreatesAdd, EditsKeep, EditsLeave, MessagesLeave DEF Added
  <2>3. TellsWell(r)
    BY <1>1, CreateRequestWell, RequestStatusWell, MapRequestWell, RequestMessageWell
  <2> QED
    BY <2>1, <2>2, <2>3, TellKinds, ThingAndNoticeTold
<1>2. CASE delete_service_request(r)
  <2>1. Handles(r, {"serviceRequests"}) /\ ThingsKept(r, "request")
    BY <1>2, RequestsWrite, EditsKeep
  <2> QED
    BY <2>1, TellKinds, ThingTold
<1> QED
  BY <1>1, <1>2 DEF ServiceStep

\* The board tasks.
LEMMA TasksTold ==
    ASSUME ToldInv, NEW r \in Requests, Commits(r), BoardTaskStep(r)
    PROVE  ToldInv'
<1>1. CASE create_task(r) \/ update_task_status(r) \/ send_task_message(r)
  <2>1. Handles(r, {"boardTasks", "taskMessages", "frames", "notifications"})
    BY <1>1, TasksTell
  <2>2. ThingsKept(r, "task")
    BY <1>1, CreatesAdd, EditsLeave, MessagesLeave DEF Added
  <2>3. TellsWell(r)
    BY <1>1, CreateTaskWell, TaskStatusWell, TaskMessageWell
  <2> QED
    BY <2>1, <2>2, <2>3, TellKinds, ThingAndNoticeTold
<1>2. CASE delete_task(r)
  <2>1. Handles(r, {"boardTasks"}) /\ ThingsKept(r, "task")
    BY <1>2, TasksWrite, EditsKeep
  <2> QED
    BY <2>1, TellKinds, ThingTold
<1> QED
  BY <1>1, <1>2 DEF BoardTaskStep

\* The meetings.
LEMMA MeetingsTold ==
    ASSUME ToldInv, NEW r \in Requests, Commits(r), MeetingStep(r)
    PROVE  ToldInv'
<1>1. CASE create_meeting(r)
  <2>1. Handles(r, {"meetings", "notifications"})
    BY <1>1, MeetingsTell
  <2>2. AssociationsLast(r)
    BY <2>1, AssociationsStay
  <2>3. ThingsKept(r, "meeting") /\ TellsWell(r)
    BY <1>1, <2>2, CreatesAdd, CreateMeetingWell DEF Added
  <2> QED
    BY <2>1, <2>3, TellKinds, ThingAndNoticeTold
<1>2. CASE update_details(r) \/ add_minutes(r) \/ delete_meeting(r)
  <2>1. Handles(r, {"meetings"}) /\ ThingsKept(r, "meeting")
    BY <1>2, MeetingsWrite, EditsKeep, EditsLeave
  <2> QED
    BY <2>1, TellKinds, ThingTold
<1>3. CASE update_attendance(r)
  <2>1. Handles(r, {"attendance"})
    BY <1>3, AttendanceWrite
  <2> QED
    BY <2>1, OthersTold
<1> QED
  BY <1>1, <1>2, <1>3 DEF MeetingStep

\* The onboarding and the onboarded accounts.
LEMMA OnboardingTold ==
    ASSUME ToldInv, NEW r \in Requests, Commits(r), OnboardingStep(r)
    PROVE  ToldInv'
<1>1. \E written : /\ Handles(r, written)
                   /\ written \cap {"polls", "events", "announcements", "items", "serviceRequests", "boardTasks",
                                    "meetings", "chat", "notifications", "frames"} = {}
  <2>1. CASE onboard(r)
    <3>1. Handles(r, {"associations", "blocks", "units", "people", "logins", "boardTerms"})
      BY <2>1, OnboardingWrite
    <3> QED
      BY <3>1
  <2>2. CASE update_settings(r) \/ set_unit_occupancy(r) \/ update_subscription(r)
    <3>1. Handles(r, {"associations", "units", "assessmentRules", "fineRules"})
      BY <2>2, SettingsWrite
    <3> QED
      BY <3>1
  <2> QED
    BY <2>1, <2>2 DEF OnboardingStep
<1>2. PICK written :
        /\ Handles(r, written)
        /\ written \cap {"polls", "events", "announcements", "items", "serviceRequests", "boardTasks",
                         "meetings", "chat", "notifications", "frames"} = {}
  BY <1>1
<1>3. \A kind \in DOMAIN ToldTables : ToldTables[kind] \notin written
  BY <1>2, ToldTablesAre
<1>4. WritesWell(r, written)
  BY <1>2, <1>3, AssociationsKeep DEF WritesWell
<1> QED
  BY <1>4, WellTold, Zenon

\* Every request keeps the invariant.
LEMMA StepTold ==
    ASSUME ToldInv, NEW r \in Requests, Commits(r), Step(r)
    PROVE  ToldInv'
<1>1. CASE PollStep(r) \/ EventStep(r) \/ AnnouncementStep(r) \/ MarketStep(r)
  BY <1>1, PollsTold, EventsTold, AnnouncementsTold, ItemsTold
<1>2. CASE ServiceStep(r) \/ BoardTaskStep(r) \/ MeetingStep(r) \/ OnboardingStep(r)
  BY <1>2, RequestsTold, TasksTold, MeetingsTold, OnboardingTold
<1>3. CASE DocumentStep(r)
  <2>1. Handles(r, {"documents", "unitDocuments"})
    BY <1>3, DocumentsWrite
  <2> QED
    BY <2>1, OthersTold
<1>4. CASE InvoiceStep(r)
  <2>1. Handles(r, {"invoices", "invoiceLines"})
    BY <1>4, InvoicesWrite
  <2> QED
    BY <2>1, OthersTold
<1>5. CASE ReportStep(r)
  <2>1. Handles(r, {"financialReports"})
    BY <1>5, ReportsWrite
  <2> QED
    BY <2>1, OthersTold
<1>6. CASE StatementStep(r)
  <2>1. Handles(r, {"globalChart", "chart", "balanceSheets", "incomeStatements"})
    BY <1>6, StatementsWrite
  <2> QED
    BY <2>1, OthersTold
<1>7. CASE CatalogueStep(r)
  <2>1. Handles(r, {"entityTypes", "entities", "plans", "planFeatures", "features", "roles", "permissions"})
    BY <1>7, CataloguesWrite
  <2> QED
    BY <2>1, OthersTold
<1>8. CASE DirectoryStep(r)
  <2>1. Handles(r, {"people", "logins", "employees"}) \/ Handles(r, {"people", "vendors", "bankAccounts"})
    BY <1>8, LoginsWrite, DirectoryWrite
  <2> QED
    BY <2>1, OthersTold
<1>9. CASE ProfileStep(r)
  <2>1. Handles(r, {"people", "employees"}) \/ Handles(r, {"profileRecords"})
    BY <1>9, DetailsWrite, RecordsWrite DEF ProfileStep
  <2> QED
    BY <2>1, OthersTold
<1>10. CASE InboxStep(r)
  <2>1. Handles(r, {"read"})
    BY <1>10, InboxWrite
  <2> QED
    BY <2>1, OthersTold
<1> QED
  BY <1>1, <1>2, <1>3, <1>4, <1>5, <1>6, <1>7, <1>8, <1>9, <1>10 DEF Step

\* The opening tables tell nobody what they may not open.
LEMMA InitTold == Init => ToldInv
<1> SUFFICES ASSUME Init PROVE ToldInv
  OBVIOUS
<1>1. /\ Sessions /\ body \in Workloads /\ db = OpeningTables
      /\ \A q \in Requests : stage[q] = "waiting"
  BY InitSessions DEF Init
<1>2. \A kind \in DOMAIN ToldTables : ThingsTold(kind)
  BY <1>1, OpeningTold DEF ThingsTold, Requests
<1>3. ASSUME NEW n \in Notices
      PROVE  Sent(n) /\ Opens(n)
  <2>1. n \in OpeningTables.notifications \cup OpeningTables.frames
    BY <1>1 DEF Notices
  <2>2. n.by \notin Requests
    BY <1>1, <2>1, OpeningTold DEF Requests
  <2>3. CASE n.about[1] \in DOMAIN ToldTables
    BY <1>1, <2>1, <2>2, <2>3, OpeningTold DEF Sent, Opens
  <2>4. CASE n.about[1] \notin DOMAIN ToldTables
    <3>1. \A a : MayOpen(db, a, n.about)
      BY <2>4, TellKinds DEF MayOpen
    <3> QED
      BY <2>2, <2>4, <3>1 DEF Sent, Opens
  <2> QED
    BY <2>3, <2>4
<1>4. \A q \in Requests : q \notin DOMAIN db.chat \cup DOMAIN db.associations
  BY <1>1, OpeningTold DEF Requests
<1>5. /\ {"notifications", "frames", "chat", "associations"} \subseteq DOMAIN db
      /\ \A a \in DOMAIN db.associations : "deleted" \in DOMAIN db.associations[a]
  BY <1>1, OpeningTold
<1> QED
  BY <1>1, <1>2, <1>3, <1>4, <1>5 DEF ToldInv

\* Every step preserves it, and a stutter.
LEMMA NextTold == ToldInv /\ [Next]_vars => ToldInv'
  BY IdleTold, StepTold, StepCases DEF ToldInv

\* What a thing is opened by and who is told of it agree in every reachable state.
THEOREM ToldInvariant == Spec => []ToldInv
  BY InitTold, NextTold, PTL DEF Spec

\* Who is told of a thing may open it, but for the exceptions of ToldBesides, until a request
\* other than the one that told edited or deleted it (the recipients of create_poll ...
\* send_task_message against _authorized_poll ... meeting_list).
THEOREM ToldMayBeOpened == Spec => []ToldMayOpen
<1>1. ToldInv => ToldMayOpen
  BY Zenon DEF ToldInv, ToldMayOpen, Opens, Notices, Changers
<1> QED
  BY ToldInvariant, <1>1, PTL
-----------------------------------------------------------------------------
(* What an edit was not asked to change stays: OnlyAskedChanges. A request that       *)
(* missed no commit sees the tables as they are.                                  *)

\* The rows have the columns, and the features of a plan are keyed by pairs.
AskedColumnsThere(tables) ==
    /\ \A t \in DOMAIN AskedColumns :
          /\ t \in DOMAIN tables
          /\ \A k \in DOMAIN tables[t] : AskedColumns[t] \subseteq DOMAIN tables[t][k]
    /\ \A k \in DOMAIN tables.planFeatures : k = <<k[1], k[2]>>

\* The keys of requests that have not ended are free.
KeysFree ==
    \A q \in Requests : stage[q] \in {"waiting", "open"} =>
        /\ q \notin DOMAIN db.unitDocuments /\ q \notin DOMAIN db.bankAccounts
        /\ \A k \in DOMAIN db.permissions : k[1] # q

\* A snapshot that missed no commit is of the tables there are.
AskedInv ==
    /\ Sessions /\ body \in Workloads
    /\ AskedColumnsThere(db)
    /\ KeysFree
    /\ \A q \in Requests : stage[q] = "open" =>
          AskedColumnsThere(seen[q]) /\ (missed[q] = {} => seen[q] = db)

\* What OnlyAskedChanges says of a request, table by table.
FilesAsked(r) ==
    \A d \in DOMAIN db.unitDocuments : \A f \in {"file", "board"} :
        db'.unitDocuments[d][f] # db.unitDocuments[d][f] => Asked(r, f, db'.unitDocuments[d][f])
ItemsAsked(r) ==
    \A i \in DOMAIN db.items : \A f \in {"title", "price", "status"} :
        db'.items[i][f] # db.items[i][f] => f \in DOMAIN body[r].columns
BanksAsked(r) ==
    \A k \in DOMAIN db.bankAccounts :
        LET old == db.bankAccounts[k]
            new == db'.bankAccounts[k]
        IN  /\ new.number # old.number => new.number = body[r].number /\ ~new.number.masked
            /\ new.api_key # old.api_key => new.api_key = body[r].api_key /\ new.api_key # Hidden

\* What a commit does to these tables.
FilesKept(r) ==
    /\ "unitDocuments" \in DOMAIN db'
    /\ DOMAIN db'.unitDocuments \subseteq DOMAIN db.unitDocuments \cup {r}
    /\ \A k \in DOMAIN db'.unitDocuments : AskedColumns.unitDocuments \subseteq DOMAIN db'.unitDocuments[k]
    /\ FilesAsked(r)
ItemsKept(r) ==
    /\ "items" \in DOMAIN db'
    /\ \A k \in DOMAIN db'.items : AskedColumns.items \subseteq DOMAIN db'.items[k]
    /\ ItemsAsked(r)
BanksKept(r) ==
    /\ "bankAccounts" \in DOMAIN db'
    /\ DOMAIN db'.bankAccounts \subseteq DOMAIN db.bankAccounts \cup {r}
    /\ \A k \in DOMAIN db'.bankAccounts : AskedColumns.bankAccounts \subseteq DOMAIN db'.bankAccounts[k]
    /\ BanksAsked(r)
GrantsKept(r) ==
    /\ {"permissions", "planFeatures"} \subseteq DOMAIN db'
    /\ \A k \in DOMAIN db'.permissions : /\ k \in DOMAIN db.permissions \/ k[1] = r
                                         /\ AskedColumns.permissions \subseteq DOMAIN db'.permissions[k]
    /\ \A k \in DOMAIN db'.planFeatures : /\ k = <<k[1], k[2]>>
                                          /\ AskedColumns.planFeatures \subseteq DOMAIN db'.planFeatures[k]
    /\ missed[r] # {} \/ GrantsAsAsked(r, db')

\* The tables, one by one.
LEMMA AskedTables ==
    ASSUME NEW tables
    PROVE  AskedColumnsThere(tables) <=>
             /\ {"unitDocuments", "items", "bankAccounts", "permissions", "planFeatures"} \subseteq DOMAIN tables
             /\ \A k \in DOMAIN tables.unitDocuments : AskedColumns.unitDocuments \subseteq DOMAIN tables.unitDocuments[k]
             /\ \A k \in DOMAIN tables.items : AskedColumns.items \subseteq DOMAIN tables.items[k]
             /\ \A k \in DOMAIN tables.bankAccounts : AskedColumns.bankAccounts \subseteq DOMAIN tables.bankAccounts[k]
             /\ \A k \in DOMAIN tables.permissions : AskedColumns.permissions \subseteq DOMAIN tables.permissions[k]
             /\ \A k \in DOMAIN tables.planFeatures : /\ k = <<k[1], k[2]>>
                                                     /\ AskedColumns.planFeatures \subseteq DOMAIN tables.planFeatures[k]
<1>1. DOMAIN AskedColumns = {"unitDocuments", "items", "bankAccounts", "permissions", "planFeatures"}
  BY DEF AskedColumns
<1> QED
  BY <1>1 DEF AskedColumnsThere

\* A commit that keeps the tables so keeps the invariant and does only what was asked.
LEMMA CommitAsked ==
    ASSUME AskedInv, NEW r \in Requests, Commits(r), FilesKept(r), ItemsKept(r), BanksKept(r), GrantsKept(r)
    PROVE  AskedInv'
<1>1. Sessions' /\ body' = body /\ Requests' = Requests
  BY StepSessions, Zenon DEF AskedInv, Commits, Requests
<1>2. AskedColumnsThere(db')
  BY AskedTables DEF FilesKept, ItemsKept, BanksKept, GrantsKept
<1>3. ASSUME NEW q \in Requests, stage'[q] \in {"waiting", "open"}
      PROVE  q # r /\ stage'[q] = stage[q] /\ seen'[q] = seen[q]
  BY <1>3 DEF Commits, Committed
<1>4. KeysFree'
  BY <1>1, <1>3 DEF KeysFree, AskedInv, FilesKept, BanksKept, GrantsKept
<1>5. ASSUME NEW q \in Requests, stage'[q] = "open"
      PROVE  AskedColumnsThere(seen'[q]) /\ missed'[q] # {}
  <2>1. q # r /\ stage[q] = "open" /\ seen'[q] = seen[q]
    BY <1>3, <1>5
  <2>2. r \in missed'[q]
    BY <2>1 DEF Commits
  <2> QED
    BY <2>1, <2>2 DEF AskedInv
<1> QED
  BY <1>1, <1>2, <1>4, <1>5 DEF AskedInv

\* A step that writes nothing keeps it too.
LEMMA IdleAsked ==
    ASSUME AskedInv, Idle
    PROVE  AskedInv'
<1>1. Sessions' /\ body' = body /\ Requests' = Requests /\ db' = db /\ missed' = missed
  BY StepSessions, Zenon DEF AskedInv, Idle, Requests
<1>2. KeysFree'
  BY <1>1 DEF KeysFree, AskedInv, Idle
<1>3. ASSUME NEW q \in Requests, stage'[q] = "open"
      PROVE  AskedColumnsThere(seen'[q]) /\ (missed'[q] = {} => seen'[q] = db')
  <2>1. seen'[q] = IF stage[q] = "open" THEN seen[q] ELSE db
    BY <1>3 DEF Idle
  <2> QED
    BY <1>1, <2>1 DEF AskedInv
<1> QED
  BY <1>1, <1>2, <1>3 DEF AskedInv

\* It holds at first.
LEMMA InitAsked == Init => AskedInv
<1> SUFFICES ASSUME Init PROVE AskedInv
  OBVIOUS
<1>1. Sessions /\ body \in Workloads /\ db = OpeningTables
  BY InitSessions DEF Init
<1>2. AskedColumnsThere(db)
  BY <1>1, OpeningAsked DEF AskedColumnsThere
<1>3. KeysFree
  BY <1>1, OpeningAsked DEF KeysFree, Requests
<1>4. \A q \in Requests : stage[q] # "open"
  BY DEF Init
<1> QED
  BY <1>1, <1>2, <1>3, <1>4 DEF AskedInv

\* Tables that a commit leaves are kept.
LEMMA AskedStay ==
    ASSUME AskedInv, NEW r \in Requests
    PROVE  /\ "unitDocuments" \in DOMAIN db' /\ db'.unitDocuments = db.unitDocuments => FilesKept(r)
           /\ "items" \in DOMAIN db' /\ db'.items = db.items => ItemsKept(r)
           /\ "bankAccounts" \in DOMAIN db' /\ db'.bankAccounts = db.bankAccounts => BanksKept(r)
<1>1. "unitDocuments" \in DOMAIN db' /\ db'.unitDocuments = db.unitDocuments => FilesKept(r)
  BY AskedTables DEF AskedInv, FilesKept, FilesAsked
<1>2. "items" \in DOMAIN db' /\ db'.items = db.items => ItemsKept(r)
  BY AskedTables DEF AskedInv, ItemsKept, ItemsAsked
<1>3. "bankAccounts" \in DOMAIN db' /\ db'.bankAccounts = db.bankAccounts => BanksKept(r)
  BY AskedTables DEF AskedInv, BanksKept, BanksAsked
<1> QED
  BY <1>1, <1>2, <1>3

\* Grants that nobody edits as a whole are kept too.
LEMMA GrantsStay ==
    ASSUME AskedInv, NEW r \in Requests, body[r].op \notin {"bulk_permissions", "set_features"},
           {"permissions", "planFeatures"} \subseteq DOMAIN db',
           db'.permissions = db.permissions, db'.planFeatures = db.planFeatures
    PROVE  GrantsKept(r)
  BY AskedTables DEF AskedInv, GrantsKept, GrantsAsAsked

\* The tables after an UPDATE of one row.
LEMMA UpdatedFile ==
    ASSUME NEW table, NEW k, NEW columns, NEW d \in DOMAIN table
    PROVE  /\ DOMAIN Update(table, k, columns) = DOMAIN table
           /\ \/ Update(table, k, columns)[d] = table[d]
              \/ d = k /\ Update(table, k, columns)[d] = With(table[d], columns)
  BY DEF Update

\* Documents: a column of a unit's document becomes what the request gives, or what its
\* snapshot had.
LEMMA FilesWell ==
    ASSUME AskedInv, NEW r \in Requests, Commits(r), DocumentStep(r)
    PROVE  FilesKept(r)
<1>1. Sessions /\ "unitDocuments" \in DOMAIN db /\ stage[r] = "open"
      /\ \A k \in DOMAIN db.unitDocuments : {"file", "board"} \subseteq DOMAIN db.unitDocuments[k]
  BY AskedTables DEF AskedInv, Commits, AskedColumns
<1>2. ASSUME create_document(r) \/ update_document(r) \/ delete_document(r)
      PROVE  FilesKept(r)
  <2>1. "unitDocuments" \in DOMAIN db' /\ db'.unitDocuments = db.unitDocuments
    BY <1>1, <1>2, Decided, ZenonT(30) DEF create_document, update_document, delete_document, Decide, Commit
  <2> QED
    BY <2>1, AskedStay
<1>3. ASSUME create_unit_document(r)
      PROVE  FilesKept(r)
  <2>1. \E row : /\ {"file", "board"} \subseteq DOMAIN row
                 /\ "unitDocuments" \in DOMAIN db'
                 /\ db'.unitDocuments = With(db.unitDocuments, [k \in {r} |-> row])
    <3> DEFINE manager == RoleOf[body[r].by] \in UNIT_DOCUMENT_MANAGER_ROLES
               row == [association |-> IF manager THEN body[r].association ELSE HomeOf[body[r].by],
                       by |-> body[r].by, name |-> body[r].name, file |-> body[r].file,
                       unit |-> IF manager THEN body[r].unit ELSE UnitOf[body[r].by],
                       board |-> body[r].board \/ RoleOf[body[r].by] = "tenant", deleted |-> FALSE]
    <3>1. "unitDocuments" \in DOMAIN db' /\ db'.unitDocuments = With(db.unitDocuments, [k \in {r} |-> row])
      BY <1>1, <1>3, Decided, ZenonT(30) DEF create_unit_document, Decide, Commit
    <3>2. {"file", "board"} \subseteq DOMAIN row
      OBVIOUS
    <3> HIDE DEF row
    <3> QED
      BY <3>1, <3>2
  <2>2. PICK row : /\ {"file", "board"} \subseteq DOMAIN row
                   /\ "unitDocuments" \in DOMAIN db'
                   /\ db'.unitDocuments = With(db.unitDocuments, [k \in {r} |-> row])
    BY <2>1
  <2>3. r \notin DOMAIN db.unitDocuments
    BY <1>1 DEF AskedInv, KeysFree
  <2>4. \A k \in DOMAIN db.unitDocuments : db'.unitDocuments[k] = db.unitDocuments[k]
    BY <2>2, <2>3 DEF With
  <2>5. /\ DOMAIN db'.unitDocuments = DOMAIN db.unitDocuments \cup {r}
        /\ db'.unitDocuments[r] = row
    BY <2>2 DEF With
  <2> QED
    BY <1>1, <2>2, <2>4, <2>5 DEF FilesKept, FilesAsked, AskedColumns
<1>4. ASSUME update_unit_document(r)
      PROVE  FilesKept(r)
  <2> DEFINE b == body[r]
             old == seen[r].unitDocuments[b.unit_document]
  <2>1. PICK columns :
          /\ columns = [name |-> b.name,
                        file |-> IF b.file = None THEN old.file ELSE b.file,
                        board |-> CASE RoleOf[b.by] = "tenant" -> TRUE
                                    [] b.board = None -> old.board
                                    [] OTHER -> b.board]
          /\ "unitDocuments" \in DOMAIN db'
          /\ db'.unitDocuments = Update(db.unitDocuments, b.unit_document, columns)
    BY <1>1, <1>4, Decided, ZenonT(30) DEF update_unit_document, Decide, Commit
  <2>2. DOMAIN db'.unitDocuments = DOMAIN db.unitDocuments
    BY <2>1 DEF Update
  <2>3. ASSUME NEW d \in DOMAIN db.unitDocuments
        PROVE  /\ {"file", "board"} \subseteq DOMAIN db'.unitDocuments[d]
               /\ \A f \in {"file", "board"} :
                     db'.unitDocuments[d][f] # db.unitDocuments[d][f] => Asked(r, f, db'.unitDocuments[d][f])
    <3>1. CASE db'.unitDocuments[d] = db.unitDocuments[d]
      BY <1>1, <3>1
    <3>2. CASE d = b.unit_document /\ db'.unitDocuments[d] = With(db.unitDocuments[d], columns)
      <4>1. /\ {"file", "board"} \subseteq DOMAIN db'.unitDocuments[d]
            /\ db'.unitDocuments[d]["file"] = columns["file"] /\ db'.unitDocuments[d]["board"] = columns["board"]
        BY <2>1, <3>2, Zenon DEF With
      <4>2. missed[r] = {} => old = db.unitDocuments[d]
        BY <1>1, <3>2 DEF AskedInv
      <4>3. db'.unitDocuments[d]["file"] # db.unitDocuments[d]["file"] => Asked(r, "file", db'.unitDocuments[d]["file"])
        BY <2>1, <4>1, <4>2 DEF Asked
      <4>4. db'.unitDocuments[d]["board"] # db.unitDocuments[d]["board"] => Asked(r, "board", db'.unitDocuments[d]["board"])
        BY <2>1, <4>1, <4>2 DEF Asked
      <4> QED
        BY <4>1, <4>3, <4>4
    <3>3. \/ db'.unitDocuments[d] = db.unitDocuments[d]
          \/ d = b.unit_document /\ db'.unitDocuments[d] = With(db.unitDocuments[d], columns)
      <4> HIDE DEF b
      <4> QED
        BY <2>1, UpdatedFile
    <3> QED
      BY <3>1, <3>2, <3>3
  <2> QED
    BY <2>1, <2>2, <2>3, Zenon DEF FilesKept, FilesAsked, AskedColumns
<1>5. ASSUME delete_unit_document(r)
      PROVE  FilesKept(r)
  <2>1. PICK columns :
          /\ columns = [deleted |-> TRUE]
          /\ "unitDocuments" \in DOMAIN db'
          /\ db'.unitDocuments = Update(db.unitDocuments, body[r].unit_document, columns)
    BY <1>1, <1>5, Decided, ZenonT(30) DEF delete_unit_document, Decide, Commit
  <2>2. DOMAIN db'.unitDocuments = DOMAIN db.unitDocuments
    BY <2>1 DEF Update
  <2>3. ASSUME NEW d \in DOMAIN db.unitDocuments
        PROVE  /\ {"file", "board"} \subseteq DOMAIN db'.unitDocuments[d]
               /\ \A f \in {"file", "board"} : db'.unitDocuments[d][f] = db.unitDocuments[d][f]
    <3>1. CASE db'.unitDocuments[d] = db.unitDocuments[d]
      BY <1>1, <3>1
    <3>2. CASE db'.unitDocuments[d] = With(db.unitDocuments[d], columns)
      BY <1>1, <2>1, <3>2 DEF With
    <3> QED
      BY <2>1, <3>1, <3>2, UpdatedFile
  <2> QED
    BY <2>1, <2>2, <2>3 DEF FilesKept, FilesAsked, AskedColumns
<1> QED
  BY <1>2, <1>3, <1>4, <1>5 DEF DocumentStep

\* Items: what changes is named.
LEMMA ItemsWell ==
    ASSUME AskedInv, NEW r \in Requests, Commits(r), MarketStep(r)
    PROVE  ItemsKept(r)
<1> DEFINE b == body[r]
<1>1. Sessions /\ "items" \in DOMAIN db
      /\ \A i \in DOMAIN db.items : {"title", "price", "status"} \subseteq DOMAIN db.items[i]
  BY AskedTables DEF AskedInv, AskedColumns
<1>2. ASSUME send_chat(r) \/ toggle_favorite(r) \/ record_view(r) \/ add_report(r)
      PROVE  ItemsKept(r)
  <2>1. CASE add_report(r)
    <3>1. "items" \in DOMAIN db' /\ db'.items = db.items
      BY <1>1, <2>1, Decided, ZenonT(30) DEF add_report, Decide, Commit
    <3> QED
      BY <3>1, AskedStay
  <2>2. CASE ~add_report(r)
    <3>1. \/ Handles(r, {"chat", "frames", "notifications"})
          \/ Handles(r, {"favorites"}) \/ Handles(r, {"views"})
      BY <1>2, <2>2, ItemsTell, FavoritesWrite, ViewsWrite
    <3>2. "items" \in DOMAIN db' /\ db'.items = db.items
      BY <1>1, <3>1, HandlesFrame DEF Leaves
    <3> QED
      BY <3>2, AskedStay
  <2> QED
    BY <2>1, <2>2
<1>3. ASSUME create_item(r)
      PROVE  ItemsKept(r)
  <2> DEFINE choices == CASE b.association # None -> {b.association}
                          [] RoleOf[b.by] = "super_admin" -> {}
                          [] OTHER -> scope(b.by)
             Row(a) == With(b.columns, [association |-> a, owner |-> b.by, deleted |-> FALSE])
             images == With(db.images, new_images(r, r, b.images))
  <2>1. IF choices = {} THEN Refuse(r)
        ELSE \E a \in choices :
               Decide(r, InScope(b.by, a) /\ association_exists(seen[r], a), FALSE,
                      [db EXCEPT !.items = With(@, [k \in {r} |-> Row(a)]), !.images = images])
    BY <1>3, Zenon DEF create_item
  <2> HIDE DEF choices, Row, images
  <2>2. \E a : db' = [db EXCEPT !.items = With(@, [k \in {r} |-> Row(a)]), !.images = images]
    BY <1>1, <2>1, Decided, ZenonT(30) DEF Decide, Commit
  <2>3. PICK association, row :
           /\ row = With(b.columns, [association |-> association, owner |-> b.by, deleted |-> FALSE])
           /\ "items" \in DOMAIN db'
           /\ db'.items = With(db.items, [k \in {r} |-> row])
    <3>1. PICK association : db' = [db EXCEPT !.items = With(@, [k \in {r} |-> Row(association)]), !.images = images]
      BY <2>2
    <3>2. "items" \in DOMAIN db' /\ db'.items = With(db.items, [k \in {r} |-> Row(association)])
      BY <1>1, <3>1
    <3> QED
      BY <3>2, Zenon DEF Row
  <2>4. body[r].op = "create_item" /\ body \in Workloads
    BY <1>3 DEF create_item, Asks, AskedInv
  <2>5. {"title", "price", "status"} \subseteq DOMAIN body[r].columns
    BY <2>4, Payloads DEF AskedColumns, Requests
  <2>6. {"title", "price", "status"} \subseteq DOMAIN row
    BY <2>3, <2>5 DEF With
  <2>7. /\ DOMAIN db'.items = DOMAIN db.items \cup {r} /\ db'.items[r] = row
        /\ \A i \in DOMAIN db.items \ {r} : db'.items[i] = db.items[i]
    BY <2>3 DEF With
  <2> QED
    BY <1>1, <2>3, <2>5, <2>6, <2>7 DEF ItemsKept, ItemsAsked, AskedColumns
<1>4. ASSUME update_item(r)
      PROVE  ItemsKept(r)
  <2> DEFINE images == IF b.images = None THEN db.images
                       ELSE With(Delete(db.images, db.images, images_of(db, b.item)), new_images(r, b.item, b.images))
             items == [db.items EXCEPT ![b.item] = With(@, b.columns)]
  <2>1. db' = [db EXCEPT !.items = items, !.images = images]
    BY <1>1, <1>4, Decided, ZenonT(30) DEF update_item, Decide, Commit
  <2> HIDE DEF images
  <2>2. "items" \in DOMAIN db' /\ db'.items = [db.items EXCEPT ![b.item] = With(@, b.columns)]
    BY <1>1, <2>1
  <2>3. /\ DOMAIN db'.items = DOMAIN db.items
        /\ \A i \in DOMAIN db.items : db'.items[i] = db.items[i] \/ db'.items[i] = With(db.items[i], b.columns)
    BY <2>2
  <2>4. ASSUME NEW i \in DOMAIN db.items, NEW f \in {"title", "price", "status"}
        PROVE  /\ f \in DOMAIN db'.items[i]
               /\ db'.items[i][f] = db.items[i][f] \/ f \in DOMAIN b.columns
    <3>1. CASE db'.items[i] = db.items[i]
      BY <1>1, <3>1
    <3>2. CASE db'.items[i] = With(db.items[i], b.columns)
      BY <1>1, <3>2 DEF With
    <3> QED
      BY <2>3, <3>1, <3>2
  <2> QED
    BY <2>2, <2>3, <2>4 DEF ItemsKept, ItemsAsked, AskedColumns
<1>5. ASSUME delete_item(r)
      PROVE  ItemsKept(r)
  <2>1. "items" \in DOMAIN db' /\ db'.items = [db.items EXCEPT ![b.item].deleted = TRUE]
    BY <1>1, <1>5, Decided, ZenonT(30) DEF delete_item, Decide, Commit
  <2>2. /\ DOMAIN db'.items = DOMAIN db.items
        /\ \A i \in DOMAIN db.items : \/ db'.items[i] = db.items[i]
                                      \/ db'.items[i] = [db.items[i] EXCEPT !.deleted = TRUE]
    BY <2>1
  <2>3. ASSUME NEW i \in DOMAIN db.items, NEW f \in {"title", "price", "status"}
        PROVE  f \in DOMAIN db'.items[i] /\ db'.items[i][f] = db.items[i][f]
    BY <1>1, <2>2
  <2> QED
    BY <2>1, <2>2, <2>3 DEF ItemsKept, ItemsAsked, AskedColumns
<1> QED
  BY <1>2, <1>3, <1>4, <1>5 DEF MarketStep

\* Bank accounts: the mask is taken for neither a number nor a secret.
LEMMA BanksWell ==
    ASSUME AskedInv, NEW r \in Requests, Commits(r), DirectoryStep(r)
    PROVE  BanksKept(r)
<1> DEFINE b == body[r]
<1>1. Sessions /\ "bankAccounts" \in DOMAIN db /\ stage[r] = "open"
      /\ \A k \in DOMAIN db.bankAccounts : {"number", "api_key"} \subseteq DOMAIN db.bankAccounts[k]
  BY AskedTables DEF AskedInv, AskedColumns, Commits
<1>2. ASSUME update_user(r) \/ create_employee(r) \/ update_employee(r)
      PROVE  BanksKept(r)
  <2>1. Handles(r, {"people", "logins", "employees"})
    BY <1>2, LoginsWrite
  <2>2. "bankAccounts" \in DOMAIN db' /\ db'.bankAccounts = db.bankAccounts
    BY <1>1, <2>1, HandlesFrame DEF Leaves
  <2> QED
    BY <2>2, AskedStay
<1>3. ASSUME create_user(r) \/ delete_user(r) \/ create_vendor(r) \/ update_vendor(r) \/ delete_vendor(r)
      PROVE  BanksKept(r)
  <2>1. "bankAccounts" \in DOMAIN db' /\ db'.bankAccounts = db.bankAccounts
    BY <1>1, <1>3, Decided, ZenonT(30)
       DEF create_user, delete_user, create_vendor, update_vendor, delete_vendor, Decide, Commit
  <2> QED
    BY <2>1, AskedStay
<1>4. ASSUME create_bank_account(r)
      PROVE  BanksKept(r)
  <2>1. PICK row : /\ row = [association |-> b.association, holder |-> b.holder, number |-> b.number,
                             api_key |-> b.api_key, deleted |-> FALSE]
                   /\ "bankAccounts" \in DOMAIN db'
                   /\ db'.bankAccounts = With(db.bankAccounts, [k \in {r} |-> row])
    BY <1>1, <1>4, Decided, ZenonT(30) DEF create_bank_account, Decide, Commit
  <2>2. {"number", "api_key"} \subseteq DOMAIN row
    BY <2>1
  <2>3. r \notin DOMAIN db.bankAccounts
    BY <1>1 DEF AskedInv, KeysFree
  <2>4. /\ DOMAIN db'.bankAccounts = DOMAIN db.bankAccounts \cup {r} /\ db'.bankAccounts[r] = row
        /\ \A k \in DOMAIN db.bankAccounts : db'.bankAccounts[k] = db.bankAccounts[k]
    BY <2>1, <2>3 DEF With
  <2> QED
    BY <1>1, <2>1, <2>2, <2>4 DEF BanksKept, BanksAsked, AskedColumns
<1>5. ASSUME update_bank_account(r)
      PROVE  BanksKept(r)
  <2>1. PICK loaded, new :
          /\ loaded = seen[r].bankAccounts
          /\ new = [loaded[b.bank] EXCEPT !.association = b.association, !.holder = b.holder,
                      !.number = IF b.number.masked THEN @ ELSE b.number,
                      !.api_key = kept_secret(b.api_key, @)]
          /\ b.bank \in DOMAIN loaded
          /\ "bankAccounts" \in DOMAIN db'
          /\ db'.bankAccounts = Save(db.bankAccounts, loaded, b.bank, new)
    <3>1. b.bank \in bank_list(seen[r], b.by)
      BY <1>1, <1>5, Decided, ZenonT(30) DEF update_bank_account, Decide
    <3>2. b.bank \in DOMAIN seen[r].bankAccounts
      BY <3>1 DEF bank_list, Live
    <3>3. /\ "bankAccounts" \in DOMAIN db'
          /\ db'.bankAccounts = Save(db.bankAccounts, seen[r].bankAccounts, b.bank,
                [seen[r].bankAccounts[b.bank] EXCEPT
                   !.association = b.association, !.holder = b.holder,
                   !.number = IF b.number.masked THEN @ ELSE b.number,
                   !.api_key = kept_secret(b.api_key, @)])
      BY <1>1, <1>5, Decided, ZenonT(30) DEF update_bank_account, Decide, Commit
    <3> QED
      BY <3>2, <3>3, Zenon
  <2>2. {"number", "api_key"} \subseteq DOMAIN loaded[b.bank]
    BY <1>1, <2>1, AskedTables DEF AskedInv, AskedColumns
  <2>3. /\ new.number = IF b.number.masked THEN loaded[b.bank].number ELSE b.number
        /\ new.api_key = kept_secret(b.api_key, loaded[b.bank].api_key)
    BY <2>1, <2>2
  <2>4. /\ DOMAIN db'.bankAccounts = DOMAIN db.bankAccounts
        /\ \A k \in DOMAIN db.bankAccounts :
              \/ db'.bankAccounts[k] = db.bankAccounts[k]
              \/ db'.bankAccounts[k] = Changed(db.bankAccounts[k], loaded[b.bank], new)
    BY <2>1, Zenon DEF Save
  <2>5. ASSUME NEW k \in DOMAIN db.bankAccounts
        PROVE  /\ {"number", "api_key"} \subseteq DOMAIN db'.bankAccounts[k]
               /\ db'.bankAccounts[k].number # db.bankAccounts[k].number =>
                     db'.bankAccounts[k].number = b.number /\ ~b.number.masked
               /\ db'.bankAccounts[k].api_key # db.bankAccounts[k].api_key =>
                     db'.bankAccounts[k].api_key = b.api_key /\ b.api_key # Hidden
    <3>1. CASE db'.bankAccounts[k] = db.bankAccounts[k]
      BY <1>1, <3>1
    <3>2. CASE db'.bankAccounts[k] = Changed(db.bankAccounts[k], loaded[b.bank], new)
      <4>1. /\ {"number", "api_key"} \subseteq DOMAIN db'.bankAccounts[k]
            /\ db'.bankAccounts[k].number = IF new.number # loaded[b.bank].number THEN new.number ELSE db.bankAccounts[k].number
            /\ db'.bankAccounts[k].api_key = IF new.api_key # loaded[b.bank].api_key THEN new.api_key ELSE db.bankAccounts[k].api_key
        BY <1>1, <3>2 DEF Changed
      <4> QED
        BY <2>3, <4>1 DEF kept_secret
    <3> QED
      BY <2>4, <3>1, <3>2
  <2> QED
    BY <2>1, <2>4, <2>5, Zenon DEF BanksKept, BanksAsked, AskedColumns
<1>6. ASSUME delete_bank_account(r)
      PROVE  BanksKept(r)
  <2>1. /\ "bankAccounts" \in DOMAIN db'
        /\ db'.bankAccounts = Delete(db.bankAccounts, seen[r].bankAccounts, {b.bank})
    BY <1>1, <1>6, Decided, ZenonT(30) DEF delete_bank_account, Decide, Commit
  <2>2. /\ DOMAIN db'.bankAccounts = DOMAIN db.bankAccounts
        /\ \A k \in DOMAIN db.bankAccounts : \/ db'.bankAccounts[k] = db.bankAccounts[k]
                                             \/ \E flag : db'.bankAccounts[k] = [db.bankAccounts[k] EXCEPT !.deleted = flag]
    BY <2>1, Zenon DEF Delete, Mark
  <2>3. ASSUME NEW k \in DOMAIN db.bankAccounts
        PROVE  /\ {"number", "api_key"} \subseteq DOMAIN db'.bankAccounts[k]
               /\ db'.bankAccounts[k].number = db.bankAccounts[k].number
               /\ db'.bankAccounts[k].api_key = db.bankAccounts[k].api_key
    BY <1>1, <2>2
  <2> QED
    BY <2>1, <2>2, <2>3 DEF BanksKept, BanksAsked, AskedColumns
<1> QED
  BY <1>2, <1>3, <1>4, <1>5, <1>6 DEF DirectoryStep

\* The rows of permissions after a change that keeps keys and columns.
PermissionsOnly(r) ==
    /\ {"permissions", "planFeatures"} \subseteq DOMAIN db'
    /\ db'.planFeatures = db.planFeatures
    /\ \A k \in DOMAIN db'.permissions : /\ k \in DOMAIN db.permissions \/ k[1] = r
                                         /\ AskedColumns.permissions \subseteq DOMAIN db'.permissions[k]

\* Who edits one permission was asked for no matrix.
LEMMA OnePermissionWell ==
    ASSUME AskedInv, NEW r \in Requests, PermissionsOnly(r), body[r].op \notin {"bulk_permissions", "set_features"}
    PROVE  GrantsKept(r)
  BY AskedTables DEF AskedInv, PermissionsOnly, GrantsKept, GrantsAsAsked

\* A column by column update keeps the columns.
LEMMA ChangedColumns ==
    ASSUME NEW row, NEW loaded, NEW wanted
    PROVE  /\ DOMAIN Changed(row, loaded, wanted) = DOMAIN row
           /\ \A f \in DOMAIN row : Changed(row, row, wanted)[f] = wanted[f]
  BY DEF Changed

\* One permission.
LEMMA PermissionsWell ==
    ASSUME AskedInv, NEW r \in Requests, Commits(r),
           create_permission(r) \/ update_permission(r) \/ delete_permission(r)
    PROVE  GrantsKept(r)
<1> DEFINE b == body[r]
<1>1. Sessions /\ {"permissions", "planFeatures"} \subseteq DOMAIN db
      /\ \A k \in DOMAIN db.permissions : AskedColumns.permissions \subseteq DOMAIN db.permissions[k]
  BY AskedTables DEF AskedInv
<1>2. body[r].op \notin {"bulk_permissions", "set_features"}
  BY Zenon DEF create_permission, update_permission, delete_permission, Asks
<1>3. {"permissions", "planFeatures"} \subseteq DOMAIN db' /\ db'.planFeatures = db.planFeatures
  <2>1. "permissions" \in DOMAIN db /\ "planFeatures" \in DOMAIN db
    BY <1>1
  <2>2. "permissions" \in DOMAIN db' /\ "planFeatures" \in DOMAIN db' /\ db'.planFeatures = db.planFeatures
    BY <1>1, <2>1, Decided, ZenonT(30) DEF create_permission, update_permission, delete_permission, Decide, Commit
  <2> QED
    BY <2>2
<1>4. ASSUME create_permission(r)
      PROVE  PermissionsOnly(r)
  <2> DEFINE old == rows_with(seen[r].permissions, b.role, b.feature)
             inserted == With(db.permissions, [k \in {<<r, 1>>} |-> stated(b.role, b)])
             edited == [k \in DOMAIN db.permissions |->
                          IF k \in old THEN Changed(db.permissions[k], seen[r].permissions[k], stated(b.role, b))
                          ELSE db.permissions[k]]
  <2>1. db'.permissions = IF old = {} THEN inserted ELSE edited
    BY <1>1, <1>4, Decided, ZenonT(30) DEF create_permission, Decide, Commit
  <2>2. CASE old = {}
    <3>1. db'.permissions = inserted
      BY <2>1, <2>2
    <3>2. <<r, 1>>[1] = r /\ DOMAIN stated(b.role, b) = {"role", "feature", "flags", "deleted"}
      BY DEF stated
    <3> QED
      BY <1>1, <1>3, <3>1, <3>2 DEF PermissionsOnly, With, AskedColumns
  <2>3. CASE old # {}
    <3>1. db'.permissions = edited
      BY <2>1, <2>3
    <3>2. /\ DOMAIN db'.permissions = DOMAIN db.permissions
          /\ \A k \in DOMAIN db.permissions : DOMAIN db'.permissions[k] = DOMAIN db.permissions[k]
      BY <3>1, ChangedColumns
    <3> QED
      BY <1>1, <1>3, <3>2 DEF PermissionsOnly
  <2> QED
    BY <2>2, <2>3
<1>5. ASSUME update_permission(r)
      PROVE  PermissionsOnly(r)
  <2>1. db'.permissions = Save(db.permissions, seen[r].permissions, b.permission, stated(b.role, b))
    BY <1>1, <1>5, Decided, ZenonT(30) DEF update_permission, Decide, Commit
  <2>2. /\ DOMAIN db'.permissions = DOMAIN db.permissions
        /\ \A k \in DOMAIN db.permissions : DOMAIN db'.permissions[k] = DOMAIN db.permissions[k]
    BY <2>1, ChangedColumns DEF Save
  <2> QED
    BY <1>1, <1>3, <2>2 DEF PermissionsOnly
<1>6. ASSUME delete_permission(r)
      PROVE  PermissionsOnly(r)
  <2>1. db'.permissions = Delete(db.permissions, seen[r].permissions, {b.permission})
    BY <1>1, <1>6, Decided, ZenonT(30) DEF delete_permission, Decide, Commit
  <2>2. /\ DOMAIN db'.permissions = DOMAIN db.permissions
        /\ \A k \in DOMAIN db.permissions : DOMAIN db'.permissions[k] = DOMAIN db.permissions[k]
    BY <2>1, ZenonT(30) DEF Delete, Mark
  <2> QED
    BY <1>1, <1>3, <2>2 DEF PermissionsOnly
<1> QED
  BY <1>2, <1>4, <1>5, <1>6, OnePermissionWell

\* The features of a plan are those that were asked for, where nobody else wrote meanwhile.
LEMMA PlanFeaturesWell ==
    ASSUME AskedInv, NEW r \in Requests, Commits(r), set_features(r)
    PROVE  GrantsKept(r)
<1> DEFINE b == body[r]
           loaded == seen[r].planFeatures
           rows == {k \in DOMAIN loaded : k[1] = b.entry}
           listed == {<<b.entry, f>> : f \in b.features}
           added == listed \ rows
           marked == Mark(db.planFeatures, loaded, [k \in rows |-> k \notin listed])
           new == [k \in added |-> [deleted |-> FALSE]]
<1>1. /\ Sessions /\ stage[r] = "open" /\ "permissions" \in DOMAIN db /\ "planFeatures" \in DOMAIN db
      /\ \A k \in DOMAIN db.permissions : AskedColumns.permissions \subseteq DOMAIN db.permissions[k]
      /\ \A k \in DOMAIN db.planFeatures : k = <<k[1], k[2]>> /\ "deleted" \in DOMAIN db.planFeatures[k]
  BY AskedTables DEF AskedInv, AskedColumns, Commits
<1>2. /\ b.op = "set_features" /\ {"permissions", "planFeatures"} \subseteq DOMAIN db'
      /\ db'.permissions = db.permissions /\ db'.planFeatures = With(marked, new)
  <2>1. b.op = "set_features" /\ db' = [db EXCEPT !.planFeatures = With(marked, new)]
    BY <1>1, Decided, ZenonT(30) DEF set_features, Decide, Commit, Asks
  <2> HIDE DEF marked, new, b
  <2> QED
    BY <1>1, <2>1
<1>3. /\ DOMAIN marked = DOMAIN db.planFeatures
      /\ \A k \in DOMAIN marked : DOMAIN marked[k] = DOMAIN db.planFeatures[k]
  BY DEF Mark
<1>4. \A k \in DOMAIN db'.planFeatures :
         /\ k = <<k[1], k[2]>> /\ "deleted" \in DOMAIN db'.planFeatures[k]
         /\ k \in DOMAIN db.planFeatures \cup added
  <2>1. \A k \in added : k = <<k[1], k[2]>> /\ "deleted" \in DOMAIN new[k]
    OBVIOUS
  <2>2. DOMAIN new = added
    OBVIOUS
  <2> HIDE DEF marked, new, added
  <2> QED
    BY <1>1, <1>2, <1>3, <2>1, <2>2 DEF With
<1>5. ASSUME missed[r] = {}
      PROVE  {k[2] : k \in {j \in Live(db'.planFeatures) : j[1] = b.entry}} = b.features
  <2>1. loaded = db.planFeatures
    BY <1>1, <1>5 DEF AskedInv
  <2>2. \A k \in rows : marked[k].deleted <=> k \notin listed
    BY <1>1, <2>1 DEF Mark
  <2>3. \A k \in DOMAIN db'.planFeatures : k[1] = b.entry => (k \in Live(db'.planFeatures) <=> k \in listed)
    <3>1. ASSUME NEW k \in DOMAIN db'.planFeatures, k[1] = b.entry, k \in added
          PROVE  ~db'.planFeatures[k].deleted /\ k \in listed
      <4>1. new[k] = [deleted |-> FALSE] /\ DOMAIN new = added
        BY <3>1
      <4>2. db'.planFeatures[k] = new[k]
        BY <1>2, <3>1, <4>1 DEF With
      <4> QED
        BY <3>1, <4>1, <4>2
    <3>2. ASSUME NEW k \in DOMAIN db'.planFeatures, k[1] = b.entry, k \notin added
          PROVE  db'.planFeatures[k].deleted <=> k \notin listed
      <4>1. k \in rows
        BY <1>4, <2>1, <3>2
      <4>2. DOMAIN new = added /\ k \in DOMAIN marked
        BY <1>3, <2>1, <4>1
      <4>3. db'.planFeatures[k] = marked[k]
        BY <1>2, <3>2, <4>2 DEF With
      <4> QED
        BY <2>2, <4>1, <4>3
    <3> QED
      BY <3>1, <3>2 DEF Live, IsLive
  <2>4. listed \subseteq DOMAIN db'.planFeatures
    <3>1. DOMAIN db'.planFeatures = DOMAIN marked \cup added
      BY <1>2 DEF With
    <3> QED
      BY <1>3, <2>1, <3>1
  <2>5. {j \in Live(db'.planFeatures) : j[1] = b.entry} = listed
    <3>1. \A k \in Live(db'.planFeatures) : k \in DOMAIN db'.planFeatures
      BY DEF Live
    <3>2. \A k \in listed : k[1] = b.entry
      OBVIOUS
    <3> HIDE DEF listed, b
    <3> QED
      BY <2>3, <2>4, <3>1, <3>2
  <2>6. {k[2] : k \in listed} = b.features
    <3>1. \A k \in listed : k[2] \in b.features
      OBVIOUS
    <3>2. \A f \in b.features : <<b.entry, f>> \in listed /\ <<b.entry, f>>[2] = f
      OBVIOUS
    <3> HIDE DEF listed, b
    <3> QED
      BY <3>1, <3>2
  <2> HIDE DEF listed
  <2> QED
    BY <2>5, <2>6, Zenon
<1>6. missed[r] # {} \/ GrantsAsAsked(r, db')
  BY <1>2, <1>5 DEF GrantsAsAsked
<1> QED
  BY <1>1, <1>2, <1>4, <1>6 DEF GrantsKept, AskedColumns

\* The lines of a matrix that grant something for a feature, and the last of them.
ListedFor(grants, f) == {i \in DOMAIN grants : grants[i].flags # {} /\ grants[i].feature = f}
LastFor(grants, f) == CHOOSE i \in ListedFor(grants, f) : \A j \in ListedFor(grants, f) : j <= i

\* Grants as the schema of a matrix has them.
MatrixLines(grants) ==
    /\ Len(grants) \in Nat /\ DOMAIN grants = 1..Len(grants)
    /\ \A i \in DOMAIN grants : grants[i] = [feature |-> grants[i].feature, flags |-> grants[i].flags]

\* A feature that is listed has a last line.
LEMMA LastLine ==
    ASSUME NEW grants, MatrixLines(grants), NEW f, ListedFor(grants, f) # {}
    PROVE  /\ LastFor(grants, f) \in ListedFor(grants, f)
           /\ \A j \in ListedFor(grants, f) : j <= LastFor(grants, f)
<1>1. ListedFor(grants, f) \subseteq 1..Len(grants)
  BY DEF ListedFor, MatrixLines
<1>2. \E i \in ListedFor(grants, f) : \A j \in ListedFor(grants, f) : j <= i
  BY <1>1, GreatestOfInterval DEF MatrixLines
<1> QED
  BY <1>2, Zenon DEF LastFor

\* The lines LastWord picks are these.
LEMMA LastWordIsLast ==
    ASSUME NEW grants, MatrixLines(grants), NEW i \in DOMAIN grants
    PROVE  /\ LastWord(grants, i) =>
                 i \in ListedFor(grants, grants[i].feature) /\ i = LastFor(grants, grants[i].feature)
           /\ i \in ListedFor(grants, grants[i].feature) /\ i = LastFor(grants, grants[i].feature) =>
                 LastWord(grants, i)
<1> DEFINE f == grants[i].feature
<1>1. ASSUME LastWord(grants, i)
      PROVE  i \in ListedFor(grants, f) /\ i = LastFor(grants, f)
  <2>1. i \in ListedFor(grants, f)
    BY <1>1 DEF LastWord, ListedFor
  <2>2. LastFor(grants, f) \in ListedFor(grants, f) /\ i <= LastFor(grants, f)
    BY <2>1, LastLine
  <2>3. ~(LastFor(grants, f) > i)
    BY <1>1, <2>2 DEF LastWord, ListedFor
  <2> QED
    BY <2>1, <2>2, <2>3 DEF ListedFor, MatrixLines
<1>2. ASSUME i \in ListedFor(grants, f), i = LastFor(grants, f)
      PROVE  LastWord(grants, i)
  <2>1. \A j \in ListedFor(grants, f) : j <= i
    BY <1>2, LastLine
  <2> QED
    BY <1>2, <2>1 DEF LastWord, ListedFor, MatrixLines
<1> QED
  BY <1>1, <1>2

\* The rows N of a role after its matrix was written over the rows P.
MatrixWritten(P, N, r, role, grants, inserted) ==
    /\ \A k \in DOMAIN P : k[1] # r
    /\ inserted = {i \in DOMAIN grants : grants[i].flags # {} /\ rows_with(P, role, grants[i].feature) = {}}
    /\ \A i, j \in inserted : i # j => grants[i].feature # grants[j].feature
    /\ DOMAIN N = DOMAIN P \cup {<<r, i>> : i \in inserted}
    /\ \A i \in inserted : N[<<r, i>>] = stated(role, grants[i])
    /\ \A k \in DOMAIN P : P[k].role # role => N[k] = P[k]
    /\ \A k \in DOMAIN P : P[k].role = role =>
          IF ListedFor(grants, P[k].feature) = {} THEN N[k].deleted
          ELSE /\ N[k].role = role /\ N[k].feature = P[k].feature /\ ~N[k].deleted
               /\ N[k].flags = grants[LastFor(grants, P[k].feature)].flags

\* What GrantsAsAsked says of the live rows of a role.
RowsAre(N, role, grants) ==
    {[feature |-> p.feature, flags |-> p.flags] : p \in {q \in {N[k] : k \in Live(N)} : q.role = role}}
      = {grants[i] : i \in {j \in DOMAIN grants : LastWord(grants, j)}}

\* So they are, once the matrix is written.
LEMMA MatrixGrants ==
    ASSUME NEW P, NEW N, NEW r, NEW role, NEW grants, NEW inserted,
           MatrixLines(grants), MatrixWritten(P, N, r, role, grants, inserted)
    PROVE  RowsAre(N, role, grants)
<1>1. ASSUME NEW k \in Live(N), N[k].role = role
      PROVE  \E i \in DOMAIN grants : /\ LastWord(grants, i)
                                      /\ grants[i] = [feature |-> N[k].feature, flags |-> N[k].flags]
  <2>1. k \in DOMAIN N /\ ~N[k].deleted
    BY <1>1 DEF Live, IsLive
  <2>2. CASE k \in DOMAIN P
    <3>1. P[k].role = role
      BY <1>1, <2>2 DEF MatrixWritten
    <3>2. ListedFor(grants, P[k].feature) # {}
      BY <2>1, <2>2, <3>1 DEF MatrixWritten
    <3>3. PICK i : i = LastFor(grants, P[k].feature)
      OBVIOUS
    <3>4. i \in ListedFor(grants, P[k].feature)
      BY <3>2, <3>3, LastLine
    <3>5. i \in DOMAIN grants /\ grants[i].feature = P[k].feature
      BY <3>4 DEF ListedFor
    <3>6. LastWord(grants, i)
      BY <3>3, <3>4, <3>5, LastWordIsLast
    <3>7. N[k].feature = P[k].feature /\ N[k].flags = grants[i].flags
      BY <2>2, <3>1, <3>2, <3>3 DEF MatrixWritten
    <3> QED
      BY <3>5, <3>6, <3>7 DEF MatrixLines
  <2>3. CASE k \notin DOMAIN P
    <3>1. PICK i \in inserted : k = <<r, i>>
      BY <2>1, <2>3 DEF MatrixWritten
    <3>2. N[k] = stated(role, grants[i])
      BY <3>1 DEF MatrixWritten
    <3>3. N[k].feature = grants[i].feature /\ N[k].flags = grants[i].flags
      BY <3>2 DEF stated
    <3>4. i \in DOMAIN grants /\ grants[i].flags # {} /\ rows_with(P, role, grants[i].feature) = {}
      BY <3>1 DEF MatrixWritten
    <3>5. \A j \in DOMAIN grants : grants[j].flags # {} /\ grants[j].feature = grants[i].feature => j = i
      <4>1. ASSUME NEW j \in DOMAIN grants, grants[j].flags # {}, grants[j].feature = grants[i].feature
            PROVE  j = i
        <5>1. j \in inserted
          BY <3>4, <4>1 DEF MatrixWritten
        <5> QED
          BY <3>1, <4>1, <5>1 DEF MatrixWritten
      <4> QED
        BY <4>1
    <3>6. LastWord(grants, i)
      BY <3>4, <3>5 DEF LastWord, MatrixLines
    <3> QED
      BY <3>3, <3>4, <3>6 DEF MatrixLines
  <2> QED
    BY <2>2, <2>3
<1>2. ASSUME NEW i \in DOMAIN grants, LastWord(grants, i)
      PROVE  \E k \in Live(N) : /\ N[k].role = role
                                /\ grants[i] = [feature |-> N[k].feature, flags |-> N[k].flags]
  <2>1. i \in ListedFor(grants, grants[i].feature) /\ i = LastFor(grants, grants[i].feature)
    BY <1>2, LastWordIsLast
  <2>2. CASE rows_with(P, role, grants[i].feature) = {}
    <3>1. i \in inserted
      BY <2>1, <2>2 DEF MatrixWritten, ListedFor
    <3>2. PICK k : k = <<r, i>>
      OBVIOUS
    <3>3. k \in DOMAIN N /\ N[k] = stated(role, grants[i])
      BY <3>1, <3>2 DEF MatrixWritten
    <3>4. N[k].role = role /\ N[k].feature = grants[i].feature /\ N[k].flags = grants[i].flags /\ ~N[k].deleted
      BY <3>3 DEF stated
    <3> QED
      BY <3>3, <3>4 DEF Live, IsLive, MatrixLines
  <2>3. CASE rows_with(P, role, grants[i].feature) # {}
    <3>1. PICK k \in DOMAIN P : P[k].role = role /\ P[k].feature = grants[i].feature
      BY <2>3 DEF rows_with, pair
    <3>2. /\ k \in DOMAIN N /\ N[k].role = role /\ N[k].feature = grants[i].feature /\ ~N[k].deleted
          /\ N[k].flags = grants[i].flags
      BY <2>1, <3>1 DEF MatrixWritten
    <3> QED
      BY <3>2 DEF Live, IsLive, MatrixLines
  <2> QED
    BY <2>2, <2>3
<1>3. ASSUME NEW g, g \in {[feature |-> p.feature, flags |-> p.flags] : p \in {q \in {N[k] : k \in Live(N)} : q.role = role}}
      PROVE  g \in {grants[i] : i \in {j \in DOMAIN grants : LastWord(grants, j)}}
  <2>1. PICK k \in Live(N) : N[k].role = role /\ g = [feature |-> N[k].feature, flags |-> N[k].flags]
    BY <1>3
  <2> QED
    BY <1>1, <2>1
<1>4. ASSUME NEW g, g \in {grants[i] : i \in {j \in DOMAIN grants : LastWord(grants, j)}}
      PROVE  g \in {[feature |-> p.feature, flags |-> p.flags] : p \in {q \in {N[k] : k \in Live(N)} : q.role = role}}
  <2>1. PICK i \in DOMAIN grants : LastWord(grants, i) /\ g = grants[i]
    BY <1>4
  <2>2. PICK k \in Live(N) : N[k].role = role /\ g = [feature |-> N[k].feature, flags |-> N[k].flags]
    BY <1>2, <2>1
  <2> QED
    BY <2>2
<1> QED
  BY <1>3, <1>4 DEF RowsAre

\* The matrix of a role is the one that was asked for, where nobody else wrote meanwhile.
LEMMA BulkWell ==
    ASSUME AskedInv, NEW r \in Requests, Commits(r), bulk_update(r)
    PROVE  GrantsKept(r)
<1> DEFINE b == body[r]
           P == db.permissions
           loaded == seen[r].permissions
           granted == {i \in DOMAIN b.grants : b.grants[i].flags # {}}
           old == {k \in DOMAIN loaded : loaded[k].role = b.role}
           listed(f) == {i \in granted : b.grants[i].feature = f}
           inserted == {i \in granted : rows_with(loaded, b.role, b.grants[i].feature) = {}}
           greatest(T) == CHOOSE i \in T : \A j \in T : j <= i
           wanted(k) == IF listed(loaded[k].feature) = {} THEN [loaded[k] EXCEPT !.deleted = TRUE]
                        ELSE stated(b.role, b.grants[greatest(listed(loaded[k].feature))])
           edited == [k \in DOMAIN P |-> IF k \in old THEN Changed(P[k], loaded[k], wanted(k)) ELSE P[k]]
           new == [k \in {<<r, i>> : i \in inserted} |-> stated(b.role, b.grants[k[2]])]
<1>1. /\ Sessions /\ stage[r] = "open" /\ "permissions" \in DOMAIN db /\ "planFeatures" \in DOMAIN db
      /\ \A k \in DOMAIN P : AskedColumns.permissions \subseteq DOMAIN P[k]
      /\ \A k \in DOMAIN db.planFeatures :
            k = <<k[1], k[2]>> /\ AskedColumns.planFeatures \subseteq DOMAIN db.planFeatures[k]
      /\ \A k \in DOMAIN P : k[1] # r
  BY AskedTables DEF AskedInv, Commits, KeysFree
<1>2. /\ b.op = "bulk_permissions"
      /\ \A i, j \in inserted : ~(i # j /\ b.grants[i].feature = b.grants[j].feature)
      /\ db' = [db EXCEPT !.permissions = With(edited, new)]
  BY <1>1, Decided, ZenonT(60) DEF bulk_update, Decide, Commit, Asks
<1>3. /\ "permissions" \in DOMAIN db' /\ "planFeatures" \in DOMAIN db'
      /\ db'.permissions = With(edited, new) /\ db'.planFeatures = db.planFeatures
  <2> HIDE DEF edited, new
  <2> QED
    BY <1>1, <1>2
<1>4. /\ DOMAIN edited = DOMAIN P
      /\ \A k \in DOMAIN P : DOMAIN edited[k] = DOMAIN P[k]
  <2>1. \A k \in DOMAIN P : edited[k] = IF k \in old THEN Changed(P[k], loaded[k], wanted(k)) ELSE P[k]
    OBVIOUS
  <2> HIDE DEF old, wanted
  <2> QED
    BY <2>1, ChangedColumns
<1>5. /\ DOMAIN new = {<<r, i>> : i \in inserted}
      /\ \A k \in DOMAIN new : k[1] = r
      /\ \A i \in inserted : new[<<r, i>>] = stated(b.role, b.grants[i])
      /\ \A k \in DOMAIN new : DOMAIN new[k] = {"role", "feature", "flags", "deleted"}
  <2>1. \A i \in inserted : <<r, i>>[1] = r /\ <<r, i>>[2] = i
    OBVIOUS
  <2>2. DOMAIN new = {<<r, i>> : i \in inserted}
    OBVIOUS
  <2>3. \A i \in inserted : new[<<r, i>>] = stated(b.role, b.grants[i])
    <3> HIDE DEF inserted, b
    <3> QED
      BY <2>1
  <2>4. \A i \in inserted : DOMAIN stated(b.role, b.grants[i]) = {"role", "feature", "flags", "deleted"}
    BY DEF stated
  <2> HIDE DEF inserted, b, new
  <2> QED
    BY <2>1, <2>2, <2>3, <2>4
<1>6. \A k \in DOMAIN db'.permissions :
         /\ k \in DOMAIN P \/ k[1] = r
         /\ AskedColumns.permissions \subseteq DOMAIN db'.permissions[k]
  <2>1. AskedColumns.permissions = {"role", "feature", "flags", "deleted"}
    BY DEF AskedColumns
  <2>2. /\ DOMAIN db'.permissions = DOMAIN edited \cup DOMAIN new
        /\ \A k \in DOMAIN db'.permissions :
              db'.permissions[k] = IF k \in DOMAIN new THEN new[k] ELSE edited[k]
    <3> HIDE DEF edited, new
    <3> QED
      BY <1>3 DEF With
  <2> HIDE DEF edited, new, P, b
  <2>3. ASSUME NEW k \in DOMAIN db'.permissions
        PROVE  /\ k \in DOMAIN P \/ k[1] = r
               /\ AskedColumns.permissions \subseteq DOMAIN db'.permissions[k]
    <3>1. CASE k \in DOMAIN new
      BY <1>5, <2>1, <2>2, <3>1
    <3>2. CASE k \notin DOMAIN new
      <4>1. k \in DOMAIN P /\ db'.permissions[k] = edited[k]
        BY <1>4, <2>2, <3>2
      <4> QED
        BY <1>1, <1>4, <4>1
    <3> QED
      BY <3>1, <3>2
  <2> QED
    BY <2>3
<1>7. \A k \in DOMAIN P : k \in DOMAIN db'.permissions /\ db'.permissions[k] = edited[k]
  <2> HIDE DEF edited, new
  <2> QED
    BY <1>1, <1>3, <1>4, <1>5 DEF With
<1>8. ASSUME missed[r] = {}
      PROVE  MatrixWritten(P, db'.permissions, r, b.role, b.grants, inserted)
  <2>1. loaded = P
    BY <1>1, <1>8 DEF AskedInv
  <2>2. inserted = {i \in DOMAIN b.grants : b.grants[i].flags # {} /\ rows_with(P, b.role, b.grants[i].feature) = {}}
    <3> HIDE DEF b
    <3> QED
      BY <2>1
  <2>3. \A i, j \in inserted : i # j => b.grants[i].feature # b.grants[j].feature
    <3> HIDE DEF inserted
    <3> QED
      BY <1>2, Zenon
  <2>4. /\ DOMAIN db'.permissions = DOMAIN P \cup {<<r, i>> : i \in inserted}
        /\ \A i \in inserted : db'.permissions[<<r, i>>] = stated(b.role, b.grants[i])
    <3>1. \A i \in inserted : <<r, i>> \in DOMAIN new
      OBVIOUS
    <3> HIDE DEF edited, new, inserted
    <3> QED
      BY <1>3, <1>4, <1>5, <3>1 DEF With
  <2>5. \A k \in DOMAIN P : P[k].role # b.role => db'.permissions[k] = P[k]
    BY <1>7, <2>1
  <2>6. ASSUME NEW k \in DOMAIN P, P[k].role = b.role
        PROVE  IF ListedFor(b.grants, P[k].feature) = {} THEN db'.permissions[k].deleted
               ELSE /\ db'.permissions[k].role = b.role /\ db'.permissions[k].feature = P[k].feature
                    /\ ~db'.permissions[k].deleted
                    /\ db'.permissions[k].flags = b.grants[LastFor(b.grants, P[k].feature)].flags
    <3>1. listed(P[k].feature) = ListedFor(b.grants, P[k].feature)
      BY DEF ListedFor
    <3>2. greatest(listed(P[k].feature)) = LastFor(b.grants, P[k].feature)
      <4>1. LastFor(b.grants, P[k].feature) = greatest(ListedFor(b.grants, P[k].feature))
        BY Zenon DEF LastFor
      <4> HIDE DEF greatest, listed
      <4> QED
        BY <3>1, <4>1, Zenon
    <3>3. PICK w : w = IF ListedFor(b.grants, P[k].feature) = {} THEN [P[k] EXCEPT !.deleted = TRUE]
                       ELSE stated(b.role, b.grants[LastFor(b.grants, P[k].feature)])
      OBVIOUS
    <3>4. db'.permissions[k] = Changed(P[k], P[k], w)
      <4>1. wanted(k) = w
        <5> HIDE DEF greatest, listed, b
        <5> QED
          BY <2>1, <3>1, <3>2, <3>3, Zenon
      <4>2. k \in old
        BY <2>1, <2>6
      <4>3. edited[k] = Changed(P[k], loaded[k], wanted(k))
        BY <4>2, Zenon
      <4> HIDE DEF edited, wanted
      <4> QED
        BY <1>7, <2>1, <4>1, <4>3
    <3>5. \A f \in {"role", "feature", "flags", "deleted"} : db'.permissions[k][f] = w[f]
      BY <1>1, <3>4, ChangedColumns DEF AskedColumns
    <3>6. CASE ListedFor(b.grants, P[k].feature) = {}
      <4>1. w = [P[k] EXCEPT !.deleted = TRUE] /\ "deleted" \in DOMAIN P[k]
        BY <1>1, <3>3, <3>6 DEF AskedColumns
      <4> QED
        BY <3>5, <3>6, <4>1
    <3>7. CASE ListedFor(b.grants, P[k].feature) # {}
      <4>1. PICK i : i = LastFor(b.grants, P[k].feature)
        OBVIOUS
      <4>2. w = stated(b.role, b.grants[i])
        BY <3>3, <3>7, <4>1
      <4>3. MatrixLines(b.grants)
        BY <1>2, Payloads DEF AskedInv, MatrixLines, Requests
      <4>4. i \in ListedFor(b.grants, P[k].feature)
        BY <3>7, <4>1, <4>3, LastLine
      <4>5. b.grants[i].feature = P[k].feature
        BY <4>4 DEF ListedFor
      <4> QED
        BY <3>5, <3>7, <4>1, <4>2, <4>5 DEF stated
    <3> QED
      BY <3>6, <3>7
  <2> HIDE DEF inserted, b
  <2> QED
    BY <1>1, <2>2, <2>3, <2>4, <2>5, <2>6 DEF MatrixWritten
<1>9. ASSUME missed[r] = {}
      PROVE  GrantsAsAsked(r, db')
  <2>1. MatrixLines(b.grants)
    BY <1>2, Payloads DEF AskedInv, MatrixLines, Requests
  <2>2. PICK N, role, grants, lines :
          /\ N = db'.permissions /\ role = b.role /\ grants = b.grants /\ lines = inserted
    OBVIOUS
  <2>3. RowsAre(N, role, grants)
    <3>1. MatrixLines(grants) /\ MatrixWritten(P, N, r, role, grants, lines)
      BY <1>8, <1>9, <2>1, <2>2
    <3> QED
      BY <3>1, MatrixGrants, Zenon
  <2>4. RowsAre(db'.permissions, body[r].role, body[r].grants)
    BY <2>2, <2>3, Zenon
  <2>5. body[r].op # "set_features"
    BY <1>2, Zenon
  <2> QED
    BY <2>4, <2>5, Zenon DEF GrantsAsAsked, RowsAre
<1> HIDE DEF edited, new
<1> QED
  BY <1>1, <1>3, <1>4, <1>6, <1>7, <1>9 DEF GrantsKept

\* Nobody but these asks for a whole matrix or a whole list of features.
LEMMA OthersAskNone ==
    ASSUME NEW r \in Requests,
           \/ PollStep(r) \/ EventStep(r) \/ AnnouncementStep(r) \/ MarketStep(r)
           \/ ServiceStep(r) \/ BoardTaskStep(r) \/ MeetingStep(r) \/ DocumentStep(r)
           \/ InvoiceStep(r) \/ ReportStep(r) \/ StatementStep(r)
           \/ DirectoryStep(r) \/ ProfileStep(r) \/ OnboardingStep(r) \/ InboxStep(r)
    PROVE  body[r].op \notin {"bulk_permissions", "set_features"}
<1> USE DEF Asks
<1>1. CASE PollStep(r) \/ EventStep(r) \/ AnnouncementStep(r)
  BY <1>1, Zenon DEF PollStep, create_poll, update_poll, delete_poll, vote_poll, toggle_poll_like, add_poll_comment,
       EventStep, create_event, update_event, delete_event, toggle_event_like, add_event_comment, rsvp, clear_rsvp,
       AnnouncementStep, create_announcement, update_announcement, delete_announcement,
       add_announcement_comment, toggle_like
<1>2. CASE MarketStep(r) \/ ServiceStep(r) \/ BoardTaskStep(r)
  BY <1>2, Zenon DEF MarketStep, create_item, update_item, delete_item, toggle_favorite, record_view, add_report, send_chat,
       ServiceStep, create_service_request, update_service_status, map_service_request, send_service_message,
       delete_service_request, BoardTaskStep, create_task, update_task_status, send_task_message, delete_task
<1>3. CASE MeetingStep(r) \/ DocumentStep(r) \/ InvoiceStep(r) \/ ReportStep(r)
  BY <1>3, Zenon DEF MeetingStep, create_meeting, update_details, add_minutes, delete_meeting, update_attendance,
       DocumentStep, create_document, update_document, delete_document,
       create_unit_document, update_unit_document, delete_unit_document,
       InvoiceStep, create_invoice, update_invoice, update_invoice_status, delete_invoice,
       ReportStep, create_report, import_report, update_report, CreateReport
<1>4. CASE StatementStep(r) \/ ProfileStep(r)
  BY <1>4, Zenon DEF StatementStep, upload_global, map_global, add_association, update_association,
       delete_association, create_balance_sheet, update_balance_sheet, import_workbook,
       create_income_statement, update_income_statement, import_income_statement, CreateBalanceSheet,
       ProfileStep, update_user_details, insert_record, update_record, delete_record
<1>5. CASE DirectoryStep(r) \/ OnboardingStep(r) \/ InboxStep(r)
  BY <1>5, Zenon DEF DirectoryStep, create_user, update_user, delete_user, create_employee, update_employee, create_vendor,
       update_vendor, delete_vendor, create_bank_account, update_bank_account, delete_bank_account,
       OnboardingStep, onboard, update_settings, set_unit_occupancy, update_subscription,
       InboxStep, mark_read, mark_all_read
<1> QED
  BY <1>1, <1>2, <1>3, <1>4, <1>5

\* A commit does nothing to the tables it leaves.
LEMMA LeavesWell ==
    ASSUME AskedInv, NEW r \in Requests, Commits(r), NEW written, Handles(r, written)
    PROVE  /\ "unitDocuments" \notin written => FilesKept(r)
           /\ "items" \notin written => ItemsKept(r)
           /\ "bankAccounts" \notin written => BanksKept(r)
           /\ /\ "permissions" \notin written /\ "planFeatures" \notin written
              /\ body[r].op \notin {"bulk_permissions", "set_features"}
              => GrantsKept(r)
<1>1. Sessions /\ AskedColumnsThere(db)
  BY DEF AskedInv
<1>2. \A t \in DOMAIN AskedColumns \ written : t \in DOMAIN db' /\ db'[t] = db[t]
  BY <1>1, HandlesFrame DEF AskedColumnsThere, Leaves
<1>3. \A t \in DOMAIN AskedColumns : t \in DOMAIN db'
  BY <1>1, HandlesFrame DEF AskedColumnsThere, Leaves
<1>4. DOMAIN AskedColumns = {"unitDocuments", "items", "bankAccounts", "permissions", "planFeatures"}
  BY DEF AskedColumns
<1> QED
  BY <1>2, <1>3, <1>4, AskedStay, GrantsStay

\* One who writes none of these tables.
LEMMA OthersWell ==
    ASSUME AskedInv, NEW r \in Requests, Commits(r), NEW written, Handles(r, written),
           written \cap DOMAIN AskedColumns = {}, body[r].op \notin {"bulk_permissions", "set_features"}
    PROVE  FilesKept(r) /\ ItemsKept(r) /\ BanksKept(r) /\ GrantsKept(r)
<1>1. {"unitDocuments", "items", "bankAccounts", "permissions", "planFeatures"} \cap written = {}
  BY DEF AskedColumns
<1> QED
  BY <1>1, LeavesWell

\* The catalogues.
LEMMA CatalogueWell ==
    ASSUME AskedInv, NEW r \in Requests, Commits(r), CatalogueStep(r)
    PROVE  FilesKept(r) /\ ItemsKept(r) /\ BanksKept(r) /\ GrantsKept(r)
<1> DEFINE Coding == \/ create_plan(r) \/ update_plan(r) \/ delete_plan(r)
                     \/ create_feature(r) \/ update_feature(r) \/ delete_feature(r)
                     \/ create_role(r) \/ update_role(r) \/ delete_role(r)
           Naming == \/ create_entity_type(r) \/ update_entity_type(r) \/ delete_entity_type(r)
                     \/ create_entity(r) \/ update_entity(r) \/ delete_entity(r)
<1>1. FilesKept(r) /\ ItemsKept(r) /\ BanksKept(r)
  BY CataloguesWrite, LeavesWell
<1>2. Sessions /\ "permissions" \in DOMAIN db /\ "planFeatures" \in DOMAIN db
  BY AskedTables DEF AskedInv
<1>3. ASSUME Coding \/ Naming
      PROVE  GrantsKept(r)
  <2>1. body[r].op \notin {"bulk_permissions", "set_features"}
    BY <1>3 DEF create_plan, update_plan, delete_plan, create_feature, update_feature, delete_feature,
         create_role, update_role, delete_role, create_entity_type, update_entity_type, delete_entity_type,
         create_entity, update_entity, delete_entity, Asks
  <2>2. \E t : \E table : /\ t \notin {"permissions", "planFeatures"}
                          /\ db' = [db EXCEPT ![t] = table]
    <3>1. CASE Coding
      BY <1>2, <3>1, Decided, ZenonT(60)
         DEF create_plan, update_plan, delete_plan, create_feature, update_feature, delete_feature,
         create_role, update_role, delete_role, CreateEntry, UpdateEntry, DeleteCoded, Decide, Commit
    <3>2. CASE Naming
      BY <1>2, <3>2, Decided, ZenonT(60)
         DEF create_entity_type, update_entity_type, delete_entity_type,
         create_entity, update_entity, delete_entity, CreateEntry, UpdateEntry, DeleteEntry, Decide, Commit
    <3> QED
      BY <1>3, <3>1, <3>2
  <2>3. /\ {"permissions", "planFeatures"} \subseteq DOMAIN db'
        /\ db'.permissions = db.permissions /\ db'.planFeatures = db.planFeatures
    BY <1>2, <2>2
  <2> QED
    BY <2>1, <2>3, GrantsStay
<1>4. ASSUME ~(Coding \/ Naming)
      PROVE  GrantsKept(r)
  BY <1>4, PermissionsWell, PlanFeaturesWell, BulkWell DEF CatalogueStep
<1> QED
  BY <1>1, <1>3, <1>4

\* Every handler does what it was asked and no more.
LEMMA StepAsked ==
    ASSUME AskedInv, NEW r \in Requests, Commits(r), Step(r)
    PROVE  FilesKept(r) /\ ItemsKept(r) /\ BanksKept(r) /\ GrantsKept(r)
<1>0. DOMAIN AskedColumns = {"unitDocuments", "items", "bankAccounts", "permissions", "planFeatures"}
  BY DEF AskedColumns
<1>1. ASSUME PollStep(r) \/ EventStep(r) \/ AnnouncementStep(r)
      PROVE  FilesKept(r) /\ ItemsKept(r) /\ BanksKept(r) /\ GrantsKept(r)
  <2>1. \E written : Handles(r, written) /\ written \cap DOMAIN AskedColumns = {}
    BY <1>0, <1>1, PollsTell, PollsDelete, PollsWrite, EventsTell, EventsDelete, EventsWrite, AnswersWrite,
       AnnouncementsTell, AnnouncementsWrite, LikesWrite DEF PollStep, EventStep, AnnouncementStep
  <2> QED
    BY <1>1, <2>1, OthersAskNone, OthersWell
<1>2. ASSUME ServiceStep(r) \/ BoardTaskStep(r) \/ MeetingStep(r)
      PROVE  FilesKept(r) /\ ItemsKept(r) /\ BanksKept(r) /\ GrantsKept(r)
  <2>1. \E written : Handles(r, written) /\ written \cap DOMAIN AskedColumns = {}
    BY <1>0, <1>2, RequestsTell, RequestsWrite, TasksTell, TasksWrite, MeetingsTell, MeetingsWrite, AttendanceWrite
       DEF ServiceStep, BoardTaskStep, MeetingStep
  <2> QED
    BY <1>2, <2>1, OthersAskNone, OthersWell
<1>3. ASSUME InvoiceStep(r) \/ ReportStep(r) \/ StatementStep(r) \/ ProfileStep(r) \/ OnboardingStep(r) \/ InboxStep(r)
      PROVE  FilesKept(r) /\ ItemsKept(r) /\ BanksKept(r) /\ GrantsKept(r)
  <2>1. \E written : Handles(r, written) /\ written \cap DOMAIN AskedColumns = {}
    BY <1>0, <1>3, InvoicesWrite, ReportsWrite, StatementsWrite, DetailsWrite, RecordsWrite, OnboardingWrite,
       SettingsWrite, InboxWrite DEF ProfileStep, OnboardingStep
  <2> QED
    BY <1>3, <2>1, OthersAskNone, OthersWell
<1>4. ASSUME DocumentStep(r)
      PROVE  FilesKept(r) /\ ItemsKept(r) /\ BanksKept(r) /\ GrantsKept(r)
  BY <1>4, OthersAskNone, DocumentsWrite, FilesWell, LeavesWell
<1>5. ASSUME MarketStep(r)
      PROVE  FilesKept(r) /\ ItemsKept(r) /\ BanksKept(r) /\ GrantsKept(r)
  <2>1. \E written : Handles(r, written) /\ written \cap DOMAIN AskedColumns \subseteq {"items"}
    BY <1>0, <1>5, ItemsTell, ItemsWrite, FavoritesWrite, ViewsWrite DEF MarketStep
  <2> QED
    BY <1>0, <1>5, <2>1, OthersAskNone, ItemsWell, LeavesWell
<1>6. ASSUME DirectoryStep(r)
      PROVE  FilesKept(r) /\ ItemsKept(r) /\ BanksKept(r) /\ GrantsKept(r)
  <2>1. \E written : Handles(r, written) /\ written \cap DOMAIN AskedColumns \subseteq {"bankAccounts"}
    BY <1>0, <1>6, LoginsWrite, DirectoryWrite
  <2> QED
    BY <1>0, <1>6, <2>1, OthersAskNone, BanksWell, LeavesWell
<1> QED
  BY <1>1, <1>2, <1>3, <1>4, <1>5, <1>6, CatalogueWell DEF Step

\* So the invariant stays with every step.
LEMMA NextAsked ==
    ASSUME AskedInv, [Next]_vars
    PROVE  AskedInv'
<1>1. Sessions
  BY DEF AskedInv
<1>2. ASSUME NEW r \in Requests, Commits(r), Step(r)
      PROVE  AskedInv'
  BY <1>2, StepAsked, CommitAsked
<1> QED
  BY <1>1, <1>2, StepCases, IdleAsked

\* A commit of r is of nobody else.
LEMMA NextOnlyAsked ==
    ASSUME AskedInv, [Next]_vars
    PROVE  db' = db \/ \A r \in Requests : stage'[r] # stage[r] =>
               /\ missed[r] # {} \/ GrantsAsAsked(r, db')
               /\ FilesAsked(r) /\ ItemsAsked(r) /\ BanksAsked(r)
<1>1. Sessions
  BY DEF AskedInv
<1>2. CASE Idle
  BY <1>2 DEF Idle
<1>3. ASSUME NEW q \in Requests, Commits(q), Step(q), NEW r \in Requests, stage'[r] # stage[r]
      PROVE  /\ missed[r] # {} \/ GrantsAsAsked(r, db')
             /\ FilesAsked(r) /\ ItemsAsked(r) /\ BanksAsked(r)
  <2>1. r = q
    BY <1>3 DEF Commits
  <2> QED
    BY <1>3, <2>1, StepAsked DEF FilesKept, ItemsKept, BanksKept, GrantsKept
<1> QED
  BY <1>1, <1>2, <1>3, StepCases

\* A request that has missed no commit sees the tables as they are; keys of rows it will
\* insert are free.
THEOREM AskedInvariant == Spec => []AskedInv
  BY InitAsked, NextAsked, PTL DEF Spec

\* OnlyAskedChanges: an edit changes the columns it names and gives them what it was asked
\* to, a mask is taken for neither an account number nor a secret, and a role or a plan has
\* the grants of its last whole edit, for any tables, accounts and workloads.
THEOREM OnlyWhatWasAsked == Spec => OnlyAskedChanges
<1>1. AskedInv /\ [Next]_vars =>
        [\A r \in Requests : stage'[r] # stage[r] =>
           /\ missed[r] # {} \/ GrantsAsAsked(r, db')
           /\ \A d \in DOMAIN db.unitDocuments : \A f \in {"file", "board"} :
                db'.unitDocuments[d][f] # db.unitDocuments[d][f] => Asked(r, f, db'.unitDocuments[d][f])
           /\ \A i \in DOMAIN db.items : \A f \in {"title", "price", "status"} :
                db'.items[i][f] # db.items[i][f] => f \in DOMAIN body[r].columns
           /\ \A k \in DOMAIN db.bankAccounts :
                LET old == db.bankAccounts[k]
                    new == db'.bankAccounts[k]
                IN  /\ new.number # old.number => new.number = body[r].number /\ ~new.number.masked
                    /\ new.api_key # old.api_key => new.api_key = body[r].api_key /\ new.api_key # Hidden]_db
  BY NextOnlyAsked, Zenon DEF FilesAsked, ItemsAsked, BanksAsked
<1> QED
  BY <1>1, AskedInvariant, PTL DEF Spec, OnlyAskedChanges
-----------------------------------------------------------------------------
(* Pages of an inbox: PagesCoverInbox. Rows that Later orders are shown from the     *)
(* latest on, each page the latest of those not shown yet.                          *)

\* Later orders a finite set of rows, all of them.
Ranked(S) ==
    /\ IsFiniteSet(S)
    /\ \A m, n \in S : /\ m # n => Later(m, n) \/ Later(n, m)
                       /\ ~(Later(m, n) /\ Later(n, m))
    /\ \A l, m, n \in S : Later(l, m) /\ Later(m, n) => Later(l, n)

\* A part of them too.
LEMMA RankedPart ==
    ASSUME NEW S, Ranked(S), NEW T, T \subseteq S
    PROVE  Ranked(T)
<1>1. IsFiniteSet(T)
  BY FS_Subset DEF Ranked
<1> QED
  BY <1>1 DEF Ranked

\* The rows of a page of `limit' rows.
Top(rows, limit) == {n \in rows : Cardinality({m \in rows : Later(m, n)}) < limit}

\* Of what is later than a row there is less than is later than one before it.
LEMMA FewerLater ==
    ASSUME NEW S, Ranked(S), NEW m \in S, NEW n \in S, Later(m, n)
    PROVE  /\ Cardinality({x \in S : Later(x, m)}) \in Nat /\ Cardinality({x \in S : Later(x, n)}) \in Nat
           /\ Cardinality({x \in S : Later(x, m)}) < Cardinality({x \in S : Later(x, n)})
<1> DEFINE A == {x \in S : Later(x, m)}
           B == {x \in S : Later(x, n)}
<1>1. A \subseteq B /\ m \in B \ A /\ B \subseteq S
  BY DEF Ranked
<1>2. IsFiniteSet(B) /\ IsFiniteSet(A)
  BY <1>1, FS_Subset DEF Ranked
<1> HIDE DEF A, B
<1>3. Cardinality(A) \in Nat /\ Cardinality(B) \in Nat
  BY <1>2, FS_CardinalityType
<1>4. Cardinality(A) <= Cardinality(B) /\ (Cardinality(A) = Cardinality(B) => A = B)
  BY <1>1, <1>2, FS_Subset
<1> QED
  BY <1>1, <1>3, <1>4 DEF A, B

\* The same of what comes before.
LEMMA FewerEarlier ==
    ASSUME NEW S, Ranked(S), NEW m \in S, NEW n \in S, Later(m, n)
    PROVE  /\ Cardinality({x \in S : Later(m, x)}) \in Nat /\ Cardinality({x \in S : Later(n, x)}) \in Nat
           /\ Cardinality({x \in S : Later(n, x)}) < Cardinality({x \in S : Later(m, x)})
<1> DEFINE A == {x \in S : Later(n, x)}
           B == {x \in S : Later(m, x)}
<1>1. A \subseteq B /\ n \in B \ A /\ B \subseteq S
  BY DEF Ranked
<1>2. IsFiniteSet(B) /\ IsFiniteSet(A)
  BY <1>1, FS_Subset DEF Ranked
<1> HIDE DEF A, B
<1>3. Cardinality(A) \in Nat /\ Cardinality(B) \in Nat
  BY <1>2, FS_CardinalityType
<1>4. Cardinality(A) <= Cardinality(B) /\ (Cardinality(A) = Cardinality(B) => A = B)
  BY <1>1, <1>2, FS_Subset
<1> QED
  BY <1>1, <1>3, <1>4 DEF A, B

\* There is a first row to show.
LEMMA FirstRow ==
    ASSUME NEW S, Ranked(S), S # {}
    PROVE  \E n \in S : \A m \in S : ~Later(m, n)
<1> DEFINE size(n) == Cardinality({x \in S : Later(x, n)})
           T == {size(n) : n \in S}
<1>1. \A n \in S : size(n) \in Nat
  <2>1. ASSUME NEW n \in S PROVE {x \in S : Later(x, n)} \subseteq S
    OBVIOUS
  <2>2. ASSUME NEW n \in S PROVE size(n) \in Nat
    BY <2>1, FS_Subset, FS_CardinalityType DEF Ranked
  <2> QED
    BY <2>2
<1>2. \A m, n \in S : Later(m, n) => size(m) < size(n)
  BY FewerLater
<1> HIDE DEF size
<1>3. T \in SUBSET Nat /\ T # {}
  BY <1>1
<1>4. \E c \in T : \A d \in T : c <= d
  <2> HIDE DEF T
  <2> QED
    BY <1>3, LeastOfNaturals
<1>5. PICK n \in S : \A m \in S : size(n) <= size(m)
  BY <1>4
<1>6. \A m \in S : ~Later(m, n)
  BY <1>1, <1>2, <1>5
<1> QED
  BY <1>6

\* And a last one.
LEMMA LastRow ==
    ASSUME NEW S, Ranked(S), S # {}
    PROVE  \E n \in S : \A m \in S \ {n} : Later(m, n)
<1> DEFINE size(n) == Cardinality({x \in S : Later(n, x)})
           T == {size(n) : n \in S}
<1>1. \A n \in S : size(n) \in Nat
  <2>1. ASSUME NEW n \in S PROVE {x \in S : Later(n, x)} \subseteq S
    OBVIOUS
  <2>2. ASSUME NEW n \in S PROVE size(n) \in Nat
    BY <2>1, FS_Subset, FS_CardinalityType DEF Ranked
  <2> QED
    BY <2>2
<1>2. \A m, n \in S : Later(m, n) => size(n) < size(m)
  BY FewerEarlier
<1> HIDE DEF size
<1>3. T \in SUBSET Nat /\ T # {}
  BY <1>1
<1>4. \E c \in T : \A d \in T : c <= d
  <2> HIDE DEF T
  <2> QED
    BY <1>3, LeastOfNaturals
<1>5. PICK n \in S : \A m \in S : size(n) <= size(m)
  BY <1>4
<1>6. \A m \in S \ {n} : Later(m, n)
  <2>1. ASSUME NEW m \in S \ {n}, ~Later(m, n) PROVE FALSE
    <3>1. Later(n, m)
      BY <2>1 DEF Ranked
    <3> QED
      BY <1>1, <1>2, <1>5, <3>1
  <2> QED
    BY <2>1
<1> QED
  BY <1>6

\* A page has the first of its rows, and with a row those later.
LEMMA TopShows ==
    ASSUME NEW rows, Ranked(rows), NEW limit \in Nat \ {0}
    PROVE  /\ Top(rows, limit) \subseteq rows
           /\ rows # {} => Top(rows, limit) # {}
           /\ \A n \in Top(rows, limit) : \A m \in rows : Later(m, n) => m \in Top(rows, limit)
<1>1. Top(rows, limit) \subseteq rows
  BY DEF Top
<1>2. ASSUME rows # {}
      PROVE  Top(rows, limit) # {}
  <2>1. PICK n \in rows : \A m \in rows : ~Later(m, n)
    BY <1>2, FirstRow
  <2>2. {m \in rows : Later(m, n)} = {}
    BY <2>1
  <2>3. Cardinality({m \in rows : Later(m, n)}) = 0
    BY <2>2, FS_EmptySet
  <2> QED
    BY <2>3 DEF Top
<1>3. ASSUME NEW n \in Top(rows, limit), NEW m \in rows, Later(m, n)
      PROVE  m \in Top(rows, limit)
  <2> DEFINE M == Cardinality({x \in rows : Later(x, m)})
             N == Cardinality({x \in rows : Later(x, n)})
  <2>1. N < limit /\ n \in rows
    BY DEF Top
  <2>2. M \in Nat /\ N \in Nat /\ M < N
    BY <1>3, <2>1, FewerLater
  <2>3. M < limit
    <3> HIDE DEF M, N
    <3> QED
      BY <2>1, <2>2
  <2> QED
    BY <2>3 DEF Top
<1> QED
  BY <1>1, <1>2, <1>3

\* The page P and the cursor after it, when the rows B have been shown.
Continues(all, limit, B, P, rest, last) ==
    /\ B \subseteq all /\ \A n \in B : \A m \in all : Later(m, n) => m \in B
    /\ P = Top(all \ B, limit)
    /\ rest = {n \in all : \A m \in P : Later(m, n)}
    /\ last = IF rest = {} THEN {} ELSE {n \in P : \A m \in P \ {n} : Later(m, n)}

\* After the rows B a page shows what comes next, and its cursor is where it ends.
LEMMA OnePage ==
    ASSUME NEW all, Ranked(all), NEW limit \in Nat \ {0},
           NEW B, NEW P, NEW rest, NEW last, Continues(all, limit, B, P, rest, last)
    PROVE  /\ P \subseteq all \ B
           /\ \/ last = {} /\ B \cup P = all
              \/ \E e \in all \ B : last = {e} /\ B \cup P = {n \in all : n = e \/ Later(n, e)}
<1> USE DEF Continues
<1> DEFINE rows == all \ B
<1>1. /\ P \subseteq rows
      /\ rows # {} => P # {}
      /\ \A n \in P : \A m \in rows : Later(m, n) => m \in P
  <2>1. Ranked(rows)
    BY RankedPart
  <2> HIDE DEF rows
  <2> QED
    BY <2>1, TopShows DEF rows
<1>2. CASE rows = {}
  BY <1>1, <1>2
<1>3. CASE rows # {}
  <2>1. PICK e \in P : \A m \in P \ {e} : Later(m, e)
    <3>1. Ranked(P)
      BY <1>1, RankedPart
    <3> QED
      BY <1>1, <1>3, <3>1, LastRow
  <2>2. e \in all \ B
    BY <1>1, <2>1
  <2>3. {n \in P : \A m \in P \ {n} : Later(m, n)} = {e}
    <3>1. ASSUME NEW n \in P, \A m \in P \ {n} : Later(m, n), n # e PROVE FALSE
      <4>1. Later(e, n) /\ Later(n, e) /\ e \in all /\ n \in all
        BY <1>1, <2>1, <3>1
      <4> QED
        BY <4>1 DEF Ranked
    <3> QED
      BY <2>1, <3>1
  <2>4. ASSUME NEW n \in rows \ P
        PROVE  n \in rest
    <3>1. ~Later(n, e) /\ n # e
      BY <1>1, <2>1, <2>4
    <3>2. Later(e, n)
      BY <2>2, <3>1 DEF Ranked
    <3>3. \A m \in P : m # e => Later(m, n)
      BY <1>1, <2>1, <2>2, <3>2 DEF Ranked
    <3> QED
      BY <3>2, <3>3
  <2>5. CASE rest = {}
    BY <1>1, <2>4, <2>5
  <2>6. CASE rest # {}
    <3>1. last = {e}
      BY <2>3, <2>6
    <3>2. ASSUME NEW n \in B \cup P PROVE n \in all /\ (n = e \/ Later(n, e))
      <4>1. CASE n \in P
        BY <1>1, <2>1, <4>1
      <4>2. CASE n \in B
        <5>1. n \in all /\ n # e /\ ~Later(e, n)
          BY <2>2, <4>2
        <5> QED
          BY <2>2, <5>1 DEF Ranked
      <4> QED
        BY <4>1, <4>2
    <3>3. ASSUME NEW n \in all, n = e \/ Later(n, e) PROVE n \in B \cup P
      BY <1>1, <2>1, <3>3
    <3>4. B \cup P = {n \in all : n = e \/ Later(n, e)}
      BY <3>2, <3>3
    <3> QED
      BY <1>1, <2>2, <3>1, <3>4
  <2> QED
    BY <2>5, <2>6
<1> QED
  BY <1>2, <1>3

\* What the pages of a walk have shown, and what a walk of k turns has come to.
ShownBy(w) == UNION {w.shown[i] : i \in DOMAIN w.shown}

ShowsTop(all, w, k) ==
    /\ w.shown \in Seq(SUBSET all)
    /\ \A i, j \in DOMAIN w.shown : i # j => w.shown[i] \cap w.shown[j] = {}
    /\ \/ k = 0 /\ w.shown = <<>> /\ w.cursor = {}
       \/ w.shown # <<>> /\ w.cursor = {} /\ ShownBy(w) = all
       \/ /\ w.shown # <<>>
          /\ \E e \in all : w.cursor = {e} /\ ShownBy(w) = {n \in all : n = e \/ Later(n, e)}
          /\ k <= Cardinality(ShownBy(w))

\* One page more.
LEMMA AppendShows ==
    ASSUME NEW all, NEW s \in Seq(SUBSET all), NEW P \in SUBSET all,
           \A i, j \in DOMAIN s : i # j => s[i] \cap s[j] = {},
           P \cap UNION {s[i] : i \in DOMAIN s} = {},
           NEW t, t = Append(s, P)
    PROVE  /\ t \in Seq(SUBSET all) /\ t # <<>>
           /\ \A i, j \in DOMAIN t : i # j => t[i] \cap t[j] = {}
           /\ UNION {t[i] : i \in DOMAIN t} = (UNION {s[i] : i \in DOMAIN s}) \cup P
<1>1. /\ t \in Seq(SUBSET all) /\ t # <<>> /\ Len(s) \in Nat
      /\ DOMAIN s = 1..Len(s) /\ DOMAIN t = 1..(Len(s) + 1)
      /\ \A i \in 1..Len(s) : t[i] = s[i]
      /\ t[Len(s) + 1] = P
  OBVIOUS
<1>2. DOMAIN t = DOMAIN s \cup {Len(s) + 1} /\ Len(s) + 1 \notin DOMAIN s
  BY <1>1
<1>3. \A i \in DOMAIN s : t[i] = s[i] /\ P \cap s[i] = {}
  BY <1>1
<1>4. \A i, j \in DOMAIN t : i # j => t[i] \cap t[j] = {}
  BY <1>1, <1>2, <1>3
<1>5. UNION {t[i] : i \in DOMAIN t} = (UNION {s[i] : i \in DOMAIN s}) \cup P
  BY <1>1, <1>2, <1>3
<1> QED
  BY <1>1, <1>4, <1>5

\* A turn goes on from where the last one ended.
LEMMA NextPageShows ==
    ASSUME NEW tables, NEW a, NEW limit \in Nat \ {0}, NEW all, all = inbox(tables, a), Ranked(all),
           NEW k \in Nat, NEW w, ShowsTop(all, w, k)
    PROVE  ShowsTop(all, NextPage(tables, a, limit, w), k + 1)
<1>1. CASE w.shown # <<>> /\ w.cursor = {}
  <2>1. NextPage(tables, a, limit, w) = w
    BY <1>1 DEF NextPage
  <2> QED
    BY <1>1, <2>1 DEF ShowsTop
<1>2. CASE ~(w.shown # <<>> /\ w.cursor = {})
  <2>1. PICK B : B = ShownBy(w)
    OBVIOUS
  <2>2. /\ B \subseteq all
        /\ \A n \in B : \A m \in all : Later(m, n) => m \in B
        /\ {n \in all : \A c \in w.cursor : Later(c, n)} = all \ B
        /\ IsFiniteSet(B) /\ Cardinality(B) \in Nat /\ k <= Cardinality(B)
    <3>1. CASE k = 0 /\ w.shown = <<>> /\ w.cursor = {}
      <4>1. B = {}
        BY <2>1, <3>1 DEF ShownBy
      <4> QED
        BY <3>1, <4>1, FS_EmptySet
    <3>2. CASE w.shown # <<>>
      <4>1. PICK e \in all : w.cursor = {e} /\ B = {n \in all : n = e \/ Later(n, e)}
        BY <1>2, <2>1, <3>2 DEF ShowsTop
      <4>2. k <= Cardinality(B)
        BY <1>2, <2>1, <3>2 DEF ShowsTop
      <4>3. {n \in all : \A c \in w.cursor : Later(c, n)} = {n \in all : Later(e, n)}
        BY <4>1
      <4>4. {n \in all : Later(e, n)} = all \ B
        BY <4>1 DEF Ranked
      <4>5. \A n \in B : \A m \in all : Later(m, n) => m \in B
        BY <4>1 DEF Ranked
      <4>6. IsFiniteSet(B) /\ Cardinality(B) \in Nat
        BY <4>1, FS_Subset, FS_CardinalityType DEF Ranked
      <4> QED
        BY <4>1, <4>2, <4>3, <4>4, <4>5, <4>6
    <3> QED
      BY <3>1, <3>2 DEF ShowsTop
  <2>3. PICK P : P = page(tables, a, limit, w.cursor)
    OBVIOUS
  <2>4. P = Top(all \ B, limit)
    BY <2>2, <2>3 DEF page, Top
  <2>5. PICK rest : rest = {n \in all : \A m \in P : Later(m, n)}
    OBVIOUS
  <2>6. PICK last : last = IF rest = {} THEN {} ELSE {n \in P : \A m \in P \ {n} : Later(m, n)}
    OBVIOUS
  <2>7. next_cursor(tables, a, limit, w.cursor) = last
    BY <2>3, <2>5, <2>6, Zenon DEF next_cursor
  <2>8. /\ P \subseteq all \ B
        /\ \/ last = {} /\ B \cup P = all
           \/ \E e \in all \ B : last = {e} /\ B \cup P = {n \in all : n = e \/ Later(n, e)}
    <3>1. Continues(all, limit, B, P, rest, last)
      BY <2>2, <2>4, <2>5, <2>6 DEF Continues
    <3> QED
      BY <3>1, OnePage
  <2>9. PICK t : t = Append(w.shown, P)
    OBVIOUS
  <2>10. /\ t \in Seq(SUBSET all) /\ t # <<>>
         /\ \A i, j \in DOMAIN t : i # j => t[i] \cap t[j] = {}
         /\ UNION {t[i] : i \in DOMAIN t} = B \cup P
    <3>1. P \cap UNION {w.shown[i] : i \in DOMAIN w.shown} = {} /\ P \in SUBSET all
      BY <2>1, <2>8 DEF ShownBy
    <3>2. PICK s : s = w.shown
      OBVIOUS
    <3>3. /\ s \in Seq(SUBSET all) /\ P \cap UNION {s[i] : i \in DOMAIN s} = {} /\ t = Append(s, P)
          /\ \A i, j \in DOMAIN s : i # j => s[i] \cap s[j] = {}
      BY <2>9, <3>1, <3>2 DEF ShowsTop
    <3>4. B = UNION {s[i] : i \in DOMAIN s}
      BY <2>1, <3>2 DEF ShownBy
    <3> QED
      BY <3>1, <3>3, <3>4, AppendShows
  <2>11. PICK v : v = NextPage(tables, a, limit, w)
    OBVIOUS
  <2>12. v.shown = t /\ v.cursor = last
    BY <1>2, <2>3, <2>7, <2>9, <2>11 DEF NextPage
  <2>13. ShownBy(v) = B \cup P
    BY <2>10, <2>12 DEF ShownBy
  <2>14. ASSUME NEW e \in all \ B, B \cup P = {n \in all : n = e \/ Later(n, e)}
         PROVE  k + 1 <= Cardinality(B \cup P)
    <3>1. IsFiniteSet(B \cup P) /\ B \cup {e} \subseteq B \cup P
      BY <2>2, <2>8, <2>14, FS_Subset DEF Ranked
    <3>2. Cardinality(B \cup {e}) = Cardinality(B) + 1
      BY <2>2, FS_AddElement
    <3>3. Cardinality(B \cup {e}) <= Cardinality(B \cup P)
      BY <3>1, FS_Subset
    <3>4. Cardinality(B \cup P) \in Nat
      BY <3>1, FS_CardinalityType
    <3> QED
      BY <2>2, <3>2, <3>3, <3>4
  <2> QED
    BY <2>8, <2>10, <2>11, <2>12, <2>13, <2>14 DEF ShowsTop
<1> QED
  BY <1>1, <1>2

\* The walk of n turns.
IsWalk(W, n, tables, a, limit) ==
    W = [k \in 0..n |-> IF k = 0 THEN [shown |-> <<>>, cursor |-> {}] ELSE NextPage(tables, a, limit, W[k - 1])]

\* There is such a walk: each of its turns follows from the one before.
LEMMA WalkThere ==
    ASSUME NEW tables, NEW a, NEW limit, NEW n \in Nat
    PROVE  \E W : IsWalk(W, n, tables, a, limit)
<1> DEFINE S == {m \in Nat : \E W : IsWalk(W, m, tables, a, limit)}
           first == [shown |-> <<>>, cursor |-> {}]
<1>1. 0 \in S
  <2>1. PICK V : V = [k \in 0..0 |-> first]
    OBVIOUS
  <2>2. V = [k \in 0..0 |-> IF k = 0 THEN first ELSE NextPage(tables, a, limit, V[k - 1])]
    BY <2>1
  <2>3. IsWalk(V, 0, tables, a, limit)
    BY <2>2 DEF IsWalk
  <2> QED
    BY <2>3
<1>2. ASSUME NEW m \in Nat, m \in S
      PROVE  m + 1 \in S
  <2>1. PICK W : IsWalk(W, m, tables, a, limit)
    BY <1>2
  <2>2. PICK V : V = [k \in 0..(m + 1) |-> IF k = m + 1 THEN NextPage(tables, a, limit, W[m]) ELSE W[k]]
    OBVIOUS
  <2>3. \A k \in 0..(m + 1) :
           V[k] = IF k = 0 THEN first ELSE NextPage(tables, a, limit, V[k - 1])
    <3>1. \A k \in 0..m : W[k] = IF k = 0 THEN first ELSE NextPage(tables, a, limit, W[k - 1])
      BY <2>1 DEF IsWalk
    <3>2. ASSUME NEW k \in 0..(m + 1)
          PROVE  V[k] = IF k = 0 THEN first ELSE NextPage(tables, a, limit, V[k - 1])
      <4>1. CASE k = m + 1
        <5>1. k # 0 /\ k - 1 = m /\ V[m] = W[m] /\ V[k] = NextPage(tables, a, limit, W[m])
          BY <2>2, <4>1
        <5> QED
          BY <5>1
      <4>2. CASE k # m + 1 /\ k # 0
        <5>1. k \in 0..m /\ k - 1 \in 0..(m + 1) /\ k - 1 # m + 1
          BY <4>2
        <5>2. V[k] = W[k] /\ V[k - 1] = W[k - 1]
          BY <2>2, <4>2, <5>1
        <5> QED
          BY <3>1, <4>2, <5>1, <5>2
      <4>3. CASE k # m + 1 /\ k = 0
        BY <2>2, <3>1, <4>3
      <4> QED
        BY <4>1, <4>2, <4>3
    <3> QED
      BY <3>2
  <2>4. V = [k \in 0..(m + 1) |-> IF k = 0 THEN first ELSE NextPage(tables, a, limit, V[k - 1])]
    BY <2>2, <2>3
  <2>5. IsWalk(V, m + 1, tables, a, limit)
    BY <2>4 DEF IsWalk
  <2> QED
    BY <2>5
<1>3. \A m \in Nat : m \in S => m + 1 \in S
  BY <1>2
<1> HIDE DEF S
<1>4. Nat \subseteq S
  BY <1>1, <1>3, StepByStep
<1> QED
  BY <1>4 DEF S

\* Each of its turns shows more.
LEMMA WalkShows ==
    ASSUME NEW tables, NEW a, NEW limit \in Nat \ {0}, NEW all, all = inbox(tables, a), Ranked(all),
           NEW n \in Nat, NEW W, IsWalk(W, n, tables, a, limit)
    PROVE  ShowsTop(all, W[n], n)
<1> DEFINE S == {k \in Nat : k <= n => ShowsTop(all, W[k], k)}
<1>1. 0 \in S
  <2>1. W[0] = [shown |-> <<>>, cursor |-> {}]
    BY DEF IsWalk
  <2>2. <<>> \in Seq(SUBSET all) /\ DOMAIN <<>> = {}
    OBVIOUS
  <2>3. ShowsTop(all, W[0], 0)
    BY <2>1, <2>2 DEF ShowsTop
  <2> QED
    BY <2>3
<1>2. ASSUME NEW k \in Nat, k \in S
      PROVE  k + 1 \in S
  <2>1. CASE k + 1 <= n
    <3>1. ShowsTop(all, W[k], k)
      BY <1>2, <2>1
    <3>2. k + 1 \in 0..n /\ k + 1 # 0 /\ (k + 1) - 1 = k
      BY <2>1
    <3>3. W[k + 1] = NextPage(tables, a, limit, W[k])
      BY <3>2 DEF IsWalk
    <3>4. PICK w : w = W[k]
      OBVIOUS
    <3>5. ShowsTop(all, NextPage(tables, a, limit, w), k + 1)
      BY <3>1, <3>4, NextPageShows
    <3> QED
      BY <3>3, <3>4, <3>5
  <2> QED
    BY <2>1
<1>3. \A k \in Nat : k \in S => k + 1 \in S
  BY <1>2
<1> HIDE DEF S
<1>4. Nat \subseteq S
  BY <1>1, <1>3, StepByStep
<1> QED
  BY <1>4 DEF S

\* So the pages cover an inbox that Later orders.
LEMMA PagesCover ==
    ASSUME NEW tables, NEW a, NEW limit \in Nat \ {0}, Ranked(inbox(tables, a)),
           NEW shown, shown = Pages(tables, a, limit)
    PROVE  /\ UNION {shown[i] : i \in DOMAIN shown} = inbox(tables, a)
           /\ \A i, j \in DOMAIN shown : i # j => shown[i] \cap shown[j] = {}
<1>1. PICK all, n : all = inbox(tables, a) /\ n = Cardinality(all)
  OBVIOUS
<1>2. Ranked(all) /\ n \in Nat /\ IsFiniteSet(all)
  BY <1>1, FS_CardinalityType DEF Ranked
<1>3. PICK W : IsWalk(W, n, tables, a, limit) /\ shown = W[n].shown
  <2> DEFINE Walk == CHOOSE W : IsWalk(W, n, tables, a, limit)
  <2>1. IsWalk(Walk, n, tables, a, limit)
    BY <1>2, WalkThere, Zenon
  <2>2. Pages(tables, a, limit) = Walk[n].shown
    BY <1>1, Zenon DEF Pages, IsWalk
  <2> QED
    BY <2>1, <2>2
<1>4. PICK w : w = W[n]
  OBVIOUS
<1>5. ShowsTop(all, w, n)
  BY <1>1, <1>2, <1>3, <1>4, WalkShows
<1>6. ShownBy(w) = all
  <2>1. CASE n = 0
    <3>1. all = {}
      BY <1>1, <1>2, <2>1, FS_EmptySet
    <3>2. ShownBy(w) \subseteq all
      BY <1>5 DEF ShowsTop, ShownBy
    <3> QED
      BY <3>1, <3>2
  <2>2. CASE n # 0 /\ ShownBy(w) # all
    <3>1. ShownBy(w) \subseteq all /\ n <= Cardinality(ShownBy(w))
      BY <1>5, <2>2 DEF ShowsTop
    <3>2. Cardinality(ShownBy(w)) <= n /\ (Cardinality(ShownBy(w)) = n => ShownBy(w) = all) /\ IsFiniteSet(ShownBy(w))
      BY <1>1, <1>2, <3>1, FS_Subset
    <3>3. Cardinality(ShownBy(w)) \in Nat
      BY <3>2, FS_CardinalityType
    <3> QED
      BY <1>2, <2>2, <3>1, <3>2, <3>3
  <2> QED
    BY <2>1, <2>2
<1>7. w.shown = shown
  BY <1>3, <1>4
<1>8. UNION {shown[i] : i \in DOMAIN shown} = all
  BY <1>6, <1>7, Zenon DEF ShownBy
<1>9. \A i, j \in DOMAIN shown : i # j => shown[i] \cap shown[j] = {}
  BY <1>5, <1>7 DEF ShowsTop
<1> QED
  BY <1>1, <1>8, <1>9

\* The keys of the notices there were at first.
Openers == {n.by : n \in OpeningTables.notifications}

\* Every notice has a time and a key of its own.
InboxInv ==
    /\ Sessions /\ body \in Workloads /\ now \in Nat
    /\ "notifications" \in DOMAIN db /\ IsFiniteSet(db.notifications)
    /\ \A n \in db.notifications : /\ n.at \in Nat /\ n.by \in Requests \cup Openers
                                   /\ n.by \in Requests => Committed(n.by)
    /\ \A m, n \in db.notifications : m.by = n.by => m = n

\* So Later orders the rows of an inbox.
LEMMA InboxRanked ==
    ASSUME InboxInv, NEW a
    PROVE  Ranked(inbox(db, a))
<1>1. IsFiniteSet(inbox(db, a))
  BY FS_Subset DEF InboxInv, inbox
<1>2. ASSUME NEW n \in inbox(db, a)
      PROVE  n.at \in Nat /\ IdOrder[n.by] \in Nat
  BY OpeningInbox DEF InboxInv, inbox, Openers, Requests
<1>3. ASSUME NEW m \in inbox(db, a), NEW n \in inbox(db, a), m # n
      PROVE  IdOrder[m.by] # IdOrder[n.by]
  <2>1. m.by # n.by /\ {m.by, n.by} \subseteq Requests \cup Openers
    BY <1>3 DEF InboxInv, inbox
  <2> QED
    BY <2>1, OpeningInbox DEF InboxInv, Openers, Requests
<1>4. ASSUME NEW m \in inbox(db, a), NEW n \in inbox(db, a)
      PROVE  /\ m # n => Later(m, n) \/ Later(n, m)
             /\ ~(Later(m, n) /\ Later(n, m))
  BY <1>2, <1>3 DEF Later
<1>5. ASSUME NEW l \in inbox(db, a), NEW m \in inbox(db, a), NEW n \in inbox(db, a), Later(l, m), Later(m, n)
      PROVE  Later(l, n)
  BY <1>2, <1>5 DEF Later
<1> QED
  BY <1>1, <1>4, <1>5 DEF Ranked

\* A commit that tells of one thing at most keeps the invariant.
LEMMA CommitInbox ==
    ASSUME InboxInv, NEW r \in Requests, Commits(r), NEW kind, Told(r, kind), "notifications" \in DOMAIN db'
    PROVE  InboxInv'
<1>1. Sessions' /\ body' = body /\ Requests' = Requests /\ now' = now
  BY StepSessions, Zenon DEF InboxInv, Commits, Requests
<1>2. \A q \in Requests : Committed(q) => Committed(q)'
  BY DEF Commits, Committed
<1>3. Committed(r)' /\ ~Committed(r)
  BY DEF Commits, Committed
<1>4. CASE db'.notifications = db.notifications
  BY <1>1, <1>2, <1>4 DEF InboxInv
<1>5. CASE db'.notifications # db.notifications
  <2>1. PICK m \in db'.notifications \ db.notifications : TRUE
    BY <1>5 DEF Told
  <2>2. m.by = r /\ m.at = now
    BY <2>1 DEF Told
  <2>3. db'.notifications = db.notifications \cup {m}
    BY <2>1 DEF Told
  <2>4. IsFiniteSet(db'.notifications)
    BY <2>3, FS_AddElement DEF InboxInv
  <2>5. \A n \in db.notifications : n.by # r
    BY <1>3 DEF InboxInv
  <2>6. \A n \in db'.notifications : /\ n.at \in Nat /\ n.by \in Requests \cup Openers
                                     /\ n.by \in Requests => Committed(n.by)'
    BY <1>2, <1>3, <2>2, <2>3 DEF InboxInv
  <2>7. \A l, n \in db'.notifications : l.by = n.by => l = n
    BY <2>2, <2>3, <2>5 DEF InboxInv
  <2> QED
    BY <1>1, <2>4, <2>6, <2>7 DEF InboxInv
<1> QED
  BY <1>4, <1>5

\* One that leaves the notices keeps it too.
LEMMA SilentInbox ==
    ASSUME InboxInv, NEW r \in Requests, Commits(r), NEW written, Handles(r, written), "notifications" \notin written
    PROVE  InboxInv'
<1>1. Told(r, "none") /\ "notifications" \in DOMAIN db'
  BY LeavesInbox, NobodyTold, HandlesFrame DEF InboxInv, Leaves
<1> QED
  BY <1>1, CommitInbox, Zenon

\* So does a handler that tells of one thing.
LEMMA TellingInbox ==
    ASSUME InboxInv, NEW r \in Requests, Commits(r), NEW written, Handles(r, written), \E kind : Told(r, kind)
    PROVE  InboxInv'
<1>1. "notifications" \in DOMAIN db'
  BY HandlesFrame DEF InboxInv, Leaves
<1> QED
  BY <1>1, CommitInbox, Zenon

\* Every handler is one or the other.
LEMMA StepInbox ==
    ASSUME InboxInv, NEW r \in Requests, Commits(r), Step(r)
    PROVE  InboxInv'
<1>1. Sessions /\ "notifications" \in DOMAIN db
  BY DEF InboxInv
<1>2. CASE PollStep(r) \/ EventStep(r)
  <2>1. CASE create_poll(r) \/ update_poll(r) \/ create_event(r) \/ update_event(r)
    BY <1>1, <2>1, PollsTell, PollTold, EventsTell, EventTold, TellingInbox
  <2>2. CASE delete_poll(r) \/ vote_poll(r) \/ toggle_poll_like(r) \/ add_poll_comment(r)
    BY <2>2, PollsDelete, PollsWrite, SilentInbox
  <2>3. CASE delete_event(r) \/ toggle_event_like(r) \/ add_event_comment(r) \/ rsvp(r) \/ clear_rsvp(r)
    BY <2>3, EventsDelete, EventsWrite, AnswersWrite, SilentInbox
  <2> QED
    BY <1>2, <2>1, <2>2, <2>3 DEF PollStep, EventStep
<1>3. CASE AnnouncementStep(r)
  <2>1. CASE create_announcement(r)
    BY <1>1, <2>1, AnnouncementsTell, AnnouncementTold, TellingInbox
  <2> QED
    BY <1>3, <2>1, AnnouncementsWrite, LikesWrite, SilentInbox DEF AnnouncementStep
<1>4. CASE MarketStep(r)
  <2>1. CASE send_chat(r)
    BY <1>1, <2>1, ItemsTell, ChatTold, TellingInbox
  <2> QED
    BY <1>4, <2>1, ItemsWrite, FavoritesWrite, ViewsWrite, SilentInbox DEF MarketStep
<1>5. CASE ServiceStep(r)
  <2>1. CASE delete_service_request(r)
    BY <2>1, RequestsWrite, SilentInbox
  <2> QED
    BY <1>1, <1>5, <2>1, RequestsTell, RequestTold, TellingInbox DEF ServiceStep
<1>6. CASE BoardTaskStep(r)
  <2>1. CASE delete_task(r)
    BY <2>1, TasksWrite, SilentInbox
  <2> QED
    BY <1>1, <1>6, <2>1, TasksTell, TaskTold, TellingInbox DEF BoardTaskStep
<1>7. CASE MeetingStep(r)
  <2>1. CASE create_meeting(r)
    BY <1>1, <2>1, MeetingsTell, MeetingTold, TellingInbox
  <2> QED
    BY <1>7, <2>1, MeetingsWrite, AttendanceWrite, SilentInbox DEF MeetingStep
<1>8. CASE DocumentStep(r) \/ InvoiceStep(r) \/ ReportStep(r) \/ StatementStep(r)
  BY <1>8, DocumentsWrite, InvoicesWrite, ReportsWrite, StatementsWrite, SilentInbox
<1>9. CASE CatalogueStep(r) \/ DirectoryStep(r) \/ ProfileStep(r) \/ OnboardingStep(r) \/ InboxStep(r)
  BY <1>9, CataloguesWrite, LoginsWrite, DirectoryWrite, DetailsWrite, RecordsWrite, OnboardingWrite,
     SettingsWrite, InboxWrite, SilentInbox DEF ProfileStep, OnboardingStep
<1> QED
  BY <1>2, <1>3, <1>4, <1>5, <1>6, <1>7, <1>8, <1>9 DEF Step

\* And a step that writes nothing leaves it.
LEMMA NextInbox ==
    ASSUME InboxInv, [Next]_vars
    PROVE  InboxInv'
<1>1. ASSUME Idle
      PROVE  InboxInv'
  <2>1. Sessions' /\ body' = body /\ Requests' = Requests /\ db' = db /\ now' \in {now, now + 1}
    BY <1>1, StepSessions, Zenon DEF InboxInv, Idle, Requests
  <2>2. \A q \in Requests : Committed(q) => Committed(q)'
    BY <1>1 DEF Idle
  <2>3. now' \in Nat
    BY <2>1 DEF InboxInv
  <2> QED
    BY <2>1, <2>2, <2>3 DEF InboxInv
<1> QED
  BY <1>1, StepInbox, StepCases DEF InboxInv

\* It holds at first.
LEMMA InitInbox == Init => InboxInv
<1> SUFFICES ASSUME Init PROVE InboxInv
  OBVIOUS
<1>1. Sessions /\ body \in Workloads /\ now \in Nat /\ db = OpeningTables
  BY InitSessions DEF Init
<1>2. \A n \in db.notifications : n.at \in Nat /\ n.by \in Openers /\ n.by \notin Requests
  BY <1>1, OpeningInbox DEF Openers, Requests
<1> QED
  BY <1>1, <1>2, OpeningInbox DEF InboxInv

\* Every notice has a key and a time of its own, in every reachable state.
THEOREM InboxInvariant == Spec => []InboxInv
  BY InitInbox, NextInbox, PTL DEF Spec

\* Following next_cursor shows every notice of an account once, for pages of any size and
\* inboxes of any length (NotificationRepository.list).
THEOREM PagesCoverEveryInbox == Spec => []PagesCoverInbox
<1>1. InboxInv => PagesCoverInbox
  <2> SUFFICES ASSUME InboxInv, NEW a \in Accounts, NEW limit \in PageSizes, NEW shown, shown = Pages(db, a, limit)
               PROVE  /\ UNION {shown[i] : i \in DOMAIN shown} = inbox(db, a)
                      /\ \A i, j \in DOMAIN shown : i # j => shown[i] \cap shown[j] = {}
    BY Zenon DEF PagesCoverInbox
  <2>1. limit \in Nat \ {0}
    BY Limits
  <2>2. PICK tables : tables = db
    OBVIOUS
  <2>3. Ranked(inbox(tables, a)) /\ shown = Pages(tables, a, limit)
    BY <2>2, InboxRanked
  <2>4. /\ UNION {shown[i] : i \in DOMAIN shown} = inbox(tables, a)
        /\ \A i, j \in DOMAIN shown : i # j => shown[i] \cap shown[j] = {}
    BY <2>1, <2>3, PagesCover
  <2> QED
    BY <2>2, <2>4
<1> QED
  BY <1>1, InboxInvariant, PTL
=============================================================================
