----------------------------- MODULE Reminders -----------------------------
(* The daily job that reminds owners of vehicle documents due for renewal,   *)
(* app/jobs/vehicle_document_reminders.py run by scripts/jobs/run_daily.py,   *)
(* while owners edit and delete vehicles in app/modules/profile.              *)
(*                                                                           *)
(* A run is one process and one transaction. It finds the documents due on    *)
(* its snapshot, then takes them one by one: INSERT IGNORE into the delivery  *)
(* table, whose unique key is document and date, waits while another run has  *)
(* inserted the key and not committed, and inserts nothing when the key is    *)
(* there or the vehicle is gone. A row inserted locks the vehicle it refers   *)
(* to. Scheduler retries and second schedulers are more runs.                 *)
EXTENDS Naturals

CONSTANTS
    Runs,           \* processes that run the job, once each
    Vehicles, Types,
    Accounts,
    owners,         \* the active accounts of a vehicle's user
    LastDay,        \* bounds the days considered
    Edits,          \* the reminder dates owners set later, as pairs of document and date
    OpeningDue,     \* the reminder date of each document, Null where there is none
    Null

Days == 1..LastDay
Documents == Vehicles \X Types

\* A notification and the delivery row that names it.
Notices == [run: Runs, document: Documents, day: Days, account: Accounts]

ASSUME ReminderConstants ==
    /\ LastDay \in Nat \ {0}
    /\ owners \in [Vehicles -> SUBSET Accounts]
    /\ Edits \subseteq Documents \X (Days \cup {Null})
    /\ OpeningDue \in [Documents -> Days \cup {Null}]
    /\ Null \notin Days \cup (Documents \X Accounts)

VARIABLES
    today,
    vehicles,   \* the vehicles that exist
    due,        \* reminder dates
    deliveries, \* delivery rows, each with the notification it names
    inbox,      \* notifications, as many as owners find in their inboxes
    progress,   \* how far a run has come
    day,        \* the date it runs for
    todo,       \* documents and accounts it has found and not dealt with
    at,         \* the one it is at
    made,       \* what it has inserted
    found       \* history: what it found

shared == <<today, vehicles, due>>
rows == <<deliveries, inbox>>
jobVars == <<today, vehicles, due, deliveries, inbox, progress, day, todo, at, made, found>>

\* _due_documents: one row for each account of the vehicle's user.
Due(n) == {x \in Documents \X Accounts : x[2] \in owners[x[1][1]] /\ due[x[1]] = n}

\* The item a loop over S comes to next: the query has no ORDER BY.
NextOf(S) == IF S = {} THEN {Null} ELSE S

Key(n) == <<n.document, n.day>>

Reserved(r) == <<at[r][1], day[r]>>

Held(r, k) == \E n \in made[r] : Key(n) = k

\* Only its own rows, as if the table had no unique key.
ListedByItself(r) == Held(r, Reserved(r))

\* The unique key finds a row, one of its own included: a user may have two accounts.
Listed(r) == Held(r, Reserved(r)) \/ \E n \in deliveries : Key(n) = Reserved(r)

Waits(r) ==
    /\ progress[r] = "working" /\ at[r] # Null
    /\ \E s \in Runs \ {r} : Held(s, Reserved(r))

\* FOREIGN KEY (vehicle_id): the rows of a vehicle keep it from being changed.
Locked(v) == \E r \in Runs : \E n \in made[r] : n.document[1] = v

JobInit ==
    /\ today = 1
    /\ vehicles = Vehicles
    /\ due = OpeningDue
    /\ deliveries = {}
    /\ inbox = {}
    /\ progress = [r \in Runs |-> "idle"]
    /\ day = [r \in Runs |-> 1]
    /\ todo = [r \in Runs |-> {}]
    /\ at = [r \in Runs |-> Null]
    /\ made = [r \in Runs |-> {}]
    /\ found = [r \in Runs |-> {}]
-----------------------------------------------------------------------------
(* A run *)

\* run_daily_jobs: the date in India, before the first query.
Start(r) ==
    /\ progress[r] = "idle"
    /\ progress' = [progress EXCEPT ![r] = "dated"]
    /\ day' = [day EXCEPT ![r] = today]
    /\ UNCHANGED <<shared, rows, todo, at, made, found>>

FindDue(r) ==
    /\ progress[r] = "dated"
    /\ progress' = [progress EXCEPT ![r] = "working"]
    /\ todo' = [todo EXCEPT ![r] = Due(day[r])]
    /\ found' = [found EXCEPT ![r] = Due(day[r])]
    /\ \E x \in NextOf(Due(day[r])) : at' = [at EXCEPT ![r] = x]
    /\ UNCHANGED <<shared, rows, day, made>>

Advance(r) ==
    /\ todo' = [todo EXCEPT ![r] = @ \ {at[r]}]
    /\ \E x \in NextOf(todo[r] \ {at[r]}) : at' = [at EXCEPT ![r] = x]
    /\ UNCHANGED <<shared, rows, progress, day, found>>

\* Tries the same item again.
SkipAgain(r) ==
    /\ progress[r] = "working" /\ at[r] # Null /\ ~Waits(r)
    /\ Listed(r) \/ at[r][1][1] \notin vehicles
    /\ UNCHANGED jobVars

\* rowcount 0.
Skip(r) ==
    /\ progress[r] = "working" /\ at[r] # Null /\ ~Waits(r)
    /\ Listed(r) \/ at[r][1][1] \notin vehicles
    /\ Advance(r)
    /\ UNCHANGED made

Reminder(r) == [run |-> r, document |-> at[r][1], day |-> day[r], account |-> at[r][2]]

\* With the delivery row committed on its own.
RemindReservedFirst(r) ==
    /\ progress[r] = "working" /\ at[r] # Null /\ ~Waits(r)
    /\ ~Listed(r) /\ at[r][1][1] \in vehicles
    /\ deliveries' = deliveries \cup {Reminder(r)}
    /\ made' = [made EXCEPT ![r] = @ \cup {Reminder(r)}]
    /\ todo' = [todo EXCEPT ![r] = @ \ {at[r]}]
    /\ \E x \in NextOf(todo[r] \ {at[r]}) : at' = [at EXCEPT ![r] = x]
    /\ UNCHANGED <<shared, inbox, progress, day, found>>

\* The delivery row, and with it the notification and its recipient.
Remind(r) ==
    /\ progress[r] = "working" /\ at[r] # Null /\ ~Waits(r)
    /\ ~Listed(r) /\ at[r][1][1] \in vehicles
    /\ made' = [made EXCEPT ![r] = @ \cup {Reminder(r)}]
    /\ Advance(r)

\* The push that follows reaches nobody: a socket is connected to an API worker.
Commit(r) ==
    /\ progress[r] = "working" /\ at[r] = Null
    /\ deliveries' = deliveries \cup made[r]
    /\ inbox' = inbox \cup made[r]
    /\ progress' = [progress EXCEPT ![r] = "done"]
    /\ made' = [made EXCEPT ![r] = {}]
    /\ UNCHANGED <<shared, day, todo, at, found>>

Rollback(r) ==
    /\ progress' = [progress EXCEPT ![r] = "aborted"]
    /\ made' = [made EXCEPT ![r] = {}]
    /\ todo' = [todo EXCEPT ![r] = {}]
    /\ at' = [at EXCEPT ![r] = Null]
    /\ found' = [found EXCEPT ![r] = {}]
    /\ UNCHANGED <<shared, rows, day>>

\* A crash, a lost connection, a failed statement.
Fail(r) == progress[r] \in {"dated", "working"} /\ Rollback(r)

\* Deadlock detection or innodb_lock_wait_timeout.
LockWaitEnds(r) == Waits(r) /\ Rollback(r)

Step(r) == FindDue(r) \/ Skip(r) \/ Remind(r) \/ Commit(r)
-----------------------------------------------------------------------------
(* Around the job *)

NextDay ==
    /\ today < LastDay
    /\ today' = today + 1
    /\ UNCHANGED <<vehicles, due, rows, progress, day, todo, at, made, found>>

\* PUT /profile/vehicles/{id}: another date, or the document withdrawn.
update_record(v) ==
    /\ v \in vehicles /\ ~Locked(v)
    /\ \E e \in Edits : e[1][1] = v /\ due' = [due EXCEPT ![e[1]] = e[2]]
    /\ UNCHANGED <<today, vehicles, rows, progress, day, todo, at, made, found>>

\* DELETE /profile/vehicles/{id}: its delivery rows go with it, notifications stay.
delete_record(v) ==
    /\ v \in vehicles /\ ~Locked(v)
    /\ vehicles' = vehicles \ {v}
    /\ deliveries' = {n \in deliveries : n.document[1] # v}
    /\ due' = [d \in Documents |-> IF d[1] = v THEN Null ELSE due[d]]
    /\ UNCHANGED <<today, inbox, progress, day, todo, at, made, found>>

JobNext ==
    \/ \E r \in Runs : Start(r) \/ Step(r) \/ Fail(r) \/ LockWaitEnds(r)
    \/ NextDay
    \/ \E v \in Vehicles : update_record(v) \/ delete_record(v)

Fairness == \A r \in Runs : WF_jobVars(Step(r)) /\ WF_jobVars(LockWaitEnds(r))

JobSpec == JobInit /\ [][JobNext]_jobVars

FairSpec == JobSpec /\ Fairness
-----------------------------------------------------------------------------
(* Properties *)

\* Tables and locals keep their ranges; a loop stops only when nothing is left.
JobTypeOK ==
    /\ today \in Days
    /\ vehicles \subseteq Vehicles
    /\ due \in [Documents -> Days \cup {Null}]
    /\ deliveries \subseteq Notices /\ inbox \subseteq Notices
    /\ progress \in [Runs -> {"idle", "dated", "working", "done", "aborted"}]
    /\ day \in [Runs -> Days]
    /\ todo \in [Runs -> SUBSET (Documents \X Accounts)]
    /\ made \in [Runs -> SUBSET Notices]
    /\ found \in [Runs -> SUBSET (Documents \X Accounts)]
    /\ at \in [Runs -> (Documents \X Accounts) \cup {Null}]
    /\ \A r \in Runs : IF todo[r] = {} THEN at[r] = Null ELSE at[r] \in todo[r]

\* "Create due reminders once, even if the scheduled job is retried": a document due on a
\* date is in one inbox once, however many runs there are at once or one after another, and
\* vehicles deleted meanwhile do not bring it back.
RemindedOnce == \A m, n \in inbox : Key(m) = Key(n) => m = n

\* A run that ends well leaves no document it found without its reminder, by whichever run,
\* unless the vehicle is gone.
NoneForgotten ==
    \A r \in Runs : progress[r] = "done" =>
       \A x \in found[r] : \/ x[1][1] \notin vehicles
                           \/ \E n \in inbox : Key(n) = <<x[1], day[r]>>

\* Every run ends, though runs may wait for each other.
EveryRunEnds == \A r \in Runs : progress[r] # "idle" ~> progress[r] \in {"done", "aborted"}
=============================================================================
