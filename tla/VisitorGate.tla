----------------------------- MODULE VisitorGate -----------------------------
(* Visitors at the gate: walk-in requests a resident decides and guards check *)
(* in and out, and pre-approved passes,                                       *)
(* app/modules/visitor_management/service.py over repository.py.              *)
(*                                                                            *)
(* A request is one MySQL transaction under REPEATABLE READ. Its checks are   *)
(* plain SELECTs on the snapshot the authentication query fixed; only an      *)
(* UPDATE sees current rows. The statements that write come last and wait for *)
(* nothing but each other's row locks, always log before pass, so a request   *)
(* is two steps: it begins, and it finishes with all its writes, or rolls     *)
(* back with none.                                                            *)
EXTENDS Naturals, FiniteSets

CONSTANTS
    Requests,       \* HTTP requests, each served once
    VisitIds, PassIds, LogIds,  \* primary keys uuid4 may draw
    Payloads,       \* the requests considered
    OpeningVisits, OpeningPasses,   \* the tables before the first request
    None

VisitStatus == {"None", "Pending", "Approved", "Denied", "Checked_In", "Checked_Out"}
PassStatus == {"None", "Active", "Used", "Expired", "Cancelled"}

Ops == {"create_request", "approve", "reject", "create_preapproved", "cancel_preapproved",
        "check_in", "check_in_walk_in", "check_out", "check_out_log", "check_out_walk_in"}

\* permitted stands for what does not change while visitors come and go: role, unit,
\* association and OTP. single is the type of a pass to create.
Bodies == [op: Ops, visit: VisitIds \cup {None}, pass: PassIds \cup {None},
           log: LogIds \cup {None}, single: BOOLEAN, permitted: BOOLEAN]

\* The last three fields of a visit are history: how often it was approved, and its
\* visitor let in and out.
Visits == [status: VisitStatus, approvals: Nat, entries: Nat, exits: Nat]
Passes == [status: PassStatus, single: BOOLEAN]

NoVisit == [status |-> "None", approvals |-> 0, entries |-> 0, exits |-> 0]
NoPass == [status |-> "None", single |-> FALSE]

ASSUME VisitorConstants ==
    /\ Payloads \subseteq Bodies
    /\ \A b \in Payloads :
         /\ b.op \in {"approve", "reject", "check_in_walk_in", "check_out_walk_in"} =>
              b.visit \in VisitIds
         /\ b.op \in {"cancel_preapproved", "check_in", "check_out"} => b.pass \in PassIds
         /\ b.op = "check_out_log" => b.log \in LogIds
    /\ OpeningVisits \in [VisitIds -> {NoVisit, [NoVisit EXCEPT !.status = "Pending"]}]
    /\ OpeningPasses \in [PassIds -> {p \in Passes : p.status \in {"None", "Active"}}]
    /\ None \notin Requests \cup VisitIds \cup PassIds \cup LogIds

VARIABLES
    visits,     \* visitor_visits
    passes,     \* pre_approved_visitors
    logs,       \* visitor_logs: the pass, and the requests that checked in and out
    stage,      \* how far a request has come
    body,       \* its body, while it is served
    seen        \* what its SELECTs return: a status, the logs of a pass, those not closed

tables == <<visits, passes, logs>>
vars == <<visits, passes, logs, stage, body, seen>>

NoLog == [pass |-> None, by |-> None, closedBy |-> None]

Nothing == [status |-> "None", logs |-> {}, open |-> {}]

LogsOf(p) == {l \in LogIds : p # None /\ logs[l].pass = p}
Open(S) == {l \in S : logs[l].closedBy = None}

\* The rows a request with body b will read, as they are now.
Snapshot(b) ==
    LET read == IF b.op = "check_out_log" THEN {b.log} \ {l \in LogIds : logs[l] = NoLog}
                ELSE LogsOf(b.pass)
        status == IF b.op \in {"approve", "reject"} THEN visits[b.visit].status
                  ELSE IF b.op = "check_in" THEN passes[b.pass].status
                  ELSE "None"
    IN [status |-> status, logs |-> read, open |-> Open(read)]
-----------------------------------------------------------------------------
Init ==
    /\ visits = OpeningVisits
    /\ passes = OpeningPasses
    /\ logs = [l \in LogIds |-> NoLog]
    /\ stage = [r \in Requests |-> "idle"]
    /\ body = [r \in Requests |-> None]
    /\ seen = [r \in Requests |-> Nothing]

\* Authentication reads first and fixes the snapshot.
Begin(r) ==
    /\ stage[r] = "idle"
    /\ \E b \in Payloads :
         /\ body' = [body EXCEPT ![r] = b]
         /\ seen' = [seen EXCEPT ![r] = Snapshot(b)]
    /\ stage' = [stage EXCEPT ![r] = "open"]
    /\ UNCHANGED tables

End(r, outcome) ==
    /\ stage' = [stage EXCEPT ![r] = outcome]
    /\ body' = [body EXCEPT ![r] = None]
    /\ seen' = [seen EXCEPT ![r] = Nothing]

Serves(r, op) == stage[r] = "open" /\ body[r].op = op /\ body[r].permitted

Refuse(r) == End(r, "refused") /\ UNCHANGED tables

create_request(r) ==
    /\ Serves(r, "create_request")
    /\ \E v \in VisitIds :
         /\ visits[v].status = "None"
         /\ visits' = [visits EXCEPT ![v].status = "Pending"]
    /\ End(r, "done")
    /\ UNCHANGED <<passes, logs>>

DecideAnything(r, decision) ==
    LET v == body[r].visit IN
    /\ visits' = [visits EXCEPT ![v].status = decision,
                                ![v].approvals = IF decision = "Approved" THEN @ + 1 ELSE @]
    /\ End(r, "done")
    /\ UNCHANGED <<passes, logs>>

\* approve and reject: the visit must be pending in the snapshot; the UPDATE that
\* follows does not ask again.
Decide(r, decision) ==
    IF seen[r].status # "Pending" THEN Refuse(r) ELSE DecideAnything(r, decision)

approve(r) ==
    \/ Serves(r, "approve") /\ Decide(r, "Approved")
    \/ Serves(r, "reject") /\ Decide(r, "Denied")

create_preapproved(r) ==
    /\ Serves(r, "create_preapproved")
    /\ \E p \in PassIds :
         /\ passes[p].status = "None"
         /\ passes' = [passes EXCEPT ![p] = [status |-> "Active", single |-> body[r].single]]
    /\ End(r, "done")
    /\ UNCHANGED <<visits, logs>>

\* Whatever the status of the pass.
cancel_preapproved(r) ==
    LET p == body[r].pass IN
    /\ Serves(r, "cancel_preapproved")
    /\ IF passes[p].status = "None"
       THEN Refuse(r)
       ELSE /\ passes' = [passes EXCEPT ![p].status = "Cancelled"]
            /\ End(r, "done")
            /\ UNCHANGED <<visits, logs>>

AdmissibleAnyStatus(r) == seen[r].status # "None" /\ seen[r].open = {}

\* The pass was active and nobody inside on it.
Admissible(r) == seen[r].status = "Active" /\ seen[r].open = {}

SpendNone(p) == passes

\* A single entry spends the pass.
Spend(p) == IF passes[p].single THEN [passes EXCEPT ![p].status = "Used"] ELSE passes

check_in(r) ==
    LET p == body[r].pass IN
    /\ Serves(r, "check_in")
    /\ \/ Refuse(r)         \* outside the scheduled window
       \/ ~Admissible(r) /\ Refuse(r)
       \/ /\ Admissible(r)
          /\ \E l \in LogIds :
               /\ logs[l] = NoLog
               /\ logs' = [logs EXCEPT ![l] = [pass |-> p, by |-> r, closedBy |-> None]]
          /\ passes' = Spend(p)
          /\ End(r, "done")
          /\ UNCHANGED visits

AwaitsEntryOrInside(v) == visits[v].status \in {"Approved", "Checked_In"}

AwaitsEntry(v) == visits[v].status = "Approved"

\* One conditional UPDATE on the current row.
check_in_walk_in(r) ==
    LET v == body[r].visit IN
    /\ Serves(r, "check_in_walk_in")
    /\ IF AwaitsEntry(v)
       THEN /\ visits' = [visits EXCEPT ![v].status = "Checked_In", ![v].entries = @ + 1]
            /\ End(r, "done")
            /\ UNCHANGED <<passes, logs>>
       ELSE Refuse(r)

\* UPDATE ... WHERE check_out IS NULL: a log that is closed by now stays as it is.
close_log(l, r) == [logs EXCEPT ![l].closedBy = IF @ = None THEN r ELSE @]

CheckOut(r, l) ==
    LET p == logs[l].pass IN
    /\ logs' = close_log(l, r)
    /\ passes' = IF passes[p].single THEN [passes EXCEPT ![p].status = "Expired"] ELSE passes
    /\ End(r, "done")
    /\ UNCHANGED visits

\* The latest open log of the pass; of logs with the same timestamp, any.
check_out(r) ==
    /\ Serves(r, "check_out")
    /\ \/ seen[r].open = {} /\ Refuse(r)
       \/ \E l \in seen[r].open : CheckOut(r, l)

check_out_log(r) ==
    /\ Serves(r, "check_out_log")
    /\ IF body[r].log \in seen[r].open THEN CheckOut(r, body[r].log) ELSE Refuse(r)

check_out_walk_in(r) ==
    LET v == body[r].visit IN
    /\ Serves(r, "check_out_walk_in")
    /\ IF visits[v].status = "Checked_In"
       THEN /\ visits' = [visits EXCEPT ![v].status = "Checked_Out", ![v].exits = @ + 1]
            /\ End(r, "done")
            /\ UNCHANGED <<passes, logs>>
       ELSE Refuse(r)

RefuseUnpermitted(r) == stage[r] = "open" /\ ~body[r].permitted /\ Refuse(r)

\* A lost connection or a stopped worker rolls the transaction back.
Abort(r) == stage[r] = "open" /\ End(r, "aborted") /\ UNCHANGED tables

Next == \E r \in Requests :
    \/ Begin(r) \/ RefuseUnpermitted(r) \/ Abort(r)
    \/ create_request(r) \/ approve(r) \/ check_in_walk_in(r) \/ check_out_walk_in(r)
    \/ create_preapproved(r) \/ cancel_preapproved(r)
    \/ check_in(r) \/ check_out(r) \/ check_out_log(r)

Spec == Init /\ [][Next]_vars
-----------------------------------------------------------------------------
(* Properties *)

Logs == [pass: PassIds \cup {None}, by: Requests \cup {None}, closedBy: Requests \cup {None}]

Seen == [status: VisitStatus \cup PassStatus, logs: SUBSET LogIds, open: SUBSET LogIds]

\* Tables and locals keep their ranges; a multiple-entry pass is never spent.
TypeOK ==
    /\ visits \in [VisitIds -> Visits]
    /\ passes \in [PassIds -> {p \in Passes : p.single \/ p.status \notin {"Used", "Expired"}}]
    /\ logs \in [LogIds -> Logs]
    /\ stage \in [Requests -> {"idle", "open", "done", "refused", "aborted"}]
    /\ body \in [Requests -> Payloads \cup {None}]
    /\ seen \in [Requests -> Seen]

\* A walk-in visitor enters once per approval and leaves once per entry, although a
\* late decision may put a visit that is already inside back to approved.
EntriesApproved ==
    \A v \in VisitIds : /\ visits[v].exits <= visits[v].entries
                        /\ visits[v].entries <= visits[v].approvals

\* A single-entry pass somebody entered on is never active again, whoever
\* checks in, checks out or cancels at the same time.
SpentPassStaysSpent ==
    \A l \in LogIds :
        LET p == logs[l].pass IN
        p # None /\ passes[p].single => passes[p].status # "Active"

\* Of two check-outs of one entry that both found it open, the first stands.
FirstCheckOutStands ==
    [][\A l \in LogIds : logs[l].closedBy # None => logs'[l] = logs[l]]_vars

\* A second entry on a single-entry pass is only made by a guard whose request began
\* before the first entry was committed: no later request is let in.
ReentryOnlyByRace ==
    [][\A l \in LogIds :
         logs'[l] # logs[l] /\ logs[l] = NoLog /\ passes[logs'[l].pass].single =>
             seen[logs'[l].by].logs = {}]_vars

\* "Visitor request not found or already processed" (messages.py:11): a request
\* that was approved or denied is not decided again.
ProcessedOnce ==
    [][\A r \in Requests :
         stage[r] = "open" /\ stage'[r] = "done" /\ body[r].op \in {"approve", "reject"} =>
             visits[body[r].visit].status = "Pending"]_vars
=============================================================================
