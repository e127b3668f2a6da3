-------------------------- MODULE VisitorGateProofs --------------------------
(* Proofs about VisitorGate, for any number of requests, visits, passes and   *)
(* logs and any request bodies, and, at the end, about the daily job.         *)
EXTENDS VisitorGate, Reminders, TLAPS

\* A visit that waits for entry has an approval left, a visitor inside an exit left.
VisitsLedger ==
    \A v \in VisitIds :
        /\ visits[v].exits <= visits[v].entries
        /\ visits[v].entries <= visits[v].approvals
        /\ visits[v].status = "Approved" => visits[v].entries < visits[v].approvals
        /\ visits[v].status = "Checked_In" => visits[v].exits < visits[v].entries

\* Logs are of passes that exist, and not of active single-entry passes.
LogsOfPasses ==
    \A l \in LogIds :
        /\ logs[l].pass # None => passes[logs[l].pass].status # "None"
        /\ logs[l].pass # None /\ passes[logs[l].pass].single =>
             passes[logs[l].pass].status # "Active"
        /\ logs[l].pass = None => logs[l] = NoLog

\* What an unfinished request has seen was so when it began.
SeenOnce(r) ==
    LET b == body[r] IN
    stage[r] = "open" =>
        /\ b \in Payloads
        /\ seen[r].open \subseteq seen[r].logs
        /\ \A l \in seen[r].logs : logs[l].pass # None
        /\ b.op = "check_in" /\ seen[r].status # "None" => passes[b.pass].status # "None"
        /\ b.op = "check_in" /\ seen[r].status = "Active" /\ passes[b.pass].single =>
             seen[r].logs = {}

GateInvariant ==
    /\ TypeOK
    /\ VisitsLedger
    /\ LogsOfPasses
    /\ \A r \in Requests : SeenOnce(r)

USE VisitorConstants

PassRows == {p \in Passes : p.single \/ p.status \notin {"Used", "Expired"}}

\* The fields a request body has.
LEMMA BodyType ==
    ASSUME NEW b \in Payloads
    PROVE  /\ b.op \in {"approve", "reject", "check_in_walk_in", "check_out_walk_in"} =>
                b.visit \in VisitIds
           /\ b.op \in {"cancel_preapproved", "check_in", "check_out"} => b.pass \in PassIds
           /\ b.op = "check_out_log" => b.log \in LogIds
           /\ b.single \in BOOLEAN
           /\ b.pass \in PassIds \cup {None}
  BY DEF Bodies

\* The invariant holds of the opening tables.
LEMMA InitInvariant == Init => GateInvariant
  <1> SUFFICES ASSUME Init PROVE GateInvariant
    OBVIOUS
  <1>1. TypeOK
    BY DEF Init, TypeOK, Visits, NoVisit, VisitStatus, Passes, PassStatus, Logs, NoLog, Seen, Nothing
  <1>2. VisitsLedger
    BY DEF Init, VisitsLedger, NoVisit
  <1>3. LogsOfPasses
    BY DEF Init, LogsOfPasses, NoLog
  <1>4. \A r \in Requests : SeenOnce(r)
    BY DEF Init, SeenOnce
  <1> QED
    BY <1>1, <1>2, <1>3, <1>4 DEF GateInvariant

\* Ending a request keeps the types of its locals and leaves the others alone.
LEMMA EndKeeps ==
    ASSUME TypeOK, NEW r \in Requests, NEW o \in {"done", "refused", "aborted"}, End(r, o)
    PROVE  /\ stage' \in [Requests -> {"idle", "open", "done", "refused", "aborted"}]
           /\ body' \in [Requests -> Payloads \cup {None}]
           /\ seen' \in [Requests -> Seen]
           /\ stage'[r] = o
           /\ \A s \in Requests \ {r} :
                stage'[s] = stage[s] /\ body'[s] = body[s] /\ seen'[s] = seen[s]
  BY DEF End, TypeOK, Seen, Nothing, VisitStatus

\* A request that begins sees rows as they are.
LEMMA BeginSees ==
    ASSUME GateInvariant, NEW r \in Requests, NEW b \in Payloads
    PROVE  /\ Snapshot(b) \in Seen
           /\ Snapshot(b).open \subseteq Snapshot(b).logs
           /\ \A l \in Snapshot(b).logs : logs[l].pass # None
           /\ b.op = "check_in" => /\ Snapshot(b).status = passes[b.pass].status
                                   /\ Snapshot(b).logs = LogsOf(b.pass)
  <1> DEFINE read == IF b.op = "check_out_log" THEN {b.log} \ {l \in LogIds : logs[l] = NoLog}
                     ELSE LogsOf(b.pass)
             st == IF b.op \in {"approve", "reject"} THEN visits[b.visit].status
                   ELSE IF b.op = "check_in" THEN passes[b.pass].status
                   ELSE "None"
  <1>1. Snapshot(b) = [status |-> st, logs |-> read, open |-> Open(read)]
    BY DEF Snapshot
  <1>2. read \subseteq LogIds /\ \A l \in read : logs[l].pass # None
    BY BodyType DEF LogsOf, GateInvariant, LogsOfPasses
  <1>3. Open(read) \subseteq read
    BY DEF Open
  <1>4. st \in VisitStatus \cup PassStatus
    <2>1. CASE b.op \in {"approve", "reject"}
      BY <2>1, BodyType DEF GateInvariant, TypeOK, Visits
    <2>2. CASE b.op = "check_in"
      BY <2>2, BodyType DEF GateInvariant, TypeOK, Passes
    <2>3. CASE b.op \notin {"approve", "reject", "check_in"}
      BY <2>3 DEF VisitStatus
    <2> QED
      BY <2>1, <2>2, <2>3
  <1> QED
    BY SMTT(30), <1>1, <1>2, <1>3, <1>4 DEF Seen

\* Rows are not deleted, and a pass keeps its type.
RowsStay ==
    /\ \A p \in PassIds : passes[p].status # "None" =>
         passes'[p].status # "None" /\ passes'[p].single = passes[p].single
    /\ \A l \in LogIds : logs[l].pass # None => logs'[l].pass # None

\* What a request has seen stays so, whatever another request does to the tables.
LEMMA OthersSeen ==
    ASSUME GateInvariant, RowsStay, NEW s \in Requests,
           stage'[s] = stage[s], body'[s] = body[s], seen'[s] = seen[s]
    PROVE  SeenOnce(s)'
  <1> SUFFICES ASSUME stage[s] = "open"
               PROVE  SeenOnce(s)'
    BY DEF SeenOnce
  <1>b. PICK b \in Payloads : b = body[s]
    BY DEF GateInvariant, SeenOnce
  <1>1. /\ seen[s].open \subseteq seen[s].logs
        /\ \A l \in seen[s].logs : logs[l].pass # None
        /\ b.op = "check_in" /\ seen[s].status # "None" => passes[b.pass].status # "None"
        /\ b.op = "check_in" /\ seen[s].status = "Active" /\ passes[b.pass].single =>
             seen[s].logs = {}
    BY <1>b DEF GateInvariant, SeenOnce
  <1>2. seen[s].logs \subseteq LogIds
    BY DEF GateInvariant, TypeOK, Seen
  <1>3. \A l \in seen[s].logs : logs'[l].pass # None
    BY <1>1, <1>2 DEF RowsStay
  <1>4. b.op = "check_in" /\ seen[s].status # "None" =>
          /\ passes'[b.pass].status # "None"
          /\ passes'[b.pass].single = passes[b.pass].single
    BY <1>1, BodyType DEF RowsStay
  <1>5. b.op = "check_in" /\ seen[s].status = "Active" /\ passes'[b.pass].single =>
          seen[s].logs = {}
    BY <1>1, <1>4
  <1> QED
    BY <1>b, <1>1, <1>3, <1>4, <1>5 DEF SeenOnce

\* A request that leaves the tables alone keeps the invariant.
LEMMA EndsAlone ==
    ASSUME GateInvariant, NEW r \in Requests, NEW o \in {"done", "refused", "aborted"},
           End(r, o), UNCHANGED tables
    PROVE  GateInvariant'
  <1>1. TypeOK'
    BY EndKeeps DEF GateInvariant, TypeOK, tables
  <1>2. VisitsLedger' /\ LogsOfPasses'
    BY DEF GateInvariant, VisitsLedger, LogsOfPasses, tables
  <1>3. RowsStay
    BY DEF RowsStay, tables
  <1>4. \A s \in Requests : SeenOnce(s)'
    BY <1>3, EndKeeps, OthersSeen DEF GateInvariant, SeenOnce
  <1> QED
    BY <1>1, <1>2, <1>4 DEF GateInvariant

\* The reads of a request preserve the invariant.
LEMMA BeginKeeps ==
    ASSUME GateInvariant, NEW r \in Requests, Begin(r)
    PROVE  GateInvariant'
  <1>b. PICK b \in Payloads : body' = [body EXCEPT ![r] = b] /\ seen' = [seen EXCEPT ![r] = Snapshot(b)]
    BY DEF Begin
  <1>1. UNCHANGED tables /\ stage' = [stage EXCEPT ![r] = "open"]
    BY DEF Begin
  <1>2. TypeOK'
    BY <1>b, <1>1, BeginSees DEF GateInvariant, TypeOK, tables
  <1>3. VisitsLedger' /\ LogsOfPasses' /\ RowsStay
    BY <1>1 DEF GateInvariant, VisitsLedger, LogsOfPasses, tables, RowsStay
  <1>4. SeenOnce(r)'
    <2>1. body'[r] = b /\ seen'[r] = Snapshot(b) /\ passes' = passes /\ logs' = logs
      BY <1>b, <1>1 DEF GateInvariant, TypeOK, tables
    <2>2. b.op = "check_in" /\ passes[b.pass].status = "Active" /\ passes[b.pass].single =>
            LogsOf(b.pass) = {}
      BY BodyType DEF LogsOf, GateInvariant, LogsOfPasses
    <2> QED
      BY <2>1, <2>2, BeginSees DEF SeenOnce
  <1>5. \A s \in Requests \ {r} : SeenOnce(s)'
    BY <1>b, <1>1, <1>3, OthersSeen DEF GateInvariant, TypeOK
  <1> QED
    BY <1>2, <1>3, <1>4, <1>5 DEF GateInvariant

\* A step that changes one visit, in one of the five ways there are.
LEMMA VisitKeeps ==
    ASSUME GateInvariant, NEW r \in Requests, End(r, "done"), UNCHANGED <<passes, logs>>,
           NEW v \in VisitIds, NEW new \in Visits, visits' = [visits EXCEPT ![v] = new],
           /\ new.exits <= new.entries /\ new.entries <= new.approvals
           /\ new.status = "Approved" => new.entries < new.approvals
           /\ new.status = "Checked_In" => new.exits < new.entries
    PROVE  GateInvariant'
  <1>1. TypeOK'
    BY EndKeeps DEF GateInvariant, TypeOK
  <1>2. VisitsLedger'
    BY DEF GateInvariant, VisitsLedger, TypeOK
  <1>3. LogsOfPasses' /\ RowsStay
    BY DEF GateInvariant, LogsOfPasses, RowsStay
  <1>4. \A s \in Requests : SeenOnce(s)'
    BY <1>3, EndKeeps, OthersSeen DEF GateInvariant, SeenOnce
  <1> QED
    BY <1>1, <1>2, <1>3, <1>4 DEF GateInvariant

\* A request that writes passes and logs keeps the invariant when no pass of a
\* log is, or becomes, an active single-entry pass.
LEMMA PassesKeep ==
    ASSUME GateInvariant, NEW r \in Requests, End(r, "done"), UNCHANGED visits,
           passes' \in [PassIds -> PassRows], logs' \in [LogIds -> Logs],
           RowsStay, LogsOfPasses'
    PROVE  GateInvariant'
  <1>1. TypeOK'
    BY EndKeeps DEF GateInvariant, TypeOK, PassRows
  <1>2. VisitsLedger'
    BY DEF GateInvariant, VisitsLedger
  <1>3. \A s \in Requests : SeenOnce(s)'
    BY EndKeeps, OthersSeen DEF GateInvariant, SeenOnce
  <1> QED
    BY <1>1, <1>2, <1>3 DEF GateInvariant

\* The walk-in operations, from the request to the check-out, preserve the
\* invariant.
LEMMA WalkInKeeps ==
    ASSUME GateInvariant, NEW r \in Requests,
           create_request(r) \/ approve(r) \/ check_in_walk_in(r) \/ check_out_walk_in(r)
    PROVE  GateInvariant'
  <1>b. PICK b \in Payloads : b = body[r]
    BY DEF GateInvariant, SeenOnce, create_request, approve, check_in_walk_in, check_out_walk_in, Serves
  <1>1. CASE create_request(r)
    <2>1. PICK v \in VisitIds : visits[v].status = "None" /\ visits' = [visits EXCEPT ![v].status = "Pending"]
      BY <1>1 DEF create_request
    <2> DEFINE new == [visits[v] EXCEPT !.status = "Pending"]
    <2>2. visits[v] \in Visits /\ visits' = [visits EXCEPT ![v] = new]
      BY <2>1 DEF GateInvariant, TypeOK
    <2>3. /\ new \in Visits /\ new.exits <= new.entries /\ new.entries <= new.approvals
          /\ new.status = "Pending"
      BY <2>2 DEF GateInvariant, VisitsLedger, Visits, VisitStatus
    <2>4. End(r, "done") /\ UNCHANGED <<passes, logs>>
      BY <1>1 DEF create_request
    <2> HIDE DEF new
    <2> QED
      BY <2>2, <2>3, <2>4, VisitKeeps
  <1>2. CASE approve(r)
    <2>1. PICK d \in {"Approved", "Denied"} : Decide(r, d) /\ b.op \in {"approve", "reject"}
      BY <1>2, <1>b DEF approve, Serves
    <2>2. CASE seen[r].status # "Pending"
      BY <2>1, <2>2, EndsAlone DEF Decide, Refuse
    <2>3. CASE seen[r].status = "Pending"
      <3> DEFINE v == b.visit
                 new == [visits[v] EXCEPT !.status = d,
                                          !.approvals = IF d = "Approved" THEN @ + 1 ELSE @]
      <3>0. DecideAnything(r, d) /\ v \in VisitIds
        BY <2>1, <2>3, BodyType DEF Decide
      <3>1. visits[v] \in Visits /\ visits' = [visits EXCEPT ![v] = new]
        BY <3>0, <1>b DEF DecideAnything, GateInvariant, TypeOK
      <3>2. /\ new \in Visits /\ new.exits <= new.entries /\ new.entries <= new.approvals
            /\ new.status = "Approved" => new.entries < new.approvals
            /\ new.status # "Checked_In"
        <4>1. /\ visits[v].exits <= visits[v].entries /\ visits[v].entries <= visits[v].approvals
              /\ visits[v].exits \in Nat /\ visits[v].entries \in Nat /\ visits[v].approvals \in Nat
          BY <3>0, <3>1 DEF GateInvariant, VisitsLedger, Visits
        <4>2. PICK n \in Nat : n = IF d = "Approved" THEN visits[v].approvals + 1 ELSE visits[v].approvals
          BY <4>1
        <4>3. new = [visits[v] EXCEPT !.status = d, !.approvals = n]
          BY <4>2
        <4>4. new \in Visits
          BY <3>1, <4>3 DEF Visits, VisitStatus
        <4>5. /\ new.status = d /\ new.exits = visits[v].exits /\ new.entries = visits[v].entries
              /\ new.approvals = n
          BY <3>1, <4>3 DEF Visits
        <4> HIDE DEF new
        <4> QED
          BY <4>1, <4>2, <4>4, <4>5
      <3>3. End(r, "done") /\ UNCHANGED <<passes, logs>>
        BY <3>0 DEF DecideAnything
      <3> HIDE DEF new, v
      <3> QED
        BY <3>0, <3>1, <3>2, <3>3, VisitKeeps
    <2> QED
      BY <2>2, <2>3
  <1>3. CASE check_in_walk_in(r)
    <2> DEFINE v == b.visit
               new == [visits[v] EXCEPT !.status = "Checked_In", !.entries = @ + 1]
    <2>0. v \in VisitIds
      BY <1>3, <1>b, BodyType DEF check_in_walk_in, Serves
    <2>1. CASE ~AwaitsEntry(v)
      BY <1>3, <1>b, <2>1, EndsAlone DEF check_in_walk_in, Refuse
    <2>2. CASE AwaitsEntry(v)
      <3>1. visits[v] \in Visits /\ visits' = [visits EXCEPT ![v] = new]
        BY <1>3, <1>b, <2>0, <2>2 DEF check_in_walk_in, GateInvariant, TypeOK
      <3>2. /\ new \in Visits /\ new.exits < new.entries /\ new.exits <= new.entries
            /\ new.entries <= new.approvals /\ new.status = "Checked_In"
        <4>1. /\ visits[v].exits <= visits[v].entries /\ visits[v].entries < visits[v].approvals
              /\ visits[v].exits \in Nat /\ visits[v].entries \in Nat /\ visits[v].approvals \in Nat
          BY <2>0, <2>2, <3>1 DEF GateInvariant, VisitsLedger, Visits, AwaitsEntry
        <4>2. PICK n \in Nat : n = visits[v].entries + 1
          BY <4>1
        <4>3. new = [visits[v] EXCEPT !.status = "Checked_In", !.entries = n]
          BY <4>2
        <4>4. new \in Visits
          BY <3>1, <4>3 DEF Visits, VisitStatus
        <4>5. /\ new.status = "Checked_In" /\ new.entries = n /\ new.exits = visits[v].exits
              /\ new.approvals = visits[v].approvals
          BY <3>1, <4>3 DEF Visits
        <4> HIDE DEF new
        <4> QED
          BY <4>1, <4>2, <4>4, <4>5
      <3>3. End(r, "done") /\ UNCHANGED <<passes, logs>>
        BY <1>3, <1>b, <2>2 DEF check_in_walk_in
      <3> HIDE DEF new, v
      <3> QED
        BY <2>0, <3>1, <3>2, <3>3, VisitKeeps
    <2> QED
      BY <2>1, <2>2
  <1>4. CASE check_out_walk_in(r)
    <2> DEFINE v == b.visit
               new == [visits[v] EXCEPT !.status = "Checked_Out", !.exits = @ + 1]
    <2>0. v \in VisitIds
      BY <1>4, <1>b, BodyType DEF check_out_walk_in, Serves
    <2>1. CASE visits[v].status # "Checked_In"
      BY <1>4, <1>b, <2>1, EndsAlone DEF check_out_walk_in, Refuse
    <2>2. CASE visits[v].status = "Checked_In"
      <3>1. visits[v] \in Visits /\ visits' = [visits EXCEPT ![v] = new]
        BY <1>4, <1>b, <2>0, <2>2 DEF check_out_walk_in, GateInvariant, TypeOK
      <3>2. /\ new \in Visits /\ new.exits <= new.entries
            /\ new.entries <= new.approvals /\ new.status = "Checked_Out"
        <4>1. /\ visits[v].exits < visits[v].entries /\ visits[v].entries <= visits[v].approvals
              /\ visits[v].exits \in Nat /\ visits[v].entries \in Nat /\ visits[v].approvals \in Nat
          BY <2>0, <2>2, <3>1 DEF GateInvariant, VisitsLedger, Visits
        <4>2. PICK n \in Nat : n = visits[v].exits + 1
          BY <4>1
        <4>3. new = [visits[v] EXCEPT !.status = "Checked_Out", !.exits = n]
          BY <4>2
        <4>4. new \in Visits
          BY <3>1, <4>3 DEF Visits, VisitStatus
        <4>5. /\ new.status = "Checked_Out" /\ new.exits = n /\ new.entries = visits[v].entries
              /\ new.approvals = visits[v].approvals
          BY <3>1, <4>3 DEF Visits
        <4> HIDE DEF new
        <4> QED
          BY <4>1, <4>2, <4>4, <4>5
      <3>3. End(r, "done") /\ UNCHANGED <<passes, logs>>
        BY <1>4, <1>b, <2>2 DEF check_out_walk_in
      <3> HIDE DEF new, v
      <3> QED
        BY <2>0, <3>1, <3>2, <3>3, VisitKeeps
    <2> QED
      BY <2>1, <2>2
  <1> QED
    BY <1>1, <1>2, <1>3, <1>4

\* Making and cancelling a pre-approved pass preserve the invariant.
LEMMA PassKeeps ==
    ASSUME GateInvariant, NEW r \in Requests, create_preapproved(r) \/ cancel_preapproved(r)
    PROVE  GateInvariant'
  <1>b. PICK b \in Payloads : b = body[r]
    BY DEF GateInvariant, SeenOnce, create_preapproved, cancel_preapproved, Serves
  <1>p. passes \in [PassIds -> PassRows] /\ logs \in [LogIds -> Logs]
    BY DEF GateInvariant, TypeOK, PassRows
  <1>1. CASE create_preapproved(r)
    <2>1. PICK p \in PassIds : /\ passes[p].status = "None"
                               /\ passes' = [passes EXCEPT ![p] = [status |-> "Active", single |-> b.single]]
      BY <1>1, <1>b DEF create_preapproved
    <2>2. End(r, "done") /\ visits' = visits /\ logs' = logs
      BY <1>1 DEF create_preapproved
    <2>3. [status |-> "Active", single |-> b.single] \in PassRows
      BY BodyType DEF PassRows, Passes, PassStatus
    <2>4. passes' \in [PassIds -> PassRows] /\ RowsStay
      BY <1>p, <2>1, <2>2, <2>3 DEF RowsStay
    <2>5. \A l \in LogIds : logs[l].pass # p
      BY <2>1 DEF GateInvariant, LogsOfPasses
    <2>6. \A l \in LogIds : logs[l].pass # None => logs[l].pass \in PassIds \ {p}
      BY <1>p, <2>5 DEF Logs
    <2>7. LogsOfPasses'
      BY <2>1, <2>2, <2>6, <1>p DEF GateInvariant, LogsOfPasses
    <2> QED
      BY <1>p, <2>2, <2>4, <2>7, PassesKeep
  <1>2. CASE cancel_preapproved(r)
    <2> DEFINE p == b.pass
    <2>0. p \in PassIds
      BY <1>2, <1>b, BodyType DEF cancel_preapproved, Serves
    <2>1. CASE passes[p].status = "None"
      BY <1>2, <1>b, <2>1, EndsAlone DEF cancel_preapproved, Refuse
    <2>2. CASE passes[p].status # "None"
      <3>1. /\ passes' = [passes EXCEPT ![p].status = "Cancelled"]
            /\ End(r, "done") /\ visits' = visits /\ logs' = logs
        BY <1>2, <1>b, <2>2 DEF cancel_preapproved
      <3>2. /\ passes' \in [PassIds -> PassRows] /\ RowsStay
            /\ \A q \in PassIds : /\ passes'[q].single = passes[q].single
                                  /\ passes'[q].status \in {passes[q].status, "Cancelled"}
        BY <1>p, <2>0, <3>1 DEF RowsStay, PassRows, Passes, PassStatus
      <3>3. \A l \in LogIds : logs[l].pass # None => logs[l].pass \in PassIds
        BY <1>p DEF Logs
      <3>4. LogsOfPasses'
        BY <3>1, <3>2, <3>3 DEF GateInvariant, LogsOfPasses
      <3> QED
        BY <1>p, <3>1, <3>2, <3>4, PassesKeep
    <2> QED
      BY <2>1, <2>2
  <1> QED
    BY <1>1, <1>2

\* A check-in on a pass, decided on the pass that was read, preserves the
\* invariant.
LEMMA CheckInKeeps ==
    ASSUME GateInvariant, NEW r \in Requests, check_in(r)
    PROVE  GateInvariant'
  <1>b. PICK b \in Payloads : b = body[r] /\ b.op = "check_in" /\ stage[r] = "open"
    BY DEF GateInvariant, SeenOnce, check_in, Serves
  <1>p. passes \in [PassIds -> PassRows] /\ logs \in [LogIds -> Logs]
    BY DEF GateInvariant, TypeOK, PassRows
  <1> DEFINE p == b.pass
  <1>0. p \in PassIds
    BY <1>b, BodyType
  <1>1. CASE Refuse(r)
    BY <1>1, EndsAlone DEF Refuse
  <1>2. CASE ~Refuse(r)
    <2>1. /\ Admissible(r) /\ passes' = Spend(p) /\ End(r, "done") /\ visits' = visits
      BY <1>2, <1>b DEF check_in
    <2>2. PICK l \in LogIds : /\ logs[l] = NoLog
                             /\ logs' = [logs EXCEPT ![l] = [pass |-> p, by |-> r, closedBy |-> None]]
      BY <1>2, <1>b DEF check_in
    <2>3. passes[p].status # "None"
      BY <2>1, <1>b DEF GateInvariant, SeenOnce, Admissible
    <2>4. /\ passes' \in [PassIds -> PassRows]
          /\ \A q \in PassIds : /\ passes'[q].single = passes[q].single
                                /\ passes'[q].status \in {passes[q].status, "Used"}
          /\ passes[p].single => passes'[p].status = "Used"
      BY <1>p, <1>0, <2>1 DEF Spend, PassRows, Passes, PassStatus
    <2>5. logs' \in [LogIds -> Logs] /\ RowsStay
      BY <1>p, <1>0, <2>2, <2>4 DEF RowsStay, Logs, NoLog
    <2>6. logs'[l].pass = p /\ \A k \in LogIds \ {l} : logs'[k] = logs[k]
      BY <1>p, <2>2
    <2>7. p # None
      BY <1>0
    <2>8. \A k \in LogIds \ {l} : logs[k].pass # None => logs[k].pass \in PassIds
      BY <1>p DEF Logs
    <2>9. \A k \in LogIds \ {l} :
            /\ logs'[k].pass # None => passes'[logs'[k].pass].status # "None"
            /\ logs'[k].pass # None /\ passes'[logs'[k].pass].single =>
                 passes'[logs'[k].pass].status # "Active"
            /\ logs'[k].pass = None => logs'[k] = NoLog
      BY <2>4, <2>6, <2>8 DEF GateInvariant, LogsOfPasses
    <2>10. LogsOfPasses'
      BY <1>0, <2>3, <2>4, <2>6, <2>7, <2>9 DEF LogsOfPasses
    <2> QED
      BY <2>1, <2>4, <2>5, <2>10, PassesKeep
  <1> QED
    BY <1>1, <1>2

\* Both ways of checking out preserve the invariant.
LEMMA CheckOutKeeps ==
    ASSUME GateInvariant, NEW r \in Requests, check_out(r) \/ check_out_log(r)
    PROVE  GateInvariant'
  <1>p. passes \in [PassIds -> PassRows] /\ logs \in [LogIds -> Logs]
    BY DEF GateInvariant, TypeOK, PassRows
  <1>1. CASE Refuse(r)
    BY <1>1, EndsAlone DEF Refuse
  <1>2. CASE ~Refuse(r)
    <2>1. PICK l \in seen[r].open : CheckOut(r, l) /\ stage[r] = "open"
      BY <1>2 DEF check_out, check_out_log, Serves
    <2>2. l \in LogIds /\ logs[l].pass # None
      BY <2>1 DEF GateInvariant, SeenOnce, TypeOK, Seen
    <2> DEFINE p == logs[l].pass
    <2>3. p \in PassIds /\ passes[p].status # "None"
      BY <1>p, <2>2 DEF Logs, GateInvariant, LogsOfPasses
    <2>4. /\ logs' = close_log(l, r) /\ End(r, "done") /\ visits' = visits
          /\ passes' = IF passes[p].single THEN [passes EXCEPT ![p].status = "Expired"] ELSE passes
      BY <2>1 DEF CheckOut
    <2>5. /\ passes' \in [PassIds -> PassRows]
          /\ \A q \in PassIds : /\ passes'[q].single = passes[q].single
                                /\ passes'[q].status \in {passes[q].status, "Expired"}
      BY <1>p, <2>3, <2>4 DEF PassRows, Passes, PassStatus
    <2>6. /\ logs' \in [LogIds -> Logs]
          /\ \A k \in LogIds : logs'[k].pass = logs[k].pass
          /\ \A k \in LogIds \ {l} : logs'[k] = logs[k]
      BY <1>p, <2>2, <2>4 DEF close_log, Logs
    <2>7. RowsStay
      BY <2>5, <2>6 DEF RowsStay
    <2>8. \A k \in LogIds : logs[k].pass # None => logs[k].pass \in PassIds
      BY <1>p DEF Logs
    <2>9. LogsOfPasses'
      BY <2>2, <2>5, <2>6, <2>8 DEF GateInvariant, LogsOfPasses
    <2> QED
      BY <2>4, <2>5, <2>6, <2>7, <2>9, PassesKeep
  <1> QED
    BY <1>1, <1>2

\* Every step keeps the invariant.
LEMMA NextInvariant == GateInvariant /\ [Next]_vars => GateInvariant'
  <1> SUFFICES ASSUME GateInvariant, [Next]_vars
               PROVE  GateInvariant'
    OBVIOUS
  <1>1. CASE UNCHANGED vars
    BY <1>1 DEF vars, tables, GateInvariant, TypeOK, VisitsLedger, LogsOfPasses, SeenOnce
  <1>2. CASE Next
    <2>1. PICK r \in Requests :
            \/ Begin(r) \/ RefuseUnpermitted(r) \/ Abort(r)
            \/ create_request(r) \/ approve(r) \/ check_in_walk_in(r) \/ check_out_walk_in(r)
            \/ create_preapproved(r) \/ cancel_preapproved(r)
            \/ check_in(r) \/ check_out(r) \/ check_out_log(r)
      BY <1>2 DEF Next
    <2>2. CASE Begin(r)
      BY <2>2, BeginKeeps
    <2>3. CASE RefuseUnpermitted(r) \/ Abort(r)
      BY <2>3, EndsAlone DEF RefuseUnpermitted, Abort, Refuse
    <2>4. CASE create_request(r) \/ approve(r) \/ check_in_walk_in(r) \/ check_out_walk_in(r)
      BY <2>4, WalkInKeeps
    <2>5. CASE create_preapproved(r) \/ cancel_preapproved(r)
      BY <2>5, PassKeeps
    <2>6. CASE check_in(r)
      BY <2>6, CheckInKeeps
    <2>7. CASE check_out(r) \/ check_out_log(r)
      BY <2>7, CheckOutKeeps
    <2> QED
      BY <2>1, <2>2, <2>3, <2>4, <2>5, <2>6, <2>7
  <1> QED
    BY <1>1, <1>2

\* The strengthened invariant holds in every reachable state.
LEMMA Invariance == Spec => []GateInvariant
  BY InitInvariant, NextInvariant, PTL DEF Spec

-----------------------------------------------------------------------------
\* The gate's tables keep their types for any number of concurrent requests.
THEOREM TypeCorrect == Spec => []TypeOK
  <1>1. GateInvariant => TypeOK
    BY DEF GateInvariant
  <1> QED
    BY Invariance, <1>1, PTL

\* A walk-in visitor enters at most once per approval and leaves at most once per
\* entry (approve, check_in_visit, check_out_visit).
THEOREM EntriesWithinApprovals == Spec => []EntriesApproved
  <1>1. GateInvariant => EntriesApproved
    BY DEF GateInvariant, VisitsLedger, EntriesApproved
  <1> QED
    BY Invariance, <1>1, PTL

\* A single-entry pass that was used is never active again (check_in, check_out,
\* check_out_log, cancel_pass).
THEOREM SpentPasses == Spec => []SpentPassStaysSpent
  <1>1. GateInvariant => SpentPassStaysSpent
    BY DEF GateInvariant, LogsOfPasses, SpentPassStaysSpent
  <1> QED
    BY Invariance, <1>1, PTL

\* Only a request that began before the first entry was committed enters a second
\* time on a single-entry pass (check_in).
THEOREM ReentryNeedsRace == Spec => ReentryOnlyByRace
  <1> DEFINE Raced == \A l \in LogIds :
               logs'[l] # logs[l] /\ logs[l] = NoLog /\ passes[logs'[l].pass].single =>
                   seen[logs'[l].by].logs = {}
  <1>1. GateInvariant /\ [Next]_vars => Raced
    <2> SUFFICES ASSUME GateInvariant, [Next]_vars,
                        NEW l \in LogIds, logs'[l] # logs[l], logs[l] = NoLog,
                        passes[logs'[l].pass].single
                 PROVE  seen[logs'[l].by].logs = {}
      OBVIOUS
    <2>p. logs \in [LogIds -> Logs]
      BY DEF GateInvariant, TypeOK
    <2>1. PICK r \in Requests : check_in(r) \/ check_out(r) \/ check_out_log(r)
      BY DEF Next, vars, tables, Begin, RefuseUnpermitted, Refuse, Abort, create_request, approve,
             Decide, DecideAnything, check_in_walk_in, check_out_walk_in, create_preapproved,
             cancel_preapproved
    <2>2. CASE check_in(r)
      <3>b. PICK b \in Payloads : b = body[r] /\ b.op = "check_in" /\ stage[r] = "open"
        BY <2>2 DEF GateInvariant, SeenOnce, check_in, Serves
      <3>1. Admissible(r)
        BY <2>2 DEF check_in, Refuse, tables
      <3>2. PICK k \in LogIds :
              logs' = [logs EXCEPT ![k] = [pass |-> b.pass, by |-> r, closedBy |-> None]]
        BY <2>2, <3>b DEF check_in, Refuse, tables
      <3>3. logs'[l].by = r /\ logs'[l].pass = b.pass
        BY <2>p, <3>2
      <3>4. passes[b.pass].single
        BY <3>3
      <3> QED
        BY <3>b, <3>1, <3>3, <3>4 DEF GateInvariant, SeenOnce, Admissible
    <2>3. CASE check_out(r) \/ check_out_log(r)
      <3>1. PICK k \in seen[r].open : CheckOut(r, k) /\ stage[r] = "open"
        BY <2>3 DEF check_out, check_out_log, Serves, Refuse, tables
      <3>2. k \in LogIds /\ logs[k].pass # None
        BY <3>1 DEF GateInvariant, SeenOnce, TypeOK, Seen
      <3>3. \A m \in LogIds \ {k} : logs'[m] = logs[m]
        BY <2>p, <3>1 DEF CheckOut, close_log
      <3>4. l = k
        BY <3>3
      <3> QED
        BY <3>2, <3>4 DEF NoLog
    <2> QED
      BY <2>1, <2>2, <2>3
  <1>2. Spec => [][Raced]_vars
    BY Invariance, <1>1, PTL DEF Spec
  <1> QED
    BY <1>2 DEF ReentryOnlyByRace

\* The entry of a log that was closed is never written again (close_log).
THEOREM FirstCheckOut == Spec => FirstCheckOutStands
  <1> DEFINE Stands == \A l \in LogIds : logs[l].closedBy # None => logs'[l] = logs[l]
  <1>1. GateInvariant /\ [Next]_vars => Stands
    <2> SUFFICES ASSUME GateInvariant, [Next]_vars, NEW l \in LogIds, logs[l].closedBy # None
                 PROVE  logs'[l] = logs[l]
      OBVIOUS
    <2>p. logs \in [LogIds -> Logs]
      BY DEF GateInvariant, TypeOK
    <2>1. \/ logs' = logs
          \/ \E r \in Requests : check_in(r) \/ check_out(r) \/ check_out_log(r)
      BY DEF Next, vars, tables, Begin, RefuseUnpermitted, Refuse, Abort, create_request, approve,
             Decide, DecideAnything, check_in_walk_in, check_out_walk_in, create_preapproved,
             cancel_preapproved
    <2>2. ASSUME NEW r \in Requests, check_in(r)
          PROVE  logs'[l] = logs[l]
      <3>1. \/ logs' = logs
            \/ \E k \in LogIds : /\ logs[k] = NoLog
                                 /\ \A m \in LogIds \ {k} : logs'[m] = logs[m]
        BY <2>2, <2>p DEF check_in, Refuse, tables
      <3> QED
        BY <3>1 DEF NoLog
    <2>3. ASSUME NEW r \in Requests, check_out(r) \/ check_out_log(r)
          PROVE  logs'[l] = logs[l]
      <3>1. \/ logs' = logs
            \/ \E k \in seen[r].open : CheckOut(r, k)
        BY <2>3 DEF check_out, check_out_log, Refuse, tables
      <3>2. ASSUME NEW k, CheckOut(r, k)
            PROVE  logs'[l] = logs[l]
        <4>1. logs' = [logs EXCEPT ![k].closedBy = IF @ = None THEN r ELSE @]
          BY <3>2 DEF CheckOut, close_log
        <4>2. CASE k = l
          BY <2>p, <4>1, <4>2 DEF Logs
        <4>3. CASE k # l
          BY <2>p, <4>1, <4>3
        <4> QED
          BY <4>2, <4>3
      <3> QED
        BY <3>1, <3>2
    <2> QED
      BY <2>1, <2>2, <2>3
  <1>2. Spec => [][Stands]_vars
    BY Invariance, <1>1, PTL DEF Spec
  <1> QED
    BY <1>2 DEF FirstCheckOutStands
-----------------------------------------------------------------------------
(* The daily job of Reminders, which shares nothing with the gate, for any    *)
(* number of runs, vehicles, accounts and days.                               *)

\* What a run has inserted is its own, for its day, and about vehicles that stay as long.
Own(r) ==
    /\ progress[r] # "working" => made[r] = {} /\ at[r] = Null
    /\ \A n \in made[r] : n.run = r /\ n.day = day[r] /\ n.document[1] \in vehicles

\* Keys are unique among committed notifications and rows inserted.
UniqueKeys ==
    /\ RemindedOnce
    /\ \A r \in Runs : \A m \in made[r], n \in inbox : Key(m) # Key(n)
    /\ \A r, s \in Runs : \A m \in made[r], n \in made[s] : Key(m) = Key(n) => m = n

\* Delivery rows and notifications are the same as far as vehicles exist.
RowsNameNotices ==
    /\ deliveries \subseteq inbox
    /\ \A n \in inbox : n.document[1] \in vehicles => n \in deliveries

\* What a run has dealt with has its reminder.
DealtWith(r) ==
    /\ progress[r] \notin {"working", "done"} => found[r] = {}
    /\ progress[r] = "done" => todo[r] = {}
    /\ \A x \in found[r] \ todo[r] :
         \/ x[1][1] \notin vehicles
         \/ \E n \in inbox \cup made[r] : Key(n) = <<x[1], day[r]>>

\* The inductive invariant of the job.
ReminderInvariant ==
    /\ JobTypeOK
    /\ UniqueKeys
    /\ RowsNameNotices
    /\ \A r \in Runs : Own(r) /\ DealtWith(r)

USE ReminderConstants
-----------------------------------------------------------------------------
\* Null is neither a due document nor a day.
LEMMA NoItem == Null \notin Documents \X Accounts /\ Null \notin Days
  OBVIOUS

\* A due item is a vehicle's document and an account.
LEMMA ItemParts ==
    ASSUME NEW x \in Documents \X Accounts
    PROVE  x[1] \in Documents /\ x[1][1] \in Vehicles /\ x[2] \in Accounts
  BY DEF Documents

\* The query for a day answers with documents and accounts.
LEMMA DueTyped == \A n : Due(n) \in SUBSET (Documents \X Accounts)
  BY DEF Due

\* The invariant holds at the start.
LEMMA JobStarts == JobInit => ReminderInvariant
  BY DEF JobInit, ReminderInvariant, JobTypeOK, UniqueKeys, RemindedOnce, RowsNameNotices, Own,
         DealtWith, Days

\* The start of the day's job preserves the invariant.
LEMMA StartKeeps ==
    ASSUME ReminderInvariant, NEW r \in Runs, Start(r)
    PROVE  ReminderInvariant'
  <1> USE DEF Start, shared, rows
  <1>1. JobTypeOK'
    BY DEF ReminderInvariant, JobTypeOK
  <1>2. UniqueKeys' /\ RowsNameNotices'
    BY DEF ReminderInvariant, UniqueKeys, RemindedOnce, RowsNameNotices, Key
  <1>3. ASSUME NEW s \in Runs PROVE Own(s)' /\ DealtWith(s)'
    BY DEF ReminderInvariant, JobTypeOK, Own, DealtWith, Key
  <1> QED
    BY <1>1, <1>2, <1>3 DEF ReminderInvariant

\* The query for the due documents preserves the invariant.
LEMMA FindDueKeeps ==
    ASSUME ReminderInvariant, NEW r \in Runs, FindDue(r)
    PROVE  ReminderInvariant'
  <1> DEFINE S == Due(day[r])
  <1>1. S \in SUBSET (Documents \X Accounts)
    BY DueTyped
  <1>2. /\ progress[r] = "dated" /\ UNCHANGED <<shared, rows, day, made>>
        /\ progress' = [progress EXCEPT ![r] = "working"]
        /\ todo' = [todo EXCEPT ![r] = S] /\ found' = [found EXCEPT ![r] = S]
        /\ \E x \in NextOf(S) : at' = [at EXCEPT ![r] = x]
    BY DEF FindDue
  <1> HIDE DEF S
  <1> USE <1>2 DEF shared, rows
  <1>3. JobTypeOK'
    BY <1>1 DEF ReminderInvariant, JobTypeOK, NextOf
  <1>4. UniqueKeys' /\ RowsNameNotices'
    BY DEF ReminderInvariant, UniqueKeys, RemindedOnce, RowsNameNotices, Key
  <1>5. ASSUME NEW s \in Runs PROVE Own(s)' /\ DealtWith(s)'
    BY <1>1 DEF ReminderInvariant, JobTypeOK, Own, DealtWith, Key
  <1> QED
    BY <1>3, <1>4, <1>5 DEF ReminderInvariant

\* The item a run is at is dealt with, and the loop goes on.
LEMMA AdvanceTyped ==
    ASSUME JobTypeOK, NEW r \in Runs, progress[r] = "working", at[r] # Null, Advance(r),
           made' \in [Runs -> SUBSET Notices]
    PROVE  /\ JobTypeOK'
           /\ at[r] \in Documents \X Accounts
           /\ UNCHANGED <<shared, rows, progress, day, found>>
           /\ \A s \in Runs : todo'[s] = IF s = r THEN todo[r] \ {at[r]} ELSE todo[s]
           /\ \A s \in Runs \ {r} : at'[s] = at[s]
  <1>1. at[r] \in Documents \X Accounts
    BY DEF JobTypeOK
  <1>2. /\ todo' = [todo EXCEPT ![r] = todo[r] \ {at[r]}]
        /\ \E x \in NextOf(todo[r] \ {at[r]}) : at' = [at EXCEPT ![r] = x]
        /\ UNCHANGED <<shared, rows, progress, day, found>>
    BY DEF Advance
  <1>3. JobTypeOK'
    BY <1>2 DEF JobTypeOK, NextOf, shared, rows
  <1> QED
    BY <1>1, <1>2, <1>3 DEF JobTypeOK

\* Passing over a document already reminded of preserves the invariant.
LEMMA SkipKeeps ==
    ASSUME ReminderInvariant, NEW r \in Runs, Skip(r)
    PROVE  ReminderInvariant'
  <1>0. /\ JobTypeOK /\ progress[r] = "working" /\ at[r] # Null /\ Advance(r) /\ made' = made
        /\ Listed(r) \/ at[r][1][1] \notin vehicles
    BY DEF Skip, ReminderInvariant
  <1>1. /\ JobTypeOK' /\ at[r] \in Documents \X Accounts
        /\ UNCHANGED <<shared, rows, progress, day, found>>
        /\ \A s \in Runs : todo'[s] = IF s = r THEN todo[r] \ {at[r]} ELSE todo[s]
        /\ \A s \in Runs \ {r} : at'[s] = at[s]
    BY <1>0, AdvanceTyped DEF JobTypeOK
  <1> USE <1>0, <1>1 DEF shared, rows
  <1>2. UniqueKeys' /\ RowsNameNotices'
    BY DEF ReminderInvariant, UniqueKeys, RemindedOnce, RowsNameNotices, Key
  <1>3. ASSUME NEW s \in Runs PROVE Own(s)'
    BY DEF ReminderInvariant, Own
  <1>4. ASSUME NEW s \in Runs PROVE DealtWith(s)'
    <2>1. \/ at[r][1][1] \notin vehicles
          \/ \E n \in inbox \cup made[r] : Key(n) = <<at[r][1], day[r]>>
      BY DEF Listed, Held, Reserved, ReminderInvariant, RowsNameNotices
    <2>2. CASE s = r
      BY <2>1, <2>2 DEF ReminderInvariant, DealtWith, Key
    <2>3. CASE s # r
      BY <2>3 DEF ReminderInvariant, DealtWith, Key
    <2> QED
      BY <2>2, <2>3
  <1> QED
    BY <1>2, <1>3, <1>4 DEF ReminderInvariant

\* Adding a notification and its log line to the transaction preserves the
\* invariant.
LEMMA RemindKeeps ==
    ASSUME ReminderInvariant, NEW r \in Runs, Remind(r)
    PROVE  ReminderInvariant'
  <1> DEFINE new == Reminder(r)
  <1>0. /\ JobTypeOK /\ progress[r] = "working" /\ at[r] # Null /\ Advance(r) /\ ~Waits(r)
        /\ ~Listed(r) /\ at[r][1][1] \in vehicles
        /\ made' = [made EXCEPT ![r] = made[r] \cup {new}]
    BY DEF Remind, ReminderInvariant
  <1>a. at[r] \in Documents \X Accounts
    BY <1>0 DEF JobTypeOK
  <1>b. /\ new \in Notices /\ new.run = r /\ new.day = day[r] /\ new.document = at[r][1]
        /\ Key(new) = Reserved(r)
    BY <1>0, <1>a, ItemParts DEF Reminder, Notices, Key, Reserved, JobTypeOK
  <1> HIDE DEF new
  <1>c. made' \in [Runs -> SUBSET Notices]
    BY <1>0, <1>b DEF JobTypeOK
  <1>1. /\ JobTypeOK'
        /\ UNCHANGED <<shared, rows, progress, day, found>>
        /\ \A s \in Runs : todo'[s] = IF s = r THEN todo[r] \ {at[r]} ELSE todo[s]
        /\ \A s \in Runs \ {r} : at'[s] = at[s]
    BY <1>0, <1>c, AdvanceTyped
  <1>2. \A s \in Runs : made'[s] = IF s = r THEN made[r] \cup {new} ELSE made[s]
    BY <1>0 DEF JobTypeOK
  \* Nobody has the key yet.
  <1>3. /\ \A s \in Runs : \A n \in made[s] : Key(n) # Key(new)
        /\ \A n \in inbox : Key(n) # Key(new)
    <2>1. ASSUME NEW s \in Runs, NEW n \in made[s] PROVE Key(n) # Key(new)
      BY <1>0, <1>b, <2>1 DEF Waits, Listed, Held
    <2>2. ASSUME NEW n \in inbox, Key(n) = Key(new) PROVE FALSE
      <3>1. n.document = at[r][1]
        BY <1>b, <2>2 DEF Key
      <3>2. n \in deliveries
        BY <1>0, <3>1 DEF ReminderInvariant, RowsNameNotices
      <3> QED
        BY <1>0, <1>b, <2>2, <3>2 DEF Listed
    <2> QED
      BY <2>1, <2>2
  <1> USE <1>1, <1>2 DEF shared, rows
  <1>4. UniqueKeys'
    <2>1. RemindedOnce'
      BY DEF ReminderInvariant, UniqueKeys, RemindedOnce, Key
    <2>2. ASSUME NEW s \in Runs, NEW m \in made'[s], NEW n \in inbox PROVE Key(m) # Key(n)
      BY <1>3 DEF ReminderInvariant, UniqueKeys
    <2>3. ASSUME NEW s \in Runs, NEW t \in Runs, NEW m \in made'[s], NEW n \in made'[t],
                 Key(m) = Key(n)
          PROVE  m = n
      BY <1>3, <2>3 DEF ReminderInvariant, UniqueKeys
    <2> QED
      BY <2>1, <2>2, <2>3 DEF UniqueKeys, Key
  <1>5. RowsNameNotices'
    BY DEF ReminderInvariant, RowsNameNotices
  <1>6. ASSUME NEW s \in Runs PROVE Own(s)'
    BY <1>0, <1>b DEF ReminderInvariant, Own
  <1>7. ASSUME NEW s \in Runs PROVE DealtWith(s)'
    <2>1. \E n \in made'[r] : Key(n) = <<at[r][1], day[r]>>
      BY <1>b DEF Reserved
    <2>2. CASE s = r
      BY <1>0, <2>1, <2>2 DEF ReminderInvariant, DealtWith, Key
    <2>3. CASE s # r
      BY <2>3 DEF ReminderInvariant, DealtWith, Key
    <2> QED
      BY <2>2, <2>3
  <1> QED
    BY <1>4, <1>5, <1>6, <1>7 DEF ReminderInvariant

\* The job's one commit preserves the invariant.
LEMMA JobCommitKeeps ==
    ASSUME ReminderInvariant, NEW r \in Runs, Commit(r)
    PROVE  ReminderInvariant'
  <1> USE DEF Commit, shared
  <1>0. todo[r] = {} /\ \A s \in Runs : made'[s] = IF s = r THEN {} ELSE made[s]
    BY NoItem DEF ReminderInvariant, JobTypeOK
  <1>1. JobTypeOK'
    BY DEF ReminderInvariant, JobTypeOK
  <1>2. UniqueKeys'
    <2>1. RemindedOnce'
      BY DEF ReminderInvariant, UniqueKeys, RemindedOnce, Key
    <2>2. ASSUME NEW s \in Runs, NEW m \in made'[s], NEW n \in inbox' PROVE Key(m) # Key(n)
      <3>1. s # r /\ m \in made[s]
        BY <1>0, <2>2
      <3>2. CASE n \in inbox
        BY <3>1, <3>2 DEF ReminderInvariant, UniqueKeys
      <3>3. CASE n \in made[r]
        BY <3>1, <3>3 DEF ReminderInvariant, UniqueKeys, Own
      <3> QED
        BY <3>2, <3>3
    <2>3. ASSUME NEW s \in Runs, NEW t \in Runs, NEW m \in made'[s], NEW n \in made'[t],
                 Key(m) = Key(n)
          PROVE  m = n
      BY <1>0, <2>3 DEF ReminderInvariant, UniqueKeys
    <2> QED
      BY <2>1, <2>2, <2>3 DEF UniqueKeys, Key
  <1>3. RowsNameNotices'
    BY DEF ReminderInvariant, RowsNameNotices
  <1>4. ASSUME NEW s \in Runs PROVE Own(s)'
    BY <1>0 DEF ReminderInvariant, JobTypeOK, Own
  <1>5. ASSUME NEW s \in Runs PROVE DealtWith(s)'
    <2>1. CASE s = r
      BY <1>0, <2>1 DEF ReminderInvariant, JobTypeOK, DealtWith, Key
    <2>2. CASE s # r
      BY <1>0, <2>2 DEF ReminderInvariant, JobTypeOK, DealtWith, Key
    <2> QED
      BY <2>1, <2>2
  <1> QED
    BY <1>1, <1>2, <1>3, <1>4, <1>5 DEF ReminderInvariant

\* A job that fails and rolls back preserves the invariant.
LEMMA JobRollbackKeeps ==
    ASSUME ReminderInvariant, NEW r \in Runs, Rollback(r)
    PROVE  ReminderInvariant'
  <1> USE DEF Rollback, shared, rows
  <1>1. JobTypeOK'
    BY DEF ReminderInvariant, JobTypeOK
  <1>2. \A s \in Runs : made'[s] = IF s = r THEN {} ELSE made[s]
    BY DEF ReminderInvariant, JobTypeOK
  <1>3. UniqueKeys' /\ RowsNameNotices'
    BY <1>2 DEF ReminderInvariant, UniqueKeys, RemindedOnce, RowsNameNotices, Key
  <1>4. ASSUME NEW s \in Runs PROVE Own(s)' /\ DealtWith(s)'
    BY <1>2 DEF ReminderInvariant, JobTypeOK, Own, DealtWith, Key
  <1> QED
    BY <1>1, <1>3, <1>4 DEF ReminderInvariant

\* Owners' changes of a vehicle's record preserve the invariant.
LEMMA OwnersKeep ==
    ASSUME ReminderInvariant, NEW v \in Vehicles, update_record(v) \/ delete_record(v)
    PROVE  ReminderInvariant'
  <1> USE DEF shared, rows
  <1>0. /\ UNCHANGED <<today, inbox, progress, day, todo, at, made, found>>
        /\ due' \in [Documents -> Days \cup {Null}]
        /\ vehicles' \subseteq vehicles
        /\ deliveries' \subseteq deliveries
        /\ \A n \in deliveries : n.document[1] \in vehicles' => n \in deliveries'
    <2>1. CASE update_record(v)
      BY <2>1 DEF update_record, ReminderInvariant, JobTypeOK
    <2>2. CASE delete_record(v)
      BY <2>2 DEF delete_record, ReminderInvariant, JobTypeOK
    <2> QED
      BY <2>1, <2>2
  <1>1. \A r \in Runs : \A n \in made[r] : n.document[1] \in vehicles'
    <2>1. ~Locked(v) /\ vehicles \ {v} \subseteq vehicles'
      BY DEF update_record, delete_record
    <2> QED
      BY <2>1 DEF Locked, ReminderInvariant, Own
  <1>2. JobTypeOK'
    BY <1>0 DEF ReminderInvariant, JobTypeOK
  <1>3. UniqueKeys' /\ RowsNameNotices'
    BY <1>0 DEF ReminderInvariant, UniqueKeys, RemindedOnce, RowsNameNotices, Key
  <1>4. ASSUME NEW r \in Runs PROVE Own(r)' /\ DealtWith(r)'
    BY <1>0, <1>1 DEF ReminderInvariant, Own, DealtWith, Key
  <1> QED
    BY <1>2, <1>3, <1>4 DEF ReminderInvariant

\* The turn of the day preserves the invariant.
LEMMA NextDayKeeps ==
    ASSUME ReminderInvariant, NextDay
    PROVE  ReminderInvariant'
  <1> USE DEF NextDay, rows
  <1>1. JobTypeOK'
    BY DEF ReminderInvariant, JobTypeOK, Days
  <1>2. UniqueKeys' /\ RowsNameNotices'
    BY DEF ReminderInvariant, UniqueKeys, RemindedOnce, RowsNameNotices, Key
  <1>3. ASSUME NEW r \in Runs PROVE Own(r)' /\ DealtWith(r)'
    BY DEF ReminderInvariant, Own, DealtWith, Key
  <1> QED
    BY <1>1, <1>2, <1>3 DEF ReminderInvariant

\* Every step of the component, and a stutter, preserves the invariant.
LEMMA JobKeeps == ReminderInvariant /\ [JobNext]_jobVars => ReminderInvariant'
  <1> SUFFICES ASSUME ReminderInvariant, [JobNext]_jobVars PROVE ReminderInvariant'
    OBVIOUS
  <1>1. CASE JobNext
    BY <1>1, StartKeeps, FindDueKeeps, SkipKeeps, RemindKeeps, JobCommitKeeps, JobRollbackKeeps,
       OwnersKeep, NextDayKeeps DEF JobNext, Step, Fail, LockWaitEnds
  <1>2. CASE UNCHANGED jobVars
    <2> USE <1>2 DEF jobVars
    <2>1. JobTypeOK' /\ UniqueKeys' /\ RowsNameNotices'
      BY DEF ReminderInvariant, JobTypeOK, UniqueKeys, RemindedOnce, RowsNameNotices, Key
    <2>2. ASSUME NEW r \in Runs PROVE Own(r)' /\ DealtWith(r)'
      BY DEF ReminderInvariant, Own, DealtWith, Key
    <2> QED
      BY <2>1, <2>2 DEF ReminderInvariant
  <1> QED
    BY <1>1, <1>2

\* The strengthened invariant holds in every reachable state.
LEMMA JobInvariance == JobSpec => []ReminderInvariant
  BY JobStarts, JobKeeps, PTL DEF JobSpec

\* Tables and the loops over them keep their ranges.
THEOREM ReminderTypes == JobSpec => []JobTypeOK
  <1>1. ReminderInvariant => JobTypeOK
    BY DEF ReminderInvariant
  <1> QED
    BY <1>1, JobInvariance, PTL

\* The delivery ledger makes retries and second schedulers safe (scripts/jobs/README.md):
\* no document is reminded of twice for one date, though vehicles, and with them their
\* delivery rows, are deleted.
THEOREM OncePerDate == JobSpec => []RemindedOnce
  <1>1. ReminderInvariant => RemindedOnce
    BY DEF ReminderInvariant, UniqueKeys
  <1> QED
    BY <1>1, JobInvariance, PTL

\* A run that commits leaves out nothing it found: a reservation that another run made and
\* rolled back is never taken for a reminder sent.
THEOREM CommittedRunsComplete == JobSpec => []NoneForgotten
  <1>1. ReminderInvariant => NoneForgotten
    BY DEF ReminderInvariant, NoneForgotten, Own, DealtWith
  <1> QED
    BY <1>1, JobInvariance, PTL
=============================================================================
