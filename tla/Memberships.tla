---------------------------- MODULE Memberships ----------------------------
(* Committee seats, board terms and the account role that goes with them,    *)
(* app/modules/committees/service.py and app/modules/board_members/service.py *)
(* over their repositories, and the role an administrator sets by hand in     *)
(* app/modules/users/service.py.                                             *)
(*                                                                           *)
(* A request is one MySQL transaction under REPEATABLE READ whose session     *)
(* does not flush before a SELECT (autoflush=False): all it decides it        *)
(* decides on the snapshot of its first SELECT, and its own changes do not    *)
(* show in it. Its writes address rows by key and take effect together, so a  *)
(* request is two steps, what it reads and decides and what it writes.        *)
EXTENDS Naturals

CONSTANTS
    Changes,        \* HTTP requests, each served once
    Residents,      \* residents of one association with an active account
    Committees, Copies, Terms,  \* Copies and Terms bound a member's rows in a committee, on the board
    Proposals,      \* the requests considered
    OpeningCommittees, OpeningSeats, OpeningTerms, OpeningRoles,
                    \* the tables before the first request
    Nil

MembershipOps == {"create", "update", "delete", "assign_member", "remove_member", "nominate",
                  "end_term", "update_user"}

Roles == {"homeowner", "committee_member", "board_member"}

\* committee_members rows: the n-th row of a member in a committee.
Rows == Committees \X Residents \X Copies

\* board_members rows: a member's n-th term.
BoardRows == Residents \X Terms

\* permitted stands for the requester's role and association, CSRF token and dates.
Proposed ==
    [op: MembershipOps, committee: Committees \cup {Nil}, members: SUBSET Residents,
     row: Rows \cup {Nil}, term: BoardRows \cup {Nil}, role: Roles, permitted: BOOLEAN]

ASSUME MembershipConstants ==
    /\ Proposals \subseteq Proposed
    /\ \A b \in Proposals :
         /\ b.op \in {"update", "delete", "assign_member"} => b.committee \in Committees
         /\ b.op \in {"assign_member", "nominate", "update_user"} => \E m \in Residents : b.members = {m}
         /\ b.op = "remove_member" => b.row \in Rows
         /\ b.op = "end_term" => b.term \in BoardRows
    /\ OpeningCommittees \in [Committees -> {"none", "active", "deleted"}]
    /\ OpeningSeats \in [Rows -> {"none", "live", "removed"}]
    /\ OpeningTerms \in [BoardRows -> {"none", "active", "past"}]
    /\ OpeningRoles \in [Residents -> Roles]
    /\ Nil \notin Changes \cup Committees \cup Rows \cup BoardRows \cup Roles \cup Proposals

\* The rows before the first request are such as requests that do not overlap leave.
ASSUME OpeningMemberships ==
    /\ \A m \in Residents, k, n \in Terms :
         OpeningTerms[<<m, k>>] = "active" /\ OpeningTerms[<<m, n>>] = "active" => k = n
    /\ \A m \in Residents : OpeningRoles[m] = "board_member"
                            <=> \E n \in Terms : OpeningTerms[<<m, n>>] = "active"
    /\ \A w \in Rows :
         /\ OpeningSeats[w] # "none" => OpeningCommittees[w[1]] # "none"
         /\ OpeningSeats[w] = "live" => OpeningRoles[w[2]] = "committee_member"
    /\ \A v, w \in Rows : OpeningSeats[v] = "live" /\ OpeningSeats[w] = "live"
                             /\ v[1] = w[1] /\ v[2] = w[2] => v = w

VARIABLES
    committees,     \* is_deleted of each committee
    seats,          \* is_deleted of each committee_members row
    terms,          \* status of each board_members row
    roles,          \* the role of each member's account
    phase,          \* how far a request has come
    proposal,       \* its body, while it is served
    decision,       \* what it decided from its snapshot
    disturbed       \* history: members whom two open requests concerned at once, whose role was
                    \* set by hand, or one of whose terms ended after they joined a committee

rosters == <<committees, seats, terms, roles>>
membershipVars == <<committees, seats, terms, roles, phase, proposal, decision, disturbed>>

\* Rows to delete, to revive, and members to insert one for; roles to set, None where none is,
\* and members to give the homeowner role if they still have a committee's; the members
\* concerned.
Decision ==
    [drop: SUBSET Rows, revive: SUBSET Rows, join: SUBSET Residents,
     sets: [Residents -> Roles \cup {Nil}], restore: SUBSET Residents, about: SUBSET Residents]

NoDecision == [drop |-> {}, revive |-> {}, join |-> {}, sets |-> [m \in Residents |-> Nil],
               restore |-> {}, about |-> {}]

Who(w) == w[2]

Live(c) == {w \in Rows : w[1] = c /\ seats[w] = "live"}

RowsOf(c, m) == {w \in Rows : w[1] = c /\ w[2] = m /\ seats[w] # "none"}

\* Any resident, whatever the role.
resident_in_association(m) == roles[m] \in Roles

homeowner_in_association(m) == roles[m] = "homeowner"

committee_member(c, m) == {w \in Live(c) : Who(w) = m}

\* The SELECT runs before the flush.
has_active_membership(m) ==
    \E w \in Rows : Who(w) = m /\ seats[w] = "live" /\ committees[w[1]] = "active"

\* Sets with one row of S for each member of ms: which of several rows a SELECT returns
\* first, or which key an insert gets, is open.
OneEach(S, ms) ==
    {T \in SUBSET S : /\ \A w \in T : Who(w) \in ms
                      /\ \A m \in ms : \E w \in T : {x \in T : Who(x) = m} = {w}}

All(ms, role) == [m \in Residents |-> IF m \in ms THEN role ELSE Nil]
-----------------------------------------------------------------------------
(* What a handler decides from its snapshot *)

Admits(b) ==
    /\ b.permitted
    /\ CASE b.op = "create" -> \A m \in b.members : homeowner_in_association(m)
         [] b.op = "update" ->
              /\ committees[b.committee] = "active"
              /\ \A m \in b.members : \/ homeowner_in_association(m)
                                      \/ committee_member(b.committee, m) # {}
         [] b.op = "delete" -> committees[b.committee] = "active"
         [] b.op = "assign_member" ->
              /\ committees[b.committee] = "active"
              /\ \A m \in b.members : /\ homeowner_in_association(m)
                                      /\ committee_member(b.committee, m) = {}
         [] b.op = "remove_member" ->
              seats[b.row] = "live" /\ committees[b.row[1]] = "active"
         [] b.op = "nominate" ->
              \A m \in b.members : /\ homeowner_in_association(m)
                                   /\ \A n \in Terms : terms[<<m, n>>] # "active"
         [] b.op = "end_term" -> terms[b.term] # "none"
         [] b.op = "update_user" -> TRUE

\* Members whose seat goes and whom the SELECT finds in no other, or so it is meant: the
\* seat that goes is still there.
restored(drop) == {m \in {Who(w) : w \in drop} : ~has_active_membership(m)}

Seating(drop, revive, join, ms) ==
    [drop |-> drop, revive |-> revive, join |-> join,
     sets |-> All(ms, "committee_member"), restore |-> restored(drop),
     about |-> ms \cup {Who(w) : w \in drop}]

\* Of the members concerned, those in ms get the role.
Setting(about, ms, role) ==
    [drop |-> {}, revive |-> {}, join |-> {}, sets |-> All(ms, role), restore |-> {},
     about |-> about]

\* A member who has a row gets that one back.
Seatings(c, drop, new, ms) ==
    LET back == {m \in new : RowsOf(c, m) # {}}
    IN {Seating(drop, T, new \ back, ms) :
          T \in OneEach(UNION {RowsOf(c, m) : m \in back}, back)}

Decisions(b) ==
    CASE b.op = "create" -> {Seating({}, {}, b.members, b.members)}
      [] b.op = "update" ->
           LET there == {Who(w) : w \in Live(b.committee)}
               gone == there \ b.members
           IN UNION {Seatings(b.committee, drop, b.members \ there, b.members) :
                       drop \in OneEach({w \in Live(b.committee) : Who(w) \in gone}, gone)}
      [] b.op = "delete" -> {Seating(Live(b.committee), {}, {}, {})}
      [] b.op = "assign_member" -> Seatings(b.committee, {}, b.members, b.members)
      [] b.op = "remove_member" -> {Seating({b.row}, {}, {}, {})}
      [] b.op = "nominate" -> {Setting(b.members, b.members, "board_member")}
      [] b.op = "end_term" ->
           LET m == b.term[1]
               other_active == \E n \in Terms \ {b.term[2]} : terms[<<m, n>>] = "active"
           IN {Setting({m}, IF other_active THEN {} ELSE {m}, "homeowner")}
      [] b.op = "update_user" ->
           {Setting(b.members, {m \in b.members : roles[m] # b.role}, b.role)}
-----------------------------------------------------------------------------
MembershipInit ==
    /\ committees = OpeningCommittees
    /\ seats = OpeningSeats
    /\ terms = OpeningTerms
    /\ roles = OpeningRoles
    /\ phase = [r \in Changes |-> "idle"]
    /\ proposal = [r \in Changes |-> Nil]
    /\ decision = [r \in Changes |-> NoDecision]
    /\ disturbed = {}

Open == {r \in Changes : phase[r] = "open"}

Read(r) ==
    /\ phase[r] = "idle"
    /\ \E b \in Proposals :
         IF Admits(b)
         THEN \E d \in Decisions(b) :
                /\ phase' = [phase EXCEPT ![r] = "open"]
                /\ proposal' = [proposal EXCEPT ![r] = b]
                /\ decision' = [decision EXCEPT ![r] = d]
                /\ disturbed' = disturbed \cup (d.about \cap UNION {decision[s].about : s \in Open})
         ELSE /\ phase' = [phase EXCEPT ![r] = "refused"]
              /\ UNCHANGED <<proposal, decision, disturbed>>
    /\ UNCHANGED rosters

Finish(r, outcome) ==
    /\ phase' = [phase EXCEPT ![r] = outcome]
    /\ proposal' = [proposal EXCEPT ![r] = Nil]
    /\ decision' = [decision EXCEPT ![r] = NoDecision]

Carries(r, op) == phase[r] = "open" /\ proposal[r].op = op

\* set_account_role and the UPDATEs of the board write whatever the role is by now,
\* restore_homeowner_role only over a committee member's.
SetRoles(r) ==
    roles' = [m \in Residents |->
                IF decision[r].sets[m] # Nil THEN decision[r].sets[m]
                ELSE IF m \in decision[r].restore /\ roles[m] = "committee_member"
                THEN "homeowner" ELSE roles[m]]

\* The rows of committee c that request r deletes, revives and inserts.
WriteSeats(r, c) ==
    \E fresh \in OneEach({w \in Rows : w[1] = c /\ seats[w] = "none"}, decision[r].join) :
       seats' = [w \in Rows |-> IF w \in decision[r].drop THEN "removed"
                                ELSE IF w \in decision[r].revive \cup fresh THEN "live"
                                ELSE seats[w]]
-----------------------------------------------------------------------------
(* Committees *)

create(r) ==
    /\ Carries(r, "create")
    /\ \E c \in Committees :
         /\ committees[c] = "none"
         /\ committees' = [committees EXCEPT ![c] = "active"]
         /\ WriteSeats(r, c)
    /\ SetRoles(r)
    /\ Finish(r, "done")
    /\ UNCHANGED <<terms, disturbed>>

update(r) ==
    /\ Carries(r, "update")
    /\ WriteSeats(r, proposal[r].committee)
    /\ SetRoles(r)
    /\ Finish(r, "done")
    /\ UNCHANGED <<committees, terms, disturbed>>

delete(r) ==
    /\ Carries(r, "delete")
    /\ committees' = [committees EXCEPT ![proposal[r].committee] = "deleted"]
    /\ WriteSeats(r, proposal[r].committee)
    /\ SetRoles(r)
    /\ Finish(r, "done")
    /\ UNCHANGED <<terms, disturbed>>

assign_member(r) ==
    /\ Carries(r, "assign_member")
    /\ WriteSeats(r, proposal[r].committee)
    /\ SetRoles(r)
    /\ Finish(r, "done")
    /\ UNCHANGED <<committees, terms, disturbed>>

\* By row, or by committee and member.
remove_member(r) ==
    /\ Carries(r, "remove_member")
    /\ WriteSeats(r, proposal[r].row[1])
    /\ SetRoles(r)
    /\ Finish(r, "done")
    /\ UNCHANGED <<committees, terms, disturbed>>
-----------------------------------------------------------------------------
(* The board, and roles set by hand *)

\* BoardMemberService.create.
nominate(r) ==
    /\ Carries(r, "nominate")
    /\ \E m \in proposal[r].members, n \in Terms :
         /\ terms[<<m, n>>] = "none"
         /\ terms' = [terms EXCEPT ![<<m, n>>] = "active"]
    /\ SetRoles(r)
    /\ Finish(r, "done")
    /\ UNCHANGED <<committees, seats, disturbed>>

\* Whether the term has ended before is not asked.
end_term(r) ==
    /\ Carries(r, "end_term")
    /\ terms' = [terms EXCEPT ![proposal[r].term] = "past"]
    /\ SetRoles(r)
    /\ disturbed' = disturbed \cup {m \in decision[r].about : roles[m] = "committee_member"}
    /\ Finish(r, "done")
    /\ UNCHANGED <<committees, seats>>

\* UserService.update with a role.
update_user(r) ==
    /\ Carries(r, "update_user")
    /\ SetRoles(r)
    /\ disturbed' = disturbed \cup decision[r].about
    /\ Finish(r, "done")
    /\ UNCHANGED <<committees, seats, terms>>

\* Deadlock victim, lock wait timeout, lost connection or stopped worker.
Withdraw(r) == phase[r] = "open" /\ Finish(r, "aborted") /\ UNCHANGED <<rosters, disturbed>>

MembershipNext ==
    \E r \in Changes :
       \/ Read(r) \/ create(r) \/ update(r) \/ delete(r) \/ assign_member(r)
       \/ remove_member(r) \/ nominate(r) \/ end_term(r) \/ update_user(r) \/ Withdraw(r)

MembershipSpec == MembershipInit /\ [][MembershipNext]_membershipVars
-----------------------------------------------------------------------------
(* Properties *)

\* Tables and locals keep their ranges.
MembershipTypeOK ==
    /\ committees \in [Committees -> {"none", "active", "deleted"}]
    /\ seats \in [Rows -> {"none", "live", "removed"}]
    /\ terms \in [BoardRows -> {"none", "active", "past"}]
    /\ roles \in [Residents -> Roles]
    /\ phase \in [Changes -> {"idle", "open", "done", "refused", "aborted"}]
    /\ proposal \in [Changes -> Proposals \cup {Nil}]
    /\ decision \in [Changes -> Decision]
    /\ disturbed \subseteq Residents

OnBoard(m) == \E n \in Terms : terms[<<m, n>>] = "active"

OneTerm(m) == \A k, n \in Terms :
    terms[<<m, k>>] = "active" /\ terms[<<m, n>>] = "active" => k = n

OneSeat(m) == \A v, w \in Rows :
    Who(v) = m /\ Who(w) = m /\ v[1] = w[1] /\ seats[v] = "live" /\ seats[w] = "live" => v = w

Agrees(m) ==
    /\ OneTerm(m) /\ OneSeat(m)
    /\ OnBoard(m) <=> roles[m] = "board_member"
    /\ has_active_membership(m) => roles[m] = "committee_member"

\* A member's role, board term and seats agree: on the board exactly with the board's role
\* and in one term, in a committee only with a committee's role and in one seat. Only
\* requests that overlap, a role set by hand and a term ended late can break this.
RolesAgree == \A m \in Residents \ disturbed : Agrees(m)

\* Who leaves their last committee is given back the homeowner's role, without which no
\* committee and no board takes them again: a committee member has a seat.
CommitteeRoleGivenBack ==
    \A m \in Residents \ disturbed : roles[m] = "committee_member"
                                     => \E w \in Rows : Who(w) = m /\ seats[w] = "live"
=============================================================================
