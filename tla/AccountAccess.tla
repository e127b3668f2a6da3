---------------------------- MODULE AccountAccess ----------------------------
(* Accounts, sessions, password resets and access codes,                     *)
(* app/modules/auth/service.py and router.py over repository.py.             *)
(*                                                                           *)
(* A request is one MySQL transaction under REPEATABLE READ: every SELECT    *)
(* reads the snapshot its first one fixes, and an UPDATE with a WHERE reads  *)
(* current rows. The statements that write come last and wait only for each  *)
(* other's row and gap locks, so a request is two steps: it begins with what *)
(* its SELECTs return, and it finishes with all its writes or with none.     *)
EXTENDS Naturals, FiniteSets

CONSTANTS
    Requests,       \* HTTP requests, each served once
    Emails,
    Members,        \* user_details rows, each with the access code code_id names
    AccountIds, SessionIds, ChallengeIds, CodeRequestIds,   \* primary keys
    Payloads,       \* the requests considered
    OpeningAccounts, OpeningSessions, OpeningChallenges, OpeningCodes,
                    \* the tables before the first request
    None

Ops == {"login", "logout", "request_password_reset", "reset_password",
        "create_member_account", "create_account",
        "request_access_code", "approve_code_request", "reject_code_request"}

\* permitted stands for role, CSRF token, matching passwords and well-formed fields, and
\* for a login also for verify_password.
Bodies ==
    [op: Ops, email: Emails \cup {None}, member: Members \cup {None},
     session: SessionIds \cup {None}, challenge: ChallengeIds \cup {None},
     codeRequest: CodeRequestIds \cup {None}, permitted: BOOLEAN]

\* A password is named by the request that set it, None for an earlier one.
Accounts ==
    [status: {"none", "inactive", "active"}, email: Emails \cup {None},
     member: Members \cup {None}, password: Requests \cup {None}, wallet: BOOLEAN]
Sessions == [account: AccountIds \cup {None}, password: Requests \cup {None}, live: BOOLEAN]
Challenges == [account: AccountIds \cup {None}, live: BOOLEAN]
CodeRequests ==
    [status: {"none", "pending", "approved", "rejected"}, email: Emails \cup {None},
     issued: SUBSET Members]
CodeStatus == {"none", "active", "used"}

NoAccount == [status |-> "none", email |-> None, member |-> None, password |-> None,
              wallet |-> FALSE]
NoSession == [account |-> None, password |-> None, live |-> FALSE]
NoChallenge == [account |-> None, live |-> FALSE]
NoCodeRequest == [status |-> "none", email |-> None, issued |-> {}]

ASSUME AccessConstants ==
    /\ Payloads \subseteq Bodies
    /\ \A b \in Payloads :
         /\ b.op = "logout" => b.session \in SessionIds
         /\ b.op = "reset_password" => b.challenge \in ChallengeIds
         /\ b.op = "create_member_account" => b.member \in Members
         /\ b.op \in {"approve_code_request", "reject_code_request"} =>
              b.codeRequest \in CodeRequestIds
         /\ b.op \in {"login", "request_password_reset", "create_member_account",
                      "create_account", "request_access_code"} => b.email \in Emails
         /\ b.op = "create_account" => b.member = None
    /\ OpeningAccounts \in [AccountIds -> Accounts]
    /\ OpeningSessions \in [SessionIds -> Sessions]
    /\ OpeningChallenges \in [ChallengeIds -> Challenges]
    /\ OpeningCodes \in [Members -> CodeStatus]
    /\ None \notin Requests \cup Emails \cup Members \cup AccountIds \cup SessionIds
                     \cup ChallengeIds \cup CodeRequestIds

\* The rows before the first request are such as earlier requests leave.
ASSUME OpeningConsistent ==
    /\ \A a, b \in AccountIds :
         /\ OpeningAccounts[a].status # "none" /\ OpeningAccounts[b].status # "none"
         /\ OpeningAccounts[a].email = OpeningAccounts[b].email
         => a = b
    /\ \A a \in AccountIds : OpeningAccounts[a].wallet => OpeningAccounts[a].status = "active"
    /\ \A s \in SessionIds : OpeningSessions[s].live =>
         /\ OpeningSessions[s].account \in AccountIds
         /\ OpeningAccounts[OpeningSessions[s].account].status = "active"
    /\ \A c, d \in ChallengeIds : OpeningChallenges[c].live =>
         /\ OpeningChallenges[c].account \in AccountIds
         /\ OpeningChallenges[d].live
              /\ OpeningChallenges[c].account = OpeningChallenges[d].account => c = d
    /\ \A m \in Members : OpeningCodes[m] = "used" <=>
         \E a \in AccountIds : /\ OpeningAccounts[a].status = "active"
                               /\ OpeningAccounts[a].member = m /\ OpeningAccounts[a].wallet

VARIABLES
    accounts,       \* accounts, and whether the account has a wallet row
    sessions,       \* auth_sessions; live is revoked_at IS NULL and not expired
    challenges,     \* password_reset_challenges; live is not consumed and not expired
    codes,          \* user_codes.status of a member's code
    codeRequests,   \* code_requests; issued are the members created for it
    planned,        \* members whose association has an active plan
    stage,          \* how far a request has come
    body,           \* its body, while it is served
    seen            \* what its SELECTs return

tables == <<accounts, sessions, challenges, codes, codeRequests, planned>>
vars == <<accounts, sessions, challenges, codes, codeRequests, planned,
          stage, body, seen>>

\* account is the row a handler works on, the other fields what it goes by when it writes.
Seen == [account: AccountIds \cup {None}, password: Requests \cup {None}, wallet: BOOLEAN,
         planned: BOOLEAN]

Nothing == [account |-> None, password |-> None, wallet |-> FALSE, planned |-> FALSE]

Exists(a) == accounts[a].status # "none"

ByEmail(e) == {a \in AccountIds : Exists(a) /\ accounts[a].email = e}

OfMember(m) == {a \in AccountIds : Exists(a) /\ accounts[a].member = m}

\* A resident's account needs an association with an active plan.
require_active_association_plan(m) == m = None \/ m \in planned

\* The account a SELECT of the handler returns, any one where several match.
Found(b) ==
    CASE b.op \in {"login", "request_password_reset", "create_account"} -> ByEmail(b.email)
      [] b.op = "logout" -> {sessions[b.session].account} \ {None}
      [] b.op = "reset_password" -> {challenges[b.challenge].account} \ {None}
      [] b.op = "create_member_account" -> OfMember(b.member)
      [] OTHER -> {}
-----------------------------------------------------------------------------
(* What a handler asks of the snapshot *)

IsActive(a) == a # None /\ accounts[a].status = "active"

\* An account that is there must be waiting for its member, and the e-mail address be free
\* or the account's own.
Claimable(b, a) ==
    /\ codes[b.member] = "active"
    /\ ~IsActive(a)
    /\ ByEmail(b.email) \subseteq {a}

Pending(e) == {q \in CodeRequestIds : codeRequests[q].status = "pending"
                                        /\ codeRequests[q].email = e}

\* A reset link or OTP is good for the account of its challenge; a request for one is
\* answered alike whether the account is there or not.
Accepts(b, a) ==
    /\ b.permitted
    /\ CASE b.op = "login" ->
              IsActive(a) /\ require_active_association_plan(accounts[a].member)
         [] b.op = "logout" -> IsActive(a) /\ sessions[b.session].live
         [] b.op = "request_password_reset" -> IsActive(a)
         [] b.op = "reset_password" -> challenges[b.challenge].live
         [] b.op = "create_member_account" -> Claimable(b, a)
         [] b.op = "create_account" -> a = None
         [] b.op = "request_access_code" -> Pending(b.email) = {}
         [] b.op = "approve_code_request" -> codeRequests[b.codeRequest].status = "pending"
         [] b.op = "reject_code_request" -> TRUE

Snapshot(b, a) ==
    [account |-> a,
     password |-> IF a = None THEN None ELSE accounts[a].password,
     wallet |-> IF a = None THEN FALSE ELSE accounts[a].wallet,
     planned |-> IF b.op = "create_member_account"
                 THEN require_active_association_plan(b.member) ELSE TRUE]
-----------------------------------------------------------------------------
Init ==
    /\ accounts = OpeningAccounts
    /\ sessions = OpeningSessions
    /\ challenges = OpeningChallenges
    /\ codes = OpeningCodes
    /\ codeRequests = [q \in CodeRequestIds |-> NoCodeRequest]
    /\ planned \in SUBSET {m \in Members : OpeningCodes[m] # "none"}
    /\ stage = [r \in Requests |-> "idle"]
    /\ body = [r \in Requests |-> None]
    /\ seen = [r \in Requests |-> Nothing]

\* The first SELECT fixes the snapshot; what it shows decides whether the request is
\* refused.
Begin(r) ==
    /\ stage[r] = "idle"
    /\ \E b \in Payloads :
         \E a \in IF Found(b) = {} THEN {None} ELSE Found(b) :
           IF Accepts(b, a)
           THEN /\ stage' = [stage EXCEPT ![r] = "open"]
                /\ body' = [body EXCEPT ![r] = b]
                /\ seen' = [seen EXCEPT ![r] = Snapshot(b, a)]
           ELSE /\ stage' = [stage EXCEPT ![r] = "refused"]
                /\ UNCHANGED <<body, seen>>
    /\ UNCHANGED tables

End(r, outcome) ==
    /\ stage' = [stage EXCEPT ![r] = outcome]
    /\ body' = [body EXCEPT ![r] = None]
    /\ seen' = [seen EXCEPT ![r] = Nothing]

Rollback(r, outcome) == End(r, outcome) /\ UNCHANGED tables

Serves(r, op) == stage[r] = "open" /\ body[r].op = op

\* INSERT INTO auth_sessions for account a under the password the request knows.
OpenSession(a, password) ==
    \E s \in SessionIds :
       /\ sessions[s].account = None
       /\ sessions' = [sessions EXCEPT ![s] =
                         [account |-> a, password |-> password, live |-> TRUE]]
-----------------------------------------------------------------------------
(* Sessions and passwords *)

login(r) ==
    /\ Serves(r, "login")
    /\ OpenSession(seen[r].account, seen[r].password)
    /\ End(r, "done")
    /\ UNCHANGED <<accounts, challenges, codes, codeRequests, planned>>

logout(r) ==
    /\ Serves(r, "logout")
    /\ sessions' = [sessions EXCEPT ![body[r].session].live = FALSE]
    /\ End(r, "done")
    /\ UNCHANGED <<accounts, challenges, codes, codeRequests, planned>>

\* UPDATE auth_sessions of an account, as they are when it runs.
revoke_all_sessions_for_account(a) ==
    [s \in SessionIds |-> IF sessions[s].account = a THEN [sessions[s] EXCEPT !.live = FALSE]
                          ELSE sessions[s]]

consume_active_reset_challenges_for_account(a) ==
    [c \in ChallengeIds |->
       IF challenges[c].account = a THEN [challenges[c] EXCEPT !.live = FALSE]
       ELSE challenges[c]]

\* Earlier links stay in force.
add_password_reset_challenge(r) ==
    /\ Serves(r, "request_password_reset")
    /\ \E c \in ChallengeIds :
         /\ challenges[c].account = None
         /\ challenges' = [challenges EXCEPT ![c] = [account |-> seen[r].account, live |-> TRUE]]
    /\ End(r, "done")
    /\ UNCHANGED <<accounts, sessions, codes, codeRequests, planned>>

\* request_password_reset and request_password_reset_otp, which differ in the secret.
request_password_reset(r) ==
    /\ Serves(r, "request_password_reset")
    /\ \E c \in ChallengeIds :
         /\ challenges[c].account = None
         /\ challenges' = [consume_active_reset_challenges_for_account(seen[r].account)
                             EXCEPT ![c] = [account |-> seen[r].account, live |-> TRUE]]
    /\ End(r, "done")
    /\ UNCHANGED <<accounts, sessions, codes, codeRequests, planned>>

\* reset_password and reset_password_with_otp.
reset_password(r) ==
    LET a == seen[r].account IN
    /\ Serves(r, "reset_password")
    /\ accounts' = [accounts EXCEPT ![a].password = r]
    /\ challenges' = consume_active_reset_challenges_for_account(a)
    /\ sessions' = revoke_all_sessions_for_account(a)
    /\ End(r, "done")
    /\ UNCHANGED <<codes, codeRequests, planned>>

-----------------------------------------------------------------------------
(* Accounts *)

\* accounts.email is unique, and so is wallets.account_id.
EmailTaken(e, a) == ByEmail(e) \ {a} # {}

\* The row the handler inserts, or the inactive one it found, which the UPDATE turns into
\* an active account with a wallet.
Claim(r, a) ==
    accounts' = [accounts EXCEPT ![a] =
        [status |-> "active", email |-> body[r].email, member |-> body[r].member,
         password |-> r, wallet |-> TRUE]]

\* A wallet that is there by now is taken for the account's.
WalletKept(a, r) == FALSE

\* The second insert of a wallet for an account that got one meanwhile fails.
WalletClash(a, r) == accounts[a].wallet /\ ~seen[r].wallet

\* The code is spent before the plan is looked up, and stays so.
SpendCodeFirst(r) ==
    /\ Serves(r, "create_member_account")
    /\ codes' = [codes EXCEPT ![body[r].member] = "used"]
    /\ \/ /\ ~seen[r].planned
          /\ End(r, "refused")
          /\ UNCHANGED <<accounts, sessions, challenges, codeRequests, planned>>
       \/ /\ seen[r].planned
          /\ \E a \in AccountIds :
               /\ IF seen[r].account = None THEN ~Exists(a) ELSE a = seen[r].account
               /\ Claim(r, a) /\ OpenSession(a, r)
          /\ End(r, "done")
          /\ UNCHANGED <<challenges, codeRequests, planned>>

\* The answer is built after the writes; without a plan it is a refusal that rolls back.
create_member_account(r) ==
    /\ Serves(r, "create_member_account")
    /\ \E a \in AccountIds :
         /\ IF seen[r].account = None THEN ~Exists(a) ELSE a = seen[r].account
         /\ \/ EmailTaken(body[r].email, a) /\ Rollback(r, "aborted")
            \/ ~EmailTaken(body[r].email, a) /\ WalletClash(a, r) /\ Rollback(r, "aborted")
            \/ /\ ~EmailTaken(body[r].email, a) /\ ~WalletClash(a, r)
               /\ IF ~seen[r].planned THEN Rollback(r, "refused")
                  ELSE /\ Claim(r, a)
                       /\ codes' = [codes EXCEPT ![body[r].member] = "used"]
                       /\ OpenSession(a, r)
                       /\ End(r, "done")
                       /\ UNCHANGED <<challenges, codeRequests, planned>>

\* By a super administrator, for staff.
create_account(r) ==
    /\ Serves(r, "create_account")
    /\ \E a \in AccountIds :
         /\ ~Exists(a)
         /\ IF EmailTaken(body[r].email, a) THEN Rollback(r, "aborted")
            ELSE /\ Claim(r, a)
                 /\ End(r, "done")
                 /\ UNCHANGED <<sessions, challenges, codes, codeRequests, planned>>
-----------------------------------------------------------------------------
(* Access codes *)

request_access_code(r) ==
    /\ Serves(r, "request_access_code")
    /\ \E q \in CodeRequestIds :
         /\ codeRequests[q].status = "none"
         /\ codeRequests' = [codeRequests EXCEPT ![q] =
              [status |-> "pending", email |-> body[r].email, issued |-> {}]]
    /\ End(r, "done")
    /\ UNCHANGED <<accounts, sessions, challenges, codes, planned>>

\* The UPDATE that marks the request does not ask again whether it is pending. The new
\* member has no association and so no plan yet.
approve_code_request(r) ==
    LET q == body[r].codeRequest IN
    /\ Serves(r, "approve_code_request")
    /\ \E m \in Members :
         /\ codes[m] = "none"
         /\ codes' = [codes EXCEPT ![m] = "active"]
         /\ codeRequests' = [codeRequests EXCEPT ![q] =
              [status |-> "approved", email |-> codeRequests[q].email,
               issued |-> codeRequests[q].issued \cup {m}]]
    /\ End(r, "done")
    /\ UNCHANGED <<accounts, sessions, challenges, planned>>

\* UPDATE ... WHERE status = 'pending', on the row as it is now.
Rejectable(q) == codeRequests[q].status = "pending"

reject_code_request(r) ==
    LET q == body[r].codeRequest IN
    /\ Serves(r, "reject_code_request")
    /\ IF ~Rejectable(q) THEN Rollback(r, "refused")
       ELSE /\ codeRequests' = [codeRequests EXCEPT ![q].status = "rejected"]
            /\ End(r, "done")
            /\ UNCHANGED <<accounts, sessions, challenges, codes, planned>>
-----------------------------------------------------------------------------
(* The environment *)

ExpireSession(s) ==
    /\ sessions[s].live
    /\ sessions' = [sessions EXCEPT ![s].live = FALSE]
    /\ UNCHANGED <<accounts, challenges, codes, codeRequests, planned, stage, body, seen>>

ExpireChallenge(c) ==
    /\ challenges[c].live
    /\ challenges' = [challenges EXCEPT ![c].live = FALSE]
    /\ UNCHANGED <<accounts, sessions, codes, codeRequests, planned, stage, body, seen>>

\* An administrator gives the member an association, or a plan starts or ends.
PlanChanges(m) ==
    /\ codes[m] # "none"
    /\ planned' = IF m \in planned THEN planned \ {m} ELSE planned \cup {m}
    /\ UNCHANGED <<accounts, sessions, challenges, codes, codeRequests, stage, body, seen>>

\* Deadlock victim, lock wait timeout, duplicate key, lost connection or stopped worker.
Abort(r) == stage[r] = "open" /\ Rollback(r, "aborted")

Next ==
    \/ \E r \in Requests :
         \/ Begin(r) \/ login(r) \/ logout(r)
         \/ request_password_reset(r) \/ reset_password(r)
         \/ create_member_account(r) \/ create_account(r)
         \/ request_access_code(r) \/ approve_code_request(r) \/ reject_code_request(r)
         \/ Abort(r)
    \/ \E s \in SessionIds : ExpireSession(s)
    \/ \E c \in ChallengeIds : ExpireChallenge(c)
    \/ \E m \in Members : PlanChanges(m)

Spec == Init /\ [][Next]_vars
-----------------------------------------------------------------------------
(* Properties *)

\* Tables and locals keep their ranges; e-mail addresses are unique.
TypeOK ==
    /\ accounts \in [AccountIds -> Accounts]
    /\ sessions \in [SessionIds -> Sessions]
    /\ challenges \in [ChallengeIds -> Challenges]
    /\ codes \in [Members -> CodeStatus]
    /\ codeRequests \in [CodeRequestIds -> CodeRequests]
    /\ planned \subseteq Members
    /\ stage \in [Requests -> {"idle", "open", "done", "refused", "aborted"}]
    /\ body \in [Requests -> Payloads \cup {None}]
    /\ seen \in [Requests -> Seen]
    /\ \A a, b \in AccountIds :
         Exists(a) /\ Exists(b) /\ accounts[a].email = accounts[b].email => a = b

Stale(s) == sessions[s].live /\ sessions[s].password # accounts[sessions[s].account].password

\* A session that is open when the password changes does not survive the change, whoever
\* opened it and whenever; a session can be stale only from the start, by a login that
\* checked the old password before.
NoSessionOutlivesPassword ==
    [][\A s \in SessionIds : sessions[s].live /\ Stale(s)' => Stale(s)]_vars

\* An account has one reset link or OTP in force, that of the last request.
OneLiveChallenge ==
    \A c, d \in ChallengeIds :
        challenges[c].live /\ challenges[d].live
            /\ challenges[c].account = challenges[d].account => c = d

\* A code is used exactly when its member has an active account with a wallet: no refusal
\* or failure spends a code, and no account is made without spending one.
CodesMatchAccounts ==
    \A m \in Members :
        codes[m] = "used" <=> \E a \in OfMember(m) : IsActive(a) /\ accounts[a].wallet

\* A request for a code is approved exactly when it has issued one, also when it was
\* decided twice at once.
IssuedWhenApproved ==
    \A q \in CodeRequestIds : codeRequests[q].status = "approved" <=> codeRequests[q].issued # {}

\* Codes, the accounts made with them and the requests that issued them agree.
CodesAgree == CodesMatchAccounts /\ IssuedWhenApproved
=============================================================================
