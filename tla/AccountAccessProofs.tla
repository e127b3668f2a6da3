------------------------- MODULE AccountAccessProofs -------------------------
(* Proofs about accounts: their codes, sessions and reset links               *)
(* (AccountAccess), and the roles they have with seats and terms              *)
(* (Memberships), for any number of requests, members, accounts, sessions,    *)
(* links, codes, committees and rows, and any opening tables that satisfy the *)
(* assumptions of each.                                                       *)
EXTENDS AccountAccess, Memberships, TLAPS

\* Only accounts that were activated have sessions and wallets, and a reset link is
\* always some account's.
RowsBelong ==
    /\ \A s \in SessionIds : sessions[s].live =>
         sessions[s].account \in AccountIds /\ accounts[sessions[s].account].status = "active"
    /\ \A c \in ChallengeIds : challenges[c].live => challenges[c].account \in AccountIds
    /\ \A a \in AccountIds : accounts[a].wallet => accounts[a].status = "active"

\* What an unfinished request goes by. An account found inactive may have been claimed by
\* another since, and then it has a wallet.
Knows(r) ==
    stage[r] = "open" =>
        /\ body[r] \in Payloads
        /\ body[r].op \in {"login", "request_password_reset", "reset_password"} =>
             seen[r].account \in AccountIds
        /\ body[r].op = "login" => accounts[seen[r].account].status = "active"
        /\ body[r].op = "create_member_account" /\ seen[r].account # None =>
             /\ ~seen[r].wallet
             /\ accounts[seen[r].account].status # "none"
             /\ accounts[seen[r].account].member = body[r].member
             /\ accounts[seen[r].account].status = "active" => accounts[seen[r].account].wallet

AccessInvariant ==
    /\ TypeOK
    /\ RowsBelong
    /\ OneLiveChallenge
    /\ CodesMatchAccounts
    /\ IssuedWhenApproved
    /\ \A r \in Requests : Knows(r)

USE AccessConstants

Stages == {"idle", "open", "done", "refused", "aborted"}

\* The fields a request body has.
LEMMA BodyType ==
    ASSUME NEW b \in Payloads
    PROVE  /\ b.op \in Ops
           /\ b.email \in Emails \cup {None}
           /\ b.member \in Members \cup {None}
           /\ b.op = "logout" => b.session \in SessionIds
           /\ b.op = "reset_password" => b.challenge \in ChallengeIds
           /\ b.op = "create_member_account" => b.member \in Members
           /\ b.op = "create_account" => b.member = None
           /\ b.op \in {"approve_code_request", "reject_code_request"} =>
                b.codeRequest \in CodeRequestIds
  BY DEF Bodies

\* The invariant holds of the opening tables.
LEMMA InitInvariant == Init => AccessInvariant
  <1> SUFFICES ASSUME Init PROVE AccessInvariant
    OBVIOUS
  <1>1. TypeOK
    <2>1. /\ codeRequests \in [CodeRequestIds -> CodeRequests]
          /\ seen \in [Requests -> Seen]
      BY DEF Init, NoCodeRequest, CodeRequests, Nothing, Seen
    <2>2. planned \subseteq Members
      BY DEF Init
    <2> QED
      BY <2>1, <2>2, OpeningConsistent DEF Init, TypeOK, Exists
  <1>2. RowsBelong
    BY OpeningConsistent DEF Init, RowsBelong
  <1>3. OneLiveChallenge
    BY OpeningConsistent DEF Init, OneLiveChallenge
  <1>4. CodesMatchAccounts
    BY OpeningConsistent DEF Init, CodesMatchAccounts, OfMember, IsActive, Exists
  <1>5. IssuedWhenApproved
    BY DEF Init, IssuedWhenApproved, NoCodeRequest
  <1>6. \A r \in Requests : Knows(r)
    BY DEF Init, Knows
  <1> QED
    BY <1>1, <1>2, <1>3, <1>4, <1>5, <1>6 DEF AccessInvariant

\* Accounts are not deleted, deactivated or given to another member.
AccountsStay ==
    \A a \in AccountIds : accounts[a].status # "none" =>
        /\ accounts'[a].status # "none"
        /\ accounts'[a].member = accounts[a].member
        /\ accounts[a].status = "active" => accounts'[a].status = "active"
        /\ accounts[a].wallet => accounts'[a].wallet
        /\ accounts[a].status # "active" /\ accounts'[a].status = "active" => accounts'[a].wallet

\* A request that ends leaves what the others know true.
LEMMA EndKeeps ==
    ASSUME AccessInvariant, NEW r \in Requests, NEW o \in {"done", "refused", "aborted"},
           End(r, o), AccountsStay
    PROVE  /\ stage' \in [Requests -> Stages]
           /\ body' \in [Requests -> Payloads \cup {None}]
           /\ seen' \in [Requests -> Seen]
           /\ \A q \in Requests : Knows(q)'
  <1>1. /\ stage \in [Requests -> Stages]
        /\ body \in [Requests -> Payloads \cup {None}]
        /\ seen \in [Requests -> Seen]
    BY DEF AccessInvariant, TypeOK, Stages
  <1>2. Nothing \in Seen
    BY DEF Nothing, Seen
  <1>3. /\ stage' \in [Requests -> Stages]
        /\ body' \in [Requests -> Payloads \cup {None}]
        /\ seen' \in [Requests -> Seen]
    BY <1>1, <1>2 DEF End, Stages
  <1>4. ASSUME NEW q \in Requests PROVE Knows(q)'
    <2>1. CASE q = r
      BY <2>1, <1>1 DEF End, Knows
    <2>2. CASE q # r
      <3>1. stage'[q] = stage[q] /\ body'[q] = body[q] /\ seen'[q] = seen[q]
        BY <2>2, <1>1 DEF End
      <3>2. Knows(q) /\ seen[q] \in Seen
        BY <1>1 DEF AccessInvariant
      <3>3. seen[q].account \in AccountIds \cup {None}
        BY <3>2 DEF Seen
      <3>4. SUFFICES ASSUME stage[q] = "open" PROVE Knows(q)'
        BY <3>1 DEF Knows
      <3>5. ASSUME seen[q].account \in AccountIds, accounts[seen[q].account].status # "none"
            PROVE  LET a == seen[q].account IN
                   /\ accounts'[a].status # "none"
                   /\ accounts'[a].member = accounts[a].member
                   /\ accounts[a].status = "active" => accounts'[a].status = "active"
                   /\ accounts[a].wallet => accounts'[a].wallet
                   /\ accounts[a].status # "active" /\ accounts'[a].status = "active" =>
                        accounts'[a].wallet
        BY <3>5 DEF AccountsStay
      <3> QED
        BY <3>1, <3>2, <3>3, <3>4, <3>5 DEF Knows
    <2> QED
      BY <2>1, <2>2
  <1> QED
    BY <1>3, <1>4

\* A request that changes no table keeps the invariant.
LEMMA RollbackKeeps ==
    ASSUME AccessInvariant, NEW r \in Requests, NEW o \in {"done", "refused", "aborted"},
           Rollback(r, o)
    PROVE  AccessInvariant'
  <1>1. AccountsStay
    BY DEF Rollback, tables, AccountsStay
  <1>2. /\ stage' \in [Requests -> Stages]
        /\ body' \in [Requests -> Payloads \cup {None}]
        /\ seen' \in [Requests -> Seen]
        /\ \A q \in Requests : Knows(q)'
    BY <1>1, EndKeeps DEF Rollback
  <1>3. TypeOK'
    BY <1>2 DEF Rollback, tables, AccessInvariant, TypeOK, Exists, Stages
  <1>4. RowsBelong' /\ OneLiveChallenge' /\ IssuedWhenApproved'
    BY DEF Rollback, tables, AccessInvariant, RowsBelong, OneLiveChallenge, IssuedWhenApproved
  <1>5. CodesMatchAccounts'
    BY DEF Rollback, tables, AccessInvariant, CodesMatchAccounts, OfMember, IsActive, Exists
  <1> QED
    BY <1>2, <1>3, <1>4, <1>5 DEF AccessInvariant

-----------------------------------------------------------------------------
(* The tables after each operation *)

\* What a write must do to keep the invariant once its request has ended.
WriteKeeps ==
    /\ accounts' \in [AccountIds -> Accounts]
    /\ sessions' \in [SessionIds -> Sessions]
    /\ challenges' \in [ChallengeIds -> Challenges]
    /\ codes' \in [Members -> CodeStatus]
    /\ codeRequests' \in [CodeRequestIds -> CodeRequests]
    /\ planned' \subseteq Members
    /\ \A a, b \in AccountIds :
         accounts'[a].status # "none" /\ accounts'[b].status # "none"
           /\ accounts'[a].email = accounts'[b].email => a = b
    /\ AccountsStay
    /\ RowsBelong'
    /\ OneLiveChallenge'
    /\ CodesMatchAccounts'
    /\ IssuedWhenApproved'

\* A commit preserves the invariant when what it writes and the end of its
\* request do so separately.
LEMMA WriteAndEnd ==
    ASSUME AccessInvariant, NEW r \in Requests, NEW o \in {"done", "refused", "aborted"},
           End(r, o), WriteKeeps
    PROVE  AccessInvariant'
  <1>1. /\ stage' \in [Requests -> Stages]
        /\ body' \in [Requests -> Payloads \cup {None}]
        /\ seen' \in [Requests -> Seen]
        /\ \A q \in Requests : Knows(q)'
    BY EndKeeps DEF WriteKeeps
  <1>2. TypeOK'
    BY <1>1 DEF WriteKeeps, TypeOK, Exists, Stages
  <1> QED
    BY <1>1, <1>2 DEF WriteKeeps, AccessInvariant

\* What holds of accounts as long as no row changes.
LEMMA SameAccounts ==
    ASSUME AccessInvariant, UNCHANGED accounts
    PROVE  /\ accounts' \in [AccountIds -> Accounts]
           /\ AccountsStay
           /\ \A a, b \in AccountIds :
                accounts'[a].status # "none" /\ accounts'[b].status # "none"
                  /\ accounts'[a].email = accounts'[b].email => a = b
  BY DEF AccessInvariant, TypeOK, Exists, AccountsStay

\* Codes go on matching accounts while neither table is written.
LEMMA SameCodes ==
    ASSUME AccessInvariant, UNCHANGED <<accounts, codes>>
    PROVE  CodesMatchAccounts'
  BY DEF AccessInvariant, CodesMatchAccounts, OfMember, IsActive, Exists

\* A request that begins reads rows as they are.
LEMMA BeginKeeps ==
    ASSUME AccessInvariant, NEW r \in Requests, Begin(r)
    PROVE  AccessInvariant'
  <1>1. PICK b \in Payloads : \E a \in IF Found(b) = {} THEN {None} ELSE Found(b) :
           IF Accepts(b, a)
           THEN /\ stage' = [stage EXCEPT ![r] = "open"]
                /\ body' = [body EXCEPT ![r] = b]
                /\ seen' = [seen EXCEPT ![r] = Snapshot(b, a)]
           ELSE /\ stage' = [stage EXCEPT ![r] = "refused"]
                /\ UNCHANGED <<body, seen>>
    BY DEF Begin
  <1>2. PICK a \in IF Found(b) = {} THEN {None} ELSE Found(b) :
           IF Accepts(b, a)
           THEN /\ stage' = [stage EXCEPT ![r] = "open"]
                /\ body' = [body EXCEPT ![r] = b]
                /\ seen' = [seen EXCEPT ![r] = Snapshot(b, a)]
           ELSE /\ stage' = [stage EXCEPT ![r] = "refused"]
                /\ UNCHANGED <<body, seen>>
    BY <1>1
  <1>3. UNCHANGED <<accounts, sessions, challenges, codes, codeRequests, planned>>
    BY DEF Begin, tables
  <1>4. /\ stage \in [Requests -> Stages] /\ body \in [Requests -> Payloads \cup {None}]
        /\ seen \in [Requests -> Seen] /\ accounts \in [AccountIds -> Accounts]
        /\ sessions \in [SessionIds -> Sessions] /\ challenges \in [ChallengeIds -> Challenges]
    BY DEF AccessInvariant, TypeOK, Stages
  <1>5. Found(b) \subseteq AccountIds
    <2>1. CASE b.op \in {"login", "request_password_reset", "create_account",
                         "create_member_account"}
      BY <2>1 DEF Found, ByEmail, OfMember
    <2>2. CASE b.op = "logout"
      BY <2>2, <1>4, BodyType DEF Found, Sessions
    <2>3. CASE b.op = "reset_password"
      BY <2>3, <1>4, BodyType DEF Found, Challenges
    <2>4. CASE b.op \in {"request_access_code", "approve_code_request", "reject_code_request"}
      BY <2>4 DEF Found
    <2> QED
      BY <2>1, <2>2, <2>3, <2>4, BodyType DEF Ops
  <1>6. a \in AccountIds \cup {None}
    BY <1>2, <1>5
  <1>7. Snapshot(b, a) \in Seen
    <2> DEFINE pw == IF a = None THEN None ELSE accounts[a].password
               w == IF a = None THEN FALSE ELSE accounts[a].wallet
               pl == IF b.op = "create_member_account"
                     THEN require_active_association_plan(b.member) ELSE TRUE
    <2>1. pw \in Requests \cup {None} /\ w \in BOOLEAN
      BY <1>4, <1>6 DEF Accounts
    <2>2. pl \in BOOLEAN
      BY DEF require_active_association_plan
    <2>3. Snapshot(b, a) = [account |-> a, password |-> pw, wallet |-> w, planned |-> pl]
      BY DEF Snapshot
    <2> HIDE DEF pw, w, pl
    <2> QED
      BY <1>6, <2>1, <2>2, <2>3 DEF Seen
  <1>8. /\ stage' \in [Requests -> Stages] /\ body' \in [Requests -> Payloads \cup {None}]
        /\ seen' \in [Requests -> Seen]
    BY <1>2, <1>4, <1>7 DEF Stages
  <1>9. TypeOK'
    BY <1>3, <1>8 DEF AccessInvariant, TypeOK, Exists, Stages
  <1>10. RowsBelong' /\ OneLiveChallenge' /\ IssuedWhenApproved'
    BY <1>3 DEF AccessInvariant, RowsBelong, OneLiveChallenge, IssuedWhenApproved
  <1>11. ASSUME NEW q \in Requests PROVE Knows(q)'
    <2>1. CASE q # r
      BY <2>1, <1>2, <1>3, <1>4 DEF AccessInvariant, Knows
    <2>2. CASE q = r /\ ~Accepts(b, a)
      BY <2>2, <1>2, <1>4 DEF Knows
    <2>3. CASE q = r /\ Accepts(b, a)
      <3>1. body'[r] = b /\ seen'[r].account = a
        BY <2>3, <1>2, <1>4 DEF Snapshot
      <3>2. b.op = "login" => a \in AccountIds /\ accounts[a].status = "active"
        BY <2>3, <1>6 DEF Accepts, IsActive
      <3>3. b.op = "request_password_reset" => a \in AccountIds
        BY <2>3, <1>6 DEF Accepts, IsActive
      <3>4. b.op = "reset_password" => a \in AccountIds
        <4> SUFFICES ASSUME b.op = "reset_password" PROVE a \in AccountIds
          OBVIOUS
        <4>1. challenges[b.challenge].live /\ b.challenge \in ChallengeIds
          BY <2>3, BodyType DEF Accepts
        <4>2. challenges[b.challenge].account \in AccountIds
          BY <4>1 DEF AccessInvariant, RowsBelong
        <4>3. Found(b) = {challenges[b.challenge].account} \ {None}
          BY DEF Found
        <4> QED
          BY <1>2, <4>2, <4>3
      <3>5. ASSUME b.op = "create_member_account", a # None
            PROVE  /\ ~seen'[r].wallet
                   /\ accounts[a].status # "none"
                   /\ accounts[a].member = b.member
                   /\ accounts[a].status # "active"
        <4>1. Found(b) = OfMember(b.member)
          BY <3>5 DEF Found
        <4>2. accounts[a].status # "none" /\ accounts[a].member = b.member
          BY <4>1, <1>2, <3>5 DEF OfMember, Exists
        <4>3. accounts[a].status # "active"
          BY <2>3, <3>5 DEF Accepts, Claimable, IsActive
        <4>4. ~accounts[a].wallet
          BY <4>3, <3>5, <1>6 DEF AccessInvariant, RowsBelong
        <4>5. seen'[r].wallet = accounts[a].wallet
          BY <2>3, <1>2, <1>4, <3>5 DEF Snapshot
        <4> QED
          BY <4>2, <4>3, <4>4, <4>5
      <3> QED
        BY <2>3, <3>1, <3>2, <3>3, <3>4, <3>5, <1>3 DEF Knows
    <2> QED
      BY <2>1, <2>2, <2>3
  <1> QED
    BY <1>3, <1>9, <1>10, <1>11, SameCodes DEF AccessInvariant

-----------------------------------------------------------------------------
(* Sessions and passwords *)

\* What a served request knows of its account.
LEMMA ServedAccount ==
    ASSUME AccessInvariant, NEW r \in Requests, stage[r] = "open"
    PROVE  /\ body[r] \in Payloads
           /\ body[r].op \in {"login", "request_password_reset", "reset_password"} =>
                seen[r].account \in AccountIds
           /\ body[r].op = "login" => accounts[seen[r].account].status = "active"
           /\ seen[r].account \in AccountIds \cup {None}
           /\ seen[r].password \in Requests \cup {None}
  BY DEF AccessInvariant, Knows, TypeOK, Seen

\* A new session of an active account.
LEMMA OpenSessionKeeps ==
    ASSUME AccessInvariant, NEW a \in AccountIds, NEW pw \in Requests \cup {None},
           OpenSession(a, pw)
    PROVE  /\ sessions' \in [SessionIds -> Sessions]
           /\ \A s \in SessionIds : sessions[s].live => sessions'[s] = sessions[s]
           /\ \A s \in SessionIds :
                sessions'[s].live => sessions[s].live \/ sessions'[s].account = a
  <1>1. PICK s \in SessionIds :
          /\ sessions[s].account = None
          /\ sessions' = [sessions EXCEPT ![s] =
                            [account |-> a, password |-> pw, live |-> TRUE]]
    BY DEF OpenSession
  <1>2. sessions \in [SessionIds -> Sessions]
    BY DEF AccessInvariant, TypeOK
  <1>3. [account |-> a, password |-> pw, live |-> TRUE] \in Sessions
    BY DEF Sessions
  <1>4. ~sessions[s].live
    BY <1>1 DEF AccessInvariant, RowsBelong
  <1> QED
    BY <1>1, <1>2, <1>3, <1>4

\* A login that creates a session or is refused preserves the invariant.
LEMMA LoginKeeps ==
    ASSUME AccessInvariant, NEW r \in Requests, login(r)
    PROVE  AccessInvariant'
  <1> DEFINE a == seen[r].account
             pw == seen[r].password
  <1>1. /\ a \in AccountIds /\ pw \in Requests \cup {None}
        /\ accounts[a].status = "active"
    BY ServedAccount DEF login, Serves
  <1>2. OpenSession(a, pw) /\ End(r, "done")
        /\ UNCHANGED <<accounts, challenges, codes, codeRequests, planned>>
    BY DEF login
  <1> HIDE DEF a, pw
  <1>3. /\ sessions' \in [SessionIds -> Sessions]
        /\ \A s \in SessionIds : sessions[s].live => sessions'[s] = sessions[s]
        /\ \A s \in SessionIds :
             sessions'[s].live => sessions[s].live \/ sessions'[s].account = a
    BY <1>1, <1>2, OpenSessionKeeps
  <1>4. RowsBelong'
    BY <1>1, <1>2, <1>3 DEF AccessInvariant, RowsBelong
  <1>5. OneLiveChallenge' /\ IssuedWhenApproved'
    BY <1>2 DEF AccessInvariant, OneLiveChallenge, IssuedWhenApproved
  <1>6. WriteKeeps
    BY <1>2, <1>3, <1>4, <1>5, SameAccounts, SameCodes DEF AccessInvariant, TypeOK, WriteKeeps
  <1> QED
    BY <1>2, <1>6, WriteAndEnd

\* Sessions that end and nothing else of them.
SessionsEnd ==
    /\ sessions' \in [SessionIds -> Sessions]
    /\ \A s \in SessionIds : sessions'[s].live =>
         sessions[s].live /\ sessions'[s].account = sessions[s].account
           /\ sessions'[s].password = sessions[s].password

\* Clearing one session's live flag only ends sessions.
LEMMA EndOneSession ==
    ASSUME AccessInvariant, NEW s \in SessionIds,
           sessions' = [sessions EXCEPT ![s].live = FALSE]
    PROVE  SessionsEnd
  <1>1. sessions \in [SessionIds -> Sessions]
    BY DEF AccessInvariant, TypeOK
  <1>2. [sessions[s] EXCEPT !.live = FALSE] \in Sessions
    BY <1>1 DEF Sessions
  <1>3. sessions' = [sessions EXCEPT ![s] = [sessions[s] EXCEPT !.live = FALSE]]
    BY <1>1
  <1>4. sessions' \in [SessionIds -> Sessions]
    BY <1>1, <1>2, <1>3
  <1>5. ~sessions'[s].live /\ \A t \in SessionIds \ {s} : sessions'[t] = sessions[t]
    BY <1>1, <1>3 DEF Sessions
  <1> QED
    BY <1>4, <1>5 DEF SessionsEnd

\* A logout preserves the invariant.
LEMMA LogoutKeeps ==
    ASSUME AccessInvariant, NEW r \in Requests, logout(r)
    PROVE  AccessInvariant'
  <1>1. body[r].session \in SessionIds
    BY ServedAccount, BodyType DEF logout, Serves
  <1>2. /\ sessions' = [sessions EXCEPT ![body[r].session].live = FALSE]
        /\ End(r, "done")
        /\ UNCHANGED <<accounts, challenges, codes, codeRequests, planned>>
    BY DEF logout
  <1>3. SessionsEnd
    BY <1>1, <1>2, EndOneSession
  <1>4. RowsBelong'
    BY <1>2, <1>3 DEF AccessInvariant, RowsBelong, SessionsEnd
  <1>5. OneLiveChallenge' /\ IssuedWhenApproved'
    BY <1>2 DEF AccessInvariant, OneLiveChallenge, IssuedWhenApproved
  <1>6. WriteKeeps
    BY <1>2, <1>3, <1>4, <1>5, SameAccounts, SameCodes
    DEF AccessInvariant, TypeOK, WriteKeeps, SessionsEnd
  <1> QED
    BY <1>2, <1>6, WriteAndEnd

\* The bulk revocation only ends sessions, and ends every session of its
\* account.
LEMMA RevokeAll ==
    ASSUME AccessInvariant, NEW a \in AccountIds,
           sessions' = revoke_all_sessions_for_account(a)
    PROVE  /\ SessionsEnd
           /\ \A s \in SessionIds : sessions'[s].live => sessions[s].account # a
  <1>1. ASSUME NEW s \in SessionIds
        PROVE  /\ sessions'[s] \in Sessions
               /\ sessions'[s].live =>
                    /\ sessions[s].live /\ sessions'[s].account = sessions[s].account
                    /\ sessions'[s].password = sessions[s].password
                    /\ sessions[s].account # a
    <2>1. sessions[s] \in Sessions
      BY DEF AccessInvariant, TypeOK
    <2>2. CASE sessions[s].account = a
      BY <2>1, <2>2 DEF revoke_all_sessions_for_account, Sessions
    <2>3. CASE sessions[s].account # a
      BY <2>1, <2>3 DEF revoke_all_sessions_for_account
    <2> QED
      BY <2>2, <2>3
  <1>2. sessions' = [s \in SessionIds |-> sessions'[s]]
    BY DEF revoke_all_sessions_for_account
  <1> QED
    BY <1>1, <1>2 DEF SessionsEnd

\* The links of an account are consumed, those of others stay.
LEMMA ConsumeAll ==
    ASSUME AccessInvariant, NEW a \in AccountIds
    PROVE  LET next == consume_active_reset_challenges_for_account(a) IN
           /\ next \in [ChallengeIds -> Challenges]
           /\ \A c \in ChallengeIds : next[c].live =>
                challenges[c].live /\ next[c].account = challenges[c].account
                  /\ challenges[c].account # a
  <1> DEFINE next == consume_active_reset_challenges_for_account(a)
  <1>1. ASSUME NEW c \in ChallengeIds
        PROVE  /\ next[c] \in Challenges
               /\ next[c].live =>
                    challenges[c].live /\ next[c].account = challenges[c].account
                      /\ challenges[c].account # a
    <2>1. challenges[c] \in Challenges
      BY DEF AccessInvariant, TypeOK
    <2>2. CASE challenges[c].account = a
      BY <2>1, <2>2 DEF consume_active_reset_challenges_for_account, Challenges
    <2>3. CASE challenges[c].account # a
      BY <2>1, <2>3 DEF consume_active_reset_challenges_for_account
    <2> QED
      BY <2>2, <2>3
  <1>2. next = [c \in ChallengeIds |-> next[c]]
    BY DEF consume_active_reset_challenges_for_account
  <1> HIDE DEF next
  <1>3. next \in [ChallengeIds -> Challenges]
    BY <1>1, <1>2
  <1> QED
    BY <1>1, <1>3 DEF next

\* A new reset challenge, which takes the account's earlier ones out of
\* force, preserves the invariant.
LEMMA RequestResetKeeps ==
    ASSUME AccessInvariant, NEW r \in Requests, request_password_reset(r)
    PROVE  AccessInvariant'
  <1> DEFINE a == seen[r].account
             next == consume_active_reset_challenges_for_account(a)
  <1>1. a \in AccountIds
    BY ServedAccount DEF request_password_reset, Serves
  <1>2. PICK c \in ChallengeIds :
          /\ challenges[c].account = None
          /\ challenges' = [next EXCEPT ![c] = [account |-> a, live |-> TRUE]]
    BY DEF request_password_reset
  <1>3. End(r, "done") /\ UNCHANGED <<accounts, sessions, codes, codeRequests, planned>>
    BY DEF request_password_reset
  <1> HIDE DEF a
  <1>4. /\ next \in [ChallengeIds -> Challenges]
        /\ \A d \in ChallengeIds : next[d].live =>
             challenges[d].live /\ next[d].account = challenges[d].account
               /\ challenges[d].account # a
    BY <1>1, ConsumeAll
  <1> HIDE DEF next
  <1>5. [account |-> a, live |-> TRUE] \in Challenges
    BY <1>1 DEF Challenges
  <1>6. challenges' \in [ChallengeIds -> Challenges]
    BY <1>2, <1>4, <1>5
  <1>7. /\ challenges'[c].account = a
        /\ \A d \in ChallengeIds \ {c} : challenges'[d] = next[d]
    BY <1>2, <1>4
  <1>8. RowsBelong'
    BY <1>1, <1>3, <1>4, <1>7 DEF AccessInvariant, RowsBelong
  <1>9. OneLiveChallenge'
    BY <1>4, <1>7 DEF AccessInvariant, OneLiveChallenge
  <1>10. IssuedWhenApproved'
    BY <1>3 DEF AccessInvariant, IssuedWhenApproved
  <1>11. WriteKeeps
    BY <1>3, <1>6, <1>8, <1>9, <1>10, SameAccounts, SameCodes
    DEF AccessInvariant, TypeOK, WriteKeeps
  <1> QED
    BY <1>3, <1>11, WriteAndEnd

\* A password reset (password, sessions and challenge in one commit)
\* preserves the invariant.
LEMMA ResetKeeps ==
    ASSUME AccessInvariant, NEW r \in Requests, reset_password(r)
    PROVE  AccessInvariant'
  <1> DEFINE a == seen[r].account
             next == consume_active_reset_challenges_for_account(a)
  <1>1. a \in AccountIds
    BY ServedAccount DEF reset_password, Serves
  <1>2. /\ accounts' = [accounts EXCEPT ![a].password = r]
        /\ challenges' = next
        /\ sessions' = revoke_all_sessions_for_account(a)
        /\ End(r, "done")
        /\ UNCHANGED <<codes, codeRequests, planned>>
    BY DEF reset_password
  <1> HIDE DEF a
  <1>3. accounts \in [AccountIds -> Accounts]
    BY DEF AccessInvariant, TypeOK
  <1>4. [accounts[a] EXCEPT !.password = r] \in Accounts
    BY <1>1, <1>3 DEF Accounts
  <1>5. accounts' = [accounts EXCEPT ![a] = [accounts[a] EXCEPT !.password = r]]
    BY <1>1, <1>2, <1>3
  <1>6. accounts' \in [AccountIds -> Accounts]
    BY <1>3, <1>4, <1>5
  <1>7. \A b \in AccountIds : /\ accounts'[b].status = accounts[b].status
                              /\ accounts'[b].email = accounts[b].email
                              /\ accounts'[b].member = accounts[b].member
                              /\ accounts'[b].wallet = accounts[b].wallet
    BY <1>1, <1>3, <1>5 DEF Accounts
  <1>8. AccountsStay
    BY <1>7 DEF AccountsStay
  <1>9. \A x, y \in AccountIds :
          accounts'[x].status # "none" /\ accounts'[y].status # "none"
            /\ accounts'[x].email = accounts'[y].email => x = y
    BY <1>7 DEF AccessInvariant, TypeOK, Exists
  <1>10. SessionsEnd
    BY <1>1, <1>2, RevokeAll
  <1>11. /\ challenges' \in [ChallengeIds -> Challenges]
         /\ \A c \in ChallengeIds : challenges'[c].live =>
              challenges[c].live /\ challenges'[c].account = challenges[c].account
    BY <1>1, <1>2, ConsumeAll
  <1>12. RowsBelong'
    BY <1>7, <1>10, <1>11 DEF AccessInvariant, RowsBelong, SessionsEnd
  <1>13. OneLiveChallenge'
    BY <1>11 DEF AccessInvariant, OneLiveChallenge
  <1>14. CodesMatchAccounts'
    BY <1>2, <1>7 DEF AccessInvariant, CodesMatchAccounts, OfMember, IsActive, Exists
  <1>15. IssuedWhenApproved'
    BY <1>2 DEF AccessInvariant, IssuedWhenApproved
  <1>16. WriteKeeps
    BY <1>2, <1>6, <1>8, <1>9, <1>10, <1>11, <1>12, <1>13, <1>14, <1>15
    DEF AccessInvariant, TypeOK, WriteKeeps, SessionsEnd
  <1> QED
    BY <1>2, <1>16, WriteAndEnd

-----------------------------------------------------------------------------
(* Accounts *)

\* Whom a claim is for: a row that is new or waits for its member, under an address that
\* is free.
MayClaim(r, a) ==
    /\ body[r].email \in Emails \cup {None} /\ body[r].member \in Members \cup {None}
    /\ accounts[a].status # "active"
    /\ accounts[a].status # "none" => accounts[a].member = body[r].member
    /\ ~EmailTaken(body[r].email, a)

\* An account made or revived by a registration keeps its type, its e-mail
\* unlike any other, and old sessions dead.
LEMMA ClaimKeeps ==
    ASSUME AccessInvariant, NEW r \in Requests, NEW a \in AccountIds, MayClaim(r, a), Claim(r, a)
    PROVE  /\ accounts' \in [AccountIds -> Accounts]
           /\ AccountsStay
           /\ \A x, y \in AccountIds :
                accounts'[x].status # "none" /\ accounts'[y].status # "none"
                  /\ accounts'[x].email = accounts'[y].email => x = y
           /\ \A s \in SessionIds : sessions[s].live => sessions[s].account # a
           /\ accounts'[a].status = "active" /\ accounts'[a].wallet
           /\ accounts'[a].member = body[r].member
           /\ \A b \in AccountIds \ {a} : accounts'[b] = accounts[b]
  <1> DEFINE row == [status |-> "active", email |-> body[r].email, member |-> body[r].member,
                     password |-> r, wallet |-> TRUE]
  <1>1. accounts \in [AccountIds -> Accounts]
    BY DEF AccessInvariant, TypeOK
  <1>2. row \in Accounts
    BY DEF MayClaim, Accounts
  <1>3. accounts' = [accounts EXCEPT ![a] = row]
    BY DEF Claim
  <1>4. accounts' \in [AccountIds -> Accounts]
    BY <1>1, <1>2, <1>3
  <1>5. /\ accounts'[a] = row
        /\ \A b \in AccountIds \ {a} : accounts'[b] = accounts[b]
    BY <1>1, <1>3
  <1>6. AccountsStay
    BY <1>5 DEF AccountsStay, MayClaim
  <1>7. \A s \in SessionIds : sessions[s].live => sessions[s].account # a
    BY DEF AccessInvariant, RowsBelong, MayClaim
  <1>8. \A x \in AccountIds : accounts[x].status # "none" /\ accounts[x].email = body[r].email
          => x = a
    BY DEF MayClaim, EmailTaken, ByEmail, Exists
  <1>9. \A x, y \in AccountIds :
          accounts'[x].status # "none" /\ accounts'[y].status # "none"
            /\ accounts'[x].email = accounts'[y].email => x = y
    BY <1>5, <1>8 DEF AccessInvariant, TypeOK, Exists
  <1> QED
    BY <1>4, <1>5, <1>6, <1>7, <1>9

\* The writes of create_member_account, when it commits.
Joined(r, a) ==
    /\ Claim(r, a)
    /\ codes' = [codes EXCEPT ![body[r].member] = "used"]
    /\ OpenSession(a, r)
    /\ End(r, "done")
    /\ UNCHANGED <<challenges, codeRequests, planned>>

\* The registration of a member, with the account it claims and the code it
\* redeems, preserves the invariant.
LEMMA JoinedKeeps ==
    ASSUME AccessInvariant, NEW r \in Requests, NEW a \in AccountIds,
           body[r].member \in Members, MayClaim(r, a), Joined(r, a)
    PROVE  AccessInvariant'
  <1> DEFINE m == body[r].member
  <1>1. /\ accounts' \in [AccountIds -> Accounts]
        /\ AccountsStay
        /\ \A x, y \in AccountIds :
             accounts'[x].status # "none" /\ accounts'[y].status # "none"
               /\ accounts'[x].email = accounts'[y].email => x = y
        /\ accounts'[a].status = "active" /\ accounts'[a].wallet
        /\ accounts'[a].member = m
        /\ \A b \in AccountIds \ {a} : accounts'[b] = accounts[b]
    BY ClaimKeeps DEF Joined
  <1>2. /\ sessions' \in [SessionIds -> Sessions]
        /\ \A s \in SessionIds : sessions[s].live => sessions'[s] = sessions[s]
        /\ \A s \in SessionIds :
             sessions'[s].live => sessions[s].live \/ sessions'[s].account = a
    BY OpenSessionKeeps DEF Joined
  <1>3. /\ codes \in [Members -> CodeStatus]
        /\ codes' = [codes EXCEPT ![m] = "used"]
        /\ UNCHANGED <<challenges, codeRequests, planned>>
    BY DEF Joined, AccessInvariant, TypeOK
  <1> HIDE DEF m
  <1>m. m \in Members
    BY DEF m
  <1>4. codes' \in [Members -> CodeStatus] /\ codes'[m] = "used"
          /\ \A n \in Members \ {m} : codes'[n] = codes[n]
    BY <1>3, <1>m DEF CodeStatus
  <1>5. \A b \in AccountIds : accounts[b].status = "active" => accounts'[b].status = "active"
    BY <1>1 DEF AccountsStay
  <1>6. RowsBelong'
    <2>1. \A s \in SessionIds : sessions'[s].live =>
            sessions'[s].account \in AccountIds
              /\ accounts'[sessions'[s].account].status = "active"
      BY <1>1, <1>2, <1>5 DEF AccessInvariant, RowsBelong
    <2>2. \A c \in ChallengeIds : challenges'[c].live => challenges'[c].account \in AccountIds
      BY <1>3 DEF AccessInvariant, RowsBelong
    <2>3. \A b \in AccountIds : accounts'[b].wallet => accounts'[b].status = "active"
      BY <1>1 DEF AccessInvariant, RowsBelong
    <2> QED
      BY <2>1, <2>2, <2>3 DEF RowsBelong
  <1>7. OneLiveChallenge' /\ IssuedWhenApproved'
    BY <1>3 DEF AccessInvariant, OneLiveChallenge, IssuedWhenApproved
  <1>8. CodesMatchAccounts'
    <2>1. ASSUME NEW n \in Members
          PROVE  codes'[n] = "used" <=>
                   \E b \in AccountIds : /\ accounts'[b].status = "active"
                                         /\ accounts'[b].member = n /\ accounts'[b].wallet
      <3>1. codes[n] = "used" <=>
              \E b \in AccountIds : /\ accounts[b].status = "active"
                                    /\ accounts[b].member = n /\ accounts[b].wallet
        BY DEF AccessInvariant, CodesMatchAccounts, OfMember, IsActive, Exists
      <3>2. CASE n = m
        BY <3>2, <1>1, <1>4
      <3>3. CASE n # m
        <4>1. accounts[a].status # "active"
          BY DEF MayClaim
        <4> QED
          BY <3>1, <3>3, <4>1, <1>1, <1>4
      <3> QED
        BY <3>2, <3>3
    <2> QED
      BY <2>1 DEF CodesMatchAccounts, OfMember, IsActive, Exists
  <1>9. WriteKeeps
    BY <1>1, <1>2, <1>3, <1>4, <1>6, <1>7, <1>8 DEF AccessInvariant, TypeOK, WriteKeeps
  <1> QED
    BY <1>9, WriteAndEnd DEF Joined

\* What create_member_account may still claim when it writes.
LEMMA MemberMayClaim ==
    ASSUME AccessInvariant, NEW r \in Requests, Serves(r, "create_member_account"),
           NEW a \in AccountIds,
           IF seen[r].account = None THEN ~Exists(a) ELSE a = seen[r].account,
           ~EmailTaken(body[r].email, a), ~WalletClash(a, r)
    PROVE  MayClaim(r, a) /\ body[r].member \in Members
  <1>1. body[r].member \in Members /\ body[r].email \in Emails \cup {None}
    BY ServedAccount, BodyType DEF Serves
  <1>2. accounts[a].status # "active"
          /\ (accounts[a].status # "none" => accounts[a].member = body[r].member)
    <2>1. CASE seen[r].account = None
      BY <2>1 DEF Exists
    <2>2. CASE seen[r].account # None
      <3>1. /\ ~seen[r].wallet
            /\ accounts[a].member = body[r].member
            /\ accounts[a].status = "active" => accounts[a].wallet
        BY <2>2 DEF AccessInvariant, Knows, Serves
      <3> QED
        BY <3>1 DEF WalletClash
    <2> QED
      BY <2>1, <2>2
  <1> QED
    BY <1>1, <1>2 DEF MayClaim

\* Every way create_member_account can end.
LEMMA MemberCases ==
    ASSUME NEW r \in Requests, create_member_account(r)
    PROVE  \/ Rollback(r, "aborted") \/ Rollback(r, "refused")
           \/ \E a \in AccountIds :
                /\ IF seen[r].account = None THEN ~Exists(a) ELSE a = seen[r].account
                /\ ~EmailTaken(body[r].email, a) /\ ~WalletClash(a, r)
                /\ Joined(r, a)
  BY DEF create_member_account, Joined

\* A family member's registration preserves the invariant, registered or
\* refused.
LEMMA CreateMemberKeeps ==
    ASSUME AccessInvariant, NEW r \in Requests, create_member_account(r)
    PROVE  AccessInvariant'
  <1>1. CASE Rollback(r, "aborted") \/ Rollback(r, "refused")
    BY <1>1, RollbackKeeps
  <1>2. ASSUME NEW a \in AccountIds,
               IF seen[r].account = None THEN ~Exists(a) ELSE a = seen[r].account,
               ~EmailTaken(body[r].email, a), ~WalletClash(a, r), Joined(r, a)
        PROVE  AccessInvariant'
    <2>1. Serves(r, "create_member_account")
      BY DEF create_member_account
    <2> QED
      BY <1>2, <2>1, MemberMayClaim, JoinedKeeps
  <1> QED
    BY <1>1, <1>2, MemberCases

\* A registration by access code preserves the invariant, registered or
\* refused.
LEMMA CreateAccountKeeps ==
    ASSUME AccessInvariant, NEW r \in Requests, create_account(r)
    PROVE  AccessInvariant'
  <1>1. PICK a \in AccountIds :
          /\ ~Exists(a)
          /\ IF EmailTaken(body[r].email, a) THEN Rollback(r, "aborted")
             ELSE /\ Claim(r, a)
                  /\ End(r, "done")
                  /\ UNCHANGED <<sessions, challenges, codes, codeRequests, planned>>
    BY DEF create_account
  <1>2. body[r].member = None /\ body[r].email \in Emails \cup {None}
    BY ServedAccount, BodyType DEF create_account, Serves
  <1>3. CASE EmailTaken(body[r].email, a)
    BY <1>1, <1>3, RollbackKeeps
  <1>4. CASE ~EmailTaken(body[r].email, a)
    <2>1. MayClaim(r, a) /\ Claim(r, a) /\ End(r, "done")
            /\ UNCHANGED <<sessions, challenges, codes, codeRequests, planned>>
      BY <1>1, <1>2, <1>4 DEF MayClaim, Exists
    <2>2. /\ accounts' \in [AccountIds -> Accounts]
          /\ AccountsStay
          /\ \A x, y \in AccountIds :
               accounts'[x].status # "none" /\ accounts'[y].status # "none"
                 /\ accounts'[x].email = accounts'[y].email => x = y
          /\ accounts'[a].status = "active" /\ accounts'[a].wallet
          /\ accounts'[a].member = None
          /\ \A b \in AccountIds \ {a} : accounts'[b] = accounts[b]
      BY <2>1, <1>2, ClaimKeeps
    <2>3. RowsBelong'
      BY <2>1, <2>2 DEF AccessInvariant, RowsBelong, AccountsStay
    <2>4. OneLiveChallenge' /\ IssuedWhenApproved'
      BY <2>1 DEF AccessInvariant, OneLiveChallenge, IssuedWhenApproved
    <2>5. CodesMatchAccounts'
      <3>1. ASSUME NEW n \in Members
            PROVE  codes'[n] = "used" <=>
                     \E b \in AccountIds : /\ accounts'[b].status = "active"
                                           /\ accounts'[b].member = n /\ accounts'[b].wallet
        <4>1. codes[n] = "used" <=>
                \E b \in AccountIds : /\ accounts[b].status = "active"
                                      /\ accounts[b].member = n /\ accounts[b].wallet
          BY DEF AccessInvariant, CodesMatchAccounts, OfMember, IsActive, Exists
        <4>2. accounts[a].status # "active"
          BY <2>1 DEF MayClaim
        <4> QED
          BY <4>1, <4>2, <2>1, <2>2
      <3> QED
        BY <3>1 DEF CodesMatchAccounts, OfMember, IsActive, Exists
    <2>6. WriteKeeps
      BY <2>1, <2>2, <2>3, <2>4, <2>5 DEF AccessInvariant, TypeOK, WriteKeeps
    <2> QED
      BY <2>1, <2>6, WriteAndEnd
  <1> QED
    BY <1>3, <1>4

-----------------------------------------------------------------------------
(* Access codes *)

\* One row of code_requests gets a new status, and a member when it is approved.
LEMMA WriteCodeRequest ==
    ASSUME AccessInvariant, NEW q \in CodeRequestIds, NEW row \in CodeRequests,
           row.status = "approved" <=> row.issued # {},
           codeRequests' = [codeRequests EXCEPT ![q] = row]
    PROVE  codeRequests' \in [CodeRequestIds -> CodeRequests] /\ IssuedWhenApproved'
  BY DEF AccessInvariant, TypeOK, IssuedWhenApproved

\* A request for an access code preserves the invariant.
LEMMA RequestCodeKeeps ==
    ASSUME AccessInvariant, NEW r \in Requests, request_access_code(r)
    PROVE  AccessInvariant'
  <1>1. PICK q \in CodeRequestIds :
          codeRequests' = [codeRequests EXCEPT ![q] =
            [status |-> "pending", email |-> body[r].email, issued |-> {}]]
    BY DEF request_access_code
  <1>2. End(r, "done") /\ UNCHANGED <<accounts, sessions, challenges, codes, planned>>
    BY DEF request_access_code
  <1>3. PICK e \in Emails \cup {None} : e = body[r].email
    BY ServedAccount, BodyType DEF request_access_code, Serves
  <1> DEFINE row == [status |-> "pending", email |-> e, issued |-> {}]
  <1>5. row \in CodeRequests /\ row.status = "pending" /\ row.issued = {}
    BY DEF CodeRequests
  <1>7. codeRequests' = [codeRequests EXCEPT ![q] = row]
    BY <1>1, <1>3
  <1> HIDE DEF row
  <1>8. codeRequests' \in [CodeRequestIds -> CodeRequests] /\ IssuedWhenApproved'
    BY <1>5, <1>7, WriteCodeRequest
  <1>9. RowsBelong' /\ OneLiveChallenge'
    BY <1>2 DEF AccessInvariant, RowsBelong, OneLiveChallenge
  <1>10. WriteKeeps
    BY <1>2, <1>8, <1>9, SameAccounts, SameCodes DEF AccessInvariant, TypeOK, WriteKeeps
  <1> QED
    BY <1>2, <1>10, WriteAndEnd

\* The rejection of a code request preserves the invariant.
LEMMA RejectKeeps ==
    ASSUME AccessInvariant, NEW r \in Requests, reject_code_request(r)
    PROVE  AccessInvariant'
  <1> DEFINE q == body[r].codeRequest
             row == [codeRequests[q] EXCEPT !.status = "rejected"]
  <1>1. q \in CodeRequestIds
    BY ServedAccount, BodyType DEF reject_code_request, Serves
  <1>2. CASE ~Rejectable(q)
    BY <1>2, RollbackKeeps DEF reject_code_request
  <1>3. CASE Rejectable(q)
    <2>1. /\ codeRequests' = [codeRequests EXCEPT ![q].status = "rejected"]
          /\ End(r, "done")
          /\ UNCHANGED <<accounts, sessions, challenges, codes, planned>>
      BY <1>3 DEF reject_code_request
    <2> HIDE DEF q
    <2>2. codeRequests \in [CodeRequestIds -> CodeRequests]
      BY DEF AccessInvariant, TypeOK
    <2>3. row \in CodeRequests /\ row.status = "rejected" /\ row.issued = codeRequests[q].issued
      BY <1>1, <2>2 DEF CodeRequests
    <2>4. codeRequests[q].issued = {}
      BY <1>1, <1>3 DEF AccessInvariant, IssuedWhenApproved, Rejectable
    <2>5. codeRequests' = [codeRequests EXCEPT ![q] = row]
      BY <1>1, <2>1, <2>2
    <2> HIDE DEF row
    <2>6. codeRequests' \in [CodeRequestIds -> CodeRequests] /\ IssuedWhenApproved'
      BY <1>1, <2>3, <2>4, <2>5, WriteCodeRequest
    <2>7. RowsBelong' /\ OneLiveChallenge'
      BY <2>1 DEF AccessInvariant, RowsBelong, OneLiveChallenge
    <2>8. WriteKeeps
      BY <2>1, <2>6, <2>7, SameAccounts, SameCodes DEF AccessInvariant, TypeOK, WriteKeeps
    <2> QED
      BY <2>1, <2>8, WriteAndEnd
  <1> QED
    BY <1>2, <1>3

\* The approval of a code request, which issues the code, preserves the
\* invariant.
LEMMA ApproveKeeps ==
    ASSUME AccessInvariant, NEW r \in Requests, approve_code_request(r)
    PROVE  AccessInvariant'
  <1> DEFINE q == body[r].codeRequest
  <1>1. q \in CodeRequestIds
    BY ServedAccount, BodyType DEF approve_code_request, Serves
  <1>2. PICK m \in Members :
          /\ codes[m] = "none"
          /\ codes' = [codes EXCEPT ![m] = "active"]
          /\ codeRequests' = [codeRequests EXCEPT ![q] =
               [status |-> "approved", email |-> codeRequests[q].email,
                issued |-> codeRequests[q].issued \cup {m}]]
    BY DEF approve_code_request
  <1>3. End(r, "done") /\ UNCHANGED <<accounts, sessions, challenges, planned>>
    BY DEF approve_code_request
  <1> HIDE DEF q
  <1>4. codeRequests \in [CodeRequestIds -> CodeRequests] /\ codes \in [Members -> CodeStatus]
    BY DEF AccessInvariant, TypeOK
  <1>5. PICK S \in SUBSET Members : S = codeRequests[q].issued \cup {m}
    BY <1>1, <1>4 DEF CodeRequests
  <1> DEFINE row == [status |-> "approved", email |-> codeRequests[q].email, issued |-> S]
  <1>6. row \in CodeRequests /\ row.status = "approved" /\ row.issued = S
    BY <1>1, <1>4 DEF CodeRequests
  <1>7. S # {}
    BY <1>5
  <1>8. codeRequests' = [codeRequests EXCEPT ![q] = row]
    BY <1>2, <1>5
  <1> HIDE DEF row
  <1>9. codeRequests' \in [CodeRequestIds -> CodeRequests] /\ IssuedWhenApproved'
    BY <1>1, <1>6, <1>7, <1>8, WriteCodeRequest
  <1>10. codes' \in [Members -> CodeStatus]
           /\ \A n \in Members : codes'[n] = "used" <=> codes[n] = "used"
    BY <1>2, <1>4 DEF CodeStatus
  <1>11. CodesMatchAccounts'
    BY <1>3, <1>10 DEF AccessInvariant, CodesMatchAccounts, OfMember, IsActive, Exists
  <1>12. RowsBelong' /\ OneLiveChallenge'
    BY <1>3 DEF AccessInvariant, RowsBelong, OneLiveChallenge
  <1>13. WriteKeeps
    BY <1>3, <1>9, <1>10, <1>11, <1>12, SameAccounts DEF AccessInvariant, TypeOK, WriteKeeps
  <1> QED
    BY <1>3, <1>13, WriteAndEnd

-----------------------------------------------------------------------------
(* The environment *)

LEMMA RequestsUndisturbed ==
    ASSUME AccessInvariant, UNCHANGED <<accounts, stage, body, seen>>
    PROVE  \A q \in Requests : Knows(q)'
  BY DEF AccessInvariant, Knows

\* Time running out on a session or a challenge, or a change of plan,
\* preserves the invariant.
LEMMA ExpiryKeeps ==
    ASSUME AccessInvariant,
           \/ \E s \in SessionIds : ExpireSession(s)
           \/ \E c \in ChallengeIds : ExpireChallenge(c)
           \/ \E m \in Members : PlanChanges(m)
    PROVE  AccessInvariant'
  <1>1. ASSUME NEW s \in SessionIds, ExpireSession(s) PROVE AccessInvariant'
    <2>1. SessionsEnd
      BY <1>1, EndOneSession DEF ExpireSession
    <2>2. UNCHANGED <<accounts, challenges, codes, codeRequests, planned, stage, body, seen>>
      BY <1>1 DEF ExpireSession
    <2>3. TypeOK'
      BY <2>1, <2>2 DEF AccessInvariant, TypeOK, Exists, SessionsEnd
    <2>4. RowsBelong' /\ OneLiveChallenge' /\ IssuedWhenApproved'
      BY <2>1, <2>2
      DEF AccessInvariant, RowsBelong, OneLiveChallenge, IssuedWhenApproved, SessionsEnd
    <2> QED
      BY <2>2, <2>3, <2>4, SameCodes, RequestsUndisturbed DEF AccessInvariant
  <1>2. ASSUME NEW c \in ChallengeIds, ExpireChallenge(c) PROVE AccessInvariant'
    <2>1. challenges' = [challenges EXCEPT ![c].live = FALSE]
            /\ UNCHANGED <<accounts, sessions, codes, codeRequests, planned, stage, body, seen>>
      BY <1>2 DEF ExpireChallenge
    <2>2. challenges \in [ChallengeIds -> Challenges]
      BY DEF AccessInvariant, TypeOK
    <2>3. [challenges[c] EXCEPT !.live = FALSE] \in Challenges
      BY <2>2 DEF Challenges
    <2>4. challenges' = [challenges EXCEPT ![c] = [challenges[c] EXCEPT !.live = FALSE]]
      BY <2>1, <2>2
    <2>5. challenges' \in [ChallengeIds -> Challenges]
      BY <2>2, <2>3, <2>4
    <2>6. ~challenges'[c].live /\ \A d \in ChallengeIds \ {c} : challenges'[d] = challenges[d]
      BY <2>2, <2>4 DEF Challenges
    <2>7. TypeOK'
      BY <2>1, <2>5 DEF AccessInvariant, TypeOK, Exists
    <2>8. RowsBelong' /\ OneLiveChallenge' /\ IssuedWhenApproved'
      BY <2>1, <2>6 DEF AccessInvariant, RowsBelong, OneLiveChallenge, IssuedWhenApproved
    <2> QED
      BY <2>1, <2>7, <2>8, SameCodes, RequestsUndisturbed DEF AccessInvariant
  <1>3. ASSUME NEW m \in Members, PlanChanges(m) PROVE AccessInvariant'
    <2>1. planned' \subseteq Members
            /\ UNCHANGED <<accounts, sessions, challenges, codes, codeRequests, stage, body, seen>>
      BY <1>3 DEF PlanChanges, AccessInvariant, TypeOK
    <2>2. TypeOK'
      BY <2>1 DEF AccessInvariant, TypeOK, Exists
    <2>3. RowsBelong' /\ OneLiveChallenge' /\ IssuedWhenApproved'
      BY <2>1 DEF AccessInvariant, RowsBelong, OneLiveChallenge, IssuedWhenApproved
    <2> QED
      BY <2>1, <2>2, <2>3, SameCodes, RequestsUndisturbed DEF AccessInvariant
  <1> QED
    BY <1>1, <1>2, <1>3

-----------------------------------------------------------------------------
(* Theorems *)

LEMMA StutterKeeps ==
    ASSUME AccessInvariant, UNCHANGED vars
    PROVE  AccessInvariant'
  <1>1. UNCHANGED <<accounts, sessions, challenges, codes, codeRequests, planned,
                    stage, body, seen>>
    BY DEF vars
  <1>2. TypeOK'
    BY <1>1 DEF AccessInvariant, TypeOK, Exists
  <1>3. RowsBelong' /\ OneLiveChallenge' /\ IssuedWhenApproved'
    BY <1>1 DEF AccessInvariant, RowsBelong, OneLiveChallenge, IssuedWhenApproved
  <1> QED
    BY <1>1, <1>2, <1>3, SameCodes, RequestsUndisturbed DEF AccessInvariant

\* Every step of the component, and a stutter, preserves the invariant.
LEMMA NextKeeps ==
    ASSUME AccessInvariant, [Next]_vars
    PROVE  AccessInvariant'
  <1>1. ASSUME NEW r \in Requests,
               \/ Begin(r) \/ login(r) \/ logout(r)
               \/ request_password_reset(r) \/ reset_password(r)
               \/ create_member_account(r) \/ create_account(r)
               \/ request_access_code(r) \/ approve_code_request(r) \/ reject_code_request(r)
               \/ Abort(r)
        PROVE  AccessInvariant'
    <2>1. CASE Begin(r)                   BY <2>1, BeginKeeps
    <2>2. CASE login(r)                   BY <2>2, LoginKeeps
    <2>3. CASE logout(r)                  BY <2>3, LogoutKeeps
    <2>4. CASE request_password_reset(r)  BY <2>4, RequestResetKeeps
    <2>5. CASE reset_password(r)          BY <2>5, ResetKeeps
    <2>6. CASE create_member_account(r)   BY <2>6, CreateMemberKeeps
    <2>7. CASE create_account(r)          BY <2>7, CreateAccountKeeps
    <2>8. CASE request_access_code(r)     BY <2>8, RequestCodeKeeps
    <2>9. CASE approve_code_request(r)    BY <2>9, ApproveKeeps
    <2>10. CASE reject_code_request(r)    BY <2>10, RejectKeeps
    <2>11. CASE Abort(r)                  BY <2>11, RollbackKeeps DEF Abort
    <2> QED
      BY <1>1, <2>1, <2>2, <2>3, <2>4, <2>5, <2>6, <2>7, <2>8, <2>9, <2>10, <2>11
  <1>2. CASE \/ \E s \in SessionIds : ExpireSession(s)
             \/ \E c \in ChallengeIds : ExpireChallenge(c)
             \/ \E m \in Members : PlanChanges(m)
    BY <1>2, ExpiryKeeps
  <1>3. CASE UNCHANGED vars
    BY <1>3, StutterKeeps
  <1> QED
    BY <1>1, <1>2, <1>3 DEF Next

\* The strengthened invariant holds in every reachable state.
LEMMA Invariance == Spec => []AccessInvariant
  BY InitInvariant, NextKeeps, PTL DEF Spec

\* The tables of AuthService keep their types, and no two accounts one e-mail address.
THEOREM TypeCorrect == Spec => []TypeOK
  <1>1. AccessInvariant => TypeOK
    BY DEF AccessInvariant
  <1> QED
    BY <1>1, Invariance, PTL

\* A later request for a reset ends the links of all earlier ones, and a reset ends all.
THEOREM OneLinkInForce == Spec => []OneLiveChallenge
  <1>1. AccessInvariant => OneLiveChallenge
    BY DEF AccessInvariant
  <1> QED
    BY <1>1, Invariance, PTL

\* create_member_account spends a code exactly when it leaves an active account.
THEOREM CodesAndAccounts == Spec => []CodesMatchAccounts
  <1>1. AccessInvariant => CodesMatchAccounts
    BY DEF AccessInvariant
  <1> QED
    BY <1>1, Invariance, PTL

\* approve_code_request and reject_code_request agree with the codes issued.
THEOREM CodesAndRequests == Spec => []IssuedWhenApproved
  <1>1. AccessInvariant => IssuedWhenApproved
    BY DEF AccessInvariant
  <1> QED
    BY <1>1, Invariance, PTL

\* Both, as the run checks them.
THEOREM CodesAgreeAlways == Spec => []CodesAgree
  BY CodesAndAccounts, CodesAndRequests, PTL DEF CodesAgree

-----------------------------------------------------------------------------
(* Password changes *)

NoneLeftStale == \A s \in SessionIds : sessions[s].live /\ Stale(s)' => Stale(s)

\* Open sessions go on as they are and no password changes under them.
LEMMA SessionsGoOn ==
    ASSUME AccessInvariant,
           \A s \in SessionIds : sessions[s].live /\ sessions'[s].live =>
             /\ sessions'[s].account = sessions[s].account
             /\ sessions'[s].password = sessions[s].password
             /\ accounts'[sessions[s].account].password = accounts[sessions[s].account].password
    PROVE  NoneLeftStale
  BY DEF NoneLeftStale, Stale

\* A password reset turns no live session into a stale one: it ends those of
\* the account.
LEMMA ResetRevokes ==
    ASSUME AccessInvariant, NEW r \in Requests, reset_password(r)
    PROVE  NoneLeftStale
  <1> DEFINE a == seen[r].account
  <1>1. a \in AccountIds
    BY ServedAccount DEF reset_password, Serves
  <1>2. accounts' = [accounts EXCEPT ![a].password = r]
          /\ sessions' = revoke_all_sessions_for_account(a)
    BY DEF reset_password
  <1> HIDE DEF a
  <1>3. SessionsEnd /\ \A s \in SessionIds : sessions'[s].live => sessions[s].account # a
    BY <1>1, <1>2, RevokeAll
  <1>4. accounts \in [AccountIds -> Accounts]
    BY DEF AccessInvariant, TypeOK
  <1>5. \A b \in AccountIds \ {a} : accounts'[b] = accounts[b]
    BY <1>2, <1>4
  <1>6. \A s \in SessionIds : sessions[s].live => sessions[s].account \in AccountIds
    BY DEF AccessInvariant, RowsBelong
  <1> QED
    BY <1>3, <1>5, <1>6, SessionsGoOn DEF SessionsEnd

\* An account that is claimed has no open session.
LEMMA ClaimLeavesSessions ==
    ASSUME AccessInvariant, NEW r \in Requests, NEW a \in AccountIds, MayClaim(r, a), Claim(r, a),
           \A s \in SessionIds : sessions[s].live => sessions'[s] = sessions[s]
    PROVE  NoneLeftStale
  <1>1. /\ \A s \in SessionIds : sessions[s].live => sessions[s].account # a
        /\ \A b \in AccountIds \ {a} : accounts'[b] = accounts[b]
    BY ClaimKeeps
  <1>2. \A s \in SessionIds : sessions[s].live => sessions[s].account \in AccountIds
    BY DEF AccessInvariant, RowsBelong
  <1> QED
    BY <1>1, <1>2, SessionsGoOn

\* A family member's registration turns no live session into a stale one.
LEMMA CreateMemberLeavesSessions ==
    ASSUME AccessInvariant, NEW r \in Requests, create_member_account(r)
    PROVE  NoneLeftStale
  <1>1. CASE Rollback(r, "aborted") \/ Rollback(r, "refused")
    BY <1>1, SessionsGoOn DEF Rollback, tables
  <1>2. ASSUME NEW a \in AccountIds,
               IF seen[r].account = None THEN ~Exists(a) ELSE a = seen[r].account,
               ~EmailTaken(body[r].email, a), ~WalletClash(a, r), Joined(r, a)
        PROVE  NoneLeftStale
    <2>1. MayClaim(r, a)
      BY <1>2, MemberMayClaim DEF create_member_account
    <2>2. \A s \in SessionIds : sessions[s].live => sessions'[s] = sessions[s]
      BY <1>2, OpenSessionKeeps DEF Joined
    <2> QED
      BY <1>2, <2>1, <2>2, ClaimLeavesSessions DEF Joined
  <1> QED
    BY <1>1, <1>2, MemberCases

\* A registration by access code turns no live session into a stale one.
LEMMA CreateAccountLeavesSessions ==
    ASSUME AccessInvariant, NEW r \in Requests, create_account(r)
    PROVE  NoneLeftStale
  <1>1. PICK a \in AccountIds :
          /\ ~Exists(a)
          /\ IF EmailTaken(body[r].email, a) THEN Rollback(r, "aborted")
             ELSE /\ Claim(r, a)
                  /\ End(r, "done")
                  /\ UNCHANGED <<sessions, challenges, codes, codeRequests, planned>>
    BY DEF create_account
  <1>2. body[r].member = None /\ body[r].email \in Emails \cup {None}
    BY ServedAccount, BodyType DEF create_account, Serves
  <1>3. CASE EmailTaken(body[r].email, a)
    BY <1>1, <1>3, SessionsGoOn DEF Rollback, tables
  <1>4. CASE ~EmailTaken(body[r].email, a)
    <2>1. MayClaim(r, a) /\ Claim(r, a) /\ UNCHANGED sessions
      BY <1>1, <1>2, <1>4 DEF MayClaim, Exists
    <2> QED
      BY <2>1, ClaimLeavesSessions
  <1> QED
    BY <1>3, <1>4

\* No step turns a live session into a stale one.
LEMMA NextLeavesNoneStale ==
    ASSUME AccessInvariant, [Next]_vars
    PROVE  NoneLeftStale
  <1>1. ASSUME NEW r \in Requests, login(r) PROVE NoneLeftStale
    <2>1. seen[r].account \in AccountIds /\ seen[r].password \in Requests \cup {None}
            /\ OpenSession(seen[r].account, seen[r].password) /\ UNCHANGED accounts
      BY <1>1, ServedAccount DEF login, Serves
    <2>2. \A s \in SessionIds : sessions[s].live => sessions'[s] = sessions[s]
      BY <2>1, OpenSessionKeeps
    <2> QED
      BY <2>1, <2>2, SessionsGoOn
  <1>2. ASSUME NEW r \in Requests, logout(r) PROVE NoneLeftStale
    <2>1. body[r].session \in SessionIds
      BY <1>2, ServedAccount, BodyType DEF logout, Serves
    <2>2. SessionsEnd /\ UNCHANGED accounts
      BY <1>2, <2>1, EndOneSession DEF logout
    <2> QED
      BY <2>2, SessionsGoOn DEF SessionsEnd
  <1>3. ASSUME NEW s \in SessionIds, ExpireSession(s) PROVE NoneLeftStale
    <2>1. SessionsEnd /\ UNCHANGED accounts
      BY <1>3, EndOneSession DEF ExpireSession
    <2> QED
      BY <2>1, SessionsGoOn DEF SessionsEnd
  <1>4. CASE UNCHANGED <<accounts, sessions>>
    BY <1>4, SessionsGoOn
  <1>5. ASSUME NEW r \in Requests,
               Begin(r) \/ request_password_reset(r) \/ request_access_code(r)
                 \/ approve_code_request(r) \/ reject_code_request(r) \/ Abort(r)
        PROVE  UNCHANGED <<accounts, sessions>>
    BY <1>5 DEF Begin, tables, request_password_reset, request_access_code,
                approve_code_request, reject_code_request, Abort, Rollback
  <1>6. ASSUME \/ \E c \in ChallengeIds : ExpireChallenge(c)
               \/ \E m \in Members : PlanChanges(m)
               \/ UNCHANGED vars
        PROVE  UNCHANGED <<accounts, sessions>>
    BY <1>6 DEF ExpireChallenge, PlanChanges, vars
  <1> QED
    BY <1>1, <1>2, <1>3, <1>4, <1>5, <1>6, ResetRevokes, CreateMemberLeavesSessions,
       CreateAccountLeavesSessions DEF Next

\* reset_password revokes every session its account has when it commits, and
\* create_member_account sets the password only of accounts that have none.
THEOREM PasswordChangesRevoke == Spec => NoSessionOutlivesPassword
  <1>1. AccessInvariant /\ [Next]_vars =>
          [\A s \in SessionIds : sessions[s].live /\ Stale(s)' => Stale(s)]_vars
    BY NextLeavesNoneStale DEF NoneLeftStale
  <1> QED
    BY <1>1, Invariance, PTL DEF Spec, NoSessionOutlivesPassword
-----------------------------------------------------------------------------
(* Committee seats, board terms and roles                                     *)

SeatingOps == {"create", "update", "delete", "assign_member", "remove_member"}

\* A committee has no rows before it is created.
RowsInCommittees == \A w \in Rows : seats[w] # "none" => committees[w[1]] # "none"

\* A member two open requests concern is counted as disturbed.
Apart == \A r, s \in Open : r # s => decision[r].about \cap decision[s].about \subseteq disturbed

\* What a decision touches belongs to the members it concerns, and nobody's role is given
\* back.
Contained(d) ==
    /\ \A w \in d.drop \cup d.revive : Who(w) \in d.about
    /\ d.join \subseteq d.about
    /\ \A m \in Residents : d.sets[m] # Nil => m \in d.about
    /\ d.restore = {}

\* A decision on seats: a seat won, by a row revived or a new one, in committee c, comes
\* with the committee's role.
Seats(d, c) ==
    /\ \A m \in Residents : d.sets[m] \in {Nil, "committee_member"}
    /\ \A m \in d.join : d.sets[m] = "committee_member"
    /\ \A w \in d.revive : /\ w[1] = c /\ Who(w) \notin d.join
                           /\ d.sets[Who(w)] = "committee_member"
    /\ \A v, w \in d.revive : Who(v) = Who(w) => v = w

\* A decision d on request b is of its kind.
ShapeOf(b, d) ==
    /\ Contained(d)
    /\ b.op \in SeatingOps => Seats(d, b.committee)
    /\ b.op = "create" => d.revive = {}
    /\ b.op \in {"delete", "remove_member"} => d.revive = {} /\ d.join = {}
    /\ b.op \in {"update", "assign_member"} =>
         b.committee \in Committees /\ committees[b.committee] # "none"
    /\ \A w \in d.drop : committees[w[1]] # "none"
    /\ b.op \in {"nominate", "update_user"} => d.about = b.members
    /\ b.op = "nominate" => d.sets = All(b.members, "board_member")
    /\ b.op = "end_term" =>
         /\ b.term \in BoardRows /\ d.about = {b.term[1]}
         /\ \A m \in Residents : d.sets[m] \in {Nil, "homeowner"}

Shape(r) == proposal[r] \in Proposals /\ ShapeOf(proposal[r], decision[r])

\* Member m wins a seat.
WinsBy(d, m) == m \in d.join \/ \E w \in d.revive : Who(w) = m

Wins(r, m) == WinsBy(decision[r], m)

\* What was found about member m when d was decided.
FoundBy(b, d, m) ==
    /\ b.op \in SeatingOps /\ d.sets[m] # Nil => ~OnBoard(m)
    /\ b.op \in {"update", "assign_member"} /\ WinsBy(d, m) =>
         \A w \in Rows : w[1] = b.committee /\ Who(w) = m => seats[w] # "live"
    /\ b.op = "nominate" => roles[m] = "homeowner" /\ ~OnBoard(m)
    /\ b.op = "end_term" =>
         (d.sets[m] = Nil <=> \E n \in Terms \ {b.term[2]} : terms[<<m, n>>] = "active")

AsFound(r, m) == FoundBy(proposal[r], decision[r], m)

\* It is still so when r writes, unless m is disturbed.
StillFound == \A r \in Open : \A m \in decision[r].about \ disturbed : AsFound(r, m)

MembershipInvariant ==
    /\ MembershipTypeOK
    /\ RolesAgree
    /\ RowsInCommittees
    /\ Apart
    /\ \A r \in Open : Shape(r)
    /\ StillFound

\* Nothing of member m changes.
Untouched(m) ==
    /\ \A w \in Rows : Who(w) = m => seats'[w] = seats[w]
    /\ \A n \in Terms : terms'[<<m, n>>] = terms[<<m, n>>]
    /\ roles'[m] = roles[m]

\* A committee is created once, and deleted once.
CommitteesMove ==
    \A c \in Committees :
       /\ committees[c] # "none" => committees'[c] # "none"
       /\ committees[c] # "none" /\ committees'[c] = "active" => committees[c] = "active"

\* What a step of request r must bring for the invariant to go on.
StepOf(r) ==
    /\ committees' \in [Committees -> {"none", "active", "deleted"}]
    /\ seats' \in [Rows -> {"none", "live", "removed"}]
    /\ terms' \in [BoardRows -> {"none", "active", "past"}]
    /\ roles' \in [Residents -> Roles]
    /\ disturbed \subseteq disturbed' /\ disturbed' \subseteq Residents
    /\ CommitteesMove
    /\ RowsInCommittees'
    /\ \A m \in Residents \ decision[r].about : Untouched(m)
    /\ \A m \in decision[r].about \ disturbed' : Agrees(m)'

USE MembershipConstants
-----------------------------------------------------------------------------
\* A membership row has a committee and a member, and Who gives the member.
LEMMA RowParts ==
    ASSUME NEW w \in Rows
    PROVE  w[1] \in Committees /\ w[2] \in Residents /\ Who(w) \in Residents
  BY DEF Rows, Who

\* None differs from every role.
LEMMA NoneIsNoRole == Nil \notin Roles /\ Nil # "committee_member" /\ Nil # "homeowner"
                          /\ Nil # "board_member"
  BY DEF Roles

\* The empty decision is a decision.
LEMMA NothingTyped == NoDecision \in Decision
  BY DEF NoDecision, Decision

\* Giving one role to a set of members is well typed.
LEMMA AllTyped ==
    ASSUME NEW ms, NEW role \in Roles
    PROVE  All(ms, role) \in [Residents -> Roles \cup {Nil}]
  BY DEF All

\* A choice of one row for each member takes no two rows of one member.
LEMMA OneEachPicks ==
    ASSUME NEW S \in SUBSET Rows, NEW ms, NEW T \in OneEach(S, ms)
    PROVE  /\ T \subseteq S
           /\ \A w \in T : Who(w) \in ms
           /\ \A v, w \in T : Who(v) = Who(w) => v = w
  <1>1. /\ T \subseteq S
        /\ \A w \in T : Who(w) \in ms
        /\ \A m \in ms : \E w \in T : {x \in T : Who(x) = m} = {w}
    BY DEF OneEach
  <1>2. ASSUME NEW v \in T, NEW w \in T, Who(v) = Who(w) PROVE v = w
    <2>1. PICK u \in T : {x \in T : Who(x) = Who(w)} = {u}
      BY <1>1
    <2>2. v \in {x \in T : Who(x) = Who(w)} /\ w \in {x \in T : Who(x) = Who(w)}
      BY <1>2
    <2> QED
      BY <2>1, <2>2
  <1> QED
    BY <1>1, <1>2
-----------------------------------------------------------------------------
(* Members and requests a step does not touch *)

LEMMA UntouchedBoard ==
    ASSUME NEW m \in Residents, Untouched(m)
    PROVE  OnBoard(m)' <=> OnBoard(m)
  BY DEF Untouched, OnBoard

\* A member no write touches stays in agreement with the rows.
LEMMA UntouchedAgrees ==
    ASSUME MembershipInvariant, CommitteesMove, NEW m \in Residents, Untouched(m), Agrees(m)
    PROVE  Agrees(m)'
  <1>1. OneTerm(m)'
    BY DEF Untouched, Agrees, OneTerm
  <1>2. OneSeat(m)'
    BY DEF Untouched, Agrees, OneSeat
  <1>3. (OnBoard(m) <=> roles[m] = "board_member")'
    BY UntouchedBoard DEF Untouched, Agrees
  <1>4. ASSUME has_active_membership(m)' PROVE has_active_membership(m)
    <2>1. PICK w \in Rows : Who(w) = m /\ seats'[w] = "live" /\ committees'[w[1]] = "active"
      BY <1>4 DEF has_active_membership
    <2>2. seats[w] = "live"
      BY <2>1 DEF Untouched
    <2>3. committees[w[1]] # "none" /\ w[1] \in Committees
      BY <2>2, RowParts DEF MembershipInvariant, RowsInCommittees
    <2>4. committees[w[1]] = "active"
      BY <2>1, <2>3 DEF CommitteesMove
    <2> QED
      BY <2>1, <2>2, <2>4 DEF has_active_membership
  <1> QED
    BY <1>1, <1>2, <1>3, <1>4 DEF Agrees, Untouched

\* What a request found about a member no write touches is still so.
LEMMA UntouchedFound ==
    ASSUME NEW r \in Changes, NEW m \in Residents, Untouched(m), AsFound(r, m),
           proposal'[r] = proposal[r], decision'[r] = decision[r]
    PROVE  AsFound(r, m)'
  <1>1. OnBoard(m)' <=> OnBoard(m)
    BY UntouchedBoard
  <1>2. Wins(r, m)' <=> Wins(r, m)
    BY DEF Wins, WinsBy
  <1>3. (proposal[r].op \in SeatingOps /\ decision[r].sets[m] # Nil => ~OnBoard(m))'
    BY <1>1 DEF AsFound, FoundBy
  <1>4. (proposal[r].op \in {"update", "assign_member"} /\ Wins(r, m) =>
           \A w \in Rows : w[1] = proposal[r].committee /\ Who(w) = m => seats[w] # "live")'
    BY <1>2 DEF AsFound, FoundBy, Wins, Untouched
  <1>5. (proposal[r].op = "nominate" => roles[m] = "homeowner" /\ ~OnBoard(m))'
    BY <1>1 DEF AsFound, FoundBy, Untouched
  <1>6. (proposal[r].op = "end_term" =>
           (decision[r].sets[m] = Nil <=>
              \E n \in Terms \ {proposal[r].term[2]} : terms[<<m, n>>] = "active"))'
    BY DEF AsFound, FoundBy, Untouched
  <1> QED
    BY <1>3, <1>4, <1>5, <1>6 DEF AsFound, FoundBy, Wins

\* A request's plan keeps its shape while committees only end.
LEMMA ShapeKept ==
    ASSUME NEW r \in Changes, Shape(r), CommitteesMove, decision[r].drop \subseteq Rows,
           proposal'[r] = proposal[r], decision'[r] = decision[r]
    PROVE  Shape(r)'
  <1>1. Contained(decision[r])' /\ (proposal[r].op \in SeatingOps => Seats(decision[r], proposal[r].committee))'
    BY DEF Shape, ShapeOf, Contained, Seats
  <1>2. (proposal[r].op \in {"update", "assign_member"} =>
           proposal[r].committee \in Committees /\ committees[proposal[r].committee] # "none")'
    BY DEF Shape, ShapeOf, CommitteesMove
  <1>3. (\A w \in decision[r].drop : committees[w[1]] # "none")'
    BY RowParts DEF Shape, ShapeOf, CommitteesMove
  <1> QED
    BY <1>1, <1>2, <1>3 DEF Shape, ShapeOf, All

\* A request writes what concerns its members, and ends.
LEMMA StepKeeps ==
    ASSUME MembershipInvariant, NEW r \in Open, NEW o \in {"done", "refused", "aborted"},
           Finish(r, o), StepOf(r)
    PROVE  MembershipInvariant'
  <1> r \in Changes
    BY DEF Open
  <1>1. MembershipTypeOK'
    BY NothingTyped DEF MembershipInvariant, MembershipTypeOK, Finish, StepOf
  <1>2. /\ Open' = Open \ {r}
        /\ \A s \in Changes : s # r => proposal'[s] = proposal[s] /\ decision'[s] = decision[s]
    BY DEF MembershipInvariant, MembershipTypeOK, Finish, Open
  <1>3. Apart'
    BY <1>2 DEF MembershipInvariant, Apart, StepOf, Open
  <1>4. ASSUME NEW s \in Open' PROVE Shape(s)'
    <2>1. s \in Changes /\ decision[s].drop \subseteq Rows
      BY <1>4 DEF Open, MembershipInvariant, MembershipTypeOK, Decision
    <2> QED
      BY <1>2, <1>4, <2>1, ShapeKept DEF MembershipInvariant, Open, StepOf
  <1>5. StillFound'
    <2> SUFFICES ASSUME NEW s \in Open', NEW m \in (decision[s].about \ disturbed)'
                 PROVE  AsFound(s, m)'
      BY DEF StillFound
    <2>1. s \in Open /\ s # r /\ s \in Changes
      BY <1>2 DEF Open
    <2>2. proposal'[s] = proposal[s] /\ decision'[s] = decision[s]
      BY <1>2, <2>1
    <2>3. m \in decision[s].about \ disturbed
      BY <2>2 DEF StepOf
    <2>4. m \in Residents
      BY <2>1, <2>3 DEF MembershipInvariant, MembershipTypeOK, Decision
    <2>5. m \notin decision[r].about
      BY <2>1, <2>3 DEF MembershipInvariant, Apart
    <2>6. Untouched(m) /\ AsFound(s, m)
      BY <2>1, <2>3, <2>4, <2>5 DEF StepOf, MembershipInvariant, StillFound
    <2> QED
      BY <2>1, <2>2, <2>4, <2>6, UntouchedFound
  <1>6. RolesAgree'
    <2> SUFFICES ASSUME NEW m \in Residents, m \notin disturbed' PROVE Agrees(m)'
      BY DEF RolesAgree
    <2>1. CASE m \in decision[r].about
      BY <2>1 DEF StepOf
    <2>2. CASE m \notin decision[r].about
      <3>1. Untouched(m) /\ CommitteesMove /\ Agrees(m)
        BY <2>2 DEF StepOf, MembershipInvariant, RolesAgree
      <3> QED
        BY <3>1, UntouchedAgrees
    <2> QED
      BY <2>1, <2>2
  <1> QED
    BY <1>1, <1>3, <1>4, <1>5, <1>6 DEF MembershipInvariant, StepOf

-----------------------------------------------------------------------------
(* Seats *)

\* What the five handlers that write seats have in common.
SeatStep(r, c) ==
    /\ proposal[r].op \in SeatingOps
    /\ WriteSeats(r, c) /\ SetRoles(r)
    /\ UNCHANGED <<terms, disturbed>>
    /\ committees' \in [Committees -> {"none", "active", "deleted"}]
    /\ CommitteesMove
    /\ Seats(decision[r], c)
    /\ \A m \in Residents : Wins(r, m) => c \in Committees /\ committees'[c] # "none"
    /\ \A m \in decision[r].about \ disturbed : Wins(r, m) =>
         \A w \in Rows : w[1] = c /\ Who(w) = m => seats[w] # "live"

\* A write of memberships with its users' roles is a step that keeps every
\* part of the invariant.
LEMMA SeatsWritten ==
    ASSUME MembershipInvariant, NEW r \in Open, NEW c, SeatStep(r, c)
    PROVE  StepOf(r)
  <1> DEFINE d == decision[r]
  <1> r \in Changes /\ d \in Decision /\ Shape(r) /\ Contained(d)
    BY DEF Open, MembershipInvariant, MembershipTypeOK, Shape, ShapeOf
  <1>1. PICK fresh \in OneEach({w \in Rows : w[1] = c /\ seats[w] = "none"}, d.join) :
          seats' = [w \in Rows |-> IF w \in d.drop THEN "removed"
                                   ELSE IF w \in d.revive \cup fresh THEN "live"
                                   ELSE seats[w]]
    BY DEF SeatStep, WriteSeats
  <1>2. /\ fresh \subseteq Rows
        /\ \A w \in fresh : w[1] = c /\ seats[w] = "none" /\ Who(w) \in d.join
        /\ \A v, w \in fresh : Who(v) = Who(w) => v = w
    <2> DEFINE free == {w \in Rows : w[1] = c /\ seats[w] = "none"}
    <2>1. free \in SUBSET Rows /\ \A w \in free : w[1] = c /\ seats[w] = "none"
      OBVIOUS
    <2> HIDE DEF free
    <2>2. fresh \in OneEach(free, d.join)
      BY DEF free
    <2>3. /\ fresh \subseteq free
          /\ \A w \in fresh : Who(w) \in d.join
          /\ \A v, w \in fresh : Who(v) = Who(w) => v = w
      BY <2>1, <2>2, OneEachPicks
    <2> QED
      BY <2>1, <2>3
  <1>3. /\ d.drop \subseteq Rows /\ d.revive \subseteq Rows /\ d.join \subseteq Residents
        /\ d.about \subseteq Residents /\ d.restore = {}
        /\ d.sets \in [Residents -> Roles \cup {Nil}]
    BY DEF Decision, Contained
  <1>4. roles' = [m \in Residents |-> IF d.sets[m] # Nil THEN d.sets[m] ELSE roles[m]]
    BY <1>3 DEF SeatStep, SetRoles
  <1>5. \A w \in d.revive \cup fresh : w[1] = c /\ Wins(r, Who(w)) /\ d.sets[Who(w)] = "committee_member"
    BY <1>2 DEF SeatStep, Seats, Wins, WinsBy
  <1> HIDE DEF d
  <1>6. seats' \in [Rows -> {"none", "live", "removed"}]
    BY <1>1 DEF MembershipInvariant, MembershipTypeOK
  <1>7. roles' \in [Residents -> Roles]
    BY <1>3, <1>4 DEF MembershipInvariant, MembershipTypeOK
  <1>8. RowsInCommittees'
    <2> SUFFICES ASSUME NEW w \in Rows, seats'[w] # "none" PROVE committees'[w[1]] # "none"
      BY DEF RowsInCommittees
    <2> w[1] \in Committees /\ Who(w) \in Residents
      BY RowParts
    <2>1. CASE w \in d.drop
      BY <2>1 DEF Shape, ShapeOf, SeatStep, CommitteesMove, d
    <2>2. CASE w \in d.revive \cup fresh
      BY <2>2, <1>5 DEF SeatStep
    <2>3. CASE w \notin d.drop /\ w \notin d.revive \cup fresh
      BY <2>3, <1>1 DEF MembershipInvariant, RowsInCommittees, SeatStep, CommitteesMove
    <2> QED
      BY <2>1, <2>2, <2>3
  <1>9. ASSUME NEW m \in Residents \ d.about PROVE Untouched(m)
    <2>1. \A w \in d.drop \cup d.revive \cup fresh : Who(w) \in d.about
      BY <1>2 DEF Contained
    <2>2. d.sets[m] = Nil
      BY DEF Contained
    <2> QED
      BY <2>1, <2>2, <1>1, <1>4 DEF Untouched, SeatStep
  <1>10. ASSUME NEW m \in d.about \ disturbed PROVE Agrees(m)'
    <2> m \in Residents /\ Agrees(m) /\ AsFound(r, m)
      BY <1>3 DEF MembershipInvariant, RolesAgree, StillFound, d
    <2>1. OneTerm(m)'
      BY DEF Agrees, OneTerm, SeatStep
    <2>2. OnBoard(m)' <=> OnBoard(m)
      BY DEF OnBoard, SeatStep
    <2>3. OneSeat(m)'
      <3> SUFFICES ASSUME NEW v \in Rows, NEW w \in Rows, Who(v) = m, Who(w) = m, v[1] = w[1],
                          seats'[v] = "live", seats'[w] = "live"
                   PROVE  v = w
        BY DEF OneSeat
      <3>1. CASE v \in d.revive \cup fresh \/ w \in d.revive \cup fresh
        <4>1. v[1] = c /\ w[1] = c /\ Wins(r, m)
          BY <3>1, <1>5
        <4>2. seats[v] # "live" /\ seats[w] # "live"
          BY <4>1 DEF SeatStep, d
        <4>3. v \in d.revive \cup fresh /\ w \in d.revive \cup fresh
          BY <4>2, <1>1
        <4>4. v \in d.revive <=> w \in d.revive
          BY <4>3, <1>2 DEF SeatStep, Seats, d
        <4>5. CASE v \in d.revive /\ w \in d.revive
          BY <4>5 DEF SeatStep, Seats, d
        <4>6. CASE v \in fresh /\ w \in fresh
          BY <4>6, <1>2
        <4> QED
          BY <4>3, <4>4, <4>5, <4>6
      <3>2. CASE v \notin d.revive \cup fresh /\ w \notin d.revive \cup fresh
        <4>1. seats[v] = "live" /\ seats[w] = "live"
          BY <3>2, <1>1
        <4> QED
          BY <4>1 DEF Agrees, OneSeat
      <3> QED
        BY <3>1, <3>2
    <2>4. CASE d.sets[m] # Nil
      <3>1. ~OnBoard(m) /\ roles'[m] = "committee_member"
        BY <2>4, <1>4 DEF AsFound, FoundBy, SeatStep, Seats, d
      <3> QED
        BY <3>1, <2>1, <2>2, <2>3 DEF Agrees
    <2>5. CASE d.sets[m] = Nil
      <3>1. roles'[m] = roles[m]
        BY <2>5, <1>4
      <3>2. ASSUME has_active_membership(m)' PROVE has_active_membership(m)
        <4>1. PICK w \in Rows : Who(w) = m /\ seats'[w] = "live" /\ committees'[w[1]] = "active"
          BY <3>2 DEF has_active_membership
        <4>2. seats[w] = "live"
          BY <4>1, <1>1, <1>5, <2>5, NoneIsNoRole
        <4>3. committees[w[1]] # "none" /\ w[1] \in Committees
          BY <4>2, RowParts DEF MembershipInvariant, RowsInCommittees
        <4>4. committees[w[1]] = "active"
          BY <4>1, <4>3 DEF SeatStep, CommitteesMove
        <4> QED
          BY <4>1, <4>2, <4>4 DEF has_active_membership
      <3> QED
        BY <3>1, <3>2, <2>1, <2>2, <2>3 DEF Agrees
    <2> QED
      BY <2>4, <2>5
  <1> QED
    BY <1>6, <1>7, <1>8, <1>9, <1>10 DEF StepOf, SeatStep, MembershipInvariant, MembershipTypeOK, d

\* Creating a committee with its first members preserves the invariant.
LEMMA CreateKeeps ==
    ASSUME MembershipInvariant, NEW r \in Changes, create(r)
    PROVE  MembershipInvariant'
  <1>1. r \in Open /\ proposal[r].op = "create" /\ Shape(r)
    BY DEF create, Carries, Open, MembershipInvariant
  <1>2. PICK c \in Committees : /\ committees[c] = "none"
                                /\ committees' = [committees EXCEPT ![c] = "active"]
                                /\ WriteSeats(r, c)
    BY DEF create
  <1>3. CommitteesMove /\ committees' \in [Committees -> {"none", "active", "deleted"}]
    BY <1>2 DEF CommitteesMove, MembershipInvariant, MembershipTypeOK
  <1>4. Seats(decision[r], c)
    BY <1>1 DEF Shape, ShapeOf, Seats, SeatingOps
  <1>5. \A w \in Rows : w[1] = c => seats[w] # "live"
    BY <1>2 DEF MembershipInvariant, RowsInCommittees
  <1>6. SeatStep(r, c)
    BY <1>1, <1>2, <1>3, <1>4, <1>5 DEF SeatStep, create, SeatingOps, MembershipInvariant, MembershipTypeOK
  <1> QED
    BY <1>1, <1>6, SeatsWritten, StepKeeps DEF create

\* update and assign_member.
LEMMA SeatingKeeps ==
    ASSUME MembershipInvariant, NEW r \in Open, proposal[r].op \in {"update", "assign_member"},
           WriteSeats(r, proposal[r].committee), SetRoles(r), Finish(r, "done"),
           UNCHANGED <<committees, terms, disturbed>>
    PROVE  MembershipInvariant'
  <1> DEFINE c == proposal[r].committee
  <1>1. Shape(r) /\ r \in Changes
    BY DEF MembershipInvariant, Open
  <1>2. CommitteesMove /\ committees' \in [Committees -> {"none", "active", "deleted"}]
    BY DEF CommitteesMove, MembershipInvariant, MembershipTypeOK
  <1>3. Seats(decision[r], c) /\ c \in Committees /\ committees'[c] # "none"
    BY <1>1 DEF Shape, ShapeOf, SeatingOps
  <1>4. \A m \in decision[r].about \ disturbed : Wins(r, m) =>
          \A w \in Rows : w[1] = c /\ Who(w) = m => seats[w] # "live"
    <2> SUFFICES ASSUME NEW m \in decision[r].about \ disturbed, Wins(r, m),
                        NEW w \in Rows, w[1] = c, Who(w) = m
                 PROVE  seats[w] # "live"
      OBVIOUS
    <2>1. AsFound(r, m)
      BY DEF MembershipInvariant, StillFound
    <2> QED
      BY <2>1 DEF AsFound, FoundBy, Wins
  <1>5. SeatStep(r, c)
    BY <1>2, <1>3, <1>4 DEF SeatStep, SeatingOps
  <1> QED
    BY <1>5, SeatsWritten, StepKeeps

\* delete and remove_member.
LEMMA UnseatingKeeps ==
    ASSUME MembershipInvariant, NEW r \in Open, proposal[r].op \in {"delete", "remove_member"},
           NEW c, WriteSeats(r, c), SetRoles(r), Finish(r, "done"), CommitteesMove,
           committees' \in [Committees -> {"none", "active", "deleted"}],
           UNCHANGED <<terms, disturbed>>
    PROVE  MembershipInvariant'
  <1>1. Shape(r) /\ r \in Changes
    BY DEF MembershipInvariant, Open
  <1>2. decision[r].revive = {} /\ decision[r].join = {}
    BY <1>1 DEF Shape, ShapeOf
  <1>3. Seats(decision[r], c) /\ \A m \in Residents : ~Wins(r, m)
    BY <1>1, <1>2 DEF Shape, ShapeOf, SeatingOps, Seats, Wins, WinsBy
  <1>4. decision[r].about \subseteq Residents
    BY <1>1 DEF MembershipInvariant, MembershipTypeOK, Decision
  <1>5. SeatStep(r, c)
    BY <1>3, <1>4 DEF SeatStep, SeatingOps
  <1> QED
    BY <1>5, SeatsWritten, StepKeeps

\* The four operations that change a committee's members preserve the
\* invariant.
LEMMA SeatActionsKeep ==
    ASSUME MembershipInvariant, NEW r \in Changes,
           update(r) \/ delete(r) \/ assign_member(r) \/ remove_member(r)
    PROVE  MembershipInvariant'
  <1>1. CASE update(r) \/ assign_member(r)
    BY <1>1, SeatingKeeps DEF update, assign_member, Carries, Open
  <1>2. CASE delete(r)
    <2>1. /\ CommitteesMove
          /\ committees' \in [Committees -> {"none", "active", "deleted"}]
      BY <1>2 DEF delete, CommitteesMove, MembershipInvariant, MembershipTypeOK
    <2> QED
      BY <1>2, <2>1, UnseatingKeeps DEF delete, Carries, Open
  <1>3. CASE remove_member(r)
    <2>1. /\ CommitteesMove
          /\ committees' \in [Committees -> {"none", "active", "deleted"}]
      BY <1>3 DEF remove_member, CommitteesMove, MembershipInvariant, MembershipTypeOK
    <2> QED
      BY <1>3, <2>1, UnseatingKeeps DEF remove_member, Carries, Open
  <1> QED
    BY <1>1, <1>2, <1>3
-----------------------------------------------------------------------------
(* The board *)

\* Roles written beside the board, where no seat changes.
LEMMA RolesWritten ==
    ASSUME MembershipInvariant, NEW r \in Open, SetRoles(r)
    PROVE  /\ roles' = [m \in Residents |-> IF decision[r].sets[m] # Nil THEN decision[r].sets[m]
                                            ELSE roles[m]]
           /\ roles' \in [Residents -> Roles]
           /\ \A m \in Residents \ decision[r].about : roles'[m] = roles[m]
  <1> r \in Changes /\ decision[r] \in Decision /\ Contained(decision[r])
    BY DEF Open, MembershipInvariant, MembershipTypeOK, Shape, ShapeOf
  <1>1. decision[r].restore = {} /\ decision[r].sets \in [Residents -> Roles \cup {Nil}]
    BY DEF Decision, Contained
  <1>2. roles' = [m \in Residents |-> IF decision[r].sets[m] # Nil THEN decision[r].sets[m]
                                     ELSE roles[m]]
    BY <1>1 DEF SetRoles
  <1>3. \A m \in Residents \ decision[r].about : decision[r].sets[m] = Nil
    BY DEF Contained
  <1> QED
    BY <1>1, <1>2, <1>3 DEF MembershipInvariant, MembershipTypeOK

\* Nominating a board member preserves the invariant.
LEMMA NominateKeeps ==
    ASSUME MembershipInvariant, NEW r \in Changes, nominate(r)
    PROVE  MembershipInvariant'
  <1>1. r \in Open /\ proposal[r].op = "nominate" /\ Shape(r) /\ proposal[r] \in Proposals
    BY DEF nominate, Carries, Open, MembershipInvariant, Shape, ShapeOf
  <1>2. PICK m \in proposal[r].members, n \in Terms :
          terms[<<m, n>>] = "none" /\ terms' = [terms EXCEPT ![<<m, n>>] = "active"]
    BY DEF nominate
  <1>3. /\ decision[r].about = {m} /\ decision[r].sets = All({m}, "board_member")
        /\ m \in Residents
    <2>1. PICK b \in Proposals : b = proposal[r]
      BY <1>1
    <2>2. PICK x \in Residents : b.members = {x}
      BY <1>1, <2>1
    <2> QED
      BY <1>1, <1>2, <2>1, <2>2 DEF Shape, ShapeOf
  <1>4. /\ roles' \in [Residents -> Roles] /\ roles'[m] = "board_member"
        /\ \A x \in Residents \ {m} : roles'[x] = roles[x]
    <2>1. SetRoles(r)
      BY DEF nominate
    <2>2. decision[r].sets[m] = "board_member" /\ decision[r].sets[m] # Nil
      BY <1>3, NoneIsNoRole DEF All
    <2>3. /\ roles' = [x \in Residents |-> IF decision[r].sets[x] # Nil THEN decision[r].sets[x]
                                           ELSE roles[x]]
          /\ roles' \in [Residents -> Roles]
          /\ \A x \in Residents \ decision[r].about : roles'[x] = roles[x]
      BY <1>1, <2>1, RolesWritten
    <2> QED
      BY <1>3, <2>2, <2>3
  <1>5. terms' \in [BoardRows -> {"none", "active", "past"}]
    BY <1>2 DEF MembershipInvariant, MembershipTypeOK
  <1>6. ASSUME NEW x \in Residents \ {m} PROVE Untouched(x)
    <2>1. \A k \in Terms : terms'[<<x, k>>] = terms[<<x, k>>]
      BY <1>2, <1>3 DEF MembershipInvariant, MembershipTypeOK, BoardRows
    <2> QED
      BY <2>1, <1>4 DEF Untouched, nominate
  <1>7. ASSUME m \notin disturbed PROVE Agrees(m)'
    <2>1. roles[m] = "homeowner" /\ ~OnBoard(m) /\ Agrees(m)
      BY <1>1, <1>3, <1>7 DEF MembershipInvariant, StillFound, AsFound, FoundBy, RolesAgree
    <2>2. \A k \in Terms : terms'[<<m, k>>] = "active" <=> k = n
      BY <1>2, <1>3, <2>1 DEF MembershipInvariant, MembershipTypeOK, BoardRows, OnBoard
    <2>3. OneTerm(m)' /\ OnBoard(m)'
      BY <2>2, <1>2 DEF OneTerm, OnBoard
    <2>4. ~has_active_membership(m)
      BY <2>1 DEF Agrees
    <2>5. ~has_active_membership(m)' /\ OneSeat(m)'
      BY <2>1, <2>4 DEF Agrees, has_active_membership, OneSeat, nominate
    <2> QED
      BY <2>3, <2>5, <1>4 DEF Agrees
  <1>8. StepOf(r)
    BY <1>3, <1>4, <1>5, <1>6, <1>7
       DEF StepOf, nominate, CommitteesMove, MembershipInvariant, MembershipTypeOK, RowsInCommittees
  <1> QED
    BY <1>1, <1>8, StepKeeps DEF nominate

\* Ending a board member's term preserves the invariant.
LEMMA EndTermKeeps ==
    ASSUME MembershipInvariant, NEW r \in Changes, end_term(r)
    PROVE  MembershipInvariant'
  <1>1. r \in Open /\ proposal[r].op = "end_term" /\ Shape(r)
    BY DEF end_term, Carries, Open, MembershipInvariant
  <1>2. PICK m \in Residents, n \in Terms : proposal[r].term = <<m, n>>
    BY <1>1 DEF Shape, ShapeOf, BoardRows
  <1>3. /\ decision[r].about = {m}
        /\ decision[r].sets[m] \in {Nil, "homeowner"}
    BY <1>1, <1>2 DEF Shape, ShapeOf
  <1>4. /\ roles' = [x \in Residents |-> IF decision[r].sets[x] # Nil THEN decision[r].sets[x]
                                         ELSE roles[x]]
        /\ roles' \in [Residents -> Roles]
        /\ \A x \in Residents \ {m} : roles'[x] = roles[x]
    BY <1>1, <1>3, RolesWritten DEF end_term
  <1>5. /\ terms' = [terms EXCEPT ![<<m, n>>] = "past"]
        /\ terms' \in [BoardRows -> {"none", "active", "past"}]
    BY <1>2 DEF end_term, MembershipInvariant, MembershipTypeOK
  <1>6. ASSUME NEW x \in Residents \ {m} PROVE Untouched(x)
    <2>1. \A k \in Terms : terms'[<<x, k>>] = terms[<<x, k>>]
      BY <1>5 DEF MembershipInvariant, MembershipTypeOK, BoardRows
    <2> QED
      BY <2>1, <1>4 DEF Untouched, end_term
  <1>7. disturbed \subseteq disturbed' /\ disturbed' \subseteq Residents
    BY <1>3 DEF end_term, MembershipInvariant, MembershipTypeOK
  <1>8. ASSUME m \notin disturbed' PROVE Agrees(m)'
    <2>1. Agrees(m) /\ roles[m] # "committee_member" /\ m \notin disturbed
      BY <1>3, <1>8 DEF MembershipInvariant, RolesAgree, end_term
    <2>2. decision[r].sets[m] = Nil <=> \E k \in Terms \ {n} : terms[<<m, k>>] = "active"
      <3>1. AsFound(r, m)
        BY <1>1, <1>3, <2>1 DEF MembershipInvariant, StillFound
      <3>2. proposal[r].term[2] = n
        BY <1>2
      <3> QED
        BY <1>1, <3>1, <3>2 DEF AsFound, FoundBy
    <2>3. /\ terms'[<<m, n>>] = "past"
          /\ \A k \in Terms \ {n} : terms'[<<m, k>>] = terms[<<m, k>>]
      BY <1>5 DEF MembershipInvariant, MembershipTypeOK, BoardRows
    <2>4. OneTerm(m)'
      BY <2>1, <2>3 DEF Agrees, OneTerm
    <2>5. ~has_active_membership(m)' /\ OneSeat(m)'
      BY <2>1 DEF Agrees, has_active_membership, OneSeat, end_term
    <2>6. OnBoard(m)' <=> decision[r].sets[m] = Nil
      BY <2>2, <2>3 DEF OnBoard
    <2>7. CASE decision[r].sets[m] = Nil
      <3>1. roles'[m] = roles[m] /\ OnBoard(m)
        BY <1>4, <2>2, <2>7 DEF OnBoard
      <3> QED
        BY <3>1, <2>1, <2>4, <2>5, <2>6, <2>7 DEF Agrees
    <2>8. CASE decision[r].sets[m] # Nil
      <3>1. roles'[m] = "homeowner"
        BY <1>3, <1>4, <2>8
      <3> QED
        BY <3>1, <2>4, <2>5, <2>6, <2>8 DEF Agrees
    <2> QED
      BY <2>7, <2>8
  <1>9. StepOf(r)
    BY <1>3, <1>4, <1>5, <1>6, <1>7, <1>8
       DEF StepOf, end_term, CommitteesMove, MembershipInvariant, MembershipTypeOK, RowsInCommittees
  <1> QED
    BY <1>1, <1>9, StepKeeps DEF end_term

\* A change of a user's role by the user service preserves the invariant.
LEMMA UpdateUserKeeps ==
    ASSUME MembershipInvariant, NEW r \in Changes, update_user(r)
    PROVE  MembershipInvariant'
  <1>1. r \in Open /\ decision[r].about \subseteq Residents
    BY DEF update_user, Carries, Open, MembershipInvariant, MembershipTypeOK, Decision
  <1>2. /\ roles' \in [Residents -> Roles]
        /\ \A x \in Residents \ decision[r].about : roles'[x] = roles[x]
    BY <1>1, RolesWritten DEF update_user
  <1>3. StepOf(r)
    BY <1>1, <1>2 DEF StepOf, update_user, Untouched, CommitteesMove, MembershipInvariant, MembershipTypeOK,
                      RowsInCommittees
  <1> QED
    BY <1>1, <1>3, StepKeeps DEF update_user

\* A request the database aborts preserves the invariant: it has written
\* nothing.
LEMMA AbortKeeps ==
    ASSUME MembershipInvariant, NEW r \in Changes, Withdraw(r)
    PROVE  MembershipInvariant'
  <1>1. r \in Open /\ decision[r].about \subseteq Residents
    BY DEF Withdraw, Open, MembershipInvariant, MembershipTypeOK, Decision
  <1>2. \A m \in Residents : Agrees(m) => Agrees(m)'
    BY ZenonT(30) DEF Withdraw, rosters, Agrees, OneTerm, OneSeat, OnBoard, has_active_membership
  <1>3. StepOf(r)
    BY <1>1, <1>2 DEF StepOf, Withdraw, rosters, Untouched, CommitteesMove, MembershipInvariant,
                      MembershipTypeOK, RowsInCommittees, RolesAgree
  <1> QED
    BY <1>1, <1>3, StepKeeps DEF Withdraw
-----------------------------------------------------------------------------
(* What a handler decides *)

LEMMA NobodyRestored ==
    ASSUME NEW drop \in SUBSET Rows,
           \A w \in drop : seats[w] = "live" /\ committees[w[1]] = "active"
    PROVE  restored(drop) = {}
  BY DEF restored, has_active_membership

\* The fields of a decision on seats that gives nobody's role back.
IsSeating(d, drop, revive, join, ms) ==
    /\ d \in Decision
    /\ d.drop = drop /\ d.revive = revive /\ d.join = join
    /\ d.sets = All(ms, "committee_member") /\ d.restore = {}
    /\ d.about = ms \cup {Who(w) : w \in drop}

\* The decision to seat members is well typed and says what it was asked to.
LEMMA SeatingTyped ==
    ASSUME NEW drop \in SUBSET Rows, NEW revive \in SUBSET Rows, NEW join \in SUBSET Residents,
           NEW ms \in SUBSET Residents,
           \A w \in drop : seats[w] = "live" /\ committees[w[1]] = "active"
    PROVE  IsSeating(Seating(drop, revive, join, ms), drop, revive, join, ms)
  <1>1. All(ms, "committee_member") \in [Residents -> Roles \cup {Nil}]
    BY AllTyped DEF Roles
  <1>2. {Who(w) : w \in drop} \subseteq Residents
    BY RowParts
  <1> QED
    BY <1>1, <1>2, NobodyRestored DEF Seating, Decision, IsSeating

\* The fields of a decision on roles alone.
IsSetting(d, about, ms, role) ==
    /\ d \in Decision
    /\ d.drop = {} /\ d.revive = {} /\ d.join = {}
    /\ d.sets = All(ms, role) /\ d.restore = {} /\ d.about = about

\* The decision to set a role is well typed and says what it was asked to.
LEMMA SettingTyped ==
    ASSUME NEW about \in SUBSET Residents, NEW ms \in SUBSET Residents, NEW role \in Roles
    PROVE  IsSetting(Setting(about, ms, role), about, ms, role)
  BY AllTyped DEF Setting, Decision, IsSetting

\* A decision is sound: of its kind, and what it found holds now.
Sound(b, d) ==
    /\ d \in Decision
    /\ ShapeOf(b, d)
    /\ \A m \in d.about : Agrees(m) => FoundBy(b, d, m)

\* A seating in one committee: who comes new has no live row there, and gets back a row
\* of that committee or a new one.
LEMMA SeatingSound ==
    ASSUME MembershipTypeOK, NEW b \in Proposals, b.op \in {"update", "assign_member"}, b.committee \in Committees,
           committees[b.committee] = "active",
           NEW ms \in SUBSET Residents, NEW new \in SUBSET ms, NEW drop \in SUBSET Live(b.committee),
           \A m \in new : homeowner_in_association(m) /\ committee_member(b.committee, m) = {},
           \A m \in ms : Agrees(m) => ~OnBoard(m),
           NEW d \in Seatings(b.committee, drop, new, ms), 
           \A w \in drop : Who(w) \notin ms
    PROVE  Sound(b, d)
  <1> DEFINE c == b.committee
             back == {m \in new : RowsOf(c, m) # {}}
             rows == UNION {RowsOf(c, m) : m \in back}
  <1>1. rows \in SUBSET Rows /\ \A w \in rows : w[1] = c /\ Who(w) \in back
    BY DEF RowsOf, Who
  <1>2. back \subseteq new /\ new \ back \subseteq new
    OBVIOUS
  <1>3. PICK T \in OneEach(rows, back) : d = Seating(drop, T, new \ back, ms)
    BY DEF Seatings
  <1> HIDE DEF back, rows, c
  <1>4. /\ T \subseteq rows
        /\ \A w \in T : Who(w) \in back
        /\ \A v, w \in T : Who(v) = Who(w) => v = w
    BY <1>1, OneEachPicks
  <1>5. /\ drop \subseteq Rows
        /\ \A w \in drop : seats[w] = "live" /\ committees[w[1]] = "active"
    BY DEF Live, c
  <1>6. /\ d \in Decision
        /\ d.drop = drop /\ d.revive = T /\ d.join = new \ back
        /\ d.sets = All(ms, "committee_member") /\ d.restore = {}
        /\ d.about = ms \cup {Who(w) : w \in drop}
    <2>1. T \in SUBSET Rows /\ new \ back \in SUBSET Residents /\ drop \in SUBSET Rows
      BY <1>1, <1>2, <1>4, <1>5
    <2>2. IsSeating(Seating(drop, T, new \ back, ms), drop, T, new \ back, ms)
      BY <1>5, <2>1, SeatingTyped
    <2> QED
      BY <1>3, <2>2 DEF IsSeating
  <1>7. \A m \in Residents : d.sets[m] = IF m \in ms THEN "committee_member" ELSE Nil
    BY <1>6 DEF All
  <1>8. Contained(d)
    BY <1>2, <1>4, <1>6, <1>7 DEF Contained
  <1>9. Seats(d, c)
    <2>1. \A m \in d.join : m \in ms /\ m \in Residents
      BY <1>2, <1>6
    <2>2. \A w \in d.revive : w[1] = c /\ Who(w) \in back /\ Who(w) \in ms /\ Who(w) \in Residents
      BY <1>1, <1>2, <1>4, <1>6
    <2> QED
      BY <1>4, <1>6, <1>7, <2>1, <2>2 DEF Seats
  <1>10. ShapeOf(b, d)
    BY <1>5, <1>6, <1>8, <1>9 DEF ShapeOf, c
  <1>11. ASSUME NEW m \in d.about, Agrees(m) PROVE FoundBy(b, d, m)
    <2> m \in Residents
      BY <1>6 DEF Decision
    <2>1. d.sets[m] # Nil => ~OnBoard(m)
      BY <1>7, <1>11
    <2>2. ASSUME WinsBy(d, m), NEW w \in Rows, w[1] = c, Who(w) = m PROVE seats[w] # "live"
      <3>1. m \in new
        BY <1>2, <1>4, <1>6, <2>2 DEF WinsBy
      <3> QED
        BY <3>1, <2>2 DEF committee_member, Live, c
    <2> QED
      BY <2>1, <2>2 DEF FoundBy, c
  <1> QED
    BY <1>6, <1>10, <1>11 DEF Sound

\* The fields of a payload are in the sets its operation names.
LEMMA BodyParts ==
    ASSUME NEW b \in Proposals
    PROVE  /\ b.members \subseteq Residents /\ b.role \in Roles
           /\ b.op \in SeatingOps \cup {"nominate", "end_term", "update_user"}
           /\ b.op \in {"update", "delete", "assign_member"} => b.committee \in Committees
           /\ b.op = "remove_member" => b.row \in Rows
           /\ b.op = "end_term" => b.term \in BoardRows
  <1>1. b \in Proposed
    OBVIOUS
  <1> QED
    BY <1>1 DEF Proposed, MembershipOps, SeatingOps

\* A member read as a homeowner or a committee's member has no board term.
LEMMA HomeownersOffBoard ==
    ASSUME NEW m \in Residents, homeowner_in_association(m) \/ has_active_membership(m), Agrees(m)
    PROVE  ~OnBoard(m)
  BY DEF homeowner_in_association, Agrees

\* What create decides from its reads is sound.
LEMMA CreateSound ==
    ASSUME MembershipTypeOK, NEW b \in Proposals, b.op = "create", Admits(b), NEW d \in Decisions(b)
    PROVE  Sound(b, d)
  <1> DEFINE ms == b.members
             no == {}
  <1>1. ms \in SUBSET Residents /\ \A m \in ms : homeowner_in_association(m)
    BY BodyParts DEF Admits
  <1>2. d = Seating(no, no, ms, ms)
    BY DEF Decisions
  <1>3. no \in SUBSET Rows /\ \A w \in no : FALSE
    OBVIOUS
  <1> HIDE DEF ms
  <1>4. IsSeating(d, no, no, ms, ms)
    <2>1. IsSeating(Seating(no, no, ms, ms), no, no, ms, ms)
      BY <1>1, <1>3, SeatingTyped
    <2> QED
      BY <1>2, <2>1
  <1>5. /\ d \in Decision /\ d.drop = {} /\ d.revive = {} /\ d.join = ms /\ d.restore = {}
        /\ d.about = ms
        /\ \A m \in Residents : d.sets[m] = IF m \in ms THEN "committee_member" ELSE Nil
    BY <1>4 DEF IsSeating, All
  <1>6. ShapeOf(b, d)
    BY <1>1, <1>5 DEF ShapeOf, Contained, Seats, SeatingOps
  <1>7. ASSUME NEW m \in d.about, Agrees(m) PROVE FoundBy(b, d, m)
    <2>1. m \in Residents /\ homeowner_in_association(m)
      BY <1>1, <1>5
    <2> QED
      BY <1>7, <2>1, HomeownersOffBoard DEF FoundBy
  <1> QED
    BY <1>5, <1>6, <1>7 DEF Sound

\* What update decides from its reads is sound.
LEMMA UpdateSound ==
    ASSUME MembershipTypeOK, NEW b \in Proposals, b.op = "update", Admits(b), NEW d \in Decisions(b)
    PROVE  Sound(b, d)
  <1> DEFINE c == b.committee
             ms == b.members
             there == {Who(w) : w \in Live(c)}
             gone == there \ ms
             left == {w \in Live(c) : Who(w) \in gone}
             new == ms \ there
             Made(drop) == Seatings(c, drop, new, ms)
  <1>1. /\ c \in Committees /\ ms \in SUBSET Residents /\ committees[c] = "active"
        /\ \A m \in ms : homeowner_in_association(m) \/ committee_member(c, m) # {}
    BY BodyParts DEF Admits
  <1>2. PICK drop \in OneEach(left, gone) : d \in Made(drop)
    <2>1. d \in UNION {Made(drop) : drop \in OneEach(left, gone)}
      BY DEF Decisions
    <2> HIDE DEF Made, left, gone
    <2> QED
      BY <2>1
  <1>3. left \in SUBSET Rows /\ left \subseteq Live(c) /\ \A w \in left : Who(w) \notin ms
    BY DEF Live
  <1>4. \A m \in new : committee_member(c, m) = {}
    BY DEF committee_member
  <1>5. new \in SUBSET ms
    OBVIOUS
  <1> HIDE DEF left, gone, there, new
  <1>6. drop \in SUBSET Live(c) /\ \A w \in drop : Who(w) \notin ms
    <2>1. drop \subseteq left
      BY <1>3, OneEachPicks
    <2> QED
      BY <1>3, <2>1
  <1>7. \A m \in new : homeowner_in_association(m) /\ committee_member(c, m) = {}
    BY <1>1, <1>4, <1>5
  <1>8. \A m \in ms : Agrees(m) => ~OnBoard(m)
    <2> SUFFICES ASSUME NEW m \in ms, Agrees(m) PROVE ~OnBoard(m)
      OBVIOUS
    <2>1. ASSUME committee_member(c, m) # {} PROVE has_active_membership(m)
      BY <1>1, <2>1 DEF committee_member, Live, has_active_membership
    <2> QED
      BY <1>1, <2>1, HomeownersOffBoard
  <1>9. d \in Seatings(c, drop, new, ms) /\ b.op \in {"update", "assign_member"}
    BY <1>2
  <1> QED
    BY <1>1, <1>5, <1>6, <1>7, <1>8, <1>9, SeatingSound

\* What assign_member decides from its reads is sound.
LEMMA AssignSound ==
    ASSUME MembershipTypeOK, NEW b \in Proposals, b.op = "assign_member", Admits(b), NEW d \in Decisions(b)
    PROVE  Sound(b, d)
  <1> DEFINE c == b.committee
             ms == b.members
             no == {}
  <1>1. /\ c \in Committees /\ ms \in SUBSET Residents /\ committees[c] = "active"
        /\ \A m \in ms : homeowner_in_association(m) /\ committee_member(c, m) = {}
    BY BodyParts DEF Admits
  <1>2. d \in Seatings(c, no, ms, ms)
    BY DEF Decisions
  <1>3. no \in SUBSET Live(c) /\ ms \in SUBSET ms /\ \A w \in no : Who(w) \notin ms
    OBVIOUS
  <1>4. \A m \in ms : Agrees(m) => ~OnBoard(m)
    BY <1>1, HomeownersOffBoard
  <1> QED
    BY <1>1, <1>2, <1>3, <1>4, SeatingSound

\* delete and remove_member.
LEMMA UnseatingSound ==
    ASSUME MembershipTypeOK, NEW b \in Proposals, b.op \in {"delete", "remove_member"}, Admits(b),
           NEW d \in Decisions(b)
    PROVE  Sound(b, d)
  <1> DEFINE no == {}
             UnseatedBy(drop) == /\ d = Seating(drop, no, no, no)
                                 /\ \A w \in drop : seats[w] = "live" /\ committees[w[1]] = "active"
  <1>1. PICK drop \in SUBSET Rows : UnseatedBy(drop)
    <2>1. CASE b.op = "delete"
      <3>1. d = Seating(Live(b.committee), no, no, no) /\ committees[b.committee] = "active"
        BY <2>1 DEF Decisions, Admits
      <3>2. /\ Live(b.committee) \in SUBSET Rows
            /\ \A w \in Live(b.committee) : seats[w] = "live" /\ committees[w[1]] = "active"
        BY <3>1 DEF Live
      <3>3. UnseatedBy(Live(b.committee))
        BY <3>1, <3>2
      <3> HIDE DEF UnseatedBy
      <3> QED
        BY <3>2, <3>3
    <2>2. CASE b.op = "remove_member"
      <3>1. /\ d = Seating({b.row}, no, no, no)
            /\ seats[b.row] = "live" /\ committees[b.row[1]] = "active"
        BY <2>2 DEF Decisions, Admits
      <3>2. {b.row} \in SUBSET Rows
        BY <2>2, BodyParts
      <3>3. UnseatedBy({b.row})
        BY <3>1
      <3> HIDE DEF UnseatedBy
      <3> QED
        BY <3>2, <3>3
    <2> QED
      BY <2>1, <2>2
  <1>2. no \in SUBSET Rows /\ no \in SUBSET Residents
    OBVIOUS
  <1>3. IsSeating(d, drop, no, no, no)
    <2>1. IsSeating(Seating(drop, no, no, no), drop, no, no, no)
      BY <1>1, <1>2, SeatingTyped
    <2> QED
      BY <1>1, <2>1
  <1>4. /\ d \in Decision /\ d.drop = drop /\ d.revive = {} /\ d.join = {} /\ d.restore = {}
        /\ \A w \in drop : Who(w) \in d.about
        /\ \A m \in Residents : d.sets[m] = Nil
    BY <1>3 DEF IsSeating, All
  <1>5. ShapeOf(b, d)
    BY <1>1, <1>4 DEF ShapeOf, Contained, Seats
  <1>6. ASSUME NEW m \in d.about PROVE FoundBy(b, d, m)
    <2>1. m \in Residents
      BY <1>4 DEF Decision
    <2> QED
      BY <1>4, <2>1 DEF FoundBy
  <1> QED
    BY <1>4, <1>5, <1>6 DEF Sound

\* What nominate decides from its reads is sound.
LEMMA NominateSound ==
    ASSUME MembershipTypeOK, NEW b \in Proposals, b.op = "nominate", Admits(b), NEW d \in Decisions(b)
    PROVE  Sound(b, d)
  <1>1. /\ b.members \in SUBSET Residents
        /\ \A m \in b.members : homeowner_in_association(m) /\ ~OnBoard(m)
    BY BodyParts DEF Admits, OnBoard
  <1>2. d = Setting(b.members, b.members, "board_member")
    BY DEF Decisions
  <1>3. /\ d \in Decision /\ d.drop = {} /\ d.revive = {} /\ d.join = {}
        /\ d.sets = All(b.members, "board_member") /\ d.restore = {} /\ d.about = b.members
    <2>1. "board_member" \in Roles
      BY DEF Roles
    <2>2. IsSetting(Setting(b.members, b.members, "board_member"), b.members, b.members,
                    "board_member")
      BY <1>1, <2>1, SettingTyped
    <2> QED
      BY <1>2, <2>2 DEF IsSetting
  <1>4. ShapeOf(b, d)
    BY <1>3 DEF ShapeOf, Contained, SeatingOps, All
  <1>5. ASSUME NEW m \in d.about PROVE FoundBy(b, d, m)
    BY <1>1, <1>3 DEF FoundBy, SeatingOps, homeowner_in_association
  <1> QED
    BY <1>3, <1>4, <1>5 DEF Sound

\* What end_term decides from its reads is sound.
LEMMA EndTermSound ==
    ASSUME MembershipTypeOK, NEW b \in Proposals, b.op = "end_term", Admits(b), NEW d \in Decisions(b)
    PROVE  Sound(b, d)
  <1>1. PICK m \in Residents, n \in Terms : b.term = <<m, n>>
    BY BodyParts DEF BoardRows
  <1> DEFINE other == \E k \in Terms \ {n} : terms[<<m, k>>] = "active"
             given == IF other THEN {} ELSE {m}
  <1>2. d = Setting({m}, given, "homeowner")
    BY <1>1 DEF Decisions
  <1>3. given \in SUBSET Residents /\ (m \in given <=> ~other) /\ given \subseteq {m}
    OBVIOUS
  <1> HIDE DEF given
  <1>4. /\ d \in Decision /\ d.drop = {} /\ d.revive = {} /\ d.join = {}
        /\ d.sets = All(given, "homeowner") /\ d.restore = {} /\ d.about = {m}
    <2>1. "homeowner" \in Roles /\ {m} \in SUBSET Residents
      BY DEF Roles
    <2>2. IsSetting(Setting({m}, given, "homeowner"), {m}, given, "homeowner")
      BY <1>3, <2>1, SettingTyped
    <2> QED
      BY <1>2, <2>2 DEF IsSetting
  <1>5. \A x \in Residents : d.sets[x] = IF x \in given THEN "homeowner" ELSE Nil
    BY <1>4 DEF All
  <1>6. ShapeOf(b, d)
    <2>1. Contained(d)
      BY <1>3, <1>4, <1>5 DEF Contained
    <2>2. b.term \in BoardRows /\ d.about = {b.term[1]}
      BY <1>1, <1>4 DEF BoardRows
    <2> QED
      BY <1>4, <1>5, <2>1, <2>2 DEF ShapeOf, SeatingOps
  <1>7. FoundBy(b, d, m)
    <2>1. d.sets[m] = Nil <=> other
      BY <1>3, <1>5, NoneIsNoRole
    <2>2. b.term[2] = n
      BY <1>1
    <2> QED
      BY <2>1, <2>2 DEF FoundBy, SeatingOps
  <1> QED
    BY <1>4, <1>6, <1>7 DEF Sound

\* What update_user decides from its reads is sound.
LEMMA UpdateUserSound ==
    ASSUME MembershipTypeOK, NEW b \in Proposals, b.op = "update_user", NEW d \in Decisions(b)
    PROVE  Sound(b, d)
  <1> DEFINE given == {m \in b.members : roles[m] # b.role}
  <1>1. b.members \in SUBSET Residents /\ given \in SUBSET Residents /\ b.role \in Roles
        /\ given \subseteq b.members
    BY BodyParts
  <1>2. d = Setting(b.members, given, b.role)
    BY DEF Decisions
  <1> HIDE DEF given
  <1>3. /\ d \in Decision /\ d.drop = {} /\ d.revive = {} /\ d.join = {}
        /\ d.sets = All(given, b.role) /\ d.restore = {} /\ d.about = b.members
    <2>1. IsSetting(Setting(b.members, given, b.role), b.members, given, b.role)
      BY <1>1, SettingTyped
    <2> QED
      BY <1>2, <2>1 DEF IsSetting
  <1>4. ShapeOf(b, d)
    BY <1>1, <1>3 DEF ShapeOf, Contained, SeatingOps, All
  <1>5. ASSUME NEW m \in d.about PROVE FoundBy(b, d, m)
    BY DEF FoundBy, SeatingOps
  <1> QED
    BY <1>3, <1>4, <1>5 DEF Sound

\* What any operation decides from its reads is sound.
LEMMA DecisionSound ==
    ASSUME MembershipTypeOK, NEW b \in Proposals, Admits(b), NEW d \in Decisions(b)
    PROVE  Sound(b, d)
  <1>1. b.op \in SeatingOps \cup {"nominate", "end_term", "update_user"}
    BY BodyParts
  <1> QED
    BY <1>1, CreateSound, UpdateSound, AssignSound, UnseatingSound, NominateSound, EndTermSound,
       UpdateUserSound DEF SeatingOps

\* The reads of a request preserve the invariant: its plan is sound when it
\* is made.
LEMMA ReadKeeps ==
    ASSUME MembershipInvariant, NEW r \in Changes, Read(r)
    PROVE  MembershipInvariant'
  <1> MembershipTypeOK
    BY DEF MembershipInvariant
  <1>0. phase[r] = "idle" /\ UNCHANGED rosters
    BY DEF Read
  <1>1. /\ \A m \in Residents : Agrees(m)' <=> Agrees(m)
        /\ RowsInCommittees'
    BY <1>0 DEF rosters, Agrees, OneTerm, OneSeat, OnBoard, has_active_membership,
                RowsInCommittees, MembershipInvariant
  <1>2. ASSUME NEW s \in Open, s # r, proposal'[s] = proposal[s], decision'[s] = decision[s]
        PROVE  Shape(s)' /\ \A m \in decision[s].about \ disturbed : AsFound(s, m)'
    <2>1. Shape(s) /\ \A m \in decision[s].about \ disturbed : AsFound(s, m)
      BY DEF MembershipInvariant, StillFound
    <2>2. Shape(s)'
      BY <1>0, <1>2, <2>1 DEF rosters, Shape, ShapeOf, Contained, Seats, All
    <2>3. \A m \in Residents : AsFound(s, m)' <=> AsFound(s, m)
      BY <1>0, <1>2 DEF rosters, AsFound, FoundBy, OnBoard, WinsBy
    <2>4. decision[s].about \subseteq Residents
      BY DEF Open, MembershipTypeOK, Decision
    <2> QED
      BY <2>1, <2>2, <2>3, <2>4
  <1>3. CASE /\ phase' = [phase EXCEPT ![r] = "refused"]
             /\ UNCHANGED <<proposal, decision, disturbed>>
    <2>1. MembershipTypeOK' /\ Open' = Open
      BY <1>0, <1>3 DEF MembershipTypeOK, rosters, Open
    <2>2. RolesAgree' /\ Apart'
      BY <1>1, <1>3, <2>1 DEF MembershipInvariant, RolesAgree, Apart
    <2>3. \A s \in Open : s # r
      BY <1>0 DEF Open
    <2>4. (\A s \in Open : Shape(s))' /\ StillFound'
      BY <1>2, <1>3, <2>1, <2>3 DEF StillFound
    <2> QED
      BY <1>1, <2>1, <2>2, <2>4 DEF MembershipInvariant
  <1>4. ASSUME NEW b \in Proposals, Admits(b), NEW d \in Decisions(b),
               phase' = [phase EXCEPT ![r] = "open"], proposal' = [proposal EXCEPT ![r] = b],
               decision' = [decision EXCEPT ![r] = d],
               disturbed' = disturbed \cup (d.about \cap UNION {decision[s].about : s \in Open})
        PROVE  MembershipInvariant'
    <2>1. Sound(b, d)
      BY <1>4, DecisionSound
    <2>2. d \in Decision /\ d.about \subseteq Residents
      BY <2>1 DEF Sound, Decision
    <2>3. /\ Open' = Open \cup {r} /\ r \notin Open
          /\ proposal'[r] = b /\ decision'[r] = d
          /\ \A s \in Open : s # r /\ proposal'[s] = proposal[s] /\ decision'[s] = decision[s]
      BY <1>0, <1>4 DEF MembershipTypeOK, Open
    <2>4. disturbed \subseteq disturbed' /\ disturbed' \subseteq Residents
      BY <1>4, <2>2 DEF MembershipTypeOK
    <2>5. MembershipTypeOK'
      BY <1>0, <1>4, <2>2, <2>4 DEF MembershipTypeOK, rosters
    <2>6. RolesAgree'
      BY <1>1, <2>4 DEF MembershipInvariant, RolesAgree
    <2>7. Apart'
      <3> SUFFICES ASSUME NEW s \in Open', NEW t \in Open', s # t,
                          NEW m, m \in decision'[s].about, m \in decision'[t].about
                   PROVE  m \in disturbed'
        BY DEF Apart
      <3>1. CASE s \in Open /\ t \in Open
        BY <3>1, <2>3, <2>4 DEF MembershipInvariant, Apart
      <3>2. CASE s = r
        BY <3>2, <2>3, <1>4
      <3>3. CASE t = r
        BY <3>3, <2>3, <1>4
      <3> QED
        BY <3>1, <3>2, <3>3, <2>3
    <2>8. Shape(r)'
      BY <1>0, <2>1, <2>3 DEF rosters, Sound, Shape, ShapeOf, Contained, Seats, All
    <2>9. ASSUME NEW m \in d.about \ disturbed' PROVE AsFound(r, m)'
      <3>1. FoundBy(b, d, m)
        BY <2>1, <2>2, <2>4 DEF Sound, MembershipInvariant, RolesAgree
      <3> QED
        BY <3>1, <1>0, <2>3 DEF rosters, AsFound, FoundBy, OnBoard, WinsBy
    <2>10. (\A s \in Open : Shape(s))'
      BY <1>2, <2>3, <2>8
    <2>11. StillFound'
      BY <1>2, <2>3, <2>4, <2>9 DEF StillFound
    <2> QED
      BY <1>1, <2>5, <2>6, <2>7, <2>10, <2>11 DEF MembershipInvariant
  <1> QED
    BY <1>3, <1>4 DEF Read
-----------------------------------------------------------------------------
\* The invariant holds at the start.
LEMMA InitLemma == MembershipInit => MembershipInvariant
  <1> SUFFICES ASSUME MembershipInit PROVE MembershipInvariant
    OBVIOUS
  <1> USE OpeningMemberships DEF MembershipInit
  <1>1. MembershipTypeOK
    BY NothingTyped DEF MembershipTypeOK
  <1>2. ASSUME NEW m \in Residents PROVE Agrees(m)
    <2>1. OneTerm(m)
      BY DEF OneTerm
    <2>2. OneSeat(m)
      BY DEF OneSeat, Who
    <2>3. OnBoard(m) <=> roles[m] = "board_member"
      <3>1. terms = OpeningTerms /\ roles = OpeningRoles
        OBVIOUS
      <3>2. OpeningRoles[m] = "board_member"
              <=> \E n \in Terms : OpeningTerms[<<m, n>>] = "active"
        OBVIOUS
      <3> HIDE OpeningMemberships DEF MembershipInit
      <3> QED
        BY <3>1, <3>2, ZenonT(30) DEF OnBoard
    <2>4. has_active_membership(m) => roles[m] = "committee_member"
      BY DEF has_active_membership, Who
    <2> QED
      BY <2>1, <2>2, <2>3, <2>4 DEF Agrees
  <1>3. RowsInCommittees /\ Open = {}
    BY DEF RowsInCommittees, Open
  <1> QED
    BY <1>1, <1>2, <1>3 DEF MembershipInvariant, RolesAgree, Apart, StillFound

\* Every step of the component, and a stutter, preserves the invariant.
LEMMA MembershipNextKeeps == MembershipInvariant /\ [MembershipNext]_membershipVars => MembershipInvariant'
  <1> SUFFICES ASSUME MembershipInvariant, [MembershipNext]_membershipVars PROVE MembershipInvariant'
    OBVIOUS
  <1>1. CASE MembershipNext
    BY <1>1, ReadKeeps, CreateKeeps, SeatActionsKeep, NominateKeeps, EndTermKeeps,
       UpdateUserKeeps, AbortKeeps DEF MembershipNext
  <1>2. CASE UNCHANGED membershipVars
    <2> USE <1>2 DEF membershipVars, rosters
    <2>1. MembershipTypeOK' /\ RowsInCommittees' /\ Open' = Open
      BY DEF MembershipInvariant, MembershipTypeOK, RowsInCommittees, Open
    <2>2. RolesAgree'
      BY DEF MembershipInvariant, RolesAgree, Agrees, OneTerm, OneSeat, OnBoard, has_active_membership
    <2>3. Apart'
      BY <2>1 DEF MembershipInvariant, Apart
    <2>4. \A r \in Changes : Shape(r)' <=> Shape(r)
      BY DEF Shape, ShapeOf, Contained, Seats, All
    <2>5. \A r \in Changes, m \in Residents : AsFound(r, m)' <=> AsFound(r, m)
      BY DEF AsFound, FoundBy, OnBoard, WinsBy
    <2>6. \A r \in Open : r \in Changes /\ decision[r].about \subseteq Residents
      BY DEF MembershipInvariant, MembershipTypeOK, Open, Decision
    <2>7. (\A r \in Open : Shape(r))' /\ StillFound'
      BY <2>1, <2>4, <2>5, <2>6 DEF MembershipInvariant, StillFound
    <2> QED
      BY <2>1, <2>2, <2>3, <2>7 DEF MembershipInvariant
  <1> QED
    BY <1>1, <1>2

\* The strengthened invariant holds in every reachable state.
LEMMA MembershipInvariance == MembershipSpec => []MembershipInvariant
  BY InitLemma, MembershipNextKeeps, PTL DEF MembershipSpec

\* The tables and what requests remember of them keep their ranges.
THEOREM MembershipTypes == MembershipSpec => []MembershipTypeOK
  <1>1. MembershipInvariant => MembershipTypeOK
    BY DEF MembershipInvariant
  <1> QED
    BY <1>1, MembershipInvariance, PTL

\* Committees and the board take nobody the other has, and a member has one seat in a
\* committee and one term at a time, whatever requests run, as long as no two of them
\* concern the member at once (committees/service.py, board_members/service.py).
THEOREM RolesAndSeats == MembershipSpec => []RolesAgree
  <1>1. MembershipInvariant => RolesAgree
    BY DEF MembershipInvariant
  <1> QED
    BY <1>1, MembershipInvariance, PTL
=============================================================================
