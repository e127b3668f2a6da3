------------------------------- MODULE Polls -------------------------------
(* Polls, their options, votes, likes and comments (app/modules/polls). An edit *)
(* replaces the options and deletes the votes it sees.                        *)
EXTENDS UnitOfWork

POLL_MANAGER_ROLES == {"super_admin", "admin", "board_member"}
POLL_VOTER_ROLES == RoleCodes \ {"accountant", "security", "csr"}

poll_visibility(role) ==
    CASE role \in {"homeowner", "tenant"} -> {"All", "Homeowners"}
      [] role = "committee_member" -> {"All", "Committee Members"}
      [] role = "board_member" -> {"All", "Board Members"}
      [] OTHER -> {"All"}

\* Spelled with a capital it is open to votes; the notice goes out for any spelling.
published(status) == status \in {"Published", "published"}

poll_get(tables, poll) == IsLive(tables.polls, poll)

_authorized_poll(tables, poll, account) ==
    /\ poll_get(tables, poll)
    /\ MayView(account, tables.polls[poll].association)
    /\ RoleOf[account] \notin {"super_admin", "admin"} =>
          tables.polls[poll].visibility \in poll_visibility(RoleOf[account])

_manager_poll(tables, poll, account) ==
    /\ RoleOf[account] \in POLL_MANAGER_ROLES
    /\ poll_get(tables, poll)
    /\ _require_association_access(account, tables.polls[poll].association)

\* What GET /polls returns.
poll_list(tables, account) ==
    {p \in Live(tables.polls) :
        /\ MayView(account, tables.polls[p].association)
        /\ RoleOf[account] \notin {"super_admin", "admin"} =>
              /\ tables.polls[p].visibility \in poll_visibility(RoleOf[account])
              /\ tables.polls[p].status = "Published"}

poll_options(tables, poll) == {o \in Live(tables.pollOptions) : tables.pollOptions[o].poll = poll}
poll_votes(tables, poll) == {v \in Live(tables.pollVotes) : v[1] = poll}

\* The count of an option with the votes that were taken back.
vote_count_of_all(tables, option) == Cardinality({v \in DOMAIN tables.pollVotes : v[2] = option})

\* vote_count of an option and total_votes of its poll, in poll_list
vote_count(tables, option) == Cardinality({v \in Live(tables.pollVotes) : v[2] = option})
total_votes(tables, poll) == Cardinality({v[3] : v \in poll_votes(tables, poll)})

new_options(r, poll) ==
    [o \in {<<r, t>> : t \in body[r].options} |-> [poll |-> poll, text |-> o[2], deleted |-> FALSE]]
-----------------------------------------------------------------------------
create_poll(r) ==
    LET b == body[r]
        association == IF b.association = None /\ RoleOf[b.by] = "board_member"
                       THEN HomeOf[b.by] ELSE b.association
        row == With(b.columns, [association |-> association, created |-> now, deleted |-> FALSE])
    IN  /\ Asks(r, "create_poll")
        /\ Decide(r,
             /\ RoleOf[b.by] \in POLL_MANAGER_ROLES
             /\ association_exists(seen[r], association)
             /\ _require_association_access(b.by, association), FALSE,
             [db EXCEPT !.polls = With(@, [k \in {r} |-> row]),
                        !.pollOptions = With(@, new_options(r, r)),
                        !.notifications = IF published(row.status)
                                          THEN Notify(@, r, <<"poll", r>>,
                                                      Audience(association, row.visibility))
                                          ELSE @])

update_poll(r) ==
    LET b == body[r]
        tables == seen[r]
        old == tables.polls[b.poll]
        new == With(old, b.columns)
        replaced == {v \in poll_votes(tables, b.poll) : v[2] \in poll_options(tables, b.poll)}
    IN  /\ Asks(r, "update_poll")
        /\ Decide(r,
             /\ _manager_poll(tables, b.poll, b.by)
             /\ _check_window(b.by, old.created), FALSE,
             [db EXCEPT !.polls = Save(@, tables.polls, b.poll, new),
                        !.pollOptions = With(Delete(@, tables.pollOptions,
                                                    poll_options(tables, b.poll)),
                                             new_options(r, b.poll)),
                        !.pollVotes = Delete(@, tables.pollVotes, replaced),
                        !.notifications = IF ~published(old.status) /\ published(new.status)
                                          THEN Notify(@, r, <<"poll", b.poll>>,
                                                      Audience(old.association, new.visibility))
                                          ELSE @])

delete_poll(r) ==
    LET b == body[r]
    IN  /\ Asks(r, "delete_poll")
        /\ Decide(r,
             /\ _manager_poll(seen[r], b.poll, b.by)
             /\ _check_window(b.by, seen[r].polls[b.poll].created), FALSE,
             [db EXCEPT !.polls = Delete(@, seen[r].polls, {b.poll})])

\* The rows the account has are marked deleted, those of the chosen options live again
\* or inserted: by primary key, which another vote of the account may have taken.
vote_poll(r) ==
    LET b == body[r]
        tables == seen[r]
        poll == tables.polls[b.poll]
        mine == {v \in DOMAIN tables.pollVotes : v[1] = b.poll /\ v[3] = b.by}
        chosen == {<<b.poll, o, b.by>> : o \in b.options}
        new == [v \in chosen \ mine |-> [deleted |-> FALSE]]
    IN  /\ Asks(r, "vote_poll")
        /\ Decide(r,
             /\ RoleOf[b.by] \in POLL_VOTER_ROLES
             /\ _authorized_poll(tables, b.poll, b.by)
             /\ poll.status = "Published" /\ now <= poll.ends
             /\ poll.multiple \/ Cardinality(b.options) = 1
             /\ b.options \subseteq poll_options(tables, b.poll),
             Taken(db.pollVotes, tables.pollVotes, chosen),
             [db EXCEPT !.pollVotes = With(Mark(@, tables.pollVotes,
                                                [v \in mine |-> v \notin chosen]), new)])

toggle_poll_like(r) ==
    LET mine == <<body[r].poll, body[r].by>>
    IN  /\ Asks(r, "like_poll")
        /\ Decide(r, _authorized_poll(seen[r], body[r].poll, body[r].by),
             Taken(db.pollLikes, seen[r].pollLikes, {mine}),
             [db EXCEPT !.pollLikes = Toggle(@, seen[r].pollLikes, mine)])

add_poll_comment(r) ==
    LET b == body[r]
    IN  /\ Asks(r, "comment_poll")
        /\ Decide(r, _authorized_poll(seen[r], b.poll, b.by), FALSE,
             [db EXCEPT !.pollComments = With(@, [k \in {r} |-> [poll |-> b.poll, by |-> b.by]])])

PollStep(r) ==
    \/ create_poll(r) \/ update_poll(r) \/ delete_poll(r)
    \/ vote_poll(r) \/ toggle_poll_like(r) \/ add_poll_comment(r)
-----------------------------------------------------------------------------
PollRow == [question : STRING, visibility : STRING, status : STRING, multiple : BOOLEAN,
            ends : Nat, association : DOMAIN db.associations, created : Nat, deleted : BOOLEAN]

PollsTypeOK ==
    /\ \A p \in DOMAIN db.polls : db.polls[p] \in PollRow
    /\ \A o \in DOMAIN db.pollOptions : db.pollOptions[o].poll \in DOMAIN db.polls
    /\ \A v \in DOMAIN db.pollVotes : v[2] \in DOMAIN db.pollOptions /\ v[3] \in Accounts
=============================================================================
