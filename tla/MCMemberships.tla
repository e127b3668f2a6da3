--------------------------- MODULE MCMemberships ---------------------------
(* A homeowner, a committee member with a past term on the board, a board     *)
(* member, two committees and room for a third.                              *)
EXTENDS Memberships, TLC

CONSTANTS r1, r2, r3, r4, ann, bob, cat, k1, k2, k3

MCChanges == {r1, r2, r3, r4}
MCResidents == {ann, bob, cat}
MCCommittees == {k1, k2, k3}
MCCopies == 1..2
MCTerms == 1..2

MCOpeningCommittees == [c \in MCCommittees |-> IF c = k3 THEN "none" ELSE "active"]
MCOpeningSeats ==
    [w \in MCCommittees \X MCResidents \X MCCopies |->
       CASE w = <<k1, bob, 1>> -> "live" [] w = <<k2, ann, 1>> -> "removed" [] OTHER -> "none"]
MCOpeningTerms ==
    [t \in MCResidents \X MCTerms |->
       CASE t = <<bob, 1>> -> "past" [] t = <<cat, 1>> -> "active" [] OTHER -> "none"]
MCOpeningRoles ==
    [m \in MCResidents |-> CASE m = ann -> "homeowner" [] m = bob -> "committee_member"
                           [] m = cat -> "board_member"]

Ask(op) == [op |-> op, committee |-> Nil, members |-> {}, row |-> Nil, term |-> Nil,
            role |-> "homeowner", permitted |-> TRUE]

Of(op, c, ms) == [Ask(op) EXCEPT !.committee = c, !.members = ms]

MCProposals ==
    {Of("create", Nil, {ann}), Of("update", k1, {ann, bob}), Of("update", k1, {ann}),
     Of("update", k2, {ann}), Of("update", k2, {bob}), Of("delete", k1, {}),
     Of("assign_member", k1, {ann}), Of("assign_member", k2, {ann}),
     Of("assign_member", k1, {cat}),
     [Ask("remove_member") EXCEPT !.row = <<k1, bob, 1>>],
     [Ask("remove_member") EXCEPT !.row = <<k1, ann, 1>>],
     Of("nominate", Nil, {ann}), [Of("nominate", Nil, {ann}) EXCEPT !.permitted = FALSE],
     [Ask("end_term") EXCEPT !.term = <<bob, 1>>],
     [Ask("end_term") EXCEPT !.term = <<cat, 1>>],
     [Ask("end_term") EXCEPT !.term = <<ann, 1>>],
     [Of("update_user", Nil, {cat}) EXCEPT !.role = "committee_member"]}

Symmetric == Permutations(MCChanges)
=============================================================================
