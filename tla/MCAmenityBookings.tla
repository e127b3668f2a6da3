------------------------- MODULE MCAmenityBookings -------------------------
(* A manager, a member with a wallet and one without, one amenity on the    *)
(* books and room for another.                                              *)
EXTENDS AmenityBookings

CONSTANTS r1, r2, r3, ann, bob, z1, z2, z3, z4, k1, k2, k3

MCRequests == {r1, r2, r3}
MCAccounts == {ann, bob}
MCAmenities == {z1, z2, z3, z4}
MCBookingIds == {k1, k2, k3}
MCOpeningWallets == {ann}

MCOpeningAmenities ==
    [z \in MCAmenities |->
       IF z = z1 THEN [exists |-> TRUE, on |-> TRUE, deleted |-> FALSE, charges |-> 2]
       ELSE NoAmenity]

Manage(op, z, on) ==
    [op |-> op, acct |-> ann, amenity |-> z, permitted |-> TRUE, start |-> 0, end |-> 0,
     hours |-> 1, method |-> "wallet", pinOk |-> FALSE, charges |-> 1, on |-> on]

Booking(a, z, from, to, hours, method) ==
    [op |-> "book", acct |-> a, amenity |-> z, permitted |-> TRUE, start |-> from,
     end |-> to, hours |-> hours, method |-> method, pinOk |-> TRUE, charges |-> 0,
     on |-> FALSE]

MCPayloads ==
    {Manage("create", None, TRUE), Manage("delete", z1, FALSE),
     Manage("update_status", z1, TRUE), Manage("update_status", z1, FALSE),
     [Manage("delete", z2, FALSE) EXCEPT !.permitted = FALSE],
     Booking(ann, z1, 9, 11, 1, "wallet"), Booking(ann, z1, 8, 12, 2, "wallet"),
     Booking(bob, z1, 11, 12, 2, "upi"), Booking(bob, z2, 10, 12, 6, "upi"),
     Booking(bob, z1, 11, 12, 1, "wallet")}
=============================================================================
