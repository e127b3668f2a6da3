---------------------------- MODULE MCReminders ----------------------------
(* Two runs over two vehicles, one of them with both documents, the other  *)
(* with an owner who has two accounts.                                       *)
EXTENDS Reminders

CONSTANTS r1, r2, r3, car, van, ann, bob, bea

MCRuns == {r1, r2}
MCVehicles == {car, van}
MCTypes == {"insurance", "puc"}
MCAccounts == {ann, bob, bea}
MCowners == [v \in MCVehicles |-> IF v = car THEN {ann} ELSE {bob, bea}]
MCOpeningDue ==
    [d \in MCVehicles \X MCTypes |->
       IF d = <<car, "puc">> THEN 2 ELSE IF d[2] = "insurance" THEN 1 ELSE Null]
MCEdits == {<<<<car, "puc">>, 1>>, <<<<van, "insurance">>, 2>>}
=============================================================================
