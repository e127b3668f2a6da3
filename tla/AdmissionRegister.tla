-------------------------- MODULE AdmissionRegister --------------------------
(* What event passes promise: a register of the admissions sold and used per *)
(* event. app/modules/events/pass_service.py keeps it spread over pass rows. *)
(* A clerk sells by a note of the sales, which may be older than the register. *)
EXTENDS Naturals

CONSTANTS Clerks, Events, Capacity      \* Capacity 0 stands for no limit

VARIABLES
    sold, entered,      \* the register
    noted               \* the sales as each clerk last looked them up

vars == <<sold, entered, noted>>

\* Nobody is in yet, and what was sold before keeps to the capacity.
Init ==
    /\ sold \in [Events -> Nat]
    /\ Capacity # 0 => \A e \in Events : sold[e] <= Capacity
    /\ entered = [e \in Events |-> 0]
    /\ noted = [c \in Clerks |-> sold]

Sell(c, e) ==
    /\ sold'[e] > sold[e]
    /\ Capacity # 0 => noted[c][e] + (sold'[e] - sold[e]) <= Capacity
    /\ sold' = [sold EXCEPT ![e] = sold'[e]]
    /\ UNCHANGED entered

Enter(e) ==
    /\ entered'[e] > entered[e]
    /\ entered'[e] <= sold[e]
    /\ entered' = [entered EXCEPT ![e] = entered'[e]]
    /\ UNCHANGED sold

\* A note is kept, or made anew from the register.
LookUp == \A c \in Clerks : noted'[c] = noted[c] \/ noted'[c] = sold'

Next ==
    /\ \/ \E e \in Events : Enter(e) \/ \E c \in Clerks : Sell(c, e)
       \/ UNCHANGED <<sold, entered>>
    /\ LookUp

Spec == Init /\ [][Next]_vars
=============================================================================
