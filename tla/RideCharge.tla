----------------------------- MODULE RideCharge -----------------------------
(***************************************************************************)
(* What the payments of a ride promise: its rider is billed one amount,    *)
(* once; the bill is settled at most once, by one payer, together with     *)
(* the driver's commission and earning; and a settled bill is final.       *)
(***************************************************************************)
EXTENDS Naturals

CONSTANTS Rides, Payers

VARIABLE charge     \* of each ride: its state, amount, payer and bookings of commission

Unbilled(nobody) == [st |-> "none", amount |-> 0, payer |-> nobody, booked |-> 0]

Init == \E nobody \in Payers : charge = [r \in Rides |-> Unbilled(nobody)]

\* (The amount is whatever the step makes it: any number.)
Bill(r) ==
    /\ charge[r].st = "none"
    /\ charge'[r].amount \in Nat
    /\ charge' = [charge EXCEPT ![r].st = "due", ![r].amount = charge'[r].amount]

Settle(r) ==
    /\ charge[r].st = "due"
    /\ charge'[r].payer \in Payers
    /\ charge' = [charge EXCEPT ![r].st = "settled", ![r].payer = charge'[r].payer,
                                ![r].booked = @ + 1]

\* Cash: billed and settled at once.
BillAndSettle(r) ==
    /\ charge[r].st = "none"
    /\ charge'[r].amount \in Nat
    /\ charge'[r].payer \in Payers
    /\ charge' = [charge EXCEPT ![r] = [st |-> "settled", amount |-> charge'[r].amount,
                                        payer |-> charge'[r].payer, booked |-> @.booked + 1]]

Next == \E r \in Rides : Bill(r) \/ Settle(r) \/ BillAndSettle(r)

Spec == Init /\ [][Next]_charge
=============================================================================
