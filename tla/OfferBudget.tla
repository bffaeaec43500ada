---------------------------- MODULE OfferBudget ----------------------------
(***************************************************************************)
(* What an offer with a budget promises: a ride is granted a discount at   *)
(* most once, the grants that stand never exceed the budget, a grant may   *)
(* shrink and never grows, one that was given is never taken back, and one *)
(* that was withdrawn never returns.                                       *)
(***************************************************************************)
EXTENDS Totals

CONSTANTS Rides, Budgets

VARIABLES
    grant,      \* of each ride: its state and amount
    total       \* the budget

None == [st |-> "none", n |-> 0]
Stands(r) == grant[r].st \in {"promised", "given"}
Granted == Total([r \in Rides |-> grant[r].n], {r \in Rides : Stands(r)})

Init ==
    /\ grant = [r \in Rides |-> None]
    /\ total \in Budgets

Promise(r) ==
    /\ grant[r] = None
    /\ \E n \in 0..(total - Granted) : grant' = [grant EXCEPT ![r] = [st |-> "promised", n |-> n]]
    /\ UNCHANGED total

Shrink(r) ==
    /\ Stands(r)
    /\ \E n \in 0..(grant[r].n - 1) : grant' = [grant EXCEPT ![r].n = n]
    /\ UNCHANGED total

Give(r) ==
    /\ grant[r].st = "promised"
    /\ \E n \in 0..grant[r].n : grant' = [grant EXCEPT ![r] = [st |-> "given", n |-> n]]
    /\ UNCHANGED total

Withdraw(r) ==
    /\ grant[r].st = "promised"
    /\ grant' = [grant EXCEPT ![r] = [st |-> "withdrawn", n |-> 0]]
    /\ UNCHANGED total

Rebudget ==
    /\ total' \in {b \in Budgets : b >= Granted}
    /\ UNCHANGED grant

Next ==
    \/ \E r \in Rides : Promise(r) \/ Shrink(r) \/ Give(r) \/ Withdraw(r)
    \/ Rebudget

Spec == Init /\ [][Next]_<<grant, total>>
=============================================================================
