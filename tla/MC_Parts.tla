------------------------------ MODULE MC_Parts ------------------------------
(***************************************************************************)
(* Parts of the backend that share no state, in one instance for TLC: a    *)
(* behaviour runs one of them while the others rest.                       *)
(***************************************************************************)
EXTENDS MC_Ride, DriverPayouts, GatewayPurchases, RidePin, DriverLogins

CONSTANTS e1, e2, s1, s2, p1, t1, a1, a2, a3, l1, l2, c1, c2

VARIABLE part       \* the part this behaviour runs

PartsVars == <<part, vars, payoutVars, purchaseVars, pinVars, loginVars>>

PartsInit ==
    /\ part \in {"rides", "payouts", "purchases", "pin", "logins"}
    /\ Init /\ PayoutInit /\ PurchaseInit /\ PinInit /\ LoginInit

PartsNext ==
    /\ UNCHANGED part
    /\ \/ part = "rides" /\ Next /\ UNCHANGED <<payoutVars, purchaseVars, pinVars, loginVars>>
       \/ part = "payouts" /\ PayoutNext /\ UNCHANGED <<vars, purchaseVars, pinVars, loginVars>>
       \/ part = "purchases" /\ PurchaseNext /\ UNCHANGED <<vars, payoutVars, pinVars, loginVars>>
       \/ part = "pin" /\ PinNext /\ UNCHANGED <<vars, payoutVars, purchaseVars, loginVars>>
       \/ part = "logins" /\ LoginNext /\ UNCHANGED <<vars, payoutVars, purchaseVars, pinVars>>

PartsSpec == PartsInit /\ [][PartsNext]_PartsVars

\* Rides booked alike, earnings and submitters are interchangeable.
AlikeParts == Permutations(Rides) \cup Permutations(Earnings) \cup Permutations(Submitters)
=============================================================================
