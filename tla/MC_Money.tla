------------------------------ MODULE MC_Money ------------------------------
(* Instances of MoneySystem for TLC. *)
EXTENDS MoneySystem

CONSTANTS r1, r2, u1, u2

OneEach == [r \in Rides |-> IF r = r1 THEN u1 ELSE u2]

\* Two cash rides share the offer; a ride paid online or from the wallet is alone.
TwoCash == [r \in Rides |-> "cash"]
Alone(ch) == [r \in Rides |-> IF r = r1 THEN ch ELSE "none"]
CashOrAlone == {TwoCash, Alone("online"), Alone("wallet")}
=============================================================================
