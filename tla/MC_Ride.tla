------------------------------ MODULE MC_Ride ------------------------------
(* Instances of RideSystem for TLC. *)
EXTENDS RideSystem, TLC

CONSTANTS r1, r2, d1, d2, u1, u2

\* Every ride belongs to one rider.
OneRider == [r \in Rides |-> u1]

\* Each ride belongs to a rider of its own.
OwnRider == [r \in Rides |-> IF r = r1 THEN u1 ELSE u2]

\* Drivers are interchangeable, and so are rides booked alike.
AlikeDrivers == Permutations(Drivers)
Alike == Permutations(Drivers) \cup Permutations(Rides)
=============================================================================
