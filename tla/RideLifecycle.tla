--------------------------- MODULE RideLifecycle ---------------------------
(***************************************************************************)
(* What the ride service promises about a ride, whatever requests, jobs    *)
(* and sweeps race: the status moves along the edges the code uses (a      *)
(* subset of those migration 109 allows), an assigned driver is one who    *)
(* was free, and only an unassignment takes the driver off the ride again. *)
(* RideSystem implements this specification.                               *)
(***************************************************************************)
CONSTANTS Rides, Drivers, NoDriver

VARIABLES status, driver

OnTheWay == {"accepted", "driver_arrived", "in_progress", "returning"}

Init ==
    /\ status = [r \in Rides |-> "unbooked"]
    /\ driver = [r \in Rides |-> NoDriver]

\* r goes from one of the statuses in from to next, its driver stays.
Step(r, from, next) ==
    /\ status[r] \in from
    /\ status' = [status EXCEPT ![r] = next]
    /\ UNCHANGED driver

Book(r) == Step(r, {"unbooked"}, "scheduled") \/ Step(r, {"unbooked"}, "requested")
Open(r) == Step(r, {"scheduled", "no_drivers"}, "requested")
GiveUp(r) == Step(r, {"requested"}, "no_drivers")
Arrive(r) == Step(r, {"accepted"}, "driver_arrived")
Start(r) == Step(r, {"driver_arrived"}, "in_progress")
TurnBack(r) == Step(r, {"in_progress"}, "returning")
Finish(r) == Step(r, {"in_progress", "returning"}, "completed")
Cancel(r) == Step(r, {"scheduled", "requested"} \cup OnTheWay, "cancelled")

\* Only a waiting ride gets a driver, and only one without another ride.
Assign(r, d) ==
    /\ status[r] = "requested"
    /\ \A s \in Rides : driver[s] = d => status[s] \notin OnTheWay
    /\ status' = [status EXCEPT ![r] = "accepted"]
    /\ driver' = [driver EXCEPT ![r] = d]

\* Only before the driver has arrived is the ride taken from them, to wait again.
Unassign(r) ==
    /\ status[r] = "accepted"
    /\ status' = [status EXCEPT ![r] = "requested"]
    /\ driver' = [driver EXCEPT ![r] = NoDriver]

Next == \E r \in Rides :
    \/ Book(r) \/ Open(r) \/ GiveUp(r) \/ Arrive(r) \/ Start(r) \/ TurnBack(r)
    \/ Finish(r) \/ Cancel(r) \/ Unassign(r) \/ \E d \in Drivers : Assign(r, d)

Spec == Init /\ [][Next]_<<status, driver>>
=============================================================================
