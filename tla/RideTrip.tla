------------------------------ MODULE RideTrip ------------------------------
(***************************************************************************)
(* From an assigned driver to the end of the ride: arrival, start PIN,     *)
(* return leg, end PIN, the driver's early end, the cancellations by rider,*)
(* driver and cleanup worker, and the admin's resolution of a stuck ride.  *)
(* Every handler reads the ride first and compares and swaps its status    *)
(* later; the driver it frees is the one of its first read.                *)
(***************************************************************************)
EXTENDS RideBase

InTrip == {"in_progress", "returning"}

\* Mutant: the sweep of abandoned pickups forgets the drivers who have arrived.
ReadsAccepted(op) ==
    CASE op = "cancelByRider" -> {"scheduled", "requested", "accepted", "driver_arrived"}
      [] op = "cancelByDriver" -> {"accepted", "driver_arrived"}
      [] op = "sweepPickup" -> {"accepted"}
      [] op \in {"arrive", "startReturn"} -> LiveStatus
      [] op = "start" -> {"driver_arrived"}
      [] OTHER -> InTrip

\* The statuses in which a handler's first read lets it go on.
Reads(op) ==
    CASE op = "cancelByRider" -> {"scheduled", "requested", "accepted", "driver_arrived"}
      [] op \in {"cancelByDriver", "sweepPickup"} -> {"accepted", "driver_arrived"}
      [] op \in {"arrive", "startReturn"} -> LiveStatus
      [] op = "start" -> {"driver_arrived"}
      [] OTHER -> InTrip

\* Mutant: markArrived writes whatever the status has become.
ExpectsAnything(q) ==
    CASE q.op = "arrive" -> Status
      [] q.op = "start" -> {"driver_arrived"}
      [] q.op = "startReturn" -> {"in_progress"}
      [] q.op = "end" -> InTrip
      [] OTHER -> {q.seen}

\* The statuses its UPDATE ... WHERE status accepts.
Expects(q) ==
    CASE q.op = "arrive" -> {"accepted"}
      [] q.op = "start" -> {"driver_arrived"}
      [] q.op = "startReturn" -> {"in_progress"}
      [] q.op = "end" -> InTrip
      [] OTHER -> {q.seen}

\* What the code always serves, and what this instance switches on.
Serves(op) == op \in Handlers \cup {"arrive", "start", "end"}

\* The read of a user's, a driver's or an admin's request: a driver's handlers look
\* at their own ride, the rider's and the admin's remember the driver they read.
BeginTrip(r, op) ==
    /\ op \in TripOps \ {"sweepPickup"}
    /\ Serves(op) /\ HasRoom
    /\ status[r] \in Reads(op)
    /\ requests' = requests \cup {NewRequest(op, r, driver[r])}
    /\ UNCHANGED <<rideVars, session, jobVars, casts, presence, assigns, failures>>

\* findStaleAcceptedOrArrivedRides lists the ride with its status and driver.
ListStalePickup(r) ==
    /\ Serves("sweepPickup")
    /\ status[r] \in Reads("sweepPickup")
    /\ \A q \in requests : q.op = "sweepPickup" => q.ride # r
    /\ requests' = requests \cup {NewRequest("sweepPickup", r, driver[r])}
    /\ UNCHANGED <<rideVars, session, jobVars, casts, presence, assigns, failures>>

\* The compare-and-swap of the request finds the status it expects.
Wins(q) == ~Locked(q.ride) /\ status[q.ride] \in Expects(q)

\* Mutant: a cancellation misspells the status.
MoveToMisspelt(q, next) ==
    status' = [status EXCEPT ![q.ride] = IF next = "cancelled" THEN "canceled" ELSE next]

MoveTo(q, next) == status' = [status EXCEPT ![q.ride] = next]

\* Mutants: the rider's cancellation, or the completion, leaves the driver on_trip.
FreeUnlessCancelled(q) ==
    IF q.driver = NoDriver \/ q.op = "cancelByRider" THEN UNCHANGED session ELSE Free(q.driver)
FreeUnlessFinished(q) ==
    IF q.driver = NoDriver \/ q.op = "finish" THEN UNCHANGED session ELSE Free(q.driver)

\* UPDATE driver_sessions for the driver of the first read, if there was one.
FreeDriverRead(q) == IF q.driver = NoDriver THEN UNCHANGED session ELSE Free(q.driver)

\* markArrived, verifyStartOTP, startReturn.
Progress(q) ==
    /\ q.op \in {"arrive", "start", "startReturn"}
    /\ Wins(q)
    /\ MoveTo(q, CASE q.op = "arrive" -> "driver_arrived"
                   [] q.op = "start" -> "in_progress"
                   [] q.op = "startReturn" -> "returning")
    /\ Done(q)
    /\ UNCHANGED <<driver, offer, session, jobVars, casts, presence, assigns, failures>>

\* verifyEndOTP and endRideEarlyAsDriver up to the completing UPDATE ...
Complete(q) ==
    /\ q.op \in {"end", "endEarly"}
    /\ Wins(q)
    /\ MoveTo(q, "completed")
    /\ requests' = Then(q, "finish")
    /\ UNCHANGED <<driver, offer, session, jobVars, casts, presence, assigns, failures>>

\* ... and, several statements later, the one that frees the driver.
Finish(q) ==
    /\ q.op = "finish"
    /\ FreeDriverRead(q)
    /\ Done(q)
    /\ UNCHANGED <<rideVars, jobVars, casts, presence, assigns, failures>>

\* cancelRide, cancelRideAsDriver, expireStaleAcceptedOrArrivedRide: one transaction.
Cancel(q) ==
    /\ q.op \in {"cancelByRider", "cancelByDriver", "sweepPickup"}
    /\ Wins(q)
    /\ MoveTo(q, "cancelled")
    /\ FreeDriverRead(q)
    /\ requests' = IF q.op = "cancelByRider" /\ q.seen \in {"scheduled", "requested"}
                   THEN Then(q, "withdraw") ELSE requests \ {q}
    /\ UNCHANGED <<driver, offer, jobVars, casts, presence, assigns, failures>>

\* cancelRide's cancelAllAssignments, after its commit.
Withdraw(q) ==
    /\ q.op = "withdraw"
    /\ offer' = [offer EXCEPT ![q.ride] = Withdrawn(q.ride)]
    /\ Done(q)
    /\ UNCHANGED <<status, driver, session, jobVars, casts, presence, assigns, failures>>

\* forceResolveRide: the admin's outcome and the driver, in one transaction.
Resolve(q) ==
    /\ q.op = "resolve"
    /\ Wins(q)
    /\ \E outcome \in {"completed", "cancelled"} : MoveTo(q, outcome)
    /\ FreeDriverRead(q)
    /\ Done(q)
    /\ UNCHANGED <<driver, offer, jobVars, casts, presence, assigns, failures>>

\* The compare-and-swap finds another status: 409, or nothing for the worker.
LoseRace(q) ==
    /\ q.op \in TripOps
    /\ ~Locked(q.ride) /\ status[q.ride] \notin Expects(q)
    /\ Done(q)
    /\ UNCHANGED <<rideVars, session, jobVars, casts, presence, assigns, failures>>

TripNext ==
    \/ \E r \in Rides : ListStalePickup(r) \/ \E op \in TripOps : BeginTrip(r, op)
    \/ \E q \in requests :
          \/ Progress(q) \/ Complete(q) \/ Finish(q) \/ Cancel(q)
          \/ Withdraw(q) \/ Resolve(q) \/ LoseRace(q)
=============================================================================
