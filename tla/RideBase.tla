------------------------------ MODULE RideBase ------------------------------
(***************************************************************************)
(* The rows of Postgres, the queued BullMQ jobs and the half-done requests *)
(* that the ride handlers of src/api/src share, and the vocabulary of the  *)
(* modules that model those handlers (DriverSessions, RideMatching,        *)
(* RideTrip).  A SQL statement or a transaction of the code is one step; a *)
(* handler that spans several is several steps, joined by a request record *)
(* that remembers what its first read saw.                                 *)
(***************************************************************************)
EXTENDS Naturals, FiniteSets

CONSTANTS
    Rides,          \* the rides that may be booked
    Riders,         \* the users who book them
    Drivers,        \* the drivers
    NoDriver,       \* rides.driver_id IS NULL
    RiderOf,        \* the user of each ride
    Advance,        \* the rides booked for later (scheduled_for is set)
    Handlers,       \* the entry points this instance exercises
    LastRound,      \* the broadcast round that closes a ride nobody took (3 in the code)
    MaxSessions,    \* bound: rows of driver_sessions per driver
    MaxRequests,    \* bound: requests of users and admins at work at once
    MaxCasts,       \* bound: broadcast jobs at work at once (20 in the worker)
    MaxAssigns,     \* bound: admin assignments in a behaviour
    MaxFailures     \* bound: processes that die in a behaviour

HandlerNames == {"goOnline", "goOffline", "idle", "replace", "decline", "cancelByRider",
    "cancelByDriver", "endEarly", "resolve", "assign", "force", "sweepRequested",
    "sweepPickup", "startReturn"}

ASSUME NoDriverIsNobody == NoDriver \notin Drivers
ASSUME RiderOfTyped == RiderOf \in [Rides -> Riders]
ASSUME AdvanceAreRides == Advance \subseteq Rides
ASSUME HandlersNamed == Handlers \subseteq HandlerNames
ASSUME SomeSession == MaxSessions \in Nat \ {0}
ASSUME SomeRound == LastRound \in Nat \ {0}
ASSUME BoundsAreNat ==
    MaxRequests \in Nat /\ MaxCasts \in Nat /\ MaxAssigns \in Nat /\ MaxFailures \in Nat

VARIABLES
    status,     \* rides.status; "unbooked" before the row exists
    driver,     \* rides.driver_id
    offer,      \* ride_assignments, as far as a driver can act on the row
    session,    \* driver_sessions.status of each of a driver's rows
    meta,       \* the rides that have a ride_advance_meta row
    queued,     \* broadcast_ride jobs waiting in the dispatch queue
    grace,      \* force_assign_grace_check jobs waiting
    requests,   \* ride handlers between two of their statements
    casts,      \* broadcast jobs between two of their statements
    presence,   \* goOnline and goOffline calls between two of their statements
    assigns,    \* admin assignments so far
    failures    \* processes that died so far

rideVars == <<status, driver, offer>>
jobVars == <<meta, queued, grace>>
vars == <<status, driver, offer, session, meta, queued, grace, requests, casts,
          presence, assigns, failures>>

-----------------------------------------------------------------------------
(* Values. *)

\* Statuses of a ride that has, or has had, a driver on the way (the unique
\* index rides_one_live_per_driver_idx covers exactly these).
LiveStatus == {"accepted", "driver_arrived", "in_progress", "returning"}
Status == {"unbooked", "scheduled", "requested", "no_drivers", "completed", "cancelled"}
            \cup LiveStatus

\* An assignment row: "open" is offered and unexpired, "grace" is offered and
\* expired less than five seconds ago (a driver may still accept it, and
\* expireLapsedOffers may already expire it), "closed" is any row nobody can
\* accept: declined, expired, cancelled, or offered and past those seconds.
OfferStatus == {"none", "open", "grace", "closed", "accepted"}
Acceptable == {"open", "grace"}

SessionStatus == {"none", "offline", "online", "on_trip"}
Active == {"online", "on_trip"}
Rows == 1..MaxSessions

\* The rounds of a booking; 0 is the extra round-1 job that the manual assignment
\* and the grace check enqueue.
Rounds == 0..LastRound

\* A ride handler between two statements: seen is the ride status of its first
\* read, driver the driver it acts for or read there, row the id of the session
\* it holds (0: none).  Those of DriverOps act for a driver.
TripOps == {"cancelByRider", "cancelByDriver", "arrive", "start", "startReturn", "end",
            "endEarly", "resolve", "sweepPickup"}
AssignOps == {"assign", "force"}
RowLocks == {"accept", "forceAccept"}
DriverOps == AssignOps \cup RowLocks \cup {"offer", "forceOffer", "forceOffered", "armGrace", "enqueue"}
Ops == TripOps \cup DriverOps \cup {"publish", "withdraw", "finish"}
Request == {q \in [op : Ops, ride : Rides, driver : Drivers \cup {NoDriver},
                   seen : Status, row : 0..MaxSessions] :
                q.op \in DriverOps => q.driver \in Drivers}

\* A broadcast job: about to match drivers, or about to offer the ride to todo
\* (to nobody: about to close it as no_drivers).
Cast == [ride : Rides, round : Rounds, step : {"match", "offer"}, todo : SUBSET Drivers]

\* A presence call: goOnline about to end the row it read or about to insert a new
\* one, goOffline about to end the row it read, a caller of goOffline about to call it.
Presence == [op : {"reconnect", "create", "goOffline", "endReplaced", "idle", "replace"},
             driver : Drivers, row : 0..MaxSessions]

TypeOK ==
    /\ status \in [Rides -> Status]
    /\ driver \in [Rides -> Drivers \cup {NoDriver}]
    /\ offer \in [Rides -> [Drivers -> OfferStatus]]
    /\ session \in [Drivers -> [Rows -> SessionStatus]]
    /\ meta \subseteq Rides
    /\ queued \subseteq Rides \X Rounds
    /\ grace \subseteq Rides \X Drivers
    /\ requests \subseteq Request
    /\ casts \subseteq Cast
    /\ presence \subseteq Presence
    /\ assigns \in Nat
    /\ failures \in Nat

-----------------------------------------------------------------------------
(* Reads and writes several handlers make. *)

Live(r) == status[r] \in LiveStatus
LiveRideOf(d) == {r \in Rides : Live(r) /\ driver[r] = d}

\* getActiveSession: the id of the driver's online or on_trip row, or 0.
ActiveRows(d) == {i \in Rows : session[d][i] \in Active}
OnlineRows(d) == {i \in Rows : session[d][i] = "online"}
Online(d) == OnlineRows(d) # {}
OnTrip(d) == \E i \in Rows : session[d][i] = "on_trip"

\* The driver holds the row lock of the ride between the first statement of
\* acceptAssignment and its COMMIT; every other UPDATE of that row waits.
Locked(r) == \E q \in requests : q.ride = r /\ q.op \in RowLocks
Accepting(d) == \E q \in requests : q.driver = d /\ q.op \in RowLocks

\* UPDATE driver_sessions SET status = 'online' WHERE driver_id = d AND status = 'on_trip'
Freed(d) == [i \in Rows |-> IF session[d][i] = "on_trip" THEN "online" ELSE session[d][i]]
Free(d) == session' = [session EXCEPT ![d] = Freed(d)]

\* Mutant: the withdrawal forgets the WHERE status = 'offered'.
WithdrawnAll(r) == [d \in Drivers |-> IF offer[r][d] = "none" THEN "none" ELSE "closed"]

\* UPDATE ride_assignments SET status = 'cancelled' WHERE ride_id = r AND status = 'offered'
Withdrawn(r) == [d \in Drivers |-> IF offer[r][d] \in Acceptable THEN "closed" ELSE offer[r][d]]

\* rides_one_live_per_user_idx: an immediate ride may enter the index only if its
\* rider has no other immediate ride there.
RiderIsFree(r) ==
    \A s \in Rides \ ({r} \cup Advance) :
        (RiderOf[s] = RiderOf[r]) => (status[s] \notin LiveStatus \cup {"requested"})

NewRequest(op, r, d) == [op |-> op, ride |-> r, driver |-> d, seen |-> status[r], row |-> 0]
Then(q, op) == (requests \ {q}) \cup {[q EXCEPT !.op = op]}
Done(q) == requests' = requests \ {q}
HasRoom == Cardinality(requests) < MaxRequests
=============================================================================
