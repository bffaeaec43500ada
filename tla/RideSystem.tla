----------------------------- MODULE RideSystem -----------------------------
(***************************************************************************)
(* The ride backend: presence, matching and trip handlers over the shared  *)
(* rows and jobs, with processes that may die between two statements.      *)
(***************************************************************************)
EXTENDS DriverSessions, RideMatching, RideTrip

\* Every driver has gone online once; nothing is booked.
Init ==
    /\ status = [r \in Rides |-> "unbooked"]
    /\ driver = [r \in Rides |-> NoDriver]
    /\ offer = [r \in Rides |-> [d \in Drivers |-> "none"]]
    /\ session = [d \in Drivers |-> [i \in Rows |-> IF i = 1 THEN "online" ELSE "none"]]
    /\ meta = {} /\ queued = {} /\ grace = {}
    /\ requests = {} /\ casts = {} /\ presence = {}
    /\ assigns = 0 /\ failures = 0

-----------------------------------------------------------------------------
(* A process dies, or a statement throws, between two steps: what was        *)
(* committed stays, an open transaction rolls back, the rest never happens.  *)

CanFail == failures < MaxFailures /\ failures' = failures + 1

FailRequest(q) ==
    /\ CanFail
    /\ Done(q)
    /\ UNCHANGED <<rideVars, session, jobVars, casts, presence, assigns>>

\* A broadcast job that dies is lost, or attempted again (the first round has
\* attempts: 2, and BullMQ takes any job of a dead worker for stalled).
FailCast(b) ==
    /\ CanFail
    /\ casts' = casts \ {b}
    /\ queued' \in {queued, queued \cup {<<b.ride, b.round>>}}
    /\ UNCHANGED <<rideVars, session, meta, grace, requests, presence, assigns>>

FailCall(p) ==
    /\ CanFail
    /\ presence' = presence \ {p}
    /\ UNCHANGED <<rideVars, session, jobVars, requests, casts, assigns>>

FailNext ==
    \/ \E q \in requests : FailRequest(q)
    \/ \E b \in casts : FailCast(b)
    \/ \E p \in presence : FailCall(p)

Next == SessionNext \/ MatchingNext \/ TripNext \/ FailNext

Spec == Init /\ [][Next]_vars

-----------------------------------------------------------------------------
(* Fairness: a handler that has begun goes on (its queries return), and the  *)
(* repeatable jobs of the scheduler and the cleanup worker keep running.     *)

Of(r, ops) == {q \in requests : q.ride = r /\ q.op \in ops}

PublishOf(r) == \E q \in Of(r, {"publish"}) : Publish(q)
AnswerOf(r) == \E q \in Of(r, RowLocks) : AcceptCommit(q) \/ AcceptRollback(q)
FinishOf(r) == \E q \in Of(r, {"finish"}) : Finish(q)
SweepOf(r) == \E q \in Of(r, {"sweepPickup"}) : Cancel(q) \/ LoseRace(q)

Fairness == \A r \in Rides :
    /\ WF_vars(PublishOf(r)) /\ WF_vars(AnswerOf(r))
    /\ WF_vars(FinishOf(r)) /\ WF_vars(SweepOf(r))
    /\ WF_vars(Dispatch(r)) /\ WF_vars(ExpireStaleRequested(r)) /\ WF_vars(ListStalePickup(r))

FairSpec == Spec /\ Fairness

-----------------------------------------------------------------------------
(* Safety. *)

\* Refinement: every step of the handlers is a step of a ride's life cycle or
\* leaves it alone, though each handler writes on the strength of an older read.
Lifecycle == INSTANCE RideLifecycle
LifecycleSpec == Lifecycle!Spec

\* Two accepts, an accept against an admin's forced assignment, an accept against
\* the end of another ride: no driver ever has two rides on the way.
OneLiveRidePerDriver == \A r, s \in Rides :
    Live(r) /\ Live(s) /\ driver[r] = driver[s] => r = s

\* A rider waits for, or travels in, one immediate ride at most: a new booking races
\* a double tap and an admin who reopens an older booking nobody had taken.
OneOpenRidePerRider == \A r, s \in Rides \ Advance :
    /\ status[r] \in LiveStatus \cup {"requested"}
    /\ status[s] \in LiveStatus \cup {"requested"}
    /\ RiderOf[r] = RiderOf[s]
    => r = s

\* Nobody drives a ride without an accepted assignment row, whichever of accept,
\* withdrawal, decline, lapse and re-offer came in between.
LiveRideHoldsAcceptedOffer == \A r \in Rides : Live(r) => offer[r][driver[r]] = "accepted"

\* A driver's on_trip session is accounted for: there is a ride on the way, or the
\* handler that completed it is about to free the driver (unless a process died).
\* Otherwise the driver gets no offers and goOnline answers 409 for good.
OnTripIsExplained == \A d \in Drivers : OnTrip(d) =>
    \/ LiveRideOf(d) # {}
    \/ \E q \in requests : q.op = "finish" /\ q.driver = d
    \/ failures > 0

\* A driver has one active session row at most, though going online, accepting,
\* and freeing each write rows they read earlier.
OneActiveSession == \A d \in Drivers : \A i, j \in ActiveRows(d) : i = j

\* An admin's offer is the ride's only one: while its handler has yet to enqueue
\* the fallback, no other driver holds an offer that could be accepted.
ManualOfferIsExclusive == \A q \in requests :
    (q.op = "enqueue" /\ offer[q.ride][q.driver] \in Acceptable) =>
        \A d \in Drivers \ {q.driver} : offer[q.ride][d] \notin Acceptable

-----------------------------------------------------------------------------
(* Action properties. *)

\* createRideAssignment: a card shown for a ride that still waits can be accepted;
\* the row behind it is not one the accept will refuse.
CardIsAcceptable == [][\A b \in casts : \A d \in b.todo :
    (OfferTo(b, d) /\ status[b.ride] = "requested") => offer'[b.ride][d] \in Acceptable]_vars

\* Once a driver's offer is closed it comes back only while the ride waits, however
\* late a broadcast or an admin's handler writes.
NoOfferComesBackLate == [][\A r \in Rides, d \in Drivers :
    (offer[r][d] = "closed" /\ offer'[r][d] \in Acceptable) => status[r] = "requested"]_vars

\* A login on another device ends the driver's online session; an on_trip one stays.
ReplacementSparesTrip == [][\A p \in presence :
    (p.op = "endReplaced" /\ EndSession(p)) => session[p.driver][p.row] # "on_trip"]_vars

-----------------------------------------------------------------------------
(* Liveness under FairSpec. *)

\* A waiting ride is answered or closed.
RequestedResolves == \A r \in Rides : status[r] = "requested" ~> status[r] # "requested"

\* A ride booked for later is dispatched or cancelled.
ScheduledDispatches == \A r \in Rides : status[r] = "scheduled" ~> status[r] # "scheduled"

\* A driver who never starts the ride does not keep the rider waiting for good.
PickupResolves == \A r \in Rides :
    status[r] \in {"accepted", "driver_arrived"} ~> status[r] \notin {"accepted", "driver_arrived"}

\* A driver whose ride has ended gets out of on_trip.
DriverReleased == \A d \in Drivers :
    (OnTrip(d) /\ LiveRideOf(d) = {}) ~> (~OnTrip(d) \/ LiveRideOf(d) # {})
=============================================================================
