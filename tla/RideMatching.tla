---------------------------- MODULE RideMatching ----------------------------
(***************************************************************************)
(* From a booking to an assigned driver: createBooking, the dispatch of    *)
(* scheduled rides, the broadcast rounds, the driver's answer, the manual  *)
(* and the forced assignment by an admin, the grace check of a forced one, *)
(* and the sweep of rides nobody answered.                                 *)
(***************************************************************************)
EXTENDS RideBase

\* createBooking's transaction: the ride row, scheduled or requested.  (The 409 before
\* it, getActiveRideIdForUser, overlooks rides that look stale and bookings that race,
\* so the index is all that holds.)
CreateBooking(r) ==
    /\ status[r] = "unbooked"
    /\ IF r \in Advance THEN status' = [status EXCEPT ![r] = "scheduled"]
       ELSE RiderIsFree(r) /\ status' = [status EXCEPT ![r] = "requested"]
    /\ requests' = requests \cup
            {[NewRequest("publish", r, NoDriver) EXCEPT
                    !.seen = IF r \in Advance THEN "scheduled" ELSE "requested"]}
    /\ UNCHANGED <<driver, offer, session, jobVars, casts, presence, assigns, failures>>

\* Mutant: the ride_advance_meta row is never written.
PublishNoMeta(q) ==
    /\ q.op = "publish"
    /\ queued' = IF q.seen = "scheduled" THEN queued ELSE queued \cup {<<q.ride, k>> : k \in 1..LastRound}
    /\ Done(q)
    /\ UNCHANGED <<rideVars, session, meta, grace, casts, presence, assigns, failures>>

\* After that commit, and after the dispatch of a scheduled ride: the
\* ride_advance_meta row, or the broadcast jobs.
Publish(q) ==
    /\ q.op = "publish"
    /\ IF q.seen = "scheduled"
       THEN meta' = meta \cup {q.ride} /\ UNCHANGED queued
       ELSE queued' = queued \cup {<<q.ride, k>> : k \in 1..LastRound} /\ UNCHANGED meta
    /\ Done(q)
    /\ UNCHANGED <<rideVars, session, grace, casts, presence, assigns, failures>>

\* processDispatchScheduled, called by the sweep for the due rides (the JOIN with
\* ride_advance_meta) or by the delayed job, which is enqueued after that row.
Dispatch(r) ==
    /\ r \in meta
    /\ status[r] = "scheduled"
    /\ status' = [status EXCEPT ![r] = "requested"]
    /\ requests' = requests \cup
            {[NewRequest("publish", r, NoDriver) EXCEPT !.seen = "requested"]}
    /\ UNCHANGED <<driver, offer, session, jobVars, casts, presence, assigns, failures>>

-----------------------------------------------------------------------------
(* processBroadcast. *)

\* The job reads the ride; unless it is requested there is nothing to do.  Then
\* expireLapsedOffers.
TakeBroadcast(r, k) ==
    /\ <<r, k>> \in queued
    /\ Cardinality(casts) < MaxCasts
    /\ queued' = queued \ {<<r, k>>}
    /\ IF status[r] = "requested"
       THEN /\ casts' = casts \cup {[ride |-> r, round |-> k, step |-> "match", todo |-> {}]}
            /\ offer' = [offer EXCEPT ![r] = [d \in Drivers |->
                            IF offer[r][d] = "grace" THEN "closed" ELSE offer[r][d]]]
       ELSE UNCHANGED <<casts, offer>>
    /\ UNCHANGED <<status, driver, session, meta, grace, requests, presence, assigns, failures>>

\* findNearbyDrivers and findReturnCabDrivers: some of the online drivers (where a
\* driver is, the vehicle and the wallet are left out).  Without any, only the last round goes on.
MatchDrivers(b) ==
    /\ b.step = "match"
    /\ \E found \in SUBSET {d \in Drivers : Online(d)} :
          casts' = (casts \ {b}) \cup
            (IF found = {} /\ b.round < LastRound THEN {}
             ELSE {[b EXCEPT !.step = "offer", !.todo = found]})
    /\ UNCHANGED <<rideVars, session, jobVars, requests, presence, assigns, failures>>

\* Mutant: the last round writes no_drivers without the compare-and-swap.
CloseBlindly(b) ==
    /\ b.step = "offer" /\ b.round = LastRound /\ b.todo = {}
    /\ ~Locked(b.ride)
    /\ casts' = casts \ {b}
    /\ status' = [status EXCEPT ![b.ride] = "no_drivers"]
    /\ UNCHANGED <<driver, offer, session, jobVars, requests, presence, assigns, failures>>

\* Nobody in the last round: requested -> no_drivers, unless a driver accepted meanwhile.
CloseNoDrivers(b) ==
    /\ b.step = "offer" /\ b.round = LastRound /\ b.todo = {}
    /\ ~Locked(b.ride)
    /\ casts' = casts \ {b}
    /\ status' = IF status[b.ride] = "requested"
                 THEN [status EXCEPT ![b.ride] = "no_drivers"] ELSE status
    /\ UNCHANGED <<driver, offer, session, jobVars, requests, presence, assigns, failures>>

\* Mutants: ON CONFLICT DO NOTHING; no EXISTS on the ride; an accepted row reopened too.
ReofferedNever(r, row, fresh) == IF row = "none" THEN fresh ELSE row
ReofferedLate(r, row, fresh) == IF row # "accepted" THEN fresh ELSE row
ReofferedAlways(r, row, fresh) == fresh

\* createRideAssignment: a new row whatever the ride's status is by now; a row that
\* exists is reopened only while the ride is requested, and never an accepted one.
Reoffered(r, row, fresh) ==
    IF row = "none" \/ (row # "accepted" /\ status[r] = "requested") THEN fresh ELSE row

\* One driver of the round gets the offer and the request card (the statements of
\* the round run in parallel).
OfferTo(b, d) ==
    /\ b.step = "offer" /\ d \in b.todo
    /\ offer' = [offer EXCEPT ![b.ride][d] = Reoffered(b.ride, offer[b.ride][d], "open")]
    /\ casts' = (casts \ {b}) \cup
                (IF b.todo = {d} THEN {} ELSE {[b EXCEPT !.todo = b.todo \ {d}]})
    /\ UNCHANGED <<status, driver, session, jobVars, requests, presence, assigns, failures>>

\* Time passes an offer by: expires_at, then the five seconds of grace.
Lapse(r, d) ==
    /\ offer[r][d] \in Acceptable
    /\ offer' = [offer EXCEPT ![r][d] = IF offer[r][d] = "open" THEN "grace" ELSE "closed"]
    /\ UNCHANGED <<status, driver, session, jobVars, requests, casts, presence, assigns, failures>>

Decline(r, d) ==
    /\ "decline" \in Handlers
    /\ offer[r][d] \in Acceptable
    /\ offer' = [offer EXCEPT ![r][d] = "closed"]
    /\ UNCHANGED <<status, driver, session, jobVars, requests, casts, presence, assigns, failures>>

-----------------------------------------------------------------------------
(* acceptRide and acceptAssignment: one transaction, whose first statement takes *)
(* the row lock of the ride and whose session read is only a snapshot.           *)

\* Mutant: rides_one_live_per_driver_idx was not built (the migration only warns then).
CanAcceptTwice(r, d) == status[r] = "requested" /\ offer[r][d] \in Acceptable

CanAccept(r, d) ==
    /\ status[r] = "requested"
    /\ offer[r][d] \in Acceptable
    /\ LiveRideOf(d) = {}

\* Mutant: the same without the wait on the driver's entry in that index.
LockFreeRide(r, d) == ~Locked(r)

\* The UPDATE of the ride waits for another accept of the same ride (row lock) or by
\* the same driver (rides_one_live_per_driver_idx).
LockFree(r, d) == ~Locked(r) /\ ~Accepting(d)

\* The row of the driver's online session, 0 without one: the accept goes on either way.
OnlineRow(d) == IF Online(d) THEN CHOOSE i \in OnlineRows(d) : TRUE ELSE 0

AcceptLock(r, d) ==
    /\ HasRoom
    /\ CanAccept(r, d) /\ LockFree(r, d)
    /\ requests' = requests \cup {[NewRequest("accept", r, d) EXCEPT !.row = OnlineRow(d)]}
    /\ UNCHANGED <<rideVars, session, jobVars, casts, presence, assigns, failures>>

\* Mutant: the cancellation of the other offers takes the accepting driver's along.
AcceptedCancelled(r, d) ==
    [s \in Rides |-> [e \in Drivers |->
        IF (s = r \/ e = d) /\ offer[s][e] \in Acceptable THEN "closed" ELSE offer[s][e]]]

\* The other drivers' offers of this ride and this driver's other offers are cancelled.
Accepted(r, d) ==
    [s \in Rides |-> [e \in Drivers |->
        IF s = r /\ e = d THEN "accepted"
        ELSE IF (s = r \/ e = d) /\ offer[s][e] \in Acceptable THEN "closed" ELSE offer[s][e]]]

\* Mutant: no unique index on active sessions.
SessionUnguarded(q) == FALSE

\* The session row read before becomes on_trip, by id, whatever its status is now;
\* the unique index on active sessions refuses that beside another active row.
SessionTaken(q) == q.row # 0 /\ ActiveRows(q.driver) \ {q.row} # {}

AcceptCommit(q) ==
    /\ q.op \in RowLocks
    /\ ~SessionTaken(q)
    /\ status' = [status EXCEPT ![q.ride] = "accepted"]
    /\ driver' = [driver EXCEPT ![q.ride] = q.driver]
    /\ offer' = Accepted(q.ride, q.driver)
    /\ session' = IF q.row = 0 THEN session
                  ELSE [session EXCEPT ![q.driver][q.row] = "on_trip"]
    /\ requests' = IF q.op = "accept" THEN requests \ {q} ELSE Then(q, "armGrace")
    /\ UNCHANGED <<jobVars, casts, presence, assigns, failures>>

AcceptRollback(q) ==
    /\ q.op \in RowLocks
    /\ SessionTaken(q)
    /\ Done(q)
    /\ UNCHANGED <<rideVars, session, jobVars, casts, presence, assigns, failures>>

-----------------------------------------------------------------------------
(* adminAssignDriver, in mode request ("assign") or force. *)

BeginAssign(r, d, mode) ==
    /\ mode \in Handlers \cap AssignOps
    /\ assigns < MaxAssigns /\ HasRoom
    /\ status[r] \in {"scheduled", "requested", "no_drivers"}
    /\ Online(d)
    /\ assigns' = assigns + 1
    /\ requests' = requests \cup {NewRequest(mode, r, d)}
    /\ UNCHANGED <<rideVars, session, jobVars, casts, presence, failures>>

\* Mutant: the reopening ignores rides_one_live_per_user_idx.
OpenUnchecked(q) ==
    /\ q.op \in AssignOps
    /\ q.seen # "requested" => ~Locked(q.ride)
    /\ LET next == IF q.op = "assign" THEN "offer" ELSE "forceOffer"
       IN  IF q.seen = "requested" THEN requests' = Then(q, next) /\ UNCHANGED status
           ELSE IF status[q.ride] = q.seen
           THEN requests' = Then(q, next) /\ status' = [status EXCEPT ![q.ride] = "requested"]
           ELSE Done(q) /\ UNCHANGED status
    /\ UNCHANGED <<driver, offer, session, jobVars, casts, presence, assigns, failures>>

\* A ride that was not requested is opened by a compare-and-swap on the status read
\* (409 when it changed, an error when the rider already has another live ride).
OpenForAssign(q) ==
    /\ q.op \in AssignOps
    /\ q.seen # "requested" => ~Locked(q.ride)
    /\ LET r == q.ride
           won == status[r] = q.seen /\ (r \in Advance \/ RiderIsFree(r))
           next == IF q.op = "assign" THEN "offer" ELSE "forceOffer"
       IN  IF q.seen = "requested" THEN requests' = Then(q, next) /\ UNCHANGED status
           ELSE IF won
           THEN requests' = Then(q, next) /\ status' = [status EXCEPT ![r] = "requested"]
           ELSE Done(q) /\ UNCHANGED status
    /\ UNCHANGED <<driver, offer, session, jobVars, casts, presence, assigns, failures>>

\* cancelAllAssignments, then createRideAssignment for the chosen driver; a forced
\* offer is created as it expires.
OfferByAdmin(q) ==
    /\ q.op \in {"offer", "forceOffer"}
    /\ LET r == q.ride
           d == q.driver
           fresh == IF q.op = "offer" THEN "open" ELSE "grace"
       IN  offer' = [offer EXCEPT ![r] =
                        [Withdrawn(r) EXCEPT ![d] = Reoffered(r, Withdrawn(r)[d], fresh)]]
    /\ requests' = Then(q, IF q.op = "offer" THEN "enqueue" ELSE "forceOffered")
    /\ UNCHANGED <<status, driver, session, jobVars, casts, presence, assigns, failures>>

\* The admin's handler accepts in the driver's name, or reports 409.
ForceAccept(q) ==
    /\ q.op = "forceOffered"
    /\ LockFree(q.ride, q.driver)
    /\ requests' = IF CanAccept(q.ride, q.driver)
                   THEN (requests \ {q}) \cup
                        {[q EXCEPT !.op = "forceAccept", !.row = OnlineRow(q.driver)]}
                   ELSE requests \ {q}
    /\ UNCHANGED <<rideVars, session, jobVars, casts, presence, assigns, failures>>

ArmGrace(q) ==
    /\ q.op = "armGrace"
    /\ grace' = grace \cup {<<q.ride, q.driver>>}
    /\ Done(q)
    /\ UNCHANGED <<rideVars, session, meta, queued, casts, presence, assigns, failures>>

\* The fallback of a manual offer and the rebroadcast after a revert.
Enqueue(q) ==
    /\ q.op = "enqueue"
    /\ queued' = queued \cup {<<q.ride, 0>>}
    /\ Done(q)
    /\ UNCHANGED <<rideVars, session, meta, grace, casts, presence, assigns, failures>>

\* Mutant: the revert asks for the driver only, not for status = 'accepted'.
GraceCheckLate(r, d) ==
    /\ <<r, d>> \in grace
    /\ grace' = grace \ {<<r, d>>}
    /\ \/ UNCHANGED <<status, driver, session, requests>>
       \/ /\ driver[r] = d
          /\ status' = [status EXCEPT ![r] = "requested"]
          /\ driver' = [driver EXCEPT ![r] = NoDriver]
          /\ Free(d)
          /\ requests' = requests \cup {[NewRequest("enqueue", r, d) EXCEPT !.seen = "requested"]}
    /\ UNCHANGED <<offer, meta, queued, casts, presence, assigns, failures>>

\* forceAssignGraceCheck: nothing when the driver has moved or the ride has; else
\* revertForceAssign.  The driver's assignment row stays accepted.
GraceCheck(r, d) ==
    /\ <<r, d>> \in grace
    /\ grace' = grace \ {<<r, d>>}
    /\ \/ UNCHANGED <<status, driver, session, requests>>
       \/ /\ status[r] = "accepted" /\ driver[r] = d
          /\ status' = [status EXCEPT ![r] = "requested"]
          /\ driver' = [driver EXCEPT ![r] = NoDriver]
          /\ Free(d)
          /\ requests' = requests \cup {[NewRequest("enqueue", r, d) EXCEPT !.seen = "requested"]}
    /\ UNCHANGED <<offer, meta, queued, casts, presence, assigns, failures>>

\* Mutant: the sweep only lists rides no driver was ever offered.
ExpireUnoffered(r) ==
    /\ "sweepRequested" \in Handlers
    /\ status[r] = "requested" /\ ~Locked(r)
    /\ \A d \in Drivers : offer[r][d] = "none"
    /\ status' = [status EXCEPT ![r] = "no_drivers"]
    /\ UNCHANGED <<driver, offer, session, jobVars, requests, casts, presence, assigns, failures>>

\* findStaleRequestedRides and expireStaleRequestedRide, minutes after the last change.
ExpireStaleRequested(r) ==
    /\ "sweepRequested" \in Handlers
    /\ status[r] = "requested" /\ ~Locked(r)
    /\ status' = [status EXCEPT ![r] = "no_drivers"]
    /\ UNCHANGED <<driver, offer, session, jobVars, requests, casts, presence, assigns, failures>>

MatchingNext ==
    \/ \E r \in Rides : CreateBooking(r) \/ Dispatch(r) \/ ExpireStaleRequested(r)
    \/ \E r \in Rides, k \in Rounds : TakeBroadcast(r, k)
    \/ \E b \in casts : MatchDrivers(b) \/ CloseNoDrivers(b) \/ \E d \in Drivers : OfferTo(b, d)
    \/ \E r \in Rides, d \in Drivers : Lapse(r, d) \/ Decline(r, d) \/ AcceptLock(r, d) \/ GraceCheck(r, d)
    \/ \E r \in Rides, d \in Drivers, mode \in AssignOps : BeginAssign(r, d, mode)
    \/ \E q \in requests :
          \/ Publish(q) \/ AcceptCommit(q) \/ AcceptRollback(q) \/ OpenForAssign(q)
          \/ OfferByAdmin(q) \/ ForceAccept(q) \/ ArmGrace(q) \/ Enqueue(q)
=============================================================================
