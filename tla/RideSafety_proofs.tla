------------------------- MODULE RideSafety_proofs -------------------------
(***************************************************************************)
(* No driver has two rides on the way, and nobody drives without an        *)
(* accepted offer: the inductive invariant behind both, and the refinement *)
(* of RideLifecycle that it gives.  Where no admin forces a driver onto a  *)
(* ride: who is on_trip, and which cards an accept can still take.         *)
(***************************************************************************)
EXTENDS RideSystem_proofs

\* The accepts that hold a ride's row lock.
Locks == {q \in requests : q.op \in RowLocks}

DriverAssigned == \A r \in Rides : Live(r) => driver[r] \in Drivers

\* What an accept checked when it took the lock still holds.
LockHeld == \A q \in Locks : status[q.ride] = "requested" /\ LiveRideOf(q.driver) = {}

LockExclusive == \A p, q \in Locks : p.ride = q.ride \/ p.driver = q.driver => p = q

RideInv ==
    /\ DriverAssigned
    /\ OneLiveRidePerDriver
    /\ LiveRideHoldsAcceptedOffer
    /\ LockHeld
    /\ LockExclusive

\* No step takes an accepted row back.
KeepsAccepted == \A r \in Rides, d \in Drivers :
    offer[r][d] = "accepted" => offer'[r][d] = "accepted"

-----------------------------------------------------------------------------
(* Steps that move no ride, and steps that move one ride nobody is accepting. *)

\* Before the first booking there is no ride on the way and no lock.
LEMMA RideInvInit == ASSUME Init PROVE RideInv
  BY DEF Init, RideInv, DriverAssigned, OneLiveRidePerDriver, LiveRideHoldsAcceptedOffer,
         LockHeld, LockExclusive, Locks, Live, LiveStatus

\* A step that leaves the rides alone, takes no lock and no accepted row back.
LEMMA NoRideMoves ==
    ASSUME TypeOK, RideInv, UNCHANGED <<status, driver>>, Locks' \subseteq Locks, KeepsAccepted
    PROVE  RideInv'
<1>1. /\ \A r \in Rides : Live(r)' = Live(r)
      /\ \A d : LiveRideOf(d)' = LiveRideOf(d)
  BY DEF Live, LiveRideOf
<1>2. DriverAssigned' /\ OneLiveRidePerDriver'
  BY <1>1 DEF RideInv, DriverAssigned, OneLiveRidePerDriver
<1>3. LiveRideHoldsAcceptedOffer'
  BY <1>1 DEF RideInv, DriverAssigned, LiveRideHoldsAcceptedOffer, KeepsAccepted
<1>4. LockHeld' /\ LockExclusive'
  BY <1>1 DEF RideInv, LockHeld, LockExclusive
<1>. QED  BY <1>2, <1>3, <1>4 DEF RideInv

\* A step that moves one ride, not locked, and no ride onto the way.
LEMMA OneRideMoves ==
    ASSUME TypeOK, RideInv, NEW r \in Rides, NEW next \in Status,
           status' = [status EXCEPT ![r] = next], UNCHANGED driver,
           next \in LiveStatus => Live(r), ~Locked(r),
           Locks' \subseteq Locks, KeepsAccepted
    PROVE  RideInv'
<1>1. \A s \in Rides : Live(s)' => Live(s)
  BY DEF Live, TypeOK
<1>2. \A d : LiveRideOf(d)' \subseteq LiveRideOf(d)
  BY <1>1 DEF LiveRideOf
<1>3. DriverAssigned' /\ OneLiveRidePerDriver'
  BY <1>1 DEF RideInv, DriverAssigned, OneLiveRidePerDriver
<1>4. LiveRideHoldsAcceptedOffer'
  BY <1>1 DEF RideInv, DriverAssigned, LiveRideHoldsAcceptedOffer, KeepsAccepted
<1>5. ASSUME NEW q \in Locks' PROVE status'[q.ride] = "requested" /\ (LiveRideOf(q.driver) = {})'
  <2>1. q \in Locks /\ q \in requests /\ q.op \in RowLocks
    BY DEF Locks
  <2>2. q.ride \in Rides /\ q.ride # r
    BY <2>1 DEF TypeOK, Request, Locked
  <2>. QED  BY <1>2, <2>1, <2>2 DEF RideInv, LockHeld, TypeOK
<1>6. LockHeld'
  BY <1>5 DEF LockHeld
<1>7. LockExclusive'
  BY DEF RideInv, LockExclusive
<1>. QED  BY <1>3, <1>4, <1>6, <1>7 DEF RideInv

\* An accept takes the lock of a ride: CanAccept and LockFree give what LockHeld keeps.
LEMMA LockTaken ==
    ASSUME TypeOK, RideInv, NEW q, q.ride \in Rides, q.driver \in Drivers,
           CanAccept(q.ride, q.driver), LockFree(q.ride, q.driver),
           Locks' \subseteq Locks \cup {q}, UNCHANGED rideVars
    PROVE  RideInv'
<1>. USE DEF rideVars
<1>1. /\ \A r \in Rides : Live(r)' = Live(r)
      /\ \A d : LiveRideOf(d)' = LiveRideOf(d)
  BY DEF Live, LiveRideOf
<1>2. DriverAssigned' /\ OneLiveRidePerDriver' /\ LiveRideHoldsAcceptedOffer'
  BY <1>1 DEF RideInv, DriverAssigned, OneLiveRidePerDriver, LiveRideHoldsAcceptedOffer
<1>3. LockHeld'
  BY <1>1 DEF RideInv, LockHeld, CanAccept
<1>4. \A p \in Locks : p.ride # q.ride /\ p.driver # q.driver
  BY DEF LockFree, Locked, Accepting, Locks
<1>5. LockExclusive'
  BY <1>4 DEF RideInv, LockExclusive
<1>. QED  BY <1>2, <1>3, <1>5 DEF RideInv

\* Moving a request on to an operation that holds no lock adds none.
LEMMA ThenLocks ==
    ASSUME TypeOK, NEW q \in requests, NEW op, op \notin RowLocks,
           requests' = Then(q, op) \/ requests' \subseteq requests
    PROVE  Locks' \subseteq Locks
<1>1. [q EXCEPT !.op = op].op = op
  BY DEF TypeOK, Request
<1>. QED  BY <1>1 DEF Then, Locks

\* Nor does a request that begins with such an operation.
LEMMA NewLocks ==
    ASSUME NEW q, q.op \notin RowLocks, requests' \subseteq requests \cup {q}
    PROVE  Locks' \subseteq Locks
  BY DEF Locks

\* Offers that only lapse, close or reopen keep the accepted rows.
LEMMA SameOffers == ASSUME UNCHANGED offer PROVE KeepsAccepted
  BY DEF KeepsAccepted

-----------------------------------------------------------------------------
(* The invariant is inductive. *)

\* Going online and offline moves no ride.
LEMMA SafeSession == ASSUME TypeOK, RideInv, SessionNext PROVE RideInv'
<1>1. UNCHANGED <<rideVars, requests>>
  BY DEF SessionNext, BeginGoOnline, EndForReconnect, CreateSession, BeginGoOffline,
         EndSession, ReadOnline, ReadAgain
<1>2. Locks' \subseteq Locks /\ KeepsAccepted
  BY <1>1 DEF Locks, KeepsAccepted, rideVars
<1>. QED  BY <1>1, <1>2, NoRideMoves DEF rideVars

\* Neither does a process that dies, and a lock it held is released.
LEMMA SafeFail == ASSUME TypeOK, RideInv, FailNext PROVE RideInv'
<1>1. UNCHANGED rideVars /\ requests' \subseteq requests
  BY DEF FailNext, FailRequest, FailCast, FailCall, Done
<1>2. Locks' \subseteq Locks /\ KeepsAccepted
  BY <1>1 DEF Locks, KeepsAccepted, rideVars
<1>. QED  BY <1>1, <1>2, NoRideMoves DEF rideVars

\* The handlers of the trip move one ride, not locked, to a status it may go to; what
\* they withdraw is never an accepted row.
LEMMA SafeTrip == ASSUME TypeOK, RideInv, TripNext PROVE RideInv'
<1>. USE Inclusions DEF rideVars
<1>1. ASSUME NEW r \in Rides, ListStalePickup(r) PROVE RideInv'
  <2>1. Locks' \subseteq Locks
    BY <1>1, NewLocks DEF ListStalePickup, NewRequest, RowLocks
  <2>. QED  BY <1>1, <2>1, NoRideMoves, SameOffers DEF ListStalePickup
<1>2. ASSUME NEW r \in Rides, NEW op \in TripOps, BeginTrip(r, op) PROVE RideInv'
  <2>1. NewRequest(op, r, driver[r]).op \notin RowLocks
    BY DEF NewRequest, TripOps, RowLocks
  <2>2. Locks' \subseteq Locks
    BY <1>2, <2>1, NewLocks DEF BeginTrip
  <2>. QED  BY <1>2, <2>2, NoRideMoves, SameOffers DEF BeginTrip
<1>3. ASSUME NEW q \in requests, NEW next \in Status, MoveTo(q, next), Wins(q),
             next \in LiveStatus => Live(q.ride), UNCHANGED <<driver, offer>>,
             Locks' \subseteq Locks
      PROVE  RideInv'
  BY <1>3, OneRideMoves, SameOffers DEF MoveTo, Wins, TypeOK, Request
<1>4. ASSUME NEW q \in requests, Progress(q) PROVE RideInv'
  <2>1. PICK next \in LiveStatus : MoveTo(q, next)
    BY <1>4 DEF Progress, LiveStatus
  <2>2. Live(q.ride) /\ Wins(q)
    BY <1>4 DEF Progress, Wins, Expects, Live, LiveStatus
  <2>3. Locks' \subseteq Locks
    BY <1>4 DEF Progress, Done, Locks
  <2>. QED  BY <1>3, <1>4, <2>1, <2>2, <2>3 DEF Progress
<1>5. ASSUME NEW q \in requests, Complete(q) PROVE RideInv'
  <2>1. Locks' \subseteq Locks
    BY <1>5, ThenLocks DEF Complete, RowLocks
  <2>. QED  BY <1>3, <1>5, <2>1 DEF Complete, Status, LiveStatus
<1>6. ASSUME NEW q \in requests, Finish(q) PROVE RideInv'
  <2>1. Locks' \subseteq Locks
    BY <1>6 DEF Finish, Done, Locks
  <2>. QED  BY <1>6, <2>1, NoRideMoves, SameOffers DEF Finish
<1>7. ASSUME NEW q \in requests, Cancel(q) PROVE RideInv'
  <2>1. Locks' \subseteq Locks
    BY <1>7, ThenLocks DEF Cancel, RowLocks
  <2>. QED  BY <1>3, <1>7, <2>1 DEF Cancel, Status, LiveStatus
<1>8. ASSUME NEW q \in requests, Withdraw(q) PROVE RideInv'
  <2>1. Locks' \subseteq Locks
    BY <1>8 DEF Withdraw, Done, Locks
  <2>2. KeepsAccepted
    BY <1>8 DEF Withdraw, Withdrawn, KeepsAccepted, Acceptable, TypeOK, Request
  <2>. QED  BY <1>8, <2>1, <2>2, NoRideMoves DEF Withdraw
<1>9. ASSUME NEW q \in requests, Resolve(q) PROVE RideInv'
  <2>1. Locks' \subseteq Locks
    BY <1>9 DEF Resolve, Done, Locks
  <2>. QED  BY <1>3, <1>9, <2>1 DEF Resolve, Status, LiveStatus
<1>10. ASSUME NEW q \in requests, LoseRace(q) PROVE RideInv'
  <2>1. Locks' \subseteq Locks
    BY <1>10 DEF LoseRace, Done, Locks
  <2>. QED  BY <1>10, <2>1, NoRideMoves, SameOffers DEF LoseRace
<1>. QED
  BY <1>1, <1>2, <1>4, <1>5, <1>6, <1>7, <1>8, <1>9, <1>10 DEF TripNext

\* Booking, broadcast, sweep and assignment: only the commit of an accept puts a ride
\* on the way, and the lock it took still holds what its first statement found.
LEMMA SafeMatching == ASSUME TypeOK, RideInv, MatchingNext PROVE RideInv'
<1>. USE Inclusions DEF rideVars
<1>1. ASSUME NEW r \in Rides, NEW next \in Status \ LiveStatus, ~Locked(r),
             status' = [status EXCEPT ![r] = next], UNCHANGED <<driver, offer>>,
             Locks' \subseteq Locks
      PROVE  RideInv'
  BY <1>1, OneRideMoves, SameOffers
<1>2. {"scheduled", "requested", "no_drivers"} \subseteq Status \ LiveStatus
  BY DEF Status, LiveStatus
<1>3. ASSUME NEW r \in Rides, status[r] # "requested" PROVE ~Locked(r)
  BY <1>3 DEF RideInv, LockHeld, Locks, Locked
<1>4. ASSUME NEW r \in Rides, CreateBooking(r) PROVE RideInv'
  <2>1. Locks' \subseteq Locks
    BY <1>4, NewLocks DEF CreateBooking, NewRequest, RowLocks
  <2>2. CASE status' = [status EXCEPT ![r] = "scheduled"]
    BY <1>1, <1>2, <1>3, <1>4, <2>1, <2>2 DEF CreateBooking
  <2>3. CASE status' = [status EXCEPT ![r] = "requested"]
    BY <1>1, <1>2, <1>3, <1>4, <2>1, <2>3 DEF CreateBooking
  <2>. QED  BY <1>4, <2>2, <2>3 DEF CreateBooking
<1>5. ASSUME NEW r \in Rides, Dispatch(r) PROVE RideInv'
  <2>1. Locks' \subseteq Locks
    BY <1>5, NewLocks DEF Dispatch, NewRequest, RowLocks
  <2>. QED  BY <1>1, <1>2, <1>3, <1>5, <2>1 DEF Dispatch
<1>6. ASSUME NEW r \in Rides, ExpireStaleRequested(r) PROVE RideInv'
  <2>1. Locks' \subseteq Locks
    BY <1>6 DEF ExpireStaleRequested, Locks
  <2>. QED  BY <1>1, <1>2, <1>6, <2>1 DEF ExpireStaleRequested
<1>7. ASSUME NEW r \in Rides, NEW k \in Rounds, TakeBroadcast(r, k) PROVE RideInv'
  <2>1. Locks' \subseteq Locks
    BY <1>7 DEF TakeBroadcast, Locks
  <2>2. CASE UNCHANGED offer
    BY <1>7, <2>1, <2>2, NoRideMoves, SameOffers DEF TakeBroadcast
  <2>3. CASE offer' = [offer EXCEPT ![r] = [d \in Drivers |->
                            IF offer[r][d] = "grace" THEN "closed" ELSE offer[r][d]]]
    <3>1. KeepsAccepted
      BY <2>3 DEF KeepsAccepted, TypeOK
    <3>. QED  BY <1>7, <2>1, <3>1, NoRideMoves DEF TakeBroadcast
  <2>. QED  BY <1>7, <2>2, <2>3 DEF TakeBroadcast
<1>8. ASSUME NEW b \in casts, MatchDrivers(b) PROVE RideInv'
  <2>1. Locks' \subseteq Locks
    BY <1>8 DEF MatchDrivers, Locks
  <2>. QED  BY <1>8, <2>1, NoRideMoves, SameOffers DEF MatchDrivers
<1>9. ASSUME NEW b \in casts, CloseNoDrivers(b) PROVE RideInv'
  <2>1. Locks' \subseteq Locks /\ b.ride \in Rides
    BY <1>9 DEF CloseNoDrivers, Locks, TypeOK, Cast
  <2>2. CASE status' = [status EXCEPT ![b.ride] = "no_drivers"]
    BY <1>1, <1>2, <1>9, <2>1, <2>2 DEF CloseNoDrivers
  <2>3. CASE status' = status
    BY <1>9, <2>1, <2>3, NoRideMoves, SameOffers DEF CloseNoDrivers
  <2>. QED  BY <1>9, <2>2, <2>3 DEF CloseNoDrivers
<1>10. ASSUME NEW b \in casts, NEW d \in Drivers, OfferTo(b, d) PROVE RideInv'
  <2>1. Locks' \subseteq Locks /\ KeepsAccepted
    BY <1>10 DEF OfferTo, Locks, KeepsAccepted, Reoffered, TypeOK, Cast
  <2>. QED  BY <1>10, <2>1, NoRideMoves DEF OfferTo
<1>11. ASSUME NEW r \in Rides, NEW d \in Drivers, Lapse(r, d) PROVE RideInv'
  <2>1. Locks' \subseteq Locks /\ KeepsAccepted
    BY <1>11 DEF Lapse, Locks, KeepsAccepted, Acceptable, TypeOK
  <2>. QED  BY <1>11, <2>1, NoRideMoves DEF Lapse
<1>12. ASSUME NEW r \in Rides, NEW d \in Drivers, Decline(r, d) PROVE RideInv'
  <2>1. Locks' \subseteq Locks /\ KeepsAccepted
    BY <1>12 DEF Decline, Locks, KeepsAccepted, Acceptable, TypeOK
  <2>. QED  BY <1>12, <2>1, NoRideMoves DEF Decline
<1>13. ASSUME NEW r \in Rides, NEW d \in Drivers, AcceptLock(r, d) PROVE RideInv'
  <2>. DEFINE q == [NewRequest("accept", r, d) EXCEPT !.row = OnlineRow(d)]
  <2>1. q.ride = r /\ q.driver = d
    BY DEF NewRequest
  <2>2. Locks' \subseteq Locks \cup {q}
    BY <1>13 DEF AcceptLock, Locks
  <2>3. CanAccept(q.ride, q.driver) /\ LockFree(q.ride, q.driver) /\ UNCHANGED rideVars
    BY <1>13, <2>1 DEF AcceptLock
  <2>. HIDE DEF q
  <2>. QED  BY <2>1, <2>2, <2>3, LockTaken
<1>14. ASSUME NEW q \in requests, ForceAccept(q) PROVE RideInv'
  <2>. DEFINE p == [q EXCEPT !.op = "forceAccept", !.row = OnlineRow(q.driver)]
  <2>1. p.ride = q.ride /\ p.driver = q.driver /\ q.ride \in Rides /\ q.driver \in Drivers
    BY <1>14 DEF ForceAccept, TypeOK, Request
  <2>2. CASE CanAccept(q.ride, q.driver)
    <3>1. Locks' \subseteq Locks \cup {p}
      BY <1>14, <2>2 DEF ForceAccept, Locks
    <3>2. CanAccept(p.ride, p.driver) /\ LockFree(p.ride, p.driver) /\ UNCHANGED rideVars
      BY <1>14, <2>1, <2>2 DEF ForceAccept
    <3>. HIDE DEF p
    <3>. QED  BY <2>1, <3>1, <3>2, LockTaken
  <2>3. CASE ~CanAccept(q.ride, q.driver)
    <3>1. Locks' \subseteq Locks
      BY <1>14, <2>3 DEF ForceAccept, Locks
    <3>. QED  BY <1>14, <3>1, NoRideMoves, SameOffers DEF ForceAccept
  <2>. QED  BY <2>2, <2>3
<1>15. ASSUME NEW q \in requests, AcceptCommit(q) PROVE RideInv'
  <2>. DEFINE r == q.ride
              d == q.driver
  <2>1. q \in Locks /\ r \in Rides /\ d \in Drivers
    BY <1>15 DEF AcceptCommit, Locks, TypeOK, Request
  <2>2. status[r] = "requested" /\ LiveRideOf(d) = {}
    BY <2>1 DEF RideInv, LockHeld
  <2>3. /\ status' = [status EXCEPT ![r] = "accepted"]
        /\ driver' = [driver EXCEPT ![r] = d]
        /\ offer' = Accepted(r, d)
    BY <1>15 DEF AcceptCommit
  <2>4. Locks' \subseteq Locks \ {q}
    <3>1. [q EXCEPT !.op = "armGrace"].op \notin RowLocks
      BY DEF TypeOK, Request, RowLocks
    <3>. QED  BY <1>15, <3>1 DEF AcceptCommit, Then, Locks
  <2>. HIDE DEF r, d
  <2>5. \A s \in Rides : Live(s)' <=> (s = r \/ Live(s))
    BY <2>1, <2>3 DEF Live, LiveStatus, TypeOK
  <2>6. \A s \in Rides : Live(s) => s # r /\ driver'[s] = driver[s] /\ driver[s] # d
    BY <2>1, <2>2, <2>3 DEF Live, LiveStatus, LiveRideOf, TypeOK
  <2>7. driver'[r] = d
    BY <2>1, <2>3 DEF TypeOK
  <2>8. DriverAssigned'
    BY <2>1, <2>5, <2>6, <2>7 DEF RideInv, DriverAssigned
  <2>9. OneLiveRidePerDriver'
    BY <2>5, <2>6, <2>7 DEF RideInv, OneLiveRidePerDriver
  <2>10. KeepsAccepted /\ offer'[r][d] = "accepted"
    BY <2>1, <2>3 DEF KeepsAccepted, Accepted, Acceptable
  <2>11. LiveRideHoldsAcceptedOffer'
    BY <2>5, <2>6, <2>7, <2>10 DEF RideInv, LiveRideHoldsAcceptedOffer, DriverAssigned, KeepsAccepted
  <2>12. ASSUME NEW p \in Locks' PROVE status'[p.ride] = "requested" /\ (LiveRideOf(p.driver) = {})'
    <3>1. p \in Locks /\ p.ride \in Rides /\ p.ride # r /\ p.driver # d
      BY <2>1, <2>4 DEF r, d, RideInv, LockExclusive, Locks, TypeOK, Request
    <3>2. status[p.ride] = "requested" /\ LiveRideOf(p.driver) = {}
      BY <3>1 DEF RideInv, LockHeld
    <3>. QED  BY <2>3, <2>5, <2>6, <2>7, <3>1, <3>2 DEF LiveRideOf, TypeOK
  <2>13. LockHeld' /\ LockExclusive'
    BY <2>4, <2>12 DEF RideInv, LockHeld, LockExclusive
  <2>. QED  BY <2>8, <2>9, <2>11, <2>13 DEF RideInv
<1>16. ASSUME NEW q \in requests, AcceptRollback(q) PROVE RideInv'
  <2>1. Locks' \subseteq Locks
    BY <1>16 DEF AcceptRollback, Done, Locks
  <2>. QED  BY <1>16, <2>1, NoRideMoves, SameOffers DEF AcceptRollback
<1>17. ASSUME NEW r \in Rides, NEW d \in Drivers, GraceCheck(r, d) PROVE RideInv'
  <2>1. Locks' \subseteq Locks
    BY <1>17, NewLocks DEF GraceCheck, NewRequest, RowLocks, Locks
  <2>2. CASE UNCHANGED <<status, driver, session, requests>>
    BY <1>17, <2>1, <2>2, NoRideMoves, SameOffers DEF GraceCheck
  <2>3. CASE /\ status[r] = "accepted" /\ driver[r] = d
             /\ status' = [status EXCEPT ![r] = "requested"]
             /\ driver' = [driver EXCEPT ![r] = NoDriver]
    <3>1. \A s \in Rides : Live(s)' <=> (s # r /\ Live(s))
      BY <2>3 DEF Live, LiveStatus, TypeOK
    <3>2. \A s \in Rides \ {r} : driver'[s] = driver[s]
      BY <2>3 DEF TypeOK
    <3>3. \A e : LiveRideOf(e)' \subseteq LiveRideOf(e)
      BY <3>1, <3>2 DEF LiveRideOf
    <3>4. DriverAssigned' /\ OneLiveRidePerDriver'
      BY <3>1, <3>2 DEF RideInv, DriverAssigned, OneLiveRidePerDriver
    <3>5. LiveRideHoldsAcceptedOffer'
      BY <1>17, <3>1, <3>2 DEF RideInv, LiveRideHoldsAcceptedOffer, GraceCheck
    <3>6. ASSUME NEW p \in Locks' PROVE status'[p.ride] = "requested" /\ (LiveRideOf(p.driver) = {})'
      <4>1. p \in Locks /\ p.ride \in Rides
        BY <2>1 DEF Locks, TypeOK, Request
      <4>2. status[p.ride] = "requested" /\ LiveRideOf(p.driver) = {}
        BY <4>1 DEF RideInv, LockHeld
      <4>. QED  BY <2>3, <3>3, <4>1, <4>2 DEF TypeOK
    <3>7. LockHeld' /\ LockExclusive'
      BY <2>1, <3>6 DEF RideInv, LockHeld, LockExclusive
    <3>. QED  BY <3>4, <3>5, <3>7 DEF RideInv
  <2>. QED  BY <1>17, <2>2, <2>3 DEF GraceCheck
<1>18. ASSUME NEW r \in Rides, NEW d \in Drivers, NEW mode \in AssignOps, BeginAssign(r, d, mode)
       PROVE  RideInv'
  <2>1. NewRequest(mode, r, d).op \notin RowLocks
    BY DEF NewRequest, AssignOps, RowLocks
  <2>2. Locks' \subseteq Locks
    BY <1>18, <2>1, NewLocks DEF BeginAssign
  <2>. QED  BY <1>18, <2>2, NoRideMoves, SameOffers DEF BeginAssign
<1>19. ASSUME NEW q \in requests, OpenForAssign(q) PROVE RideInv'
  <2>1. Locks' \subseteq Locks
    BY <1>19, ThenLocks DEF OpenForAssign, Done, RowLocks
  <2>2. q.ride \in Rides
    BY <1>19 DEF TypeOK, Request
  <2>3. CASE status' = status
    BY <1>19, <2>1, <2>3, NoRideMoves, SameOffers DEF OpenForAssign
  <2>4. CASE ~Locked(q.ride) /\ status' = [status EXCEPT ![q.ride] = "requested"]
    BY <1>1, <1>2, <1>19, <2>1, <2>2, <2>4 DEF OpenForAssign
  <2>. QED  BY <1>19, <2>3, <2>4 DEF OpenForAssign
<1>20. ASSUME NEW q \in requests, OfferByAdmin(q) PROVE RideInv'
  <2>1. Locks' \subseteq Locks
    BY <1>20, ThenLocks DEF OfferByAdmin, RowLocks
  <2>2. \A e \in Drivers : offer[q.ride][e] = "accepted" => Withdrawn(q.ride)[e] = "accepted"
    BY DEF Withdrawn, Acceptable
  <2>3. KeepsAccepted
    BY <1>20, <2>2 DEF OfferByAdmin, KeepsAccepted, Reoffered, Withdrawn, TypeOK, Request
  <2>. QED  BY <1>20, <2>1, <2>3, NoRideMoves DEF OfferByAdmin
<1>21. ASSUME NEW q \in requests, Publish(q) \/ ArmGrace(q) \/ Enqueue(q) PROVE RideInv'
  <2>1. Locks' \subseteq Locks /\ UNCHANGED rideVars
    BY <1>21 DEF Publish, ArmGrace, Enqueue, Done, Locks
  <2>. QED  BY <2>1, NoRideMoves, SameOffers
<1>. QED
  BY <1>4, <1>5, <1>6, <1>7, <1>8, <1>9, <1>10, <1>11, <1>12, <1>13, <1>14, <1>15, <1>16,
     <1>17, <1>18, <1>19, <1>20, <1>21 DEF MatchingNext

\* A step of the ride backend keeps the invariant.
LEMMA RideInvStep == ASSUME TypeOK, RideInv, [Next]_vars PROVE RideInv'
<1>1. CASE UNCHANGED vars
  BY <1>1, NoRideMoves, SameOffers DEF vars, Locks
<1>. QED  BY <1>1, SafeSession, SafeMatching, SafeTrip, SafeFail DEF Next

\* The assigned driver, the accepted row and what the row lock of an accept in progress
\* protects (acceptAssignment) hold together in every state.
THEOREM RideInvAlways == Spec => []RideInv
<1>1. Init => RideInv
  BY RideInvInit
<1>2. TypeOK /\ RideInv /\ [Next]_vars => RideInv'
  BY RideInvStep
<1>. QED  BY <1>1, <1>2, TypeCorrect, PTL DEF Spec

\* Whatever accepts, forced assignments, reverts, cancellations and sweeps race, no
\* driver has two rides on the way (acceptAssignment, rides_one_live_per_driver_idx).
THEOREM NoDoubleAssignment == Spec => []OneLiveRidePerDriver
<1>1. RideInv => OneLiveRidePerDriver
  BY DEF RideInv
<1>. QED  BY <1>1, RideInvAlways, PTL

\* The driver of a ride on the way holds its accepted assignment row, whatever
\* withdrawals, lapses and re-offers (createRideAssignment) came after the accept.
THEOREM DriverHoldsRow == Spec => []LiveRideHoldsAcceptedOffer
<1>1. RideInv => LiveRideHoldsAcceptedOffer
  BY DEF RideInv
<1>. QED  BY <1>1, RideInvAlways, PTL

-----------------------------------------------------------------------------
(* Refinement of RideLifecycle.                                            *)

\* A request remembers a status its first read let pass.
SeenIsRead == \A q \in requests :
    /\ q.op \in TripOps => q.seen \in Reads(q.op)
    /\ q.op \in AssignOps => q.seen \in {"scheduled", "requested", "no_drivers"}

\* Requests come in by a read, and otherwise only go on to operations without one.
LEMMA SeenStep == ASSUME TypeOK, SeenIsRead, [Next]_vars PROVE SeenIsRead'
<1>. DEFINE Reading == TripOps \cup AssignOps
<1>1. ASSUME NEW p, requests' \subseteq requests \cup {p},
             p.op \in TripOps => p.seen \in Reads(p.op),
             p.op \in AssignOps => p.seen \in {"scheduled", "requested", "no_drivers"}
      PROVE  SeenIsRead'
  BY <1>1 DEF SeenIsRead
<1>2. ASSUME requests' \subseteq requests PROVE SeenIsRead'
  BY <1>2 DEF SeenIsRead
<1>3. ASSUME NEW q \in requests, NEW op \in Ops \ Reading, requests' \subseteq Then(q, op) \cup requests
      PROVE  SeenIsRead'
  <2>1. [q EXCEPT !.op = op].op \notin Reading
    BY DEF TypeOK, Request
  <2>. QED  BY <1>1, <1>3, <2>1 DEF Then
<1>4. {"withdraw", "finish", "armGrace", "offer", "forceOffer", "enqueue", "forceOffered"}
        \subseteq Ops \ Reading
  BY DEF Ops, DriverOps, TripOps, AssignOps
<1>5. CASE UNCHANGED vars \/ SessionNext \/ FailNext
  BY <1>2, <1>5 DEF vars, SessionNext, BeginGoOnline, EndForReconnect, CreateSession,
     BeginGoOffline, EndSession, ReadOnline, ReadAgain, FailNext, FailRequest, FailCast, FailCall, Done
<1>6. CASE TripNext
  <2>1. ASSUME NEW r \in Rides, ListStalePickup(r) \/ \E op \in TripOps : BeginTrip(r, op)
        PROVE  SeenIsRead'
    <3>1. ASSUME NEW op \in TripOps, status[r] \in Reads(op),
                 requests' = requests \cup {NewRequest(op, r, driver[r])}
          PROVE  SeenIsRead'
      BY <1>1, <3>1 DEF NewRequest, TripOps, AssignOps
    <3>. QED  BY <2>1, <3>1 DEF ListStalePickup, BeginTrip, TripOps
  <2>2. ASSUME NEW q \in requests, Complete(q) \/ Cancel(q) PROVE SeenIsRead'
    BY <1>2, <1>3, <1>4, <2>2 DEF Complete, Cancel
  <2>3. ASSUME NEW q \in requests, Progress(q) \/ Finish(q) \/ Withdraw(q) \/ Resolve(q) \/ LoseRace(q)
        PROVE  SeenIsRead'
    BY <1>2, <2>3 DEF Progress, Finish, Withdraw, Resolve, LoseRace, Done
  <2>. QED  BY <1>6, <2>1, <2>2, <2>3 DEF TripNext
<1>7. CASE MatchingNext
  <2>1. ASSUME NEW r \in Rides, CreateBooking(r) \/ Dispatch(r) PROVE SeenIsRead'
    <3>1. ASSUME NEW s, requests' = requests \cup
                            {[NewRequest("publish", r, NoDriver) EXCEPT !.seen = s]}
          PROVE  SeenIsRead'
      <4>1. [NewRequest("publish", r, NoDriver) EXCEPT !.seen = s].op = "publish"
        BY DEF NewRequest
      <4>. QED  BY <1>1, <3>1, <4>1 DEF TripOps, AssignOps
    <3>. QED  BY <2>1, <3>1 DEF CreateBooking, Dispatch
  <2>2. ASSUME NEW r \in Rides, NEW d \in Drivers, AcceptLock(r, d) PROVE SeenIsRead'
    <3>1. [NewRequest("accept", r, d) EXCEPT !.row = OnlineRow(d)].op = "accept"
      BY DEF NewRequest
    <3>. QED  BY <1>1, <2>2, <3>1 DEF AcceptLock, TripOps, AssignOps
  <2>3. ASSUME NEW r \in Rides, NEW d \in Drivers, GraceCheck(r, d) PROVE SeenIsRead'
    <3>1. [NewRequest("enqueue", r, d) EXCEPT !.seen = "requested"].op = "enqueue"
      BY DEF NewRequest
    <3>. QED  BY <1>1, <1>2, <2>3, <3>1 DEF GraceCheck, TripOps, AssignOps
  <2>4. ASSUME NEW r \in Rides, NEW d \in Drivers, NEW mode \in AssignOps, BeginAssign(r, d, mode)
        PROVE  SeenIsRead'
    BY <1>1, <2>4 DEF BeginAssign, NewRequest, TripOps, AssignOps
  <2>5. ASSUME NEW q \in requests, ForceAccept(q) PROVE SeenIsRead'
    <3>1. [q EXCEPT !.op = "forceAccept", !.row = OnlineRow(q.driver)].op = "forceAccept"
      BY DEF TypeOK, Request
    <3>. QED  BY <1>1, <1>2, <2>5, <3>1 DEF ForceAccept, TripOps, AssignOps
  <2>6. ASSUME NEW q \in requests, AcceptCommit(q) \/ OpenForAssign(q) \/ OfferByAdmin(q)
        PROVE  SeenIsRead'
    BY <1>2, <1>3, <1>4, <2>6 DEF AcceptCommit, OpenForAssign, OfferByAdmin, Done
  <2>7. ASSUME NEW q \in requests, Publish(q) \/ AcceptRollback(q) \/ ArmGrace(q) \/ Enqueue(q)
        PROVE  SeenIsRead'
    BY <1>2, <2>7 DEF Publish, AcceptRollback, ArmGrace, Enqueue, Done
  <2>8. ASSUME \/ \E r \in Rides, k \in Rounds : TakeBroadcast(r, k)
               \/ \E r \in Rides : ExpireStaleRequested(r)
               \/ \E b \in casts : MatchDrivers(b) \/ CloseNoDrivers(b) \/ \E d \in Drivers : OfferTo(b, d)
               \/ \E r \in Rides, d \in Drivers : Lapse(r, d) \/ Decline(r, d)
        PROVE  SeenIsRead'
    BY <1>2, <2>8 DEF TakeBroadcast, ExpireStaleRequested, MatchDrivers, CloseNoDrivers, OfferTo,
       Lapse, Decline
  <2>. QED
    BY <1>7, <2>1, <2>2, <2>3, <2>4, <2>5, <2>6, <2>7, <2>8 DEF MatchingNext
<1>. QED  BY <1>5, <1>6, <1>7 DEF Next

\* What a handler remembers of its first read is a status that lets the handler go on
\* (CANCELLABLE_BY and the status checks of rides.service.ts).
THEOREM SeenAlways == Spec => []SeenIsRead
<1>1. Init => SeenIsRead
  BY DEF Init, SeenIsRead
<1>2. TypeOK /\ SeenIsRead /\ [Next]_vars => SeenIsRead'
  BY SeenStep
<1>. QED  BY <1>1, <1>2, TypeCorrect, PTL DEF Spec

\* What a step may do to the status and the driver of the rides, as a life cycle step.
LEMMA LifecycleStep ==
    ASSUME TypeOK, RideInv, SeenIsRead, [Next]_vars
    PROVE  [Lifecycle!Next]_<<status, driver>>
<1>. DEFINE Stutter == UNCHANGED <<status, driver>>
<1>. USE DEF rideVars, Lifecycle!Step
<1>1. CASE UNCHANGED vars \/ SessionNext \/ FailNext
  BY <1>1 DEF vars, SessionNext, BeginGoOnline, EndForReconnect, CreateSession,
     BeginGoOffline, EndSession, ReadOnline, ReadAgain, FailNext, FailRequest, FailCast, FailCall
<1>2. CASE TripNext
  <2>1. ASSUME NEW r \in Rides, ListStalePickup(r) \/ \E op \in TripOps : BeginTrip(r, op)
        PROVE  Stutter
    BY <2>1 DEF ListStalePickup, BeginTrip
  <2>2. ASSUME NEW q \in requests, Progress(q) PROVE Lifecycle!Next
    <3>1. q.ride \in Rides
      BY <2>2 DEF TypeOK, Request
    <3>2. Lifecycle!Arrive(q.ride) \/ Lifecycle!Start(q.ride) \/ Lifecycle!TurnBack(q.ride)
      BY <2>2 DEF Progress, Wins, Expects, MoveTo, Lifecycle!Arrive, Lifecycle!Start, Lifecycle!TurnBack
    <3>. QED  BY <3>1, <3>2 DEF Lifecycle!Next
  <2>3. ASSUME NEW q \in requests, Complete(q) PROVE Lifecycle!Next
    <3>1. q.ride \in Rides /\ q.seen \in InTrip
      BY <2>3 DEF TypeOK, Request, Complete, SeenIsRead, TripOps, Reads
    <3>2. status[q.ride] \in InTrip
      BY <2>3, <3>1 DEF Complete, Wins, Expects
    <3>3. Lifecycle!Finish(q.ride)
      BY <2>3, <3>2 DEF Complete, MoveTo, InTrip, Lifecycle!Finish
    <3>. QED  BY <3>1, <3>3 DEF Lifecycle!Next
  <2>4. ASSUME NEW q \in requests, Cancel(q) PROVE Lifecycle!Next
    <3>1. q.ride \in Rides /\ q.seen \in {"scheduled", "requested", "accepted", "driver_arrived"}
      BY <2>4 DEF TypeOK, Request, Cancel, SeenIsRead, TripOps, Reads
    <3>2. status[q.ride] = q.seen
      BY <2>4 DEF Cancel, Wins, Expects
    <3>3. Lifecycle!Cancel(q.ride)
      BY <2>4, <3>1, <3>2 DEF Cancel, MoveTo, Lifecycle!Cancel, Lifecycle!OnTheWay
    <3>. QED  BY <3>1, <3>3 DEF Lifecycle!Next
  <2>5. ASSUME NEW q \in requests, Resolve(q) PROVE Lifecycle!Next
    <3>1. q.ride \in Rides /\ q.seen \in InTrip
      BY <2>5 DEF TypeOK, Request, Resolve, SeenIsRead, TripOps, Reads
    <3>2. status[q.ride] = q.seen
      BY <2>5 DEF Resolve, Wins, Expects
    <3>3. Lifecycle!Finish(q.ride) \/ Lifecycle!Cancel(q.ride)
      BY <2>5, <3>1, <3>2 DEF Resolve, MoveTo, InTrip, Lifecycle!Finish, Lifecycle!Cancel, Lifecycle!OnTheWay
    <3>. QED  BY <3>1, <3>3 DEF Lifecycle!Next
  <2>6. ASSUME NEW q \in requests, Finish(q) \/ Withdraw(q) \/ LoseRace(q) PROVE Stutter
    BY <2>6 DEF Finish, Withdraw, LoseRace
  <2>. QED  BY <1>2, <2>1, <2>2, <2>3, <2>4, <2>5, <2>6 DEF TripNext
<1>3. CASE MatchingNext
  <2>1. ASSUME NEW r \in Rides, CreateBooking(r) PROVE Lifecycle!Next
    <3>1. Lifecycle!Book(r)
      BY <2>1 DEF CreateBooking, Lifecycle!Book
    <3>. QED  BY <3>1 DEF Lifecycle!Next
  <2>2. ASSUME NEW r \in Rides, Dispatch(r) PROVE Lifecycle!Next
    <3>1. Lifecycle!Open(r)
      BY <2>2 DEF Dispatch, Lifecycle!Open
    <3>. QED  BY <3>1 DEF Lifecycle!Next
  <2>3. ASSUME NEW r \in Rides, ExpireStaleRequested(r) PROVE Lifecycle!Next
    <3>1. Lifecycle!GiveUp(r)
      BY <2>3 DEF ExpireStaleRequested, Lifecycle!GiveUp
    <3>. QED  BY <3>1 DEF Lifecycle!Next
  <2>4. ASSUME NEW b \in casts, CloseNoDrivers(b) PROVE Stutter \/ Lifecycle!Next
    <3>1. Stutter \/ Lifecycle!GiveUp(b.ride)
      BY <2>4 DEF CloseNoDrivers, Lifecycle!GiveUp
    <3>2. b.ride \in Rides
      BY <2>4 DEF TypeOK, Cast
    <3>. QED  BY <3>1, <3>2 DEF Lifecycle!Next
  <2>5. ASSUME NEW q \in requests, AcceptCommit(q) PROVE Lifecycle!Next
    <3>1. q \in Locks /\ q.ride \in Rides /\ q.driver \in Drivers
      BY <2>5, Inclusions DEF AcceptCommit, Locks, TypeOK, Request
    <3>2. status[q.ride] = "requested" /\ LiveRideOf(q.driver) = {}
      BY <3>1 DEF RideInv, LockHeld
    <3>3. \A s \in Rides : driver[s] = q.driver => status[s] \notin Lifecycle!OnTheWay
      BY <3>2 DEF LiveRideOf, Live, LiveStatus, Lifecycle!OnTheWay
    <3>4. Lifecycle!Assign(q.ride, q.driver)
      BY <2>5, <3>2, <3>3 DEF AcceptCommit, Lifecycle!Assign
    <3>. QED  BY <3>1, <3>4 DEF Lifecycle!Next
  <2>6. ASSUME NEW r \in Rides, NEW d \in Drivers, GraceCheck(r, d) PROVE Stutter \/ Lifecycle!Next
    <3>1. Stutter \/ Lifecycle!Unassign(r)
      BY <2>6 DEF GraceCheck, Lifecycle!Unassign
    <3>. QED  BY <3>1 DEF Lifecycle!Next
  <2>7. ASSUME NEW q \in requests, OpenForAssign(q) PROVE Stutter \/ Lifecycle!Next
    <3>1. q.ride \in Rides /\ q.seen \in {"scheduled", "requested", "no_drivers"}
      BY <2>7 DEF TypeOK, Request, OpenForAssign, SeenIsRead
    <3>2. Stutter \/ Lifecycle!Open(q.ride)
      BY <2>7, <3>1 DEF OpenForAssign, Lifecycle!Open
    <3>. QED  BY <3>1, <3>2 DEF Lifecycle!Next
  <2>8. ASSUME \/ \E r \in Rides, k \in Rounds : TakeBroadcast(r, k)
               \/ \E b \in casts : MatchDrivers(b) \/ \E d \in Drivers : OfferTo(b, d)
               \/ \E r \in Rides, d \in Drivers : Lapse(r, d) \/ Decline(r, d) \/ AcceptLock(r, d)
               \/ \E r \in Rides, d \in Drivers, mode \in AssignOps : BeginAssign(r, d, mode)
               \/ \E q \in requests : Publish(q) \/ AcceptRollback(q) \/ OfferByAdmin(q)
                                        \/ ForceAccept(q) \/ ArmGrace(q) \/ Enqueue(q)
        PROVE  Stutter
    BY <2>8 DEF TakeBroadcast, MatchDrivers, OfferTo, Lapse, Decline, AcceptLock, BeginAssign,
       Publish, AcceptRollback, OfferByAdmin, ForceAccept, ArmGrace, Enqueue
  <2>. QED  BY <1>3, <2>1, <2>2, <2>3, <2>4, <2>5, <2>6, <2>7, <2>8 DEF MatchingNext
<1>. QED  BY <1>1, <1>2, <1>3 DEF Next

\* The handlers implement the life cycle of rides: each compare-and-swap, on the
\* strength of whatever its handler read, moves a ride along an edge of it.
THEOREM ImplementsLifecycle == Spec => LifecycleSpec
<1>1. Init => Lifecycle!Init
  BY DEF Init, Lifecycle!Init
<1>2. TypeOK /\ RideInv /\ SeenIsRead /\ [Next]_vars => [Lifecycle!Next]_<<status, driver>>
  BY LifecycleStep
<1>. QED
  BY <1>1, <1>2, TypeCorrect, RideInvAlways, SeenAlways, PTL DEF Spec, LifecycleSpec, Lifecycle!Spec

-----------------------------------------------------------------------------
(* Closed offers.                                                          *)

Back(r, d) == offer[r][d] = "closed" /\ offer'[r][d] \in Acceptable

\* The statements that write assignment rows.
LEMMA OfferWriters ==
    ASSUME [Next]_vars
    PROVE  \/ UNCHANGED offer
           \/ \E b \in casts, e \in Drivers : OfferTo(b, e)
           \/ \E q \in requests : OfferByAdmin(q) \/ AcceptCommit(q) \/ Withdraw(q)
           \/ \E s \in Rides, k \in Rounds : TakeBroadcast(s, k)
           \/ \E s \in Rides, e \in Drivers : Lapse(s, e) \/ Decline(s, e)
<1>. USE DEF rideVars
<1>1. CASE UNCHANGED vars \/ SessionNext \/ FailNext
  BY <1>1 DEF vars, SessionNext, BeginGoOnline, EndForReconnect, CreateSession,
     BeginGoOffline, EndSession, ReadOnline, ReadAgain, FailNext, FailRequest, FailCast, FailCall
<1>2. CASE TripNext
  BY <1>2 DEF TripNext, ListStalePickup, BeginTrip, Progress, Complete, Finish, Cancel, Resolve, LoseRace
<1>3. CASE MatchingNext
  BY <1>3 DEF MatchingNext, CreateBooking, Dispatch, ExpireStaleRequested, MatchDrivers,
     CloseNoDrivers, AcceptLock, BeginAssign, Publish, AcceptRollback, OpenForAssign,
     ForceAccept, ArmGrace, Enqueue, GraceCheck
<1>. QED  BY <1>1, <1>2, <1>3 DEF Next

\* Offers of a ride that does not wait only lapse, close or are withdrawn.
LEMMA OffersStep ==
    ASSUME TypeOK, [Next]_vars, NEW r \in Rides, NEW d \in Drivers, Back(r, d)
    PROVE  status[r] = "requested"
<1>. USE DEF rideVars, Back, Acceptable
<1>1. CASE UNCHANGED offer
  BY <1>1
<1>2. ASSUME NEW b \in casts, NEW e \in Drivers, OfferTo(b, e) PROVE status[r] = "requested"
  BY <1>2 DEF OfferTo, Reoffered, TypeOK, Cast
<1>3. ASSUME NEW q \in requests, OfferByAdmin(q) PROVE status[r] = "requested"
  <2>. DEFINE W == Withdrawn(q.ride)
  <2>1. PICK fresh : offer' = [offer EXCEPT ![q.ride] =
                                  [W EXCEPT ![q.driver] = Reoffered(q.ride, W[q.driver], fresh)]]
    BY <1>3 DEF OfferByAdmin
  <2>2. W \in [Drivers -> OfferStatus] /\ \A e \in Drivers : W[e] \notin Acceptable
    BY DEF Withdrawn, TypeOK, Request, OfferStatus
  <2>3. q.ride = r /\ q.driver = d
    BY <2>1, <2>2 DEF TypeOK
  <2>4. W[d] = "closed"
    BY <2>3 DEF Withdrawn
  <2>. QED  BY <2>1, <2>2, <2>3, <2>4 DEF Reoffered, TypeOK
<1>4. ASSUME NEW s \in Rides, NEW k \in Rounds, TakeBroadcast(s, k) PROVE status[r] = "requested"
  <2>1. offer' = [offer EXCEPT ![s] = [e \in Drivers |->
                     IF offer[s][e] = "grace" THEN "closed" ELSE offer[s][e]]]
    BY <1>4 DEF TakeBroadcast
  <2>. QED  BY <2>1 DEF TypeOK
<1>5. ASSUME NEW s \in Rides, NEW e \in Drivers, Lapse(s, e) \/ Decline(s, e)
      PROVE  status[r] = "requested"
  BY <1>5 DEF Lapse, Decline, TypeOK
<1>6. ASSUME NEW q \in requests, AcceptCommit(q) \/ Withdraw(q) PROVE status[r] = "requested"
  <2>1. CASE AcceptCommit(q)
    BY <2>1 DEF AcceptCommit, Accepted
  <2>2. CASE Withdraw(q)
    BY <2>2 DEF Withdraw, Withdrawn, TypeOK, Request
  <2>. QED  BY <1>6, <2>1, <2>2
<1>7. \/ UNCHANGED offer
      \/ \E b \in casts, e \in Drivers : OfferTo(b, e)
      \/ \E q \in requests : OfferByAdmin(q) \/ AcceptCommit(q) \/ Withdraw(q)
      \/ \E s \in Rides, k \in Rounds : TakeBroadcast(s, k)
      \/ \E s \in Rides, e \in Drivers : Lapse(s, e) \/ Decline(s, e)
  BY OfferWriters
<1>. QED  BY <1>1, <1>2, <1>3, <1>4, <1>5, <1>6, <1>7

\* A driver's closed offer comes back only while the ride waits, however late a
\* broadcast round or an admin's handler calls createRideAssignment.
THEOREM ClosedOffersStay == Spec => NoOfferComesBackLate
<1>1. TypeOK /\ [Next]_vars =>
        [\A r \in Rides, d \in Drivers :
            (offer[r][d] = "closed" /\ offer'[r][d] \in Acceptable) => status[r] = "requested"]_vars
  BY OffersStep DEF Back
<1>. QED  BY <1>1, TypeCorrect, PTL DEF Spec, NoOfferComesBackLate

-----------------------------------------------------------------------------
(* Riders.                                                                 *)

OpenStatus == LiveStatus \cup {"requested"}

\* Only rides booked for later are ever scheduled, so a dispatch opens no immediate one.
RiderInv ==
    /\ OneOpenRidePerRider
    /\ \A r \in Rides : status[r] = "scheduled" => r \in Advance

\* A ride opens only if it was open, is exempt, or its rider has no other.
LEMMA OneRideOpens ==
    ASSUME TypeOK, RiderInv, NEW r \in Rides, NEW next,
           status' = [status EXCEPT ![r] = next],
           next = "scheduled" => r \in Advance,
           next \in OpenStatus => status[r] \in OpenStatus \/ r \in Advance \/ RiderIsFree(r)
    PROVE  RiderInv'
<1>1. \A s \in Rides : status'[s] = IF s = r THEN next ELSE status[s]
  BY DEF TypeOK
<1>2. \A s \in Rides : status'[s] = "scheduled" => s \in Advance
  BY <1>1 DEF RiderInv
<1>3. CASE next \notin OpenStatus \/ status[r] \in OpenStatus
  BY <1>1, <1>2, <1>3 DEF RiderInv, OneOpenRidePerRider, OpenStatus
<1>4. CASE r \in Advance
  BY <1>1, <1>2, <1>4 DEF RiderInv, OneOpenRidePerRider
<1>5. CASE RiderIsFree(r)
  BY <1>1, <1>2, <1>5 DEF RiderInv, OneOpenRidePerRider, RiderIsFree
<1>. QED  BY <1>3, <1>4, <1>5

\* Every entry into the statuses of rides_one_live_per_user_idx is checked against it.
LEMMA RiderStep ==
    ASSUME TypeOK, RideInv, SeenIsRead, RiderInv, [Next]_vars
    PROVE  RiderInv'
<1>. USE DEF rideVars
<1>0. ASSUME UNCHANGED status PROVE RiderInv'
  BY <1>0 DEF RiderInv, OneOpenRidePerRider
<1>1. CASE UNCHANGED vars \/ SessionNext \/ FailNext
  BY <1>0, <1>1 DEF vars, SessionNext, BeginGoOnline, EndForReconnect, CreateSession,
     BeginGoOffline, EndSession, ReadOnline, ReadAgain, FailNext, FailRequest, FailCast, FailCall
<1>2. CASE TripNext
  <2>1. ASSUME NEW q \in requests, Wins(q), q.op \in {"arrive", "start", "startReturn"},
               NEW next \in LiveStatus, MoveTo(q, next)
        PROVE  RiderInv'
    <3>1. q.ride \in Rides /\ status[q.ride] \in OpenStatus
      BY <2>1 DEF TypeOK, Request, Wins, Expects, OpenStatus, LiveStatus
    <3>. QED  BY <2>1, <3>1, OneRideOpens DEF MoveTo, LiveStatus
  <2>2. ASSUME NEW q \in requests, NEW next \in {"completed", "cancelled"}, MoveTo(q, next)
        PROVE  RiderInv'
    BY <2>2, OneRideOpens DEF MoveTo, OpenStatus, LiveStatus, TypeOK, Request
  <2>3. \/ UNCHANGED status
        \/ \E q \in requests : Progress(q)
        \/ \E q \in requests, next \in {"completed", "cancelled"} : MoveTo(q, next)
    BY <1>2 DEF TripNext, ListStalePickup, BeginTrip, Complete, Cancel, Resolve, Finish, Withdraw, LoseRace
  <2>4. ASSUME NEW q \in requests, Progress(q) PROVE RiderInv'
    <3>1. \E next \in LiveStatus : MoveTo(q, next)
      BY <2>4 DEF Progress, LiveStatus
    <3>. QED  BY <2>1, <2>4, <3>1 DEF Progress
  <2>. QED  BY <1>0, <2>2, <2>3, <2>4
<1>3. CASE MatchingNext
  <2>1. ASSUME NEW r \in Rides, CreateBooking(r) PROVE RiderInv'
    <3>1. CASE r \in Advance
      BY <2>1, <3>1, OneRideOpens DEF CreateBooking
    <3>2. CASE r \notin Advance
      BY <2>1, <3>2, OneRideOpens DEF CreateBooking
    <3>. QED  BY <3>1, <3>2
  <2>2. ASSUME NEW r \in Rides, Dispatch(r) PROVE RiderInv'
    <3>1. r \in Advance
      BY <2>2 DEF Dispatch, RiderInv
    <3>. QED  BY <2>2, <3>1, OneRideOpens DEF Dispatch
  <2>3. ASSUME NEW r \in Rides, status' = [status EXCEPT ![r] = "no_drivers"] PROVE RiderInv'
    BY <2>3, OneRideOpens DEF OpenStatus, LiveStatus
  <2>4. ASSUME NEW b \in casts, CloseNoDrivers(b) PROVE RiderInv'
    <3>1. b.ride \in Rides
      BY <2>4 DEF TypeOK, Cast
    <3>. QED  BY <1>0, <2>3, <2>4, <3>1 DEF CloseNoDrivers
  <2>5. ASSUME NEW q \in requests, AcceptCommit(q) PROVE RiderInv'
    <3>1. q.ride \in Rides /\ status[q.ride] \in OpenStatus
      BY <2>5 DEF AcceptCommit, RideInv, LockHeld, Locks, TypeOK, Request, OpenStatus
    <3>. QED  BY <2>5, <3>1, OneRideOpens DEF AcceptCommit
  <2>6. ASSUME NEW r \in Rides, NEW d \in Drivers, GraceCheck(r, d) PROVE RiderInv'
    <3>1. CASE status[r] = "accepted" /\ status' = [status EXCEPT ![r] = "requested"]
      BY <3>1, OneRideOpens DEF OpenStatus, LiveStatus
    <3>. QED  BY <1>0, <2>6, <3>1 DEF GraceCheck
  <2>7. ASSUME NEW q \in requests, OpenForAssign(q) PROVE RiderInv'
    <3>1. q.ride \in Rides
      BY <2>7 DEF TypeOK, Request
    <3>2. CASE /\ status' = [status EXCEPT ![q.ride] = "requested"]
               /\ q.ride \in Advance \/ RiderIsFree(q.ride)
      BY <3>1, <3>2, OneRideOpens
    <3>. QED  BY <1>0, <2>7, <3>2 DEF OpenForAssign
  <2>8. \/ UNCHANGED status
        \/ \E r \in Rides : CreateBooking(r) \/ Dispatch(r) \/ status' = [status EXCEPT ![r] = "no_drivers"]
        \/ \E b \in casts : CloseNoDrivers(b)
        \/ \E q \in requests : AcceptCommit(q) \/ OpenForAssign(q)
        \/ \E r \in Rides, d \in Drivers : GraceCheck(r, d)
    BY <1>3 DEF MatchingNext, ExpireStaleRequested, TakeBroadcast, MatchDrivers, OfferTo, Lapse,
       Decline, AcceptLock, BeginAssign, Publish, AcceptRollback, OfferByAdmin, ForceAccept,
       ArmGrace, Enqueue
  <2>. QED  BY <1>0, <2>1, <2>2, <2>3, <2>4, <2>5, <2>6, <2>7, <2>8
<1>. QED  BY <1>1, <1>2, <1>3 DEF Next

\* Bookings, dispatches, reopenings and reverts leave a rider at most one immediate
\* ride that waits or is on the way (rides_one_live_per_user_idx).
THEOREM OneOpenRide == Spec => []OneOpenRidePerRider
<1>1. Init => RiderInv
  BY DEF Init, RiderInv, OneOpenRidePerRider, LiveStatus
<1>2. TypeOK /\ RideInv /\ SeenIsRead /\ RiderInv /\ [Next]_vars => RiderInv'
  BY RiderStep
<1>3. RiderInv => OneOpenRidePerRider
  BY DEF RiderInv
<1>. QED  BY <1>1, <1>2, <1>3, TypeCorrect, RideInvAlways, SeenAlways, PTL DEF Spec

-----------------------------------------------------------------------------
(* Without forced assignments.                                             *)

ForceOps == {"force", "forceOffer", "forceOffered", "forceAccept", "armGrace"}

\* No forced assignment is under way and no grace check will revert one.
NothingForced == grace = {} /\ \A q \in requests : q.op \notin ForceOps

\* A forced assignment begins only where the instance serves it, and every later
\* statement and the grace check come from it.
LEMMA NothingForcedStep ==
    ASSUME "force" \notin Handlers, TypeOK, NothingForced, [Next]_vars
    PROVE  NothingForced'
<1>1. ASSUME NEW p, p.op \notin ForceOps, requests' \subseteq requests \cup {p}, grace' \subseteq grace
      PROVE  NothingForced'
  BY <1>1 DEF NothingForced
<1>2. ASSUME requests' \subseteq requests, grace' \subseteq grace PROVE NothingForced'
  BY <1>2 DEF NothingForced
<1>3. ASSUME NEW q \in requests, NEW op \in Ops \ ForceOps, requests' \subseteq Then(q, op) \cup requests,
             grace' \subseteq grace
      PROVE  NothingForced'
  <2>1. [q EXCEPT !.op = op].op \notin ForceOps
    BY DEF TypeOK, Request
  <2>. QED  BY <1>1, <1>3, <2>1 DEF Then
<1>4. {"withdraw", "finish", "offer", "enqueue"} \subseteq Ops \ ForceOps
  BY DEF Ops, DriverOps, ForceOps
<1>5. TripOps \cap ForceOps = {} /\ "publish" \notin ForceOps /\ "accept" \notin ForceOps
  BY DEF TripOps, ForceOps
<1>6. CASE UNCHANGED vars \/ SessionNext \/ FailNext
  BY <1>2, <1>6 DEF vars, jobVars, SessionNext, BeginGoOnline, EndForReconnect, CreateSession,
     BeginGoOffline, EndSession, ReadOnline, ReadAgain, FailNext, FailRequest, FailCast, FailCall, Done
<1>7. CASE TripNext
  <2>. USE DEF jobVars
  <2>1. ASSUME NEW r \in Rides, ListStalePickup(r) \/ \E op \in TripOps : BeginTrip(r, op)
        PROVE  NothingForced'
    <3>1. ASSUME NEW op \in TripOps, UNCHANGED grace,
                 requests' = requests \cup {NewRequest(op, r, driver[r])}
          PROVE  NothingForced'
      <4>1. NewRequest(op, r, driver[r]).op = op
        BY DEF NewRequest
      <4>2. op \notin ForceOps
        BY <1>5
      <4>. QED  BY <1>1, <3>1, <4>1, <4>2
    <3>. QED  BY <2>1, <3>1 DEF ListStalePickup, BeginTrip, TripOps
  <2>2. ASSUME NEW q \in requests, Complete(q) \/ Cancel(q) PROVE NothingForced'
    BY <1>2, <1>3, <1>4, <2>2 DEF Complete, Cancel
  <2>3. ASSUME NEW q \in requests, Progress(q) \/ Finish(q) \/ Withdraw(q) \/ Resolve(q) \/ LoseRace(q)
        PROVE  NothingForced'
    BY <1>2, <2>3 DEF Progress, Finish, Withdraw, Resolve, LoseRace, Done
  <2>. QED  BY <1>7, <2>1, <2>2, <2>3 DEF TripNext
<1>8. CASE MatchingNext
  <2>. USE DEF jobVars
  <2>1. ASSUME NEW r \in Rides, CreateBooking(r) \/ Dispatch(r) PROVE NothingForced'
    <3>1. ASSUME NEW s, UNCHANGED grace,
                 requests' = requests \cup {[NewRequest("publish", r, NoDriver) EXCEPT !.seen = s]}
          PROVE  NothingForced'
      <4>1. [NewRequest("publish", r, NoDriver) EXCEPT !.seen = s].op = "publish"
        BY DEF NewRequest
      <4>. QED  BY <1>1, <1>5, <3>1, <4>1
    <3>. QED  BY <2>1, <3>1 DEF CreateBooking, Dispatch
  <2>2. ASSUME NEW r \in Rides, NEW d \in Drivers, AcceptLock(r, d) PROVE NothingForced'
    <3>1. [NewRequest("accept", r, d) EXCEPT !.row = OnlineRow(d)].op = "accept"
      BY DEF NewRequest
    <3>. QED  BY <1>1, <1>5, <2>2, <3>1 DEF AcceptLock
  <2>3. ASSUME NEW r \in Rides, NEW d \in Drivers PROVE ~GraceCheck(r, d)
    BY DEF NothingForced, GraceCheck
  <2>4. ASSUME NEW r \in Rides, NEW d \in Drivers, NEW mode \in AssignOps, BeginAssign(r, d, mode)
        PROVE  NothingForced'
    <3>1. mode \notin ForceOps
      BY <2>4 DEF BeginAssign, AssignOps, ForceOps
    <3>2. NewRequest(mode, r, d).op = mode
      BY DEF NewRequest
    <3>. QED  BY <1>1, <2>4, <3>1, <3>2 DEF BeginAssign
  <2>5. ASSUME NEW q \in requests, ForceAccept(q) \/ ArmGrace(q) PROVE FALSE
    BY <2>5 DEF ForceAccept, ArmGrace, NothingForced, ForceOps
  <2>6. ASSUME NEW q \in requests, AcceptCommit(q) PROVE NothingForced'
    BY <1>2, <2>6 DEF AcceptCommit, NothingForced, ForceOps, RowLocks
  <2>7. ASSUME NEW q \in requests, OpenForAssign(q) PROVE NothingForced'
    <3>1. q.op = "assign"
      BY <2>7 DEF OpenForAssign, NothingForced, ForceOps, AssignOps
    <3>. QED  BY <1>2, <1>3, <1>4, <2>7, <3>1 DEF OpenForAssign, Done
  <2>8. ASSUME NEW q \in requests, OfferByAdmin(q) PROVE NothingForced'
    <3>1. q.op = "offer"
      BY <2>8 DEF OfferByAdmin, NothingForced, ForceOps
    <3>. QED  BY <1>3, <1>4, <2>8, <3>1 DEF OfferByAdmin
  <2>9. ASSUME NEW q \in requests, Publish(q) \/ AcceptRollback(q) \/ Enqueue(q) PROVE NothingForced'
    BY <1>2, <2>9 DEF Publish, AcceptRollback, Enqueue, Done
  <2>10. ASSUME \/ \E r \in Rides, k \in Rounds : TakeBroadcast(r, k)
                \/ \E r \in Rides : ExpireStaleRequested(r)
                \/ \E b \in casts : MatchDrivers(b) \/ CloseNoDrivers(b) \/ \E d \in Drivers : OfferTo(b, d)
                \/ \E r \in Rides, d \in Drivers : Lapse(r, d) \/ Decline(r, d)
         PROVE  NothingForced'
    BY <1>2, <2>10 DEF TakeBroadcast, ExpireStaleRequested, MatchDrivers, CloseNoDrivers, OfferTo,
       Lapse, Decline
  <2>. QED
    BY <1>8, <2>1, <2>2, <2>3, <2>4, <2>5, <2>6, <2>7, <2>8, <2>9, <2>10 DEF MatchingNext
<1>. QED  BY <1>6, <1>7, <1>8 DEF Next

\* An instance without forced assignments never meets one (only adminAssignDriver in
\* mode force accepts in a driver's name and enqueues force_assign_grace_check).
LEMMA NothingForcedAlways == ASSUME "force" \notin Handlers PROVE Spec => []NothingForced
<1>1. Init => NothingForced
  BY DEF Init, NothingForced
<1>2. TypeOK /\ NothingForced /\ [Next]_vars => NothingForced'
  BY NothingForcedStep
<1>. QED  BY <1>1, <1>2, TypeCorrect, PTL DEF Spec

\* The statuses of a ride a driver has accepted, or that is over.
Begun == LiveStatus \cup {"completed", "cancelled"}

\* Only the revert takes a begun ride back: it stays begun, and keeps its driver.
LEMMA BegunStays ==
    ASSUME TypeOK, RideInv, SeenIsRead, NothingForced, [Next]_vars,
           NEW r \in Rides, status[r] \in Begun
    PROVE  status'[r] \in Begun /\ driver'[r] = driver[r]
<1>. DEFINE Goal == status'[r] \in Begun /\ driver'[r] = driver[r]
<1>. USE DEF rideVars
<1>0. ASSUME UNCHANGED <<status, driver>> PROVE Goal
  BY <1>0
<1>1. ASSUME NEW s, NEW next, status' = [status EXCEPT ![s] = next], UNCHANGED driver,
             next \in Begun \/ status[s] \notin Begun
      PROVE  Goal
  BY <1>1 DEF TypeOK
<1>2. CASE UNCHANGED vars \/ SessionNext \/ FailNext
  BY <1>0, <1>2 DEF vars, SessionNext, BeginGoOnline, EndForReconnect, CreateSession,
     BeginGoOffline, EndSession, ReadOnline, ReadAgain, FailNext, FailRequest, FailCast, FailCall
<1>3. CASE TripNext
  <2>1. ASSUME NEW q \in requests, Progress(q) PROVE Goal
    <3>1. PICK next \in LiveStatus : MoveTo(q, next)
      BY <2>1 DEF Progress, LiveStatus
    <3>. QED  BY <1>1, <2>1, <3>1 DEF Progress, MoveTo, Begun
  <2>2. ASSUME NEW q \in requests, Complete(q) \/ Cancel(q) \/ Resolve(q) PROVE Goal
    <3>1. PICK next \in {"completed", "cancelled"} : MoveTo(q, next)
      BY <2>2 DEF Complete, Cancel, Resolve
    <3>. QED  BY <1>1, <2>2, <3>1 DEF Complete, Cancel, Resolve, MoveTo, Begun
  <2>3. \/ UNCHANGED <<status, driver>>
        \/ \E q \in requests : Progress(q) \/ Complete(q) \/ Cancel(q) \/ Resolve(q)
    BY <1>3 DEF TripNext, ListStalePickup, BeginTrip, Finish, Withdraw, LoseRace
  <2>. QED  BY <1>0, <2>1, <2>2, <2>3
<1>4. CASE MatchingNext
  <2>1. ASSUME NEW s \in Rides, CreateBooking(s) \/ Dispatch(s) \/ ExpireStaleRequested(s) PROVE Goal
    <3>1. status[s] \notin Begun
      BY <2>1 DEF CreateBooking, Dispatch, ExpireStaleRequested, Begun, LiveStatus
    <3>2. \E next : status' = [status EXCEPT ![s] = next]
      BY <2>1 DEF CreateBooking, Dispatch, ExpireStaleRequested
    <3>. QED  BY <1>1, <2>1, <3>1, <3>2 DEF CreateBooking, Dispatch, ExpireStaleRequested
  <2>2. ASSUME NEW b \in casts, CloseNoDrivers(b) PROVE Goal
    <3>1. CASE status[b.ride] = "requested"
      BY <1>1, <2>2, <3>1 DEF CloseNoDrivers, Begun, LiveStatus
    <3>2. CASE status[b.ride] # "requested"
      BY <1>0, <2>2, <3>2 DEF CloseNoDrivers
    <3>. QED  BY <3>1, <3>2
  <2>3. ASSUME NEW q \in requests, AcceptCommit(q) PROVE Goal
    <3>1. status[q.ride] = "requested"
      BY <2>3 DEF AcceptCommit, RideInv, LockHeld, Locks
    <3>2. q.ride # r
      BY <3>1 DEF Begun, LiveStatus
    <3>. QED  BY <2>3, <3>2 DEF AcceptCommit, TypeOK
  <2>4. ASSUME NEW q \in requests, OpenForAssign(q) PROVE Goal
    <3>1. q.seen \in {"scheduled", "requested", "no_drivers"}
      BY <2>4 DEF OpenForAssign, SeenIsRead
    <3>2. \/ UNCHANGED status
          \/ status[q.ride] = q.seen /\ status' = [status EXCEPT ![q.ride] = "requested"]
      BY <2>4 DEF OpenForAssign
    <3>. QED  BY <1>0, <1>1, <2>4, <3>1, <3>2 DEF OpenForAssign, Begun, LiveStatus
  <2>5. ASSUME NEW s \in Rides, NEW d \in Drivers PROVE ~GraceCheck(s, d)
    BY DEF GraceCheck, NothingForced
  <2>6. \/ UNCHANGED <<status, driver>>
        \/ \E s \in Rides : CreateBooking(s) \/ Dispatch(s) \/ ExpireStaleRequested(s)
        \/ \E b \in casts : CloseNoDrivers(b)
        \/ \E q \in requests : AcceptCommit(q) \/ OpenForAssign(q)
    BY <1>4, <2>5 DEF MatchingNext, TakeBroadcast, MatchDrivers, OfferTo, Lapse, Decline, AcceptLock,
       BeginAssign, Publish, AcceptRollback, OfferByAdmin, ForceAccept, ArmGrace, Enqueue
  <2>. QED  BY <1>0, <2>1, <2>2, <2>3, <2>4, <2>6
<1>. QED  BY <1>2, <1>3, <1>4 DEF Next

-----------------------------------------------------------------------------
(* Cards. *)

\* A driver's accepted row belongs to a ride that has begun.
AcceptedHasBegun == \A r \in Rides, d \in Drivers : offer[r][d] = "accepted" => status[r] \in Begun

\* Only the commit of an accept writes an accepted row.
LEMMA AcceptedComes ==
    ASSUME TypeOK, [Next]_vars, NEW r \in Rides, NEW d \in Drivers, offer'[r][d] = "accepted"
    PROVE  offer[r][d] = "accepted" \/ \E q \in requests : AcceptCommit(q) /\ q.ride = r
<1>. DEFINE Goal == offer[r][d] = "accepted" \/ \E q \in requests : AcceptCommit(q) /\ q.ride = r
<1>. USE DEF rideVars, Acceptable
<1>1. CASE UNCHANGED offer
  BY <1>1
<1>2. ASSUME NEW b \in casts, NEW e \in Drivers, OfferTo(b, e) PROVE Goal
  BY <1>2 DEF OfferTo, Reoffered, TypeOK, Cast
<1>3. ASSUME NEW q \in requests, OfferByAdmin(q) PROVE Goal
  <2>. DEFINE W == Withdrawn(q.ride)
  <2>1. PICK fresh \in Acceptable :
            offer' = [offer EXCEPT ![q.ride] =
                         [W EXCEPT ![q.driver] = Reoffered(q.ride, W[q.driver], fresh)]]
    BY <1>3 DEF OfferByAdmin
  <2>2. W \in [Drivers -> OfferStatus] /\ \A e \in Drivers : W[e] = "accepted" => offer[q.ride][e] = "accepted"
    BY DEF Withdrawn, TypeOK, Request, OfferStatus
  <2>3. CASE q.ride = r /\ q.driver = d
    BY <2>1, <2>2, <2>3 DEF Reoffered, TypeOK
  <2>4. CASE q.ride = r /\ q.driver # d
    BY <2>1, <2>2, <2>4 DEF TypeOK
  <2>5. CASE q.ride # r
    BY <2>1, <2>5 DEF TypeOK
  <2>. QED  BY <2>3, <2>4, <2>5
<1>4. ASSUME NEW s \in Rides, NEW k \in Rounds, TakeBroadcast(s, k) PROVE Goal
  BY <1>4 DEF TakeBroadcast, TypeOK
<1>5. ASSUME NEW s \in Rides, NEW e \in Drivers, Lapse(s, e) \/ Decline(s, e) PROVE Goal
  BY <1>5 DEF Lapse, Decline, TypeOK
<1>6. ASSUME NEW q \in requests, AcceptCommit(q) PROVE Goal
  BY <1>6 DEF AcceptCommit, Accepted
<1>7. ASSUME NEW q \in requests, Withdraw(q) PROVE Goal
  BY <1>7 DEF Withdraw, Withdrawn, TypeOK, Request
<1>8. \/ UNCHANGED offer
      \/ \E b \in casts, e \in Drivers : OfferTo(b, e)
      \/ \E q \in requests : OfferByAdmin(q) \/ AcceptCommit(q) \/ Withdraw(q)
      \/ \E s \in Rides, k \in Rounds : TakeBroadcast(s, k)
      \/ \E s \in Rides, e \in Drivers : Lapse(s, e) \/ Decline(s, e)
  BY OfferWriters
<1>. QED  BY <1>1, <1>2, <1>3, <1>4, <1>5, <1>6, <1>7, <1>8

\* The accept that writes the row begins the ride, which stays begun.
LEMMA AcceptedStep ==
    ASSUME TypeOK, RideInv, SeenIsRead, NothingForced, AcceptedHasBegun, [Next]_vars
    PROVE  AcceptedHasBegun'
<1>1. ASSUME NEW r \in Rides, NEW d \in Drivers, offer'[r][d] = "accepted"
      PROVE  status'[r] \in Begun
  <2>1. CASE offer[r][d] = "accepted"
    BY <2>1, BegunStays DEF AcceptedHasBegun
  <2>2. ASSUME NEW q \in requests, AcceptCommit(q), q.ride = r PROVE status'[r] \in Begun
    BY <2>2 DEF AcceptCommit, TypeOK, Begun, LiveStatus
  <2>. QED  BY <1>1, <2>1, <2>2, AcceptedComes
<1>. QED  BY <1>1 DEF AcceptedHasBegun, Begun, LiveStatus

\* Where no admin forces drivers onto rides, a card that a broadcast shows for a ride
\* that still waits has a row behind it that acceptAssignment takes: createRideAssignment
\* leaves an accepted row alone, and no waiting ride has one.
THEOREM CardsCanBeAccepted == ASSUME "force" \notin Handlers PROVE Spec => CardIsAcceptable
<1>1. Init => AcceptedHasBegun
  BY DEF Init, AcceptedHasBegun
<1>2. TypeOK /\ RideInv /\ SeenIsRead /\ NothingForced /\ AcceptedHasBegun /\ [Next]_vars => AcceptedHasBegun'
  BY AcceptedStep
<1>3. TypeOK /\ AcceptedHasBegun /\ [Next]_vars =>
        [\A b \in casts : \A d \in b.todo :
            (OfferTo(b, d) /\ status[b.ride] = "requested") => offer'[b.ride][d] \in Acceptable]_vars
  <2>1. ASSUME TypeOK, AcceptedHasBegun, NEW b \in casts, NEW d \in b.todo, OfferTo(b, d),
               status[b.ride] = "requested"
        PROVE  offer'[b.ride][d] \in Acceptable
    <3>1. b.ride \in Rides /\ d \in Drivers
      BY <2>1 DEF TypeOK, Cast
    <3>2. offer[b.ride][d] # "accepted"
      BY <2>1, <3>1 DEF AcceptedHasBegun, Begun, LiveStatus
    <3>3. offer'[b.ride][d] = "open"
      BY <2>1, <3>1, <3>2 DEF OfferTo, Reoffered, TypeOK
    <3>. QED  BY <3>3 DEF Acceptable
  <2>. QED  BY <2>1
<1>. QED
  BY <1>1, <1>2, <1>3, TypeCorrect, RideInvAlways, SeenAlways, NothingForcedAlways, PTL
     DEF Spec, CardIsAcceptable

-----------------------------------------------------------------------------
(* Drivers on a trip.                                                      *)

\* A trip handler that read a ride on the way remembers the driver it still has.
ReadDriverStays == \A q \in requests : q.op \in TripOps /\ q.seen \in LiveStatus =>
    status[q.ride] \in Begun /\ driver[q.ride] = q.driver

\* A trip handler comes in by the read of its ride.
LEMMA TripRequests ==
    ASSUME TypeOK, [Next]_vars, NEW q \in requests', q.op \in TripOps, q \notin requests
    PROVE  UNCHANGED rideVars /\ q.seen = status[q.ride] /\ q.driver = driver[q.ride]
<1>. DEFINE Goal == UNCHANGED rideVars /\ q.seen = status[q.ride] /\ q.driver = driver[q.ride]
<1>1. ASSUME NEW p, requests' \subseteq requests \cup {p} PROVE p.op \in TripOps
  BY <1>1
<1>2. ASSUME requests' \subseteq requests PROVE FALSE
  BY <1>2
<1>3. ASSUME NEW p \in requests, NEW op \in Ops \ TripOps, requests' \subseteq Then(p, op) \cup requests
      PROVE  FALSE
  <2>1. [p EXCEPT !.op = op].op \notin TripOps
    BY DEF TypeOK, Request
  <2>. QED  BY <1>1, <1>3, <2>1 DEF Then
<1>4. {"withdraw", "finish", "armGrace", "offer", "forceOffer", "enqueue", "forceOffered"}
        \subseteq Ops \ TripOps
  BY DEF Ops, DriverOps, TripOps
<1>5. CASE UNCHANGED vars \/ SessionNext \/ FailNext
  BY <1>2, <1>5 DEF vars, SessionNext, BeginGoOnline, EndForReconnect, CreateSession,
     BeginGoOffline, EndSession, ReadOnline, ReadAgain, FailNext, FailRequest, FailCast, FailCall, Done
<1>6. CASE TripNext
  <2>1. ASSUME NEW r \in Rides, ListStalePickup(r) \/ \E op \in TripOps : BeginTrip(r, op)
        PROVE  Goal
    <3>1. PICK op : requests' = requests \cup {NewRequest(op, r, driver[r])}
      BY <2>1 DEF ListStalePickup, BeginTrip
    <3>2. q = NewRequest(op, r, driver[r])
      BY <3>1
    <3>. QED  BY <2>1, <3>2 DEF ListStalePickup, BeginTrip, NewRequest
  <2>2. ASSUME NEW p \in requests, Complete(p) \/ Cancel(p) PROVE FALSE
    BY <1>2, <1>3, <1>4, <2>2 DEF Complete, Cancel
  <2>3. ASSUME NEW p \in requests, Progress(p) \/ Finish(p) \/ Withdraw(p) \/ Resolve(p) \/ LoseRace(p)
        PROVE  FALSE
    BY <1>2, <2>3 DEF Progress, Finish, Withdraw, Resolve, LoseRace, Done
  <2>. QED  BY <1>6, <2>1, <2>2, <2>3 DEF TripNext
<1>7. CASE MatchingNext
  <2>1. ASSUME NEW r \in Rides, CreateBooking(r) \/ Dispatch(r) PROVE FALSE
    <3>1. ASSUME NEW s, requests' = requests \cup
                            {[NewRequest("publish", r, NoDriver) EXCEPT !.seen = s]}
          PROVE  FALSE
      <4>1. [NewRequest("publish", r, NoDriver) EXCEPT !.seen = s].op = "publish"
        BY DEF NewRequest
      <4>. QED  BY <1>1, <3>1, <4>1 DEF TripOps
    <3>. QED  BY <2>1, <3>1 DEF CreateBooking, Dispatch
  <2>2. ASSUME NEW r \in Rides, NEW d \in Drivers, AcceptLock(r, d) PROVE FALSE
    <3>1. [NewRequest("accept", r, d) EXCEPT !.row = OnlineRow(d)].op = "accept"
      BY DEF NewRequest
    <3>. QED  BY <1>1, <2>2, <3>1 DEF AcceptLock, TripOps
  <2>3. ASSUME NEW r \in Rides, NEW d \in Drivers, GraceCheck(r, d) PROVE FALSE
    <3>1. [NewRequest("enqueue", r, d) EXCEPT !.seen = "requested"].op = "enqueue"
      BY DEF NewRequest
    <3>. QED  BY <1>1, <1>2, <2>3, <3>1 DEF GraceCheck, TripOps
  <2>4. ASSUME NEW r \in Rides, NEW d \in Drivers, NEW mode \in AssignOps, BeginAssign(r, d, mode)
        PROVE  FALSE
    <3>1. NewRequest(mode, r, d).op \notin TripOps
      BY DEF NewRequest, AssignOps, TripOps
    <3>. QED  BY <1>1, <2>4, <3>1 DEF BeginAssign
  <2>5. ASSUME NEW p \in requests, ForceAccept(p) PROVE FALSE
    <3>1. [p EXCEPT !.op = "forceAccept", !.row = OnlineRow(p.driver)].op = "forceAccept"
      BY DEF TypeOK, Request
    <3>. QED  BY <1>1, <1>2, <2>5, <3>1 DEF ForceAccept, TripOps
  <2>6. ASSUME NEW p \in requests, AcceptCommit(p) \/ OpenForAssign(p) \/ OfferByAdmin(p)
        PROVE  FALSE
    BY <1>2, <1>3, <1>4, <2>6 DEF AcceptCommit, OpenForAssign, OfferByAdmin, Done
  <2>7. ASSUME NEW p \in requests, Publish(p) \/ AcceptRollback(p) \/ ArmGrace(p) \/ Enqueue(p)
        PROVE  FALSE
    BY <1>2, <2>7 DEF Publish, AcceptRollback, ArmGrace, Enqueue, Done
  <2>8. ASSUME \/ \E r \in Rides, k \in Rounds : TakeBroadcast(r, k)
               \/ \E r \in Rides : ExpireStaleRequested(r)
               \/ \E b \in casts : MatchDrivers(b) \/ CloseNoDrivers(b) \/ \E d \in Drivers : OfferTo(b, d)
               \/ \E r \in Rides, d \in Drivers : Lapse(r, d) \/ Decline(r, d)
        PROVE  FALSE
    BY <1>2, <2>8 DEF TakeBroadcast, ExpireStaleRequested, MatchDrivers, CloseNoDrivers, OfferTo,
       Lapse, Decline
  <2>. QED
    BY <1>7, <2>1, <2>2, <2>3, <2>4, <2>5, <2>6, <2>7, <2>8 DEF MatchingNext
<1>. QED  BY <1>5, <1>6, <1>7 DEF Next

\* The driver a handler read stays, since the ride it read stays begun.
LEMMA ReadDriverStep ==
    ASSUME TypeOK, RideInv, SeenIsRead, NothingForced, ReadDriverStays, [Next]_vars
    PROVE  ReadDriverStays'
<1>1. ASSUME NEW q \in requests', q.op \in TripOps, q.seen \in LiveStatus
      PROVE  status'[q.ride] \in Begun /\ driver'[q.ride] = q.driver
  <2>1. CASE q \in requests
    <3>1. q.ride \in Rides
      BY <2>1 DEF TypeOK, Request
    <3>. QED  BY <1>1, <2>1, <3>1, BegunStays DEF ReadDriverStays
  <2>2. CASE q \notin requests
    BY <1>1, <2>2, TripRequests DEF rideVars, Begun
  <2>. QED  BY <2>1, <2>2
<1>. QED  BY <1>1 DEF ReadDriverStays, TripOps, LiveStatus, Begun

\* Booking, matching and sweeps end no ride.
LEMMA MatchingWrites ==
    ASSUME TypeOK, MatchingNext
    PROVE  \/ UNCHANGED status
           \/ \E s, next : status' = [status EXCEPT ![s] = next] /\ next \notin {"completed", "cancelled"}
<1>. USE DEF rideVars
<1>1. ASSUME NEW s, NEW next \in {"scheduled", "requested", "no_drivers", "accepted"},
             status' = [status EXCEPT ![s] = next]
      PROVE  \E t, n : status' = [status EXCEPT ![t] = n] /\ n \notin {"completed", "cancelled"}
  BY <1>1
<1>2. \/ UNCHANGED status
      \/ \E s : \E next \in {"scheduled", "requested", "no_drivers", "accepted"} :
            status' = [status EXCEPT ![s] = next]
  BY DEF MatchingNext, CreateBooking, Dispatch, ExpireStaleRequested, TakeBroadcast, MatchDrivers,
     CloseNoDrivers, OfferTo, Lapse, Decline, AcceptLock, GraceCheck, BeginAssign, Publish,
     AcceptCommit, AcceptRollback, OpenForAssign, OfferByAdmin, ForceAccept, ArmGrace, Enqueue
<1>. QED  BY <1>1, <1>2

\* A ride leaves the way only by its completion, a cancellation or an admin's outcome.
LEMMA TripEnds ==
    ASSUME TypeOK, RideInv, SeenIsRead, NothingForced, [Next]_vars,
           NEW r \in Rides, Live(r), status'[r] \notin LiveStatus
    PROVE  \E q \in requests : q.ride = r /\ (Complete(q) \/ Cancel(q) \/ Resolve(q))
<1>. DEFINE Goal == \E q \in requests : q.ride = r /\ (Complete(q) \/ Cancel(q) \/ Resolve(q))
<1>. USE DEF rideVars
<1>0. ASSUME UNCHANGED status PROVE FALSE
  BY <1>0 DEF Live
<1>1. ASSUME NEW s, NEW next, status' = [status EXCEPT ![s] = next],
             next \in LiveStatus \/ status[s] \notin LiveStatus
      PROVE  FALSE
  BY <1>1 DEF Live, TypeOK
<1>2. CASE UNCHANGED vars \/ SessionNext \/ FailNext
  BY <1>0, <1>2 DEF vars, SessionNext, BeginGoOnline, EndForReconnect, CreateSession,
     BeginGoOffline, EndSession, ReadOnline, ReadAgain, FailNext, FailRequest, FailCast, FailCall
<1>3. CASE TripNext
  <2>1. ASSUME NEW q \in requests, Progress(q) PROVE FALSE
    <3>1. PICK next \in LiveStatus : MoveTo(q, next)
      BY <2>1 DEF Progress, LiveStatus
    <3>. QED  BY <1>1, <3>1 DEF MoveTo
  <2>2. ASSUME NEW q \in requests, Complete(q) \/ Cancel(q) \/ Resolve(q) PROVE Goal
    <3>1. PICK next : MoveTo(q, next)
      BY <2>2 DEF Complete, Cancel, Resolve
    <3>2. q.ride = r
      BY <3>1 DEF MoveTo, Live, TypeOK
    <3>. QED  BY <2>2, <3>2
  <2>3. \/ UNCHANGED status
        \/ \E q \in requests : Progress(q) \/ Complete(q) \/ Cancel(q) \/ Resolve(q)
    BY <1>3 DEF TripNext, ListStalePickup, BeginTrip, Finish, Withdraw, LoseRace
  <2>. QED  BY <1>0, <2>1, <2>2, <2>3
<1>4. CASE MatchingNext
  <2>1. status'[r] \in Begun
    BY BegunStays DEF Live, Begun
  <2>2. ASSUME NEW s, NEW next, status' = [status EXCEPT ![s] = next],
               next \notin {"completed", "cancelled"}
        PROVE  FALSE
    <3>1. CASE s = r
      BY <2>1, <2>2, <3>1 DEF Begun, TypeOK
    <3>2. CASE s # r
      BY <1>0, <2>2, <3>2 DEF Live, TypeOK
    <3>. QED  BY <3>1, <3>2
  <2>3. \/ UNCHANGED status
        \/ \E s, next : status' = [status EXCEPT ![s] = next] /\ next \notin {"completed", "cancelled"}
    BY <1>4, MatchingWrites
  <2>. QED  BY <1>0, <2>2, <2>3
<1>. QED  BY <1>2, <1>3, <1>4 DEF Next

\* A completed ride's pending release of the driver is lost only with its process.
LEMMA FinishKept ==
    ASSUME TypeOK, [Next]_vars, NEW q \in requests, q.op = "finish", q \notin requests'
    PROVE  Finish(q) \/ FailRequest(q)
<1>. DEFINE Goal == Finish(q) \/ FailRequest(q)
<1>1. ASSUME NEW p \in requests, p.op # "finish", requests \ {p} \subseteq requests' PROVE FALSE
  BY <1>1
<1>2. ASSUME requests \subseteq requests' PROVE FALSE
  BY <1>2
<1>3. CASE UNCHANGED vars \/ SessionNext
  BY <1>2, <1>3 DEF vars, SessionNext, BeginGoOnline, EndForReconnect, CreateSession,
     BeginGoOffline, EndSession, ReadOnline, ReadAgain
<1>4. CASE FailNext
  <2>1. ASSUME NEW p \in requests, FailRequest(p) PROVE Goal
    BY <2>1 DEF FailRequest, Done
  <2>. QED  BY <1>2, <1>4, <2>1 DEF FailNext, FailCast, FailCall
<1>5. CASE TripNext
  <2>1. ASSUME NEW p \in requests, Finish(p) PROVE Goal
    BY <2>1 DEF Finish, Done
  <2>2. ASSUME NEW p \in requests,
               Progress(p) \/ Complete(p) \/ Cancel(p) \/ Withdraw(p) \/ Resolve(p) \/ LoseRace(p)
        PROVE  FALSE
    <3>1. p.op # "finish"
      BY <2>2 DEF Progress, Complete, Cancel, Withdraw, Resolve, LoseRace, TripOps
    <3>2. requests \ {p} \subseteq requests'
      BY <2>2 DEF Progress, Complete, Cancel, Withdraw, Resolve, LoseRace, Done, Then
    <3>. QED  BY <1>1, <3>1, <3>2
  <2>. QED  BY <1>2, <1>5, <2>1, <2>2 DEF TripNext, ListStalePickup, BeginTrip
<1>6. CASE MatchingNext
  <2>1. ASSUME NEW p \in requests,
               \/ Publish(p) \/ AcceptCommit(p) \/ AcceptRollback(p) \/ OpenForAssign(p)
               \/ OfferByAdmin(p) \/ ForceAccept(p) \/ ArmGrace(p) \/ Enqueue(p)
        PROVE  FALSE
    <3>1. p.op # "finish"
      BY <2>1 DEF Publish, AcceptCommit, AcceptRollback, OpenForAssign, OfferByAdmin, ForceAccept,
         ArmGrace, Enqueue, RowLocks, AssignOps
    <3>2. requests \ {p} \subseteq requests'
      BY <2>1 DEF Publish, AcceptCommit, AcceptRollback, OpenForAssign, OfferByAdmin, ForceAccept,
         ArmGrace, Enqueue, Done, Then
    <3>. QED  BY <1>1, <3>1, <3>2
  <2>2. \/ requests \subseteq requests'
        \/ \E p \in requests :
              \/ Publish(p) \/ AcceptCommit(p) \/ AcceptRollback(p) \/ OpenForAssign(p)
              \/ OfferByAdmin(p) \/ ForceAccept(p) \/ ArmGrace(p) \/ Enqueue(p)
    BY <1>6 DEF MatchingNext, CreateBooking, Dispatch, ExpireStaleRequested, TakeBroadcast,
       MatchDrivers, CloseNoDrivers, OfferTo, Lapse, Decline, AcceptLock, BeginAssign, GraceCheck
  <2>. QED  BY <1>2, <2>1, <2>2
<1>. QED  BY <1>3, <1>4, <1>5, <1>6 DEF Next

\* Only the commit of an accept sets a session on_trip.
LEMMA OnTripComes ==
    ASSUME TypeOK, [Next]_vars, NEW d \in Drivers, OnTrip(d)', ~OnTrip(d)
    PROVE  \E q \in requests : AcceptCommit(q) /\ q.driver = d
<1>. DEFINE Goal == \E q \in requests : AcceptCommit(q) /\ q.driver = d
<1>. USE DEF rideVars
<1>0. ASSUME UNCHANGED session PROVE FALSE
  BY <1>0 DEF OnTrip
<1>1. ASSUME NEW e \in Drivers, NEW i, NEW s, session' = [session EXCEPT ![e][i] = s], s # "on_trip"
      PROVE  FALSE
  BY <1>1 DEF OnTrip, TypeOK
<1>2. ASSUME NEW e \in Drivers, Free(e) PROVE FALSE
  BY <1>2 DEF OnTrip, Free, Freed, TypeOK
<1>3. CASE UNCHANGED vars \/ FailNext
  BY <1>0, <1>3 DEF vars, FailNext, FailRequest, FailCast, FailCall
<1>4. CASE SessionNext
  <2>1. ASSUME NEW p \in presence, EndForReconnect(p) \/ EndSession(p) PROVE FALSE
    <3>1. p.driver \in Drivers
      BY <2>1 DEF TypeOK, Presence
    <3>2. session' = [session EXCEPT ![p.driver][p.row] = "offline"]
      BY <2>1 DEF EndForReconnect, EndSession
    <3>. QED  BY <1>1, <3>1, <3>2
  <2>2. ASSUME NEW p \in presence, CreateSession(p) PROVE FALSE
    <3>1. p.driver \in Drivers
      BY <2>2 DEF TypeOK, Presence
    <3>2. ASSUME NEW i \in Rows, session' = [session EXCEPT ![p.driver][i] = "online"] PROVE FALSE
      BY <1>1, <3>1, <3>2
    <3>. QED  BY <1>0, <2>2, <3>2 DEF CreateSession
  <2>. QED
    BY <1>0, <1>4, <2>1, <2>2 DEF SessionNext, BeginGoOnline, BeginGoOffline, ReadOnline, ReadAgain
<1>5. CASE TripNext
  <2>1. ASSUME NEW q \in requests, FreeDriverRead(q) PROVE FALSE
    <3>1. q.driver = NoDriver \/ q.driver \in Drivers
      BY <2>1 DEF TypeOK, Request
    <3>. QED  BY <1>0, <1>2, <2>1, <3>1 DEF FreeDriverRead
  <2>2. UNCHANGED session \/ \E q \in requests : FreeDriverRead(q)
    BY <1>5 DEF TripNext, ListStalePickup, BeginTrip, Progress, Complete, Finish, Cancel,
       Withdraw, Resolve, LoseRace
  <2>. QED  BY <1>0, <2>1, <2>2
<1>6. CASE MatchingNext
  <2>1. ASSUME NEW q \in requests, AcceptCommit(q) PROVE Goal
    <3>1. CASE q.driver = d
      BY <2>1, <3>1
    <3>2. CASE q.driver # d
      BY <2>1, <3>2 DEF AcceptCommit, OnTrip, TypeOK
    <3>. QED  BY <3>1, <3>2
  <2>2. ASSUME NEW r \in Rides, NEW e \in Drivers, GraceCheck(r, e) PROVE FALSE
    BY <1>0, <1>2, <2>2 DEF GraceCheck
  <2>3. \/ UNCHANGED session
        \/ \E q \in requests : AcceptCommit(q)
        \/ \E r \in Rides, e \in Drivers : GraceCheck(r, e)
    BY <1>6 DEF MatchingNext, CreateBooking, Dispatch, ExpireStaleRequested, TakeBroadcast,
       MatchDrivers, CloseNoDrivers, OfferTo, Lapse, Decline, AcceptLock, BeginAssign, Publish,
       AcceptRollback, OpenForAssign, OfferByAdmin, ForceAccept, ArmGrace, Enqueue
  <2>. QED  BY <1>0, <2>1, <2>2, <2>3
<1>. QED  BY <1>3, <1>4, <1>5, <1>6 DEF Next

\* Freeing a driver leaves no row of the driver on_trip.
LEMMA FreedIsOff ==
    ASSUME TypeOK, NEW d \in Drivers, Free(d)
    PROVE  ~OnTrip(d)'
  BY DEF Free, Freed, OnTrip, TypeOK

\* Processes that died stay counted.
LEMMA FailuresStay == ASSUME TypeOK, [Next]_vars, failures > 0 PROVE failures' > 0
<1>1. UNCHANGED failures \/ FailNext
  BY DEF Next, vars, SessionNext, BeginGoOnline, EndForReconnect, CreateSession, BeginGoOffline,
     EndSession, ReadOnline, ReadAgain, TripNext, ListStalePickup, BeginTrip, Progress, Complete,
     Finish, Cancel, Withdraw, Resolve, LoseRace, MatchingNext, CreateBooking, Dispatch,
     ExpireStaleRequested, TakeBroadcast, MatchDrivers, CloseNoDrivers, OfferTo, Lapse, Decline,
     AcceptLock, GraceCheck, BeginAssign, Publish, AcceptCommit, AcceptRollback, OpenForAssign,
     OfferByAdmin, ForceAccept, ArmGrace, Enqueue
<1>2. FailNext => failures' = failures + 1
  BY DEF FailNext, FailRequest, FailCast, FailCall, CanFail
<1>. QED  BY <1>1, <1>2 DEF TypeOK

\* A ride that ends frees the driver it has, or leaves that to the handler that
\* completed it; an accept that takes the session gives the driver the ride.
LEMMA OnTripStep ==
    ASSUME TypeOK, RideInv, SeenIsRead, NothingForced, ReadDriverStays, OnTripIsExplained, [Next]_vars
    PROVE  OnTripIsExplained'
<1>. DEFINE Explained(d) == \/ LiveRideOf(d)' # {}
                            \/ \E q \in requests' : q.op = "finish" /\ q.driver = d
                            \/ failures' > 0
<1>1. ASSUME NEW d \in Drivers, NEW q \in requests, AcceptCommit(q), q.driver = d PROVE Explained(d)
  <2>1. q.ride \in Rides
    BY DEF TypeOK, Request
  <2>2. q.ride \in LiveRideOf(d)'
    BY <1>1, <2>1 DEF AcceptCommit, LiveRideOf, Live, LiveStatus, TypeOK
  <2>. QED  BY <2>2
<1>2. ASSUME NEW d \in Drivers, OnTrip(d)', NEW r \in LiveRideOf(d) PROVE Explained(d)
  <2>1. r \in Rides /\ Live(r) /\ driver[r] = d
    BY <1>2 DEF LiveRideOf
  <2>2. driver'[r] = d
    BY <2>1, BegunStays DEF Live, Begun
  <2>3. CASE status'[r] \in LiveStatus
    <3>1. r \in LiveRideOf(d)'
      BY <2>1, <2>2, <2>3 DEF LiveRideOf, Live
    <3>. QED  BY <3>1
  <2>4. CASE status'[r] \notin LiveStatus
    <3>1. PICK q \in requests : q.ride = r /\ (Complete(q) \/ Cancel(q) \/ Resolve(q))
      BY <2>1, <2>4, TripEnds
    <3>2. q.op \in TripOps /\ q.seen \in LiveStatus
      <4>1. CASE Complete(q)
        BY <4>1 DEF Complete, SeenIsRead, TripOps, Reads, InTrip, LiveStatus
      <4>2. CASE Cancel(q)
        BY <2>1, <3>1, <4>2 DEF Cancel, Wins, Expects, TripOps, Live
      <4>3. CASE Resolve(q)
        BY <2>1, <3>1, <4>3 DEF Resolve, Wins, Expects, TripOps, Live
      <4>. QED  BY <3>1, <4>1, <4>2, <4>3
    <3>3. q.driver = d /\ d # NoDriver
      BY <2>1, <3>1, <3>2, NoDriverIsNobody DEF ReadDriverStays
    <3>4. CASE Complete(q)
      <4>1. [q EXCEPT !.op = "finish"] \in requests'
        BY <3>4 DEF Complete, Then
      <4>2. [q EXCEPT !.op = "finish"].op = "finish" /\ [q EXCEPT !.op = "finish"].driver = d
        BY <3>3 DEF TypeOK, Request
      <4>. QED  BY <4>1, <4>2
    <3>5. CASE Cancel(q) \/ Resolve(q)
      <4>1. Free(d)
        BY <3>3, <3>5 DEF Cancel, Resolve, FreeDriverRead
      <4>. QED  BY <1>2, <4>1, FreedIsOff
    <3>. QED  BY <3>1, <3>4, <3>5
  <2>. QED  BY <2>3, <2>4
<1>3. ASSUME NEW d \in Drivers, OnTrip(d)', NEW q \in requests, q.op = "finish", q.driver = d
      PROVE  Explained(d)
  <2>1. CASE q \in requests'
    BY <1>3, <2>1
  <2>2. CASE Finish(q)
    <3>1. Free(d)
      BY <1>3, <2>2, NoDriverIsNobody DEF Finish, FreeDriverRead
    <3>. QED  BY <1>3, <3>1, FreedIsOff
  <2>3. CASE FailRequest(q)
    BY <2>3 DEF FailRequest, CanFail, TypeOK
  <2>. QED  BY <1>3, <2>1, <2>2, <2>3, FinishKept
<1>4. ASSUME NEW d \in Drivers, OnTrip(d)' PROVE Explained(d)
  <2>1. CASE ~OnTrip(d)
    <3>1. PICK q \in requests : AcceptCommit(q) /\ q.driver = d
      BY <1>4, <2>1, OnTripComes
    <3>. QED  BY <1>1, <3>1
  <2>2. CASE OnTrip(d)
    <3>1. \/ \E r : r \in LiveRideOf(d)
          \/ \E q \in requests : q.op = "finish" /\ q.driver = d
          \/ failures > 0
      BY <2>2 DEF OnTripIsExplained
    <3>. QED  BY <1>2, <1>3, <1>4, <3>1, FailuresStay
  <2>. QED  BY <2>1, <2>2
<1>. QED  BY <1>4 DEF OnTripIsExplained

\* Where no admin forces drivers onto rides, an on_trip session has a ride on the way
\* behind it, or the pending release of verifyEndOTP or endRideEarlyAsDriver, until a
\* process dies: every end of a ride frees the driver its handler read, and that is
\* still the driver of the ride.
THEOREM OnTripAlwaysExplained == ASSUME "force" \notin Handlers PROVE Spec => []OnTripIsExplained
<1>1. Init => ReadDriverStays /\ OnTripIsExplained
  BY DEF Init, ReadDriverStays, OnTripIsExplained, OnTrip
<1>2. TypeOK /\ RideInv /\ SeenIsRead /\ NothingForced /\ ReadDriverStays /\ [Next]_vars => ReadDriverStays'
  BY ReadDriverStep
<1>3. TypeOK /\ RideInv /\ SeenIsRead /\ NothingForced /\ ReadDriverStays /\ OnTripIsExplained
        /\ [Next]_vars => OnTripIsExplained'
  BY OnTripStep
<1>. QED
  BY <1>1, <1>2, <1>3, TypeCorrect, RideInvAlways, SeenAlways, NothingForcedAlways, PTL DEF Spec
=============================================================================
