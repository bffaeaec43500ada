------------------------- MODULE RideSystem_proofs -------------------------
(***************************************************************************)
(* Theorems of RideSystem for every set of rides, riders and drivers and   *)
(* every value of the bounds: type correctness, and one active session row *)
(* per driver.                                                             *)
(***************************************************************************)
EXTENDS RideSystem, TLAPS

-----------------------------------------------------------------------------
(* Records. *)

\* A request that a handler's first read creates is a Request.
LEMMA NewRequestTyped ==
    ASSUME TypeOK, NEW op \in Ops, NEW r \in Rides, NEW d \in Drivers \cup {NoDriver},
           op \in DriverOps => d \in Drivers
    PROVE  NewRequest(op, r, d) \in Request
  BY SomeSession DEF TypeOK, Request, NewRequest

\* Moving a request to its handler's next statement keeps it a Request.
LEMMA ThenTyped ==
    ASSUME TypeOK, NEW q \in requests, NEW op \in Ops,
           op \in DriverOps => q.op \in DriverOps
    PROVE  Then(q, op) \subseteq Request
  BY DEF TypeOK, Request, Then

\* Freeing a driver keeps the session rows typed.
LEMMA FreedTyped ==
    ASSUME TypeOK, NEW d \in Drivers
    PROVE  Freed(d) \in [Rows -> SessionStatus]
  BY DEF TypeOK, Freed, SessionStatus

\* The session row an accept remembers is one of the driver's rows, or 0.
LEMMA OnlineRowTyped ==
    ASSUME NEW d
    PROVE  OnlineRow(d) \in 0..MaxSessions
  BY SomeSession DEF OnlineRow, Online, OnlineRows, Rows

\* How the sets of statuses and of operations lie in each other.
LEMMA Inclusions ==
    /\ LiveStatus \subseteq Status /\ InTrip \subseteq Status
    /\ TripOps \subseteq Ops /\ DriverOps \subseteq Ops
    /\ AssignOps \subseteq DriverOps /\ RowLocks \subseteq DriverOps
    /\ {"offer", "forceOffer", "forceOffered", "armGrace", "enqueue"} \subseteq DriverOps
    /\ {"publish", "withdraw", "finish"} \subseteq Ops \ DriverOps
    /\ TripOps \cap DriverOps = {}
  BY DEF LiveStatus, InTrip, Status, Ops, DriverOps, TripOps, AssignOps, RowLocks

-----------------------------------------------------------------------------
(* Type correctness. *)

\* Drivers online, nothing booked: every variable is in its type.
LEMMA TypeInit == ASSUME Init PROVE TypeOK
  BY SomeSession DEF Init, TypeOK, Status, OfferStatus, SessionStatus, Rows

\* Going online and offline keeps every variable in its type.
LEMMA TypeSession == ASSUME TypeOK, SessionNext PROVE TypeOK'
<1>. USE DEF rideVars, jobVars
<1>1. ASSUME NEW d \in Drivers, BeginGoOnline(d) PROVE TypeOK'
  BY <1>1, SomeSession DEF BeginGoOnline, TypeOK, Presence, Call, OnlineRows, Rows
<1>2. ASSUME NEW d \in Drivers, BeginGoOffline(d) PROVE TypeOK'
  BY <1>2, SomeSession DEF BeginGoOffline, TypeOK, Presence, Call, ActiveRows, Rows
<1>3. ASSUME NEW d \in Drivers, NEW op \in {"idle", "replace"}, ReadOnline(d, op) PROVE TypeOK'
  BY <1>3, SomeSession DEF ReadOnline, TypeOK, Presence, Call
<1>4. ASSUME NEW p \in presence, EndForReconnect(p) PROVE TypeOK'
  <2>1. Call("create", p.driver, 0) \in Presence
    BY SomeSession DEF Call, Presence, TypeOK
  <2>2. session' \in [Drivers -> [Rows -> SessionStatus]]
    BY <1>4 DEF EndForReconnect, TypeOK, SessionStatus
  <2>. QED  BY <1>4, <2>1, <2>2 DEF EndForReconnect, TypeOK
<1>5. ASSUME NEW p \in presence, CreateSession(p) PROVE TypeOK'
  <2>1. presence' \subseteq Presence
    BY <1>5 DEF CreateSession, TypeOK
  <2>2. session' \in [Drivers -> [Rows -> SessionStatus]]
    <3>1. p.driver \in Drivers
      BY DEF TypeOK, Presence
    <3>2. CASE UNCHANGED session
      BY <3>2 DEF TypeOK
    <3>3. ASSUME NEW i \in Rows, session' = [session EXCEPT ![p.driver][i] = "online"]
          PROVE  session' \in [Drivers -> [Rows -> SessionStatus]]
      BY <3>1, <3>3 DEF TypeOK, SessionStatus
    <3>. QED  BY <1>5, <3>2, <3>3 DEF CreateSession
  <2>. QED  BY <1>5, <2>1, <2>2 DEF CreateSession, TypeOK
<1>6. ASSUME NEW p \in presence, EndSession(p) PROVE TypeOK'
  BY <1>6 DEF EndSession, TypeOK, Presence, SessionStatus
<1>7. ASSUME NEW p \in presence, ReadAgain(p) PROVE TypeOK'
  BY <1>7, SomeSession DEF ReadAgain, TypeOK, Presence, Call, ActiveRows, Rows
<1>. QED  BY <1>1, <1>2, <1>3, <1>4, <1>5, <1>6, <1>7 DEF SessionNext

\* So do booking, broadcast, the driver's answer and the admin's assignment.
LEMMA TypeMatching == ASSUME TypeOK, MatchingNext PROVE TypeOK'
<1>. USE Inclusions DEF rideVars, jobVars
<1>1. ASSUME NEW r \in Rides, CreateBooking(r) PROVE TypeOK'
  <2>1. NewRequest("publish", r, NoDriver) \in Request
    BY NewRequestTyped
  <2>. QED  BY <1>1, <2>1 DEF CreateBooking, TypeOK, Status, Request
<1>2. ASSUME NEW r \in Rides, Dispatch(r) PROVE TypeOK'
  <2>1. NewRequest("publish", r, NoDriver) \in Request
    BY NewRequestTyped
  <2>. QED  BY <1>2, <2>1 DEF Dispatch, TypeOK, Status, Request
<1>3. ASSUME NEW r \in Rides, ExpireStaleRequested(r) PROVE TypeOK'
  BY <1>3 DEF ExpireStaleRequested, TypeOK, Status
<1>4. ASSUME NEW r \in Rides, NEW k \in Rounds, TakeBroadcast(r, k) PROVE TypeOK'
  <2>1. [ride |-> r, round |-> k, step |-> "match", todo |-> {}] \in Cast
    BY DEF Cast
  <2>2. offer' \in [Rides -> [Drivers -> OfferStatus]]
    BY <1>4 DEF TakeBroadcast, TypeOK, OfferStatus
  <2>3. casts' \subseteq Cast /\ queued' \subseteq queued
    BY <1>4, <2>1 DEF TakeBroadcast, TypeOK
  <2>. QED  BY <1>4, <2>2, <2>3 DEF TakeBroadcast, TypeOK
<1>5. ASSUME NEW b \in casts, MatchDrivers(b) PROVE TypeOK'
  <2>1. ASSUME NEW found \in SUBSET Drivers
        PROVE  [b EXCEPT !.step = "offer", !.todo = found] \in Cast
    BY DEF TypeOK, Cast
  <2>. QED  BY <1>5, <2>1 DEF MatchDrivers, TypeOK
<1>6. ASSUME NEW b \in casts, CloseNoDrivers(b) PROVE TypeOK'
  BY <1>6 DEF CloseNoDrivers, TypeOK, Status
<1>7. ASSUME NEW b \in casts, NEW d \in Drivers, OfferTo(b, d) PROVE TypeOK'
  <2>1. b.ride \in Rides /\ [b EXCEPT !.todo = b.todo \ {d}] \in Cast
    BY DEF TypeOK, Cast
  <2>2. Reoffered(b.ride, offer[b.ride][d], "open") \in OfferStatus
    BY <2>1 DEF Reoffered, TypeOK, OfferStatus
  <2>3. casts' \subseteq Cast
    BY <1>7, <2>1 DEF OfferTo, TypeOK
  <2>. QED  BY <1>7, <2>1, <2>2, <2>3 DEF OfferTo, TypeOK
<1>8. ASSUME NEW r \in Rides, NEW d \in Drivers, Lapse(r, d) PROVE TypeOK'
  BY <1>8 DEF Lapse, TypeOK, OfferStatus
<1>9. ASSUME NEW r \in Rides, NEW d \in Drivers, Decline(r, d) PROVE TypeOK'
  BY <1>9 DEF Decline, TypeOK, OfferStatus
<1>10. ASSUME NEW r \in Rides, NEW d \in Drivers, AcceptLock(r, d) PROVE TypeOK'
  <2>1. NewRequest("accept", r, d) \in Request
    BY NewRequestTyped DEF RowLocks
  <2>2. [NewRequest("accept", r, d) EXCEPT !.row = OnlineRow(d)] \in Request
    BY <2>1, OnlineRowTyped DEF Request
  <2>. QED  BY <1>10, <2>2 DEF AcceptLock, TypeOK
<1>11. ASSUME NEW r \in Rides, NEW d \in Drivers, GraceCheck(r, d) PROVE TypeOK'
  <2>1. [NewRequest("enqueue", r, d) EXCEPT !.seen = "requested"] \in Request
    <3>1. NewRequest("enqueue", r, d) \in Request
      BY NewRequestTyped DEF Ops
    <3>. QED  BY <3>1 DEF Request, Status
  <2>2. Freed(d) \in [Rows -> SessionStatus]
    BY FreedTyped
  <2>3. CASE UNCHANGED <<status, driver, session, requests>>
    BY <1>11, <2>3 DEF GraceCheck, TypeOK
  <2>4. CASE /\ status' = [status EXCEPT ![r] = "requested"]
             /\ driver' = [driver EXCEPT ![r] = NoDriver]
             /\ session' = [session EXCEPT ![d] = Freed(d)]
             /\ requests' = requests \cup {[NewRequest("enqueue", r, d) EXCEPT !.seen = "requested"]}
    BY <1>11, <2>1, <2>2, <2>4 DEF GraceCheck, TypeOK, Status
  <2>. QED  BY <1>11, <2>3, <2>4 DEF GraceCheck, Free
<1>12. ASSUME NEW r \in Rides, NEW d \in Drivers, NEW mode \in AssignOps, BeginAssign(r, d, mode)
       PROVE  TypeOK'
  <2>1. NewRequest(mode, r, d) \in Request
    BY NewRequestTyped
  <2>. QED  BY <1>12, <2>1 DEF BeginAssign, TypeOK
<1>13. ASSUME NEW q \in requests, Publish(q) PROVE TypeOK'
  <2>1. q.ride \in Rides
    BY DEF TypeOK, Request
  <2>2. \A k \in 1..LastRound : k \in Rounds
    BY SomeRound DEF Rounds
  <2>. QED  BY <1>13, <2>1, <2>2 DEF Publish, Done, TypeOK
<1>14. ASSUME NEW q \in requests, AcceptCommit(q) PROVE TypeOK'
  <2>1. q \in Request /\ q.ride \in Rides /\ q.driver \in Drivers \cup {NoDriver}
    BY DEF TypeOK, Request
  <2>2. Accepted(q.ride, q.driver) \in [Rides -> [Drivers -> OfferStatus]]
    BY DEF Accepted, TypeOK, OfferStatus
  <2>3. session' \in [Drivers -> [Rows -> SessionStatus]]
    BY <1>14 DEF AcceptCommit, TypeOK, SessionStatus
  <2>4. requests' \subseteq Request
    BY <1>14, ThenTyped DEF AcceptCommit, TypeOK, Ops
  <2>. QED  BY <1>14, <2>1, <2>2, <2>3, <2>4 DEF AcceptCommit, TypeOK, Status, LiveStatus
<1>15. ASSUME NEW q \in requests, AcceptRollback(q) PROVE TypeOK'
  BY <1>15 DEF AcceptRollback, Done, TypeOK
<1>16. ASSUME NEW q \in requests, OpenForAssign(q) PROVE TypeOK'
  <2>1. requests' \subseteq Request
    BY <1>16, ThenTyped DEF OpenForAssign, Done, TypeOK, Ops
  <2>. QED  BY <1>16, <2>1 DEF OpenForAssign, TypeOK, Status
<1>17. ASSUME NEW q \in requests, OfferByAdmin(q) PROVE TypeOK'
  <2>1. q.ride \in Rides
    BY DEF TypeOK, Request
  <2>2. requests' \subseteq Request
    BY <1>17, ThenTyped DEF OfferByAdmin, TypeOK, Ops
  <2>3. offer' \in [Rides -> [Drivers -> OfferStatus]]
    <3>1. Withdrawn(q.ride) \in [Drivers -> OfferStatus]
      BY <2>1 DEF Withdrawn, TypeOK, OfferStatus
    <3>2. ASSUME NEW d \in Drivers, NEW fresh \in {"open", "grace"}
          PROVE  Reoffered(q.ride, Withdrawn(q.ride)[d], fresh) \in OfferStatus
      BY <3>1 DEF Reoffered, OfferStatus
    <3>3. ASSUME NEW fresh \in {"open", "grace"},
                 offer' = [offer EXCEPT ![q.ride] = [Withdrawn(q.ride) EXCEPT ![q.driver] =
                              Reoffered(q.ride, Withdrawn(q.ride)[q.driver], fresh)]]
          PROVE  offer' \in [Rides -> [Drivers -> OfferStatus]]
      <4>1. [Withdrawn(q.ride) EXCEPT ![q.driver] =
                Reoffered(q.ride, Withdrawn(q.ride)[q.driver], fresh)] \in [Drivers -> OfferStatus]
        BY <3>1, <3>2
      <4>. QED  BY <3>3, <4>1 DEF TypeOK
    <3>. QED  BY <1>17, <3>3 DEF OfferByAdmin
  <2>. QED  BY <1>17, <2>2, <2>3 DEF OfferByAdmin, TypeOK
<1>18. ASSUME NEW q \in requests, ForceAccept(q) PROVE TypeOK'
  <2>1. q \in Request /\ q.op \in DriverOps /\ q.driver \in Drivers
    BY <1>18 DEF ForceAccept, TypeOK, Request
  <2>2. OnlineRow(q.driver) \in 0..MaxSessions /\ "forceAccept" \in Ops
    BY OnlineRowTyped DEF RowLocks
  <2>3. [q EXCEPT !.op = "forceAccept", !.row = OnlineRow(q.driver)] \in Request
    BY <2>1, <2>2 DEF Request
  <2>. QED  BY <1>18, <2>3 DEF ForceAccept, TypeOK
<1>19. ASSUME NEW q \in requests, ArmGrace(q) PROVE TypeOK'
  BY <1>19 DEF ArmGrace, Done, TypeOK, Request
<1>20. ASSUME NEW q \in requests, Enqueue(q) PROVE TypeOK'
  <2>1. q.ride \in Rides /\ 0 \in Rounds
    BY SomeRound DEF TypeOK, Request, Rounds
  <2>. QED  BY <1>20, <2>1 DEF Enqueue, Done, TypeOK
<1>. QED
  BY <1>1, <1>2, <1>3, <1>4, <1>5, <1>6, <1>7, <1>8, <1>9, <1>10, <1>11, <1>12, <1>13,
     <1>14, <1>15, <1>16, <1>17, <1>18, <1>19, <1>20 DEF MatchingNext

\* So do the handlers of the trip and its end.
LEMMA TypeTrip == ASSUME TypeOK, TripNext PROVE TypeOK'
<1>. USE Inclusions DEF rideVars, jobVars
<1>1. ASSUME NEW r \in Rides, ListStalePickup(r) PROVE TypeOK'
  <2>1. driver[r] \in Drivers \cup {NoDriver} /\ "sweepPickup" \in TripOps
    BY DEF TypeOK, TripOps
  <2>2. NewRequest("sweepPickup", r, driver[r]) \in Request
    BY <2>1, NewRequestTyped
  <2>. QED  BY <1>1, <2>2 DEF ListStalePickup, TypeOK
<1>2. ASSUME NEW r \in Rides, NEW op \in TripOps, BeginTrip(r, op) PROVE TypeOK'
  <2>1. driver[r] \in Drivers \cup {NoDriver}
    BY DEF TypeOK
  <2>2. NewRequest(op, r, driver[r]) \in Request
    BY <2>1, NewRequestTyped
  <2>. QED  BY <1>2, <2>2 DEF BeginTrip, TypeOK
<1>3. ASSUME NEW q \in requests PROVE FreeDriverRead(q) => session' \in [Drivers -> [Rows -> SessionStatus]]
  <2>1. CASE q.driver = NoDriver
    BY <2>1 DEF FreeDriverRead, TypeOK
  <2>2. CASE q.driver # NoDriver
    <3>1. q.driver \in Drivers
      BY <1>3, <2>2 DEF TypeOK, Request
    <3>2. Freed(q.driver) \in [Rows -> SessionStatus]
      BY <3>1, FreedTyped
    <3>. QED  BY <2>2, <3>1, <3>2 DEF FreeDriverRead, Free, TypeOK
  <2>. QED  BY <2>1, <2>2
<1>4. ASSUME NEW q \in requests, NEW next \in Status PROVE MoveTo(q, next) => status' \in [Rides -> Status]
  BY <1>4 DEF MoveTo, TypeOK, Request
<1>5. ASSUME NEW q \in requests, Progress(q) PROVE TypeOK'
  <2>1. PICK next \in Status : MoveTo(q, next)
    BY <1>5 DEF Progress, Status, LiveStatus
  <2>. QED  BY <1>4, <1>5, <2>1 DEF Progress, Done, TypeOK
<1>6. ASSUME NEW q \in requests, Complete(q) PROVE TypeOK'
  <2>1. Then(q, "finish") \subseteq Request
    BY ThenTyped
  <2>. QED  BY <1>4, <1>6, <2>1 DEF Complete, TypeOK, Status
<1>7. ASSUME NEW q \in requests, Finish(q) PROVE TypeOK'
  BY <1>3, <1>7 DEF Finish, Done, TypeOK
<1>8. ASSUME NEW q \in requests, Cancel(q) PROVE TypeOK'
  <2>1. Then(q, "withdraw") \subseteq Request
    BY ThenTyped
  <2>2. requests' \subseteq Request
    BY <1>8, <2>1 DEF Cancel, TypeOK
  <2>. QED  BY <1>3, <1>4, <1>8, <2>2 DEF Cancel, TypeOK, Status
<1>9. ASSUME NEW q \in requests, Withdraw(q) PROVE TypeOK'
  <2>1. q.ride \in Rides
    BY <1>9 DEF TypeOK, Request
  <2>2. Withdrawn(q.ride) \in [Drivers -> OfferStatus]
    BY <2>1 DEF Withdrawn, TypeOK, OfferStatus
  <2>. QED  BY <1>9, <2>1, <2>2 DEF Withdraw, Done, TypeOK
<1>10. ASSUME NEW q \in requests, Resolve(q) PROVE TypeOK'
  <2>1. status' \in [Rides -> Status]
    BY <1>4, <1>10 DEF Resolve, Status
  <2>. QED  BY <1>3, <1>10, <2>1 DEF Resolve, Done, TypeOK
<1>11. ASSUME NEW q \in requests, LoseRace(q) PROVE TypeOK'
  BY <1>11 DEF LoseRace, Done, TypeOK
<1>. QED
  BY <1>1, <1>2, <1>5, <1>6, <1>7, <1>8, <1>9, <1>10, <1>11 DEF TripNext

\* So does a process that dies.
LEMMA TypeFail == ASSUME TypeOK, FailNext PROVE TypeOK'
<1>. USE DEF rideVars, jobVars
<1>1. ASSUME NEW q \in requests, FailRequest(q) PROVE TypeOK'
  BY <1>1, BoundsAreNat DEF FailRequest, CanFail, Done, TypeOK
<1>2. ASSUME NEW b \in casts, FailCast(b) PROVE TypeOK'
  <2>1. <<b.ride, b.round>> \in Rides \X Rounds
    BY <1>2 DEF TypeOK, Cast
  <2>2. queued' \subseteq Rides \X Rounds
    BY <1>2, <2>1 DEF FailCast, TypeOK
  <2>. QED  BY <1>2, <2>2, BoundsAreNat DEF FailCast, CanFail, TypeOK
<1>3. ASSUME NEW p \in presence, FailCall(p) PROVE TypeOK'
  BY <1>3, BoundsAreNat DEF FailCall, CanFail, TypeOK
<1>. QED  BY <1>1, <1>2, <1>3 DEF FailNext

\* A step of the ride backend keeps every variable in its type.
LEMMA TypeStep == ASSUME TypeOK, [Next]_vars PROVE TypeOK'
<1>1. CASE UNCHANGED vars
  BY <1>1 DEF vars, TypeOK
<1>. QED  BY <1>1, TypeSession, TypeMatching, TypeTrip, TypeFail DEF Next

\* Type correctness: rows, jobs and half-done requests are always of the shape the
\* handlers of rides.service.ts and the broadcast worker expect.
THEOREM TypeCorrect == Spec => []TypeOK
<1>1. Init => TypeOK
  BY TypeInit
<1>2. TypeOK /\ [Next]_vars => TypeOK'
  BY TypeStep
<1>. QED  BY <1>1, <1>2, PTL DEF Spec

-----------------------------------------------------------------------------
(* Sessions. *)

\* A step that adds no active row to any driver, or none beside the row it adds.
LEMMA FewerActive ==
    ASSUME TypeOK, OneActiveSession, \A d \in Drivers : ActiveRows(d)' \subseteq ActiveRows(d)
    PROVE  OneActiveSession'
  BY DEF OneActiveSession

\* A step that makes one row of a driver active beside no other active row.
LEMMA OneRowTaken ==
    ASSUME TypeOK, OneActiveSession, NEW d \in Drivers, NEW i \in Rows, NEW s \in SessionStatus,
           ActiveRows(d) \subseteq {i}, session' = [session EXCEPT ![d][i] = s]
    PROVE  OneActiveSession'
<1>1. ActiveRows(d)' \subseteq {i}
  BY DEF ActiveRows, TypeOK
<1>2. \A e \in Drivers \ {d} : ActiveRows(e)' = ActiveRows(e)
  BY DEF ActiveRows, TypeOK
<1>. QED  BY <1>1, <1>2 DEF OneActiveSession

\* Freeing a driver turns on_trip rows into online ones and adds no active row.
LEMMA FreeKeepsActive ==
    ASSUME TypeOK, NEW d \in Drivers, Free(d)
    PROVE  \A e \in Drivers : ActiveRows(e)' \subseteq ActiveRows(e)
  BY DEF Free, Freed, ActiveRows, Active, TypeOK

\* Ending a session by its id adds no active row.
LEMMA EndKeepsActive ==
    ASSUME TypeOK, NEW d \in Drivers, NEW i, session' = [session EXCEPT ![d][i] = "offline"]
    PROVE  \A e \in Drivers : ActiveRows(e)' \subseteq ActiveRows(e)
  BY DEF ActiveRows, Active, TypeOK

\* No step gives a driver a second active row.
LEMMA SessionsStep == ASSUME TypeOK, OneActiveSession, [Next]_vars PROVE OneActiveSession'
<1>. USE DEF rideVars, jobVars
<1>0. ASSUME UNCHANGED session PROVE OneActiveSession'
  BY <1>0 DEF OneActiveSession, ActiveRows
<1>1. CASE UNCHANGED vars \/ FailNext
  BY <1>0, <1>1 DEF vars, FailNext, FailRequest, FailCast, FailCall
<1>2. CASE SessionNext
  <2>1. ASSUME NEW d \in Drivers, BeginGoOnline(d) \/ BeginGoOffline(d) \/ \E op : ReadOnline(d, op)
        PROVE  OneActiveSession'
    BY <1>0, <2>1 DEF BeginGoOnline, BeginGoOffline, ReadOnline
  <2>2. ASSUME NEW p \in presence, EndForReconnect(p) \/ EndSession(p) PROVE OneActiveSession'
    <3>1. p.driver \in Drivers
      BY <2>2 DEF TypeOK, Presence
    <3>2. session' = [session EXCEPT ![p.driver][p.row] = "offline"]
      BY <2>2 DEF EndForReconnect, EndSession
    <3>. QED  BY <3>1, <3>2, EndKeepsActive, FewerActive
  <2>3. ASSUME NEW p \in presence, CreateSession(p) PROVE OneActiveSession'
    <3>1. p.driver \in Drivers
      BY <2>3 DEF TypeOK, Presence
    <3>2. ASSUME NEW i \in Rows, ActiveRows(p.driver) = {},
                 session' = [session EXCEPT ![p.driver][i] = "online"]
          PROVE  OneActiveSession'
      BY <3>1, <3>2, OneRowTaken DEF SessionStatus
    <3>. QED  BY <1>0, <2>3, <3>2 DEF CreateSession
  <2>4. ASSUME NEW p \in presence, ReadAgain(p) PROVE OneActiveSession'
    BY <1>0, <2>4 DEF ReadAgain
  <2>. QED  BY <1>2, <2>1, <2>2, <2>3, <2>4 DEF SessionNext
<1>3. CASE MatchingNext
  <2>1. ASSUME NEW q \in requests, AcceptCommit(q) PROVE OneActiveSession'
    <3>1. q.driver \in Drivers /\ q.row \in 0..MaxSessions
      BY <2>1, Inclusions DEF AcceptCommit, TypeOK, Request
    <3>2. CASE q.row = 0
      BY <1>0, <2>1, <3>2 DEF AcceptCommit
    <3>3. CASE q.row # 0
      <4>1. q.row \in Rows
        BY <3>1, <3>3, SomeSession DEF Rows
      <4>2. ActiveRows(q.driver) \subseteq {q.row}
        BY <2>1, <3>3 DEF AcceptCommit, SessionTaken
      <4>3. session' = [session EXCEPT ![q.driver][q.row] = "on_trip"]
        BY <2>1, <3>3 DEF AcceptCommit
      <4>. QED  BY <3>1, <4>1, <4>2, <4>3, OneRowTaken DEF SessionStatus
    <3>. QED  BY <3>2, <3>3
  <2>2. ASSUME NEW r \in Rides, NEW d \in Drivers, GraceCheck(r, d) PROVE OneActiveSession'
    <3>1. UNCHANGED session \/ Free(d)
      BY <2>2 DEF GraceCheck
    <3>. QED  BY <1>0, <3>1, FreeKeepsActive, FewerActive
  <2>3. CASE UNCHANGED session
    BY <1>0, <2>3
  <2>4. \/ UNCHANGED session
        \/ \E q \in requests : AcceptCommit(q)
        \/ \E r \in Rides, d \in Drivers : GraceCheck(r, d)
    BY <1>3 DEF MatchingNext, CreateBooking, Dispatch, ExpireStaleRequested, TakeBroadcast,
       MatchDrivers, CloseNoDrivers, OfferTo, Lapse, Decline, AcceptLock, BeginAssign, Publish,
       AcceptRollback, OpenForAssign, OfferByAdmin, ForceAccept, ArmGrace, Enqueue
  <2>. QED  BY <2>1, <2>2, <2>3, <2>4
<1>4. CASE TripNext
  <2>1. ASSUME NEW q \in requests, FreeDriverRead(q) PROVE OneActiveSession'
    <3>1. q.driver = NoDriver \/ q.driver \in Drivers
      BY <2>1 DEF TypeOK, Request
    <3>. QED  BY <1>0, <2>1, <3>1, FreeKeepsActive, FewerActive DEF FreeDriverRead
  <2>2. UNCHANGED session \/ \E q \in requests : FreeDriverRead(q)
    BY <1>4 DEF TripNext, ListStalePickup, BeginTrip, Progress, Complete, Finish, Cancel,
       Withdraw, Resolve, LoseRace
  <2>. QED  BY <1>0, <2>1, <2>2
<1>. QED  BY <1>1, <1>2, <1>3, <1>4 DEF Next

\* Going online, going offline, accepting, freeing and the sweeps all write rows they
\* read earlier; a driver still never has two active sessions.
THEOREM OneSessionEach == Spec => []OneActiveSession
<1>1. Init => OneActiveSession
  BY DEF Init, OneActiveSession, ActiveRows, Active
<1>2. TypeOK /\ OneActiveSession /\ [Next]_vars => OneActiveSession'
  BY SessionsStep
<1>. QED  BY <1>1, <1>2, TypeCorrect, PTL DEF Spec
=============================================================================
