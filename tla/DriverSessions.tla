--------------------------- MODULE DriverSessions ---------------------------
(***************************************************************************)
(* Going online and offline: goOnline and goOffline of rides.service.ts,   *)
(* and the idle sweep and the login on another device that call goOffline. *)
(* Each reads the driver's active session in one statement and writes in a *)
(* later one, by id.                                                       *)
(* driver_location_snapshots.is_available is left out: every location ping *)
(* sets it back to true and findNearbyDrivers matches an unavailable       *)
(* driver for a grace time as well, so it excludes nobody for good.        *)
(***************************************************************************)
EXTENDS RideBase

Call(op, d, i) == [op |-> op, driver |-> d, row |-> i]

\* At most two calls of a driver overlap, and a row is left for each new session
\* (bounds of the model).
CallsOf(d) == {p \in presence : p.driver = d}
CanCall(d) == Cardinality(CallsOf(d)) < 2
RowLeft(d) == Cardinality({i \in Rows : session[d][i] = "none"})
                > Cardinality({p \in CallsOf(d) : p.op \in {"reconnect", "create"}})

\* goOnline up to its read of the active session: refused with 409 while the
\* session is on_trip, and nothing else is asked about rides.  (i is the row
\* read, 0 when there is none.)
BeginGoOnline(d) ==
    /\ "goOnline" \in Handlers
    /\ CanCall(d)
    /\ RowLeft(d)
    /\ ~OnTrip(d)
    /\ \/ /\ ActiveRows(d) = {}
          /\ presence' = presence \cup {Call("create", d, 0)}
       \/ \E i \in OnlineRows(d) : presence' = presence \cup {Call("reconnect", d, i)}
    /\ UNCHANGED <<rideVars, jobVars, session, requests, casts, assigns, failures>>

\* endSession(existing.id, 'reconnected'), by id, whatever the row's status is now.
EndForReconnect(p) ==
    /\ p.op = "reconnect"
    /\ session' = [session EXCEPT ![p.driver][p.row] = "offline"]
    /\ presence' = (presence \ {p}) \cup {Call("create", p.driver, 0)}
    /\ UNCHANGED <<rideVars, jobVars, requests, casts, assigns, failures>>

\* createSession: a new online row; the unique index on active sessions makes the
\* insert fail while another row of the driver is active.
CreateSession(p) ==
    /\ p.op = "create"
    /\ presence' = presence \ {p}
    /\ \/ \E i \in Rows :
            /\ session[p.driver][i] = "none"
            /\ \A j \in 1..(i - 1) : session[p.driver][j] # "none"
            /\ ActiveRows(p.driver) = {}
            /\ session' = [session EXCEPT ![p.driver][i] = "online"]
       \/ ActiveRows(p.driver) # {} /\ UNCHANGED session
    /\ UNCHANGED <<rideVars, jobVars, requests, casts, assigns, failures>>

\* goOffline up to its read: any active session, on_trip included.
BeginGoOffline(d) ==
    /\ "goOffline" \in Handlers
    /\ CanCall(d)
    /\ \E i \in ActiveRows(d) : presence' = presence \cup {Call("goOffline", d, i)}
    /\ UNCHANGED <<rideVars, jobVars, session, requests, casts, assigns, failures>>

\* endSession(session.id, reason), by id.
EndSession(p) ==
    /\ p.op \in {"goOffline", "endReplaced"}
    /\ session' = [session EXCEPT ![p.driver][p.row] = "offline"]
    /\ presence' = presence \ {p}
    /\ UNCHANGED <<rideVars, jobVars, requests, casts, assigns, failures>>

\* Two callers of goOffline mean an online session only: the cleanup worker, which
\* lists the stale ones ("idle"), and a login on another device ("replace") ...
ReadOnline(d, op) ==
    /\ op \in Handlers
    /\ Online(d)
    /\ CanCall(d)
    /\ presence' = presence \cup {Call(op, d, 0)}
    /\ UNCHANGED <<rideVars, jobVars, session, requests, casts, assigns, failures>>

\* ... but the goOffline they call reads the active session again.
ReadAgain(p) ==
    /\ p.op \in {"idle", "replace"}
    /\ LET end == IF p.op = "idle" THEN "goOffline" ELSE "endReplaced"
       IN  \/ \E i \in ActiveRows(p.driver) :
                presence' = (presence \ {p}) \cup {Call(end, p.driver, i)}
           \/ ActiveRows(p.driver) = {} /\ presence' = presence \ {p}
    /\ UNCHANGED <<rideVars, jobVars, session, requests, casts, assigns, failures>>

SessionNext ==
    \/ \E d \in Drivers : BeginGoOnline(d) \/ BeginGoOffline(d)
    \/ \E d \in Drivers, op \in {"idle", "replace"} : ReadOnline(d, op)
    \/ \E p \in presence : EndForReconnect(p) \/ CreateSession(p) \/ EndSession(p) \/ ReadAgain(p)
=============================================================================
