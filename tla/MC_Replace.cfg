\* A driver accepts a ride while a login on another device ends the online session it read.
SPECIFICATION Spec
CONSTANTS
    r1 = r1
    r2 = r2
    d1 = d1
    d2 = d2
    u1 = u1
    u2 = u2
    NoDriver = NoDriver
    Rides = {r1}
    Riders = {u1, u2}
    Drivers = {d1, d2}
    RiderOf <- OwnRider
    Advance = {}
    Handlers = {"replace"}
    LastRound = 1
    MaxCasts = 1
    MaxSessions = 1
    MaxRequests = 1
    MaxAssigns = 0
    MaxFailures = 0
PROPERTY ReplacementSparesTrip
CHECK_DEADLOCK FALSE
