\* A driver whose forced assignment was reverted is offered the ride again.
SPECIFICATION Spec
CONSTANTS
    r1 = r1
    r2 = r2
    d1 = d1
    d2 = d2
    u1 = u1
    u2 = u2
    NoDriver = NoDriver
    Rides = {r1}
    Riders = {u1, u2}
    Drivers = {d1, d2}
    RiderOf <- OwnRider
    Advance = {}
    Handlers = {"force"}
    LastRound = 1
    MaxCasts = 1
    MaxSessions = 1
    MaxRequests = 1
    MaxAssigns = 1
    MaxFailures = 0
PROPERTY CardIsAcceptable
CHECK_DEADLOCK FALSE
