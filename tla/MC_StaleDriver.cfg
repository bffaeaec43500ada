\* A cancellation that read the ride before a forced assignment was reverted.
SPECIFICATION Spec
CONSTANTS
    r1 = r1
    r2 = r2
    d1 = d1
    d2 = d2
    u1 = u1
    u2 = u2
    NoDriver = NoDriver
    Rides = {r1}
    Riders = {u1, u2}
    Drivers = {d1, d2}
    RiderOf <- OwnRider
    Advance = {}
    Handlers = {"force", "cancelByRider"}
    LastRound = 1
    MaxCasts = 1
    MaxSessions = 1
    MaxRequests = 2
    MaxAssigns = 1
    MaxFailures = 0
INVARIANT OnTripIsExplained
CHECK_DEADLOCK FALSE
