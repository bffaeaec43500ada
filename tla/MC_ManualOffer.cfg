\* An admin offers the ride to one driver while a broadcast round is at work.
SPECIFICATION Spec
CONSTANTS
    r1 = r1
    r2 = r2
    d1 = d1
    d2 = d2
    u1 = u1
    u2 = u2
    NoDriver = NoDriver
    Rides = {r1}
    Riders = {u1, u2}
    Drivers = {d1, d2}
    RiderOf <- OwnRider
    Advance = {}
    Handlers = {"assign"}
    LastRound = 1
    MaxCasts = 1
    MaxSessions = 1
    MaxRequests = 1
    MaxAssigns = 1
    MaxFailures = 0
INVARIANT ManualOfferIsExclusive
CHECK_DEADLOCK FALSE
