\* A process dies between completing a ride and freeing its driver.
SPECIFICATION FairSpec
CONSTANTS
    r1 = r1
    r2 = r2
    d1 = d1
    d2 = d2
    u1 = u1
    u2 = u2
    NoDriver = NoDriver
    Rides = {r1}
    Riders = {u1, u2}
    Drivers = {d1, d2}
    RiderOf <- OwnRider
    Advance = {}
    Handlers = {"goOnline", "sweepRequested", "sweepPickup"}
    LastRound = 1
    MaxCasts = 1
    MaxSessions = 2
    MaxRequests = 1
    MaxAssigns = 0
    MaxFailures = 1
PROPERTY DriverReleased
CHECK_DEADLOCK FALSE
