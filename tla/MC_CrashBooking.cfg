\* A process dies between the booking of a scheduled ride and its advance-meta row.
SPECIFICATION FairSpec
CONSTANTS
    r1 = r1
    r2 = r2
    d1 = d1
    d2 = d2
    u1 = u1
    u2 = u2
    NoDriver = NoDriver
    Rides = {r2}
    Riders = {u1, u2}
    Drivers = {d1, d2}
    RiderOf <- OwnRider
    Advance = {r2}
    Handlers = {"sweepRequested", "sweepPickup"}
    LastRound = 1
    MaxCasts = 1
    MaxSessions = 1
    MaxRequests = 1
    MaxAssigns = 0
    MaxFailures = 1
PROPERTY ScheduledDispatches
CHECK_DEADLOCK FALSE
