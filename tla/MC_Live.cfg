\* One ride booked for later, two drivers, overlapping broadcasts, every way a trip ends, no crash; liveness.
SPECIFICATION FairSpec
CONSTANTS
    r1 = r1
    r2 = r2
    d1 = d1
    d2 = d2
    u1 = u1
    u2 = u2
    NoDriver = NoDriver
    Rides = {r2}
    Riders = {u1, u2}
    Drivers = {d1, d2}
    RiderOf <- OwnRider
    Advance = {r2}
    Handlers = {"decline", "cancelByRider", "endEarly", "resolve", "startReturn", "sweepRequested", "sweepPickup"}
    LastRound = 2
    MaxCasts = 2
    MaxSessions = 1
    MaxRequests = 2
    MaxAssigns = 0
    MaxFailures = 0
INVARIANT OnTripIsExplained
PROPERTIES
    LifecycleSpec
    RequestedResolves
    ScheduledDispatches
    PickupResolves
    DriverReleased
CHECK_DEADLOCK FALSE
