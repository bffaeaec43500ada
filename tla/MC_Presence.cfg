\* One ride, two drivers who go online and offline while it is broadcast and driven; a process may die.
SPECIFICATION Spec
CONSTANTS
    r1 = r1
    r2 = r2
    d1 = d1
    d2 = d2
    u1 = u1
    u2 = u2
    NoDriver = NoDriver
    Rides = {r1}
    Riders = {u1, u2}
    Drivers = {d1, d2}
    RiderOf <- OwnRider
    Advance = {}
    Handlers = {"goOnline", "goOffline", "idle", "cancelByRider"}
    LastRound = 1
    MaxCasts = 1
    MaxSessions = 2
    MaxRequests = 2
    MaxAssigns = 0
    MaxFailures = 1
SYMMETRY AlikeDrivers
INVARIANTS
    LiveRideHoldsAcceptedOffer
    OnTripIsExplained
    OneActiveSession
PROPERTIES
    LifecycleSpec
CHECK_DEADLOCK FALSE
