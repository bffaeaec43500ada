\* A ride booked for later and one for now, assigned by hand, forced, reverted.
SPECIFICATION Spec
CONSTANTS
    r1 = r1
    r2 = r2
    d1 = d1
    d2 = d2
    u1 = u1
    u2 = u2
    NoDriver = NoDriver
    Rides = {r1, r2}
    Riders = {u1, u2}
    Drivers = {d1, d2}
    RiderOf <- OwnRider
    Advance = {r2}
    Handlers = {"assign", "force", "cancelByRider"}
    LastRound = 1
    MaxCasts = 1
    MaxSessions = 1
    MaxRequests = 2
    MaxAssigns = 1
    MaxFailures = 0
SYMMETRY AlikeDrivers
INVARIANTS
    OneLiveRidePerDriver
    LiveRideHoldsAcceptedOffer
PROPERTIES
    LifecycleSpec
    NoOfferComesBackLate
CHECK_DEADLOCK FALSE
