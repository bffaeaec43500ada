\* Two rides, two drivers, no crash and no admin: broadcast, answers, trip, cancellations.
SPECIFICATION Spec
CONSTANTS
    r1 = r1
    r2 = r2
    d1 = d1
    d2 = d2
    u1 = u1
    u2 = u2
    NoDriver = NoDriver
    Rides = {r1, r2}
    Riders = {u1, u2}
    Drivers = {d1, d2}
    RiderOf <- OwnRider
    Advance = {}
    Handlers = {"decline", "cancelByRider", "cancelByDriver", "endEarly", "sweepRequested"}
    LastRound = 2
    MaxCasts = 1
    MaxSessions = 1
    MaxRequests = 2
    MaxAssigns = 0
    MaxFailures = 0
SYMMETRY Alike
INVARIANTS
    TypeOK
    OneLiveRidePerDriver
    LiveRideHoldsAcceptedOffer
    OnTripIsExplained
PROPERTIES
    LifecycleSpec
    CardIsAcceptable
    NoOfferComesBackLate
CHECK_DEADLOCK FALSE
