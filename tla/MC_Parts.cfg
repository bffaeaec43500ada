\* Apart from each other: a rider who books again after nobody took the first ride, which an
\* admin then reopens; a driver's payouts, purchases and logins; the PIN of a ride.
SPECIFICATION PartsSpec
CONSTANTS
    r1 = r1
    r2 = r2
    d1 = d1
    d2 = d2
    u1 = u1
    u2 = u2
    NoDriver = NoDriver
    Rides = {r1, r2}
    Riders = {u1, u2}
    Drivers = {d1}
    RiderOf <- OneRider
    Advance = {}
    Handlers = {"assign", "force", "sweepRequested"}
    LastRound = 2
    MaxCasts = 2
    MaxSessions = 1
    MaxRequests = 2
    MaxAssigns = 1
    MaxFailures = 0
    e1 = e1
    e2 = e2
    s1 = s1
    s2 = s2
    p1 = p1
    t1 = t1
    a1 = a1
    a2 = a2
    a3 = a3
    l1 = l1
    l2 = l2
    c1 = c1
    c2 = c2
    Earnings = {e1, e2}
    MaxSettlements = 2
    Submitters = {s1, s2}
    Hooks = {1}
    MaxFaults = 1
    Packages = {p1}
    Topups = {t1}
    Settlers = {s1, s2}
    MaxCrashes = 1
    Arrivals = {a1, a2, a3}
    NoPin = NoPin
    Logins = {l1, l2}
    NoLogin = NoLogin
    MaxTokens = 4
    Refreshes = {c1, c2}
SYMMETRY AlikeParts
INVARIANTS
    OneOpenRidePerRider
    PaidOutOnce
    OpenSettlementIsBacked
    EarningIsNotStuck
    PurchaseCreditedOnce
    PaidPurchaseIsFound
    PinAgrees
    OneUsableToken
PROPERTIES
    ShownPinStaysValid
CHECK_DEADLOCK FALSE
