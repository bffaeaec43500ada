\* Two cash rides that share an offer, one ride paid online, one from the wallet; a retry, a
\* death.
SPECIFICATION MoneySpec
CONSTANTS
    r1 = r1
    r2 = r2
    u1 = u1
    u2 = u2
    NoRide = NoRide
    Rides = {r1, r2}
    Users = {u1, u2}
    UserOf <- OneEach
    Mixes <- CashOrAlone
    Estimate = 20
    EarlyFare = 10
    Percent = 10
    Budget = 3
    Budgets = {3, 4}
    GlobalLimit = 2
    PerUserLimit = 1
    MaxTxns = 2
    MaxTasks = 2
    Driven = {r1}
    MaxRetries = 1
    MaxFailures = 1
INVARIANTS
    MoneyTypeOK
    BooksBalance
    PaidOfferIsUsed
    DebitSettles
PROPERTIES
    OfferBudgetSpec
    
    RideChargeSpec
    ReservationReturns
    CaptureIsAccounted
    StrandedRideIsBilled
CHECK_DEADLOCK FALSE
