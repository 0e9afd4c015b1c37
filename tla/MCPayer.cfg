SPECIFICATION PayerSpec
CONSTANTS
    Call = {c1, c2, c3}
    Price = {1, 2, 3}
    Origin = {api, other}
    AllowedOrigins = {api}
    PerTxCap = 2
    PeriodBudget = 3
    PeriodMs = 2
    MaxTime = 5
    Request = {q1, q2, q3}
    Route <- MCRoute
    RateCard <- MCRateCard
    Nonce = {n1, n2}
    Malformed = Malformed
    MaxStored = 3
    None = None
    MaxCards = 2
    MinCards = 1
    MaxWrites = 2
    MaxMounts = 2
    FeedLimit = 2
    MaxOthers = 1
    MaxMissed = 1
    NoPoll = NoPoll
    NoCard = NoCard
CHECK_DEADLOCK FALSE
INVARIANTS
    TrackerInv
    MirrorsCardIssuer
    ServedIsPaid
    RevenueIsSettled
    DrawerInv
PROPERTIES
    GallerySettles
