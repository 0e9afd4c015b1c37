SPECIFICATION MerchantSpec
CONSTANTS
    Lower <- MCLower
    DayLen = 3
    NoId = NoId
    Histories <- MCHistories
    merchantOf <- MCMerchantOf
    planOf <- MCPlanOf
    customerOf <- MCCustomerOf
    priceOf <- MCPriceOf
    Wallet <- MCWallet
    NoWallet = NoWallet
    Window = 5
    Days = 2
    Span = 6
    Times <- MCTimes
    MaxLost = 1
    MaxSwitches = 1
    Undefined = Undefined
    Failed = Failed
    MaxEndpoints = 1
    MaxCalls = 2
    MaxFailures = 1
    MaxPeriods = 1
    MaxAttempts = 1
    None = None
CHECK_DEADLOCK FALSE
INVARIANTS
    OnlyMine
    HeadlineIsExact
    ListsInv
    RotatedSecretWorks
    ConsoleInv
PROPERTIES
    PlansSettle
    RefreshShowsMutation
    ConsoleSettles
