SPECIFICATION FairSpec
CONSTANTS
    Lower <- MCLower
    DayLen = 3
    NoId = NoId
    Histories <- MCOneHistory
    merchantOf <- MCMerchantOf
    planOf <- MCPlanOf
    customerOf <- MCCustomerOf
    priceOf <- MCPriceOf
    Wallet <- MCWallet
    NoWallet = NoWallet
    Window = 5
    Days = 2
    Span = 6
    Times <- MCTimes
    MaxLost = 0
    MaxSwitches = 1
    Undefined = Undefined
    Failed = Failed
CHECK_DEADLOCK FALSE
PROPERTIES
    PlansAreOwn
