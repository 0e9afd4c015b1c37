SPECIFICATION CardSpec
CONSTANTS
    Address = {alice, subs, admin, shop}
    ZeroAddress = zero
    Admin = admin
    Charger = {subs}
    Owner = {alice}
    Merchant = {shop}
    Token = {usdc}
    Budget = {2, 3}
    Duration = {0, 2, 3, 30}
    Expiry = {0, 3}
    Amount = {1, 2}
    U48 = 32
    MaxCards = 1
    MaxTime = 7
INVARIANTS
    AccountingInv
    PeriodCeiling
    BudgetRefreshes
PROPERTIES
    CancelledNeverSpends
