SPECIFICATION SetUpSpec
CONSTANTS
    alice = alice
    shop = shop
    usdc = usdc
    eurc = eurc
    treasury = treasury
    subManager = subManager
    admin = admin
    Address = {alice, shop, treasury, subManager, admin}
    ZeroAddress = zero
    Admin = admin
    Charger = {subManager}
    Owner = {alice}
    Merchant = {shop}
    Token = {usdc, eurc}
    Budget = {200}
    Duration = {3}
    Expiry = {0}
    Amount = {100, 150}
    U48 = 64
    MaxCards = 2
    MaxTime = 4
    SubManager = subManager
    Treasury = treasury
    Seller = {shop}
    Price = {100, 150}
    Period = {2}
    Trial = {0}
    GRACE = 1
    Approval = {}
    TopUp = {}
    InitialBalance <- Balances
    MaxPlans = 1
    MaxVersions = 2
    MaxSubs = 2
INVARIANTS
    LedgersAgree
