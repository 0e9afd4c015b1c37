SPECIFICATION FairSpec
CONSTANTS
    alice = alice
    shop = shop
    usdc = usdc
    eurc = eurc
    treasury = treasury
    subManager = subManager
    admin = admin
    Address = {alice, shop, treasury, subManager, admin}
    ZeroAddress = zero
    Admin = admin
    Charger = {subManager}
    Owner = {alice}
    Merchant = {shop}
    Token = {usdc}
    Budget = {250}
    Duration = {3}
    Expiry = {0}
    Amount = {100, 150}
    U48 = 64
    MaxCards = 1
    MaxTime = 5
    SubManager = subManager
    Treasury = treasury
    Seller = {shop}
    Price = {150}
    Period = {1, 2, 3}
    Trial = {0}
    GRACE = 1
    Approval = {400}
    TopUp = {150}
    InitialBalance <- Balances
    MaxPlans = 1
    MaxVersions = 2
    MaxSubs = 1
PROPERTIES
    IsPullMandate
    RenewalsResolve
