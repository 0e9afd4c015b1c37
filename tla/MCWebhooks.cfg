SPECIFICATION FairSpec
CONSTANTS
    Event = {e1}
    MaxEndpoints = 2
    MaxRetries = 2
    MaxResends = 1
    MaxChanges = 2
    MaxCrashes = 1
    EnvEndpoint = TRUE
    Idle = Idle
CHECK_DEADLOCK FALSE
INVARIANTS
    OutboxInv
    OutcomesAreEarned
    StaleAtMostOnce
PROPERTIES
    DeliveredOnlyOnce
    DeliveriesSettle
