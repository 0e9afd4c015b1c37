SPECIFICATION FairSpec
CONSTANTS
    Call = {c1, c2, c3}
    MinGap = 2
    Backoff = 1
    MaxAttempts = 3
    None = None
CHECK_DEADLOCK FALSE
INVARIANTS
    ForwarderInv
PROPERTIES
    ImplementsQueue
    GapHeld
    EveryoneIsAnswered
