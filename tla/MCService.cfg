SPECIFICATION FairSpec
CONSTANTS
    Sub = {s1}
    Trial = {1}
    Period = 1
    GRACE = 0
    Funds = {0, 1}
    ChunkSize = 2
    Lookahead = 1
    OverdueAfter = 0
    CustomerActs = TRUE
    Timely = FALSE
    MaxTime = 2
    MaxPending = 1
    MaxErrors = 1
    MaxCrashes = 1
    Nothing = Nothing
CHECK_DEADLOCK FALSE
INVARIANTS
    IndexInv
PROPERTIES
    NoResurrection
    DueIsCharged
    EndedIsForgotten
