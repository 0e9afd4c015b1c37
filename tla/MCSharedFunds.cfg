SPECIFICATION SharedSpec
CONSTANTS
    Sub = {s1, s2}
    Trial = {1}
    Period = 3
    GRACE = 1
    Funds = {1}
    ChunkSize = 2
    Lookahead = 2
    OverdueAfter = 0
    CustomerActs = FALSE
    Timely = TRUE
    MaxTime = 3
    MaxPending = 1
    MaxErrors = 0
    MaxCrashes = 0
    Nothing = Nothing
CHECK_DEADLOCK FALSE
PROPERTIES
    WarnedFirst
