SPECIFICATION Spec
CONSTANTS
    Call = {c1, c2, c3}
    Price = {1, 2, 3}
    Origin = {api, other}
    AllowedOrigins = {api}
    PerTxCap = 2
    PeriodBudget = 3
    PeriodMs = 2
    MaxTime = 5
SYMMETRY Symmetry
CHECK_DEADLOCK FALSE
INVARIANTS
    PeriodBudgetHeld
