SPECIFICATION Spec
CONSTANTS
    Task = {t1, t2}
    MaxFlows = 2
    MaxOthers = 2
    ScanLimit = 2
    None = None
SYMMETRY TaskSymmetry
CHECK_DEADLOCK FALSE
INVARIANTS
    PanelInv
    IdsAreSafe
    OneSubscription
    NoFalseWarning
