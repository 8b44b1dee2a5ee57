SPECIFICATION BothSpec
CONSTANTS
    MaxRuns = 2
    MaxMounts = 2
    MaxStarts = 2
    MaxTicks = 2
    MaxAsks = 1
    MaxFails = 1
    Targets = {t1, t2}
    Users = {u1, u2}
    None = None
    MaxLists = 2
INVARIANTS
    
    DialogIsOfTarget
PROPERTIES
    
    SavingEnds
CHECK_DEADLOCK FALSE
