SPECIFICATION Spec
CONSTANTS
    Cases = {c1}
    None = None
    MaxFlights = 2
INVARIANTS
    ReloadShowsTheChanges
CHECK_DEADLOCK FALSE
