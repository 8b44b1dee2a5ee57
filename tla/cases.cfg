SPECIFICATION Spec
CONSTANTS
    Cases = {c1}
    None = None
    MaxFlights = 2
INVARIANTS
    TypeOK
    LockProtectsTheForm
    CurrentMeansShown
    OpenCardLoads
CHECK_DEADLOCK FALSE
