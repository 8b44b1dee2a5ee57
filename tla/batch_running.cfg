SPECIFICATION Spec
CONSTANTS
    Batches = {b1}
    Codes = {k1}
    MaxItems = 1
INVARIANTS
    BatchIsBeingRun
CHECK_DEADLOCK FALSE
