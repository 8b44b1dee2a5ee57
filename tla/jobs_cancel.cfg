CONSTANTS
    JobIds = {j1, j2}
    NoJob = NoJob
SPECIFICATION Spec
PROPERTY CancelledIsKept
CHECK_DEADLOCK FALSE
