CONSTANTS
    f1 = f1
    f2 = f2
    m1 = m1
    m2 = m2
    Folders = {f1}
    None = None
    Slots = {s1}
    Horizon = 1
    Sent <- Single
    NearCap = 2
    Cap = 3
    Runs = {r1, r2}
    Mailboxes = {m1}
    OwnerOf <- OneMailbox
    MaxWindows = 1
    MaxPolls = 1
    Batches = {b1}
    Codes = {k1, k2}
    MaxItems = 2
SPECIFICATION BothSpec
INVARIANTS
    RunsMatchTasks
    BothTypesOK
    ResultsAddUp
PROPERTIES
    FinishedRunIsFinal
    BatchEnds
CHECK_DEADLOCK FALSE
