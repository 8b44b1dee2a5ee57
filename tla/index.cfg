CONSTANTS
    f1 = f1
    f2 = f2
    m1 = m1
    m2 = m2
    Folders = {f1, f2}
    None = None
    Slots = {s1, s2}
    Horizon = 2
    Sent <- SparseAndDense
    NearCap = 2
    Cap = 3
    Runs = {r1}
    Mailboxes = {m1}
    OwnerOf <- OneMailbox
    MaxWindows = 3
    MaxPolls = 2
SPECIFICATION FairSpec
INVARIANTS
    TypeOK
    ListoIsFetched
    ListoIsCounted
    StatusReflectsFolders
PROPERTIES
    RunEnds
CHECK_DEADLOCK FALSE
