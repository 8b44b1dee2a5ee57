SPECIFICATION Spec
CONSTANTS
    None = None
    Cases = {c1, c2}
    People = {p1, p2}
    Spellings = {s1, s2}
    MaxQuestions = 3
    MaxChips = 3
    MaxMailCalls = 2
    Listed = {c1, c2, c3}
    MaxLists = 2
    MaxListCalls = 1
    Jobs = {j1}
    Folders = {d1, d2}
    MaxGets = 2
    MaxJobCalls = 1
    f1 = f1
    f2 = f2
    MaxMessage = 2
    PageSize = 1
    MaxPages = 2
    MaxDetails = 1
    MaxChanges = 2
    MaxSettingCalls = 2
    MaxLoads = 2
    Rows = {r1, r2}
    Types = {t1, t2}
    MaxImpacts = 2
INVARIANTS
    TypeOK
    CasesStayApart
    ThinkingEnds
    ConversationsStayApart
    RecipientsAreKept
    TickedCasesAreListed
    
    
    SettledScreenIsCurrent
    DialogsFitTheirRow
CHECK_DEADLOCK FALSE
