SPECIFICATION FairSpec
CONSTANTS
    Messages = {m1}
    Sessions = {}
    Requests = {q1}
    Analyses = {a1, a2}
    Kinds <- EveryKind
INVARIANTS
    SuccessHasSummary
    ChangesAreAnnounced
PROPERTIES
    AnalysisEnds
CHECK_DEADLOCK FALSE
