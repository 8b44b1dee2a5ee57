SPECIFICATION Spec
CONSTANTS
    Messages = {m1, m2}
    Sessions = {e1, e2}
    Requests = {q1}
    Analyses = {}
    Kinds <- EveryKind
INVARIANTS
    TypeOK
    ClosedIsConcluded
CHECK_DEADLOCK FALSE
