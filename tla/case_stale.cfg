SPECIFICATION Spec
CONSTANTS
    Messages = {m1}
    Sessions = {}
    Requests = {q1}
    Analyses = {a1}
    Kinds <- NotesOnly
PROPERTIES
    ClearedMeansReflected
CHECK_DEADLOCK FALSE
