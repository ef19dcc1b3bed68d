SPECIFICATION Spec
CONSTANTS
    Turns = {t1}
    NoTurn = NoTurn
    Todos = {a}
    NoTodos = NoTodos
    Texts = {"hello"}
    MaxSteps = 2
    MaxCalls = 1
    MaxRuns = 2
    MaxRows = 50
    MaxExternal = 0
INVARIANTS
    ResumeStartsAtHint
CHECK_DEADLOCK FALSE
