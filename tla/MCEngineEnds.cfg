SPECIFICATION FairSpec
CONSTANTS
    Turns = {t1}
    NoTurn = NoTurn
    Todos = {}
    NoTodos = NoTodos
    Texts = {"hello"}
    MaxSteps = 2
    MaxCalls = 1
    MaxRuns = 2
    MaxRows = 32
    MaxExternal = 0
PROPERTIES
    TurnEnds
CHECK_DEADLOCK FALSE
