SPECIFICATION Spec
CONSTANTS
    Turns = {t1, t2}
    NoTurn = NoTurn
    Todos = {a}
    NoTodos = NoTodos
    Texts = {"hello"}
    MaxSteps = 2
    MaxCalls = 1
    MaxRuns = 3
    MaxRows = 50
    MaxExternal = 1
SYMMETRY TurnSymmetry
INVARIANTS
    TypeOK
    CompleteTurnKeepsOutput
    StepsContiguous
    TodosDurable
PROPERTIES
    ToolsNotRepeated
CHECK_DEADLOCK FALSE
