\* Two workers and an operator race on one document; a worker may die.
CONSTANTS
    a1 = a1
    a2 = a2
    a3 = a3
    m1 = m1
    m2 = m2
    Assignments = {a1, a2}
    DependsOn <- MCDependsOn
    Gated = {a2}
    Timed = {a1}
    Adapters = {m1, m2}
    Allowed <- MCAllowed
    Policies <- MCPolicies
    Workers = {w1, w2}
    Operators = {o1}
    NoAdapter = NoAdapter
    MaxOps = 2
    MaxCrashes = 1
SPECIFICATION Spec
SYMMETRY WorkerSymmetry
INVARIANTS
    TypeOK
    DependenciesFirst
    OverMeansSettled
    OperatorGate
    RouteFailsAtMostTwice
    ExecutorOwnsAssignment
PROPERTIES
    FinishedStands
CHECK_DEADLOCK FALSE
