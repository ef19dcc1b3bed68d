\* The planner's crew, one worker, nobody else: a role is disabled.
CONSTANTS
    a1 = a1
    a2 = a2
    a3 = a3
    m1 = m1
    m2 = m2
    Assignments = {a1, a2, a3}
    DependsOn <- CrewDependsOn
    Gated = {}
    Timed = {}
    Adapters = {m1, m2}
    Allowed <- CrewAllowed
    Policies <- CrewPolicies
    Workers = {w1}
    Operators = {o1}
    NoAdapter = NoAdapter
    MaxOps = 0
    MaxCrashes = 0
SPECIFICATION Spec
INVARIANTS
    DependentsOfSkippedBlock
CHECK_DEADLOCK FALSE
