\* Two processes on one set of files; the proposals of two skills.
SPECIFICATION Spec
CONSTANTS
    s1 = s1
    s2 = s2
    p1 = p1
    p2 = p2
    p3 = p3
    Procs = {c1, c2}
    Skills = {s1, s2}
    Proposals = {p1, p2, p3}
    SkillOf <- MCSkillOf
    Absent = Absent
    Edited = Edited
    NoDoc = NoDoc
    NoCall = NoCall
    MaxVersion = 4
CONSTRAINT WhileSound
SYMMETRY ProcSymmetry
INVARIANTS
    TypeOK
    HistoryFaithful
    FailedApplyRestores
    AppliedStands
CHECK_DEADLOCK FALSE
