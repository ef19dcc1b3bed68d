\* Turn ids matter to rewinds only, which MCSessionDurable checks.
SPECIFICATION SpecH
CONSTANTS
    Clients = {c1, c2}
    Turns = {}
    NoTurn = NoTurn
    Calls = {"append", "checkpoint", "rewind", "delete"}
    MaxSeq = 2
    MaxId = 3
SYMMETRY ClientSymmetry
INVARIANTS
    TypeOK
    JournalDense
    CheckpointsCovered
    RecoveryFaithful
