SPECIFICATION SpecH
CONSTANTS
    Clients = {c1}
    Turns = {t1}
    NoTurn = NoTurn
    Calls = {"append", "checkpoint", "rewind", "metadata", "archive", "delete"}
    MaxSeq = 3
    MaxId = 4
PROPERTIES
    DurableSpec
    RewindLands
