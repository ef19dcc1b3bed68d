\* Three processes on one database.  An unreadable journal stops them all.
SPECIFICATION Spec
CONSTANTS
    Procs = {c1, c2, c3}
    Proposals = {p1}
    Stamps = {1}
    NoTodos = NoTodos
    Edited = Edited
SYMMETRY ProposalSymmetry
CHECK_DEADLOCK FALSE
INVARIANTS TypeOK JournalReadable DeliveredOnce
    UnreviewedNeverWritten OutboxCurrent
PROPERTY ReviewedSpec
