\* The log through conflicts, snapshots and compaction; terms and votes; crashes.
CONSTANTS
    Base = 3
    Entry = {e1, e2}
    Candidate = {c1, c2}
    MaxIndex = 5
    MaxTerm = 2
    TrailingLogs = 1
    None = None
    ErrLogNotFound = ErrLogNotFound
SYMMETRY Symmetry
SPECIFICATION Spec
INVARIANTS
    TypeOK
    LogReadable
    OneVotePerTerm
PROPERTIES
    IsDurableLog
