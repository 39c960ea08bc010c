\* A node that crashes while it is bootstrapped.
CONSTANTS
    Base = 2
    Entry = {e1}
    Candidate = {c1}
    MaxIndex = 2
    MaxTerm = 2
    TrailingLogs = 1
    None = None
    ErrLogNotFound = ErrLogNotFound
SPECIFICATION Spec
INVARIANTS
    CantBootstrapMeansCluster
