\* Two servers that crash, restart and exchange snapshots.
CONSTANTS
    Client = {c1, c2}
    Node = {n1, n2}
    Texts <- FewTexts
    MaxSub = 2
    MaxLog = 3
    SnapshotIndexes = {1, 2}
    Misbased = TRUE
SYMMETRY Symmetry
SPECIFICATION Spec
INVARIANTS
    TypeOK
    ReplicasAgree
    RevisionsAgree
    SnapshotsAreCuts
PROPERTIES
    IsSharedDocument
