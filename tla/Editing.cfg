\* One server, whose log takes two clients' edits of longer texts.
CONSTANTS
    Client = {c1, c2}
    Node = {n1}
    Texts <- ManyTexts
    MaxSub = 2
    MaxLog = 3
    SnapshotIndexes = {}
    Misbased = FALSE
SYMMETRY Symmetry
SPECIFICATION Spec
INVARIANTS
    HeadTextIsReplay
    AppliedOnceInOrder
    FittingEntriesApply
    TypedTextSurvives
