\* Two nodes are started with -bootstrap, again and again; leaders come and go.
CONSTANTS
    Client = {init, c1}
    Node = {n1, n2, n3}
    Bootstrapper = {n1, n2}
    SystemBootstrap = init
    InitText <- Two
    Texts <- FewTexts
    None = None
    MaxEdits = 2
    MaxElections = 3
    Stops = TRUE
SPECIFICATION Spec
INVARIANTS
    TypeOK
    InitialTextOnce
PROPERTIES
    InitialTextMerges
