\* Editors write while two nodes are started with -bootstrap.
CONSTANTS
    Client = {init, c1}
    Node = {n1, n2, n3}
    Bootstrapper = {n1, n2}
    SystemBootstrap = init
    InitText <- Two
    Texts <- FewTexts
    None = None
    MaxEdits = 2
    MaxElections = 3
    Stops = TRUE
SPECIFICATION Spec
INVARIANT InitialTextFirst
