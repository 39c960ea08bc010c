\* Two nodes may be started with -bootstrap; the first leader stays; fair.
CONSTANTS
    Client = {init, c1}
    Node = {n1, n2, n3}
    Bootstrapper = {n1, n2}
    SystemBootstrap = init
    InitText <- Two
    Texts <- FewTexts
    None = None
    MaxEdits = 2
    MaxElections = 1
    Stops = FALSE
SPECIFICATION FairSpec
PROPERTY InitialTextAppears
CHECK_DEADLOCK FALSE
