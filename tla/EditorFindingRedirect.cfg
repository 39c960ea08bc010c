\* Leadership passes on while a page that has seen no revision is connected.
CONSTANTS
    c1 = c1 c2 = c2
    Client = {c1, c2}
    Letter <- MCLetter
    Writer = {c1, c2}
    Node = {n1, n2}
    None = None
    Wide = {}
    MaxTyped = 1
    MaxErased = 0
    MaxEntries = 2
    MaxFaults = 1
    Races = {"deposed"}
SPECIFICATION Spec
INVARIANTS
    OwnTextStays
CHECK_DEADLOCK FALSE
