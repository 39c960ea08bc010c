\* A submission is repeated while it is under way.
CONSTANTS
    c1 = c1 c2 = c2
    Client = {c1, c2}
    Letter <- MCLetter
    Writer = {c1, c2}
    Node = {n1}
    None = None
    Wide = {}
    MaxTyped = 2
    MaxErased = 0
    MaxEntries = 4
    MaxFaults = 1
    Races = {"slow"}
SPECIFICATION Spec
INVARIANTS
    BaseIsRevision
CHECK_DEADLOCK FALSE
