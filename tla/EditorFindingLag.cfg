\* A client connects to a node that has not applied all entries.
CONSTANTS
    c1 = c1 c2 = c2
    Client = {c1, c2}
    Letter <- MCLetter
    Writer = {c1, c2}
    Node = {n1, n2}
    None = None
    Wide = {}
    MaxTyped = 1
    MaxErased = 0
    MaxEntries = 4
    MaxFaults = 2
    Races = {"lag"}
SPECIFICATION Spec
INVARIANTS
    BaseIsRevision
CHECK_DEADLOCK FALSE
