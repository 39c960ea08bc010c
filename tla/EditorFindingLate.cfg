\* A client connects while callbacks are outstanding.
CONSTANTS
    c1 = c1 c2 = c2
    Client = {c1, c2}
    Letter <- MCLetter
    Writer = {c1, c2}
    Node = {n1}
    None = None
    Wide = {}
    MaxTyped = 1
    MaxErased = 0
    MaxEntries = 4
    MaxFaults = 0
    Races = {"late"}
SPECIFICATION Spec
INVARIANTS
    BaseIsRevision
CHECK_DEADLOCK FALSE
