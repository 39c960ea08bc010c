\* Two users erase the same last character at once.
CONSTANTS
    c1 = c1 c2 = c2
    Client = {c1, c2}
    Letter <- MCLetter
    Writer = {c1}
    Node = {n1}
    None = None
    Wide = {}
    MaxTyped = 1
    MaxErased = 2
    MaxEntries = 3
    MaxFaults = 0
    Races = {"null"}
SPECIFICATION Spec
INVARIANTS
    QuietAtHead
CHECK_DEADLOCK FALSE
