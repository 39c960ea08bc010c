\* A page connects again after it missed two revisions.
CONSTANTS
    c1 = c1 c2 = c2
    Client = {c1, c2}
    Letter <- MCLetter
    Writer = {c1}
    Node = {n1}
    None = None
    Wide = {}
    MaxTyped = 3
    MaxErased = 1
    MaxEntries = 3
    MaxFaults = 1
    Races = {"behind"}
SPECIFICATION Spec
INVARIANTS
    LocalFits
CHECK_DEADLOCK FALSE
