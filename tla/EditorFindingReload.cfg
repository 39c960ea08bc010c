\* A page is loaded again while a submission is outstanding.
CONSTANTS
    c1 = c1 c2 = c2
    Client = {c1, c2}
    Letter <- MCLetter
    Writer = {c1, c2}
    Node = {n1}
    None = None
    Wide = {}
    MaxTyped = 1
    MaxErased = 0
    MaxEntries = 4
    MaxFaults = 1
    Races = {"reload"}
SPECIFICATION Spec
INVARIANTS
    QuietShowsHead
CHECK_DEADLOCK FALSE
