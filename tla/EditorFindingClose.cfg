\* A redirected page gets the close event of its old socket late.
CONSTANTS
    c1 = c1 c2 = c2
    Client = {c1, c2}
    Letter <- MCLetter
    Writer = {c1}
    Node = {n1, n2}
    None = None
    Wide = {}
    MaxTyped = 1
    MaxErased = 0
    MaxEntries = 4
    MaxFaults = 1
    Races = {"close"}
SPECIFICATION FairSpec
PROPERTIES
    EditorsConverge
CHECK_DEADLOCK FALSE
