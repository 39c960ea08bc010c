\* Two servers and two users, one of whom only erases; leaders change under connected
\* pages, which miss any number of revisions; fair.
CONSTANTS
    c1 = c1 c2 = c2
    Client = {c1, c2}
    Letter <- MCLetter
    Writer = {c1}
    Node = {n1, n2}
    None = None
    Wide = {}
    MaxTyped = 1
    MaxErased = 1
    MaxEntries = 4
    MaxFaults = 3
    Races = {"behind", "deposed"}
SPECIFICATION FairSpec
INVARIANTS
    BaseIsRevision
    PendingFits
PROPERTIES
    EditorsConverge
CHECK_DEADLOCK FALSE
