\* A server notices the end of a connection after the page has made the next one.
CONSTANTS
    c1 = c1 c2 = c2
    Client = {c1, c2}
    Letter <- MCLetter
    Writer = {c1}
    Node = {n1}
    None = None
    Wide = {}
    MaxTyped = 1
    MaxErased = 0
    MaxEntries = 2
    MaxFaults = 1
    Races = {"removal"}
SPECIFICATION FairSpec
PROPERTIES
    EditorsConverge
CHECK_DEADLOCK FALSE
