\* One user types a character that UTF-8 encodes in two bytes.
CONSTANTS
    c1 = c1 c2 = c2
    Client = {c1, c2}
    Letter <- MCLetter
    Writer = {c1, c2}
    Node = {n1}
    None = None
    Wide = {1}
    MaxTyped = 1
    MaxErased = 0
    MaxEntries = 4
    MaxFaults = 0
    Races = {}
SPECIFICATION Spec
INVARIANTS
    SubmissionsFit
CHECK_DEADLOCK FALSE
