\* One server and two users, who type a character each and may erase the same rest
\* of the text at once; connections end, noticed at once or later, the node loses its
\* leadership and restarts, proposals are lost and pages are loaded again.
CONSTANTS
    c1 = c1 c2 = c2
    Client = {c1, c2}
    Letter <- MCLetter
    Writer = {c1, c2}
    Node = {n1}
    None = None
    Wide = {}
    MaxTyped = 1
    MaxErased = 2
    MaxEntries = 4
    MaxFaults = 2
    Races = {"removal", "null"}
SPECIFICATION Spec
INVARIANTS
    TypeOK
    LocalFits
    SubmissionsFit
    QuietShowsHead
    OwnTextStays
    OwnTextOnce
    NewSubmissionIsNew
CHECK_DEADLOCK FALSE
