\* Requests of one client, on a node that may or may not lead, while another
\* entry is broadcast.
CONSTANTS
    k1 = k1 k2 = k2 k3 = k3 c1 = c1 c2 = c2
    Conn = {k1, k3}
    Client = {c1, c2}
    ClientOf <- OneEach
    None = None
    Capacity = 1
    MaxEntries = 1
    MaxMessages = 1
    Leaders = {"self", "other", "unknown"}
SPECIFICATION FairSpec
INVARIANTS
    EveryRevisionSent
PROPERTIES
    CallbacksEnd
    DisconnectsEnd
