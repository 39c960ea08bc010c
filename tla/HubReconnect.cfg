\* A client that reconnects while its old connection lingers, and another.
CONSTANTS
    k1 = k1 k2 = k2 k3 = k3 c1 = c1 c2 = c2
    Conn = {k1, k2, k3}
    Client = {c1, c2}
    ClientOf <- TwoClients
    None = None
    Capacity = 1
    MaxEntries = 1
    MaxMessages = 0
    Leaders = {"self"}
SYMMETRY SymmetryReconnect
SPECIFICATION Spec
INVARIANTS
    TypeOK
    NoSendOnClosedChannel
CHECK_DEADLOCK FALSE
