\* What a comment of the code says: ConnectAckIsCurrent.
CONSTANTS
    k1 = k1 k2 = k2 k3 = k3 c1 = c1 c2 = c2
    Conn = {k1, k2, k3}
    Client = {c1, c2}
    ClientOf <- TwoClients
    None = None
    Capacity = 2
    MaxEntries = 2
    MaxMessages = 0
    Leaders = {"self"}
SPECIFICATION Spec
INVARIANT ConnectAckIsCurrent
CHECK_DEADLOCK FALSE
