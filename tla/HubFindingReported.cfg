\* What a comment of the code says: FailedSubmitIsReported.
CONSTANTS
    k1 = k1 k2 = k2 k3 = k3 c1 = c1 c2 = c2
    Conn = {k1, k3}
    Client = {c1, c2}
    ClientOf <- OneEach
    None = None
    Capacity = 2
    MaxEntries = 1
    MaxMessages = 1
    Leaders = {"self"}
SPECIFICATION Spec
PROPERTY FailedSubmitIsReported
CHECK_DEADLOCK FALSE
