SPECIFICATION FairSpec
CONSTANTS
    A = A
    B = B
    Channels = {c1, c2}
    None = None
    NonHelloMax = 0
    ClearAckMax = 0
    MaxCalls = 2
    MaxFirings = 4
    MaxFaults = 0
PROPERTY GoClearCompletes
CHECK_DEADLOCK FALSE
