SPECIFICATION Spec
CONSTANTS
    A = A
    B = B
    Channels = {c1, c2}
    None = None
    NonHelloMax = 0
    ClearAckMax = 0
    MaxCalls = 2
    MaxFirings = 1
    MaxFaults = 1
SYMMETRY ChannelSymmetry
INVARIANTS TypeOK SessionsInStep SecureAlike StatusTellsKeys
 
\* Nobody has to leave clear mode.
CHECK_DEADLOCK FALSE
