SPECIFICATION FairSpec
CONSTANTS
    A = A
    B = B
    Stranger = Stranger
    None = None
    Mode = "DHM"
    Hvi <- MCHvi
    InitialSeq = 1
    HelloMax = 1
    NonHelloMax = 0
    FiringCounts = 4
    Signalled = {}
    StrayPackets <- MCNoStrayPackets
    MaxFaults = 1
    MaxResets = 0
PROPERTIES BothSecure
CHECK_DEADLOCK FALSE
