SPECIFICATION FairSpec
CONSTANTS
    A = A
    B = B
    Stranger = Stranger
    None = None
    Mode = "Mult"
    Hvi <- MCHvi
    InitialSeq = 1
    HelloMax = 1
    NonHelloMax = 0
    FiringCounts = 4
    Signalled = {}
    StrayPackets <- MCNoStrayPackets
    MaxFaults = 1
    MaxResets = 0
INVARIANTS RolesComplementary SentMediaDecryptable
PROPERTIES LowestHviYields InstallsSrtpKeys BothSecure
CHECK_DEADLOCK FALSE
