SPECIFICATION Spec
CONSTANTS
    A = A
    B = B
    Stranger = Stranger
    None = None
    Mode = "DHM"
    Hvi <- MCHvi
    InitialSeq = 1
    HelloMax = 1
    NonHelloMax = 0
    FiringCounts = 4
    Signalled = {}
    StrayPackets <- MCNoStrayPackets
    MaxFaults = 1
    MaxResets = 1
INVARIANTS TypeOK RolesComplementary SentMediaDecryptable InitiatorCachesLast NeverStalled
PROPERTIES LowestHviYields InstallsSrtpKeys
CHECK_DEADLOCK FALSE
