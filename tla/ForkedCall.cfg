SPECIFICATION Spec
CONSTANTS
    A = A
    B = B
    Stranger = Stranger
    None = None
    Mode = "DHM"
    Hvi <- MCHvi
    InitialSeq = 1
    HelloMax = 1
    NonHelloMax = 0
    FiringCounts = 4
    Signalled = {A}
    StrayPackets <- MCStrayUntilDHPart2
    MaxFaults = 0
    MaxResets = 0
INVARIANTS SentMediaDecryptable OnlySignalledPeer
CHECK_DEADLOCK FALSE
