\* Fragments of 12 bytes at most.
SPECIFICATION FairSpec
CONSTANTS
    MessageLength <- MCMessageLength
    AskedMtu = 36
    MinimumMtu = 28
    InitialSeq = 1
    MaxSends <- MCMaxSends
    MaxFaults = 1
    Garbage = Garbage
INVARIANTS TypeOK ReassembledIntact FragmentsInPlace
PROPERTIES LastMessageArrives
\* After the last retransmission nothing is sent any more.
CHECK_DEADLOCK FALSE
