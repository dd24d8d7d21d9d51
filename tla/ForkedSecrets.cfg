\* Two devices under one URI; a session with each of them, one in which the
\* Hello of the wrong one arrives first, and the one after it.
CONSTANTS
    Caller = Caller
    Devices = {D1, D2}
    None = None
    MaxSessions = 4
SYMMETRY DeviceSymmetry
SPECIFICATION Spec
INVARIANTS
    SameS0
    VerifiedMeansConfirmed
    PvsFollowsSecret
\* After the last session nobody calls any more.
CHECK_DEADLOCK FALSE
