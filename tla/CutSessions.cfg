\* One device; five sessions: one that completes, two that are cut, one with
\* the mismatch these lead to, and the one after it.
CONSTANTS
    Caller = Caller
    Devices = {D1}
    None = None
    MaxSessions = 5
SPECIFICATION Spec
INVARIANTS
    TypeOK
    SameS0
    NoFalseMismatch
    VerifiedMeansConfirmed
    PvsFollowsSecret
\* After the last session nobody calls any more.
CHECK_DEADLOCK FALSE
