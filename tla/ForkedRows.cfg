\* As ForkedSecrets, with a session with each device and no other.
CONSTANTS
    Caller = Caller
    Devices = {D1, D2}
    None = None
    MaxSessions = 2
SPECIFICATION Spec
INVARIANT RowsHoldPeersSecrets
CHECK_DEADLOCK FALSE
