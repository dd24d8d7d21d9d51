SPECIFICATION Spec
CONSTANTS
    A = A
    B = B
    None = None
    ListSize = 3
    Available <- MCAvailable
    Requests <- MCRequests
INVARIANTS TypeOK ListsSurviveHello HelloAccepted CrossingCommitsAgree UsesSupported PostQuantumStrength
\* After the roles are settled the algorithms do not change any more.
CHECK_DEADLOCK FALSE
