SPECIFICATION Spec
CONSTANTS
    A = A
    B = B
    None = None
    ListSize = 3
    Available <- MCAvailable
    Requests <- MCRequests
INVARIANT SecretIdsComparable
\* After the roles are settled the algorithms do not change any more.
CHECK_DEADLOCK FALSE
