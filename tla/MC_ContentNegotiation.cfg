CONSTANTS
    None = None
    Requests <- MCRequests
SPECIFICATION Spec
INVARIANTS
    TypeOK
    RejectionStatus
    ContentTypeAcceptable
CHECK_DEADLOCK FALSE
