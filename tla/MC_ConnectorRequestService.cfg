CONSTANTS
    None = None
    r1 = r1
    r2 = r2
    products = products
    rest = rest
    legacy = legacy
    Requests <- MCRequests
    Connectors <- MCConnectors
    HttpClients <- MCHttpClients
    BufferSize = 1
SPECIFICATION Spec
INVARIANTS
    TypeOK
    CounterCountsAttempts
    LoggedExactlyAdmitted
PROPERTIES
    ImplementsConnectorRequests
CHECK_DEADLOCK FALSE
