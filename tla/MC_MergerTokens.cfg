CONSTANTS
    None = None
    Names <- DistinctTokenNames
    Subgraphs <- MCSubgraphs
    MaxSubgraphs = 3
SPECIFICATION Spec
INVARIANTS
    FailsOnlyOnInvalidNames
    JoinDefinitionsReadable
    JoinGraphOnePerSubgraph
PROPERTIES
    BootstrapIntact
CHECK_DEADLOCK FALSE
