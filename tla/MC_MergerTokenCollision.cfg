CONSTANTS
    None = None
    Names <- CollidingNames
    Subgraphs <- MCSubgraphs
    MaxSubgraphs = 2
SPECIFICATION Spec
INVARIANTS
    JoinGraphOnePerSubgraph
CHECK_DEADLOCK FALSE
