CONSTANTS
    None = None
    Subgraphs <- MCSubgraphs
    MaxSubgraphs = 2
SPECIFICATION Spec
INVARIANTS
    JoinFieldOnNonKeyFields
CHECK_DEADLOCK FALSE
