CONSTANTS
    None = None
    Number = Number
    Subgraphs <- MCSubgraphs
    MaxSubgraphs = 2
SPECIFICATION Spec
INVARIANTS
    TypeOK
    JoinTypeGraphsExact
    FieldNamesUnion
    JoinFieldOnNonKeyFields
    ExecutableDirectivesFirstWriter
    MembershipsAttributed
    JoinDirectivesDecode
    StubArgumentsKept
    ContextArgumentsDecodeStrictly
CHECK_DEADLOCK FALSE
