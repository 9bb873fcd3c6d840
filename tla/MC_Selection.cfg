CONSTANTS
    None = None
    Schema <- MCSchema
    Inputs <- MCInputs
    SelectionSets <- MCSelectionSets
    CurrentTypes <- MCCurrentTypes
SPECIFICATION Spec
INVARIANTS
    TypeOK
    Idempotent
    ProjectionExact
    NullOnlyForMissingData
    FragmentsApplyToRuntimeType
    SubgraphErrorsFromValue
    CompletionErrorsTolerant
CHECK_DEADLOCK FALSE
