CONSTANTS
    None = None
    Schema <- MCSchema
    FieldSets <- MCFieldSets
SPECIFICATION Spec
INVARIANTS
    TypeOK
    AliasesRejected
    CollectsEveryField
    DirectiveApplicationsComplete
CHECK_DEADLOCK FALSE
