CONSTANTS
    None = None
    Manifests <- MCManifests
    Requests <- ExecutableRequests
    Modes <- MCModes
SPECIFICATION Spec
INVARIANTS
    TypeOK
    DecisionMatchesManifest
