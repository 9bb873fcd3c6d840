CONSTANTS
    None = None
    Manifests <- MCManifests
    Requests <- RequestsWithTypes
    Modes <- MCModes
SPECIFICATION Spec
INVARIANTS
    DecisionMatchesManifest
