CONSTANTS
    Documents = {d1, d2}
    Versions = {v1, v2, v3}
    Workers = {w1, w2}
    None = None
    MaxAttempts = 2
    Steps = 1
SPECIFICATION Spec
SYMMETRY Symmetry
INVARIANTS
    TypeOK
    JobMatchesVersion
    OneActiveIngestionPerDocument
    CurrentIsLatestReady
PROPERTIES
    StaleClaimIsHarmless
    ImplementsVersionLifecycle
