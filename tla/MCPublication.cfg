CONSTANTS
    Candidates = {c1, c2}
    Workers = {w1, w2}
    States <- MCStates
    Content <- MCContent
    None = None
    MaxAttempts = 2
    MaxRuns = 2
    Phases = 1
SPECIFICATION Spec
SYMMETRY Symmetry
INVARIANTS
    TypeOK
    CandidateMatchesJob
    CurrentIsKept
PROPERTIES
    ConfirmedAsShown
    ImplementsReleaseLog
