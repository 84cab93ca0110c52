CONSTANTS
    Candidates = {c1, c2}
    Workers = {w1, w2}
    States <- MCTwoStates
    Content <- MCTwoContents
    None = None
    MaxAttempts = 2
    MaxRuns = 1
    Phases = 1
SPECIFICATION FairSpec
PROPERTIES
    PublicationEnds
    FollowerCatchesUp
