CONSTANTS
    Documents = {d1}
    Versions = {v1, v2}
    Workers = {w1, w2}
    None = None
    MaxAttempts = 2
    Steps = 1
SPECIFICATION FairSpec
PROPERTIES
    ProcessingEnds
