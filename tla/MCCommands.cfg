CONSTANTS
    Documents = {d1, d2}
    Versions = {v1, v2, v3}
    Workers = {w1}
    None = None
    MaxAttempts = 1
    Steps = 0
    Keys = {k1}
    Slots <- AllSlots
    Bodies = {b1, b2}
SPECIFICATION CommandsSpec
SYMMETRY Symmetry
INVARIANTS
    CarriedOutOnce
    AnswersRepeat
    AnswersNameTheFile
