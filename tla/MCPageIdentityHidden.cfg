CONSTANTS
    Versions = {v1, v2, v3}
    Numbers <- MCNumbers
    Decks <- MCMoreDecks
    Verdicts = {}
    None = None
SPECIFICATION Spec
SYMMETRY Symmetry
CHECK_DEADLOCK FALSE
INVARIANTS
    HiddenPagesCanBeEnabled
