CONSTANTS
    Versions = {v1, v2, v3}
    Numbers <- MCNumbers
    Decks <- MCDecks
    Verdicts = {"approved"}
    None = None
SPECIFICATION Spec
SYMMETRY Symmetry
CHECK_DEADLOCK FALSE
INVARIANTS
    TypeOK
    OnePagePerVersion
    ReviewsAreEarned
    NoReviewResurrected
PROPERTIES
    KnownContentKeepsItsPage
    DecisionsStand
