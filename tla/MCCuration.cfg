CONSTANTS
    p1 = p1
    p2 = p2
    full = full
    footer = footer
    Pages <- MCPages
    ImageCount <- MCImageCount
    Unusable <- MCUnusable
    Texts <- MCTexts
    FooterOnly <- MCFooterOnly
    MaxRows = 4
    MaxVersion = 2
    MaxRender = 1
SPECIFICATION Spec
VIEW View
INVARIANTS
    TypeOK
    GatesCoverContent
    ApprovedIsComplete
    VisualsAreDistinct
    NoLostEdit
PROPERTIES
    SnapshotsAreFrozen
    ImplementsPageReview
