CONSTANTS
    Objects = {o1}
    Writers = {w1}
    Editors = {e1}
    Tokens = {t1, t2}
    None = None
    Lease = 1
    Grace = 2
    Wait = 1
SPECIFICATION FairSpec
INVARIANTS
    TypeOK
    LiveWritesAreStored
    BackupFindsItsObjects
PROPERTIES
    ReferencesKeepTheirBytes
    EditEnds
