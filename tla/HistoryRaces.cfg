CONSTANTS
    Handlers = {h1, h2}
    Pages = 3
    MaxPages = 2
    MaxAsked = 2
    MaxLost = 1
    MaxNumber = 6
    None = None

SPECIFICATION Spec
SYMMETRY Symmetry
INVARIANTS
    TypeOK
    CompleteIsWhole
    PartialIsCut
    SnapshotAgrees
    DialogsEnd
PROPERTIES
    ContinuationsAreFree
    ImplementsFeed
CHECK_DEADLOCK FALSE
