CONSTANTS
    Handlers = {h1}
    Pages = 2
    MaxPages = 2
    MaxAsked = 2
    MaxLost = 0
    MaxNumber = 6
    None = None

SPECIFICATION Spec
INVARIANTS
    NothingSilentlyLost
CHECK_DEADLOCK FALSE
