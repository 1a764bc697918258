SPECIFICATION Spec
CONSTANTS
    None = None
    MaxRevisions = 1
    BankData <- Banks
    MessageSamples = {}
    Parsed <- ParseAs
    Written <- Transmitted
    Encoded <- Encode
    Compact <- CompactSegment
    Copies <- Saved
INVARIANTS
    BalancesAsTold
CHECK_DEADLOCK FALSE
