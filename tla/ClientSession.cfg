SPECIFICATION Spec
CONSTANTS
    None = None
    MaxRevisions = 1
    BankData <- Banks
    MessageSamples <- Messages
    Parsed <- ParseAs
    Written <- Transmitted
    Encoded <- Encode
    Compact <- CompactSegment
    Copies <- Saved
INVARIANTS
    TypeOK
    WireAsSpecified
    RestoredIfCompact
    StoresActAsSent
    ListedAccountsAreFound
    BalancesOfTheirAccounts
    ContinuedInKind
CHECK_DEADLOCK FALSE
