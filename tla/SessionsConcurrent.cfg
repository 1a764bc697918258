SPECIFICATION Spec
CONSTANTS
    Operations = {op1}
    Consumers = {alice, bob}
    Pollers = {p1, p2}
    None = None
    Ttl = 2
    BankWindow = 3
    Grace = 1
    MaxTime = 5
    OnePollAtATime = FALSE
SYMMETRY Symmetry
INVARIANTS
    TypeOK
    StoredSessionIsReadable
    CompletedWasApproved
    OnlyOwnerIsTold
    GraceIsKept
PROPERTIES
    ExpiryAnchored
