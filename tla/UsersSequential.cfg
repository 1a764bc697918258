CONSTANTS
    Users = {u1, u2}
    Emails = {e1, e2}
    Admins = {a1}
    Requests = {r1}
    Prefix <- OwnPrefix
    NoEmail = NoEmail
    MaxKeys = 4

SPECIFICATION Spec
SYMMETRY Symmetry
INVARIANTS
    RevokedKeyRejected
    MailedKeyIsCurrent
PROPERTY
    ImplementsLifecycle
CHECK_DEADLOCK FALSE
