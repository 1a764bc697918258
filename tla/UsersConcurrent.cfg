CONSTANTS
    Users = {u1, u2}
    Emails = {e1, e2}
    Admins = {a1, a2}
    Requests = {r1}
    Prefix <- SamePrefix
    NoEmail = NoEmail
    MaxKeys = 2

SPECIFICATION Spec
SYMMETRY Symmetry
INVARIANTS
    TypeOK
    EmailsUnique
    RowsReadable
    MailedKeyWasStored
    AcceptedAsOwner
CHECK_DEADLOCK FALSE
