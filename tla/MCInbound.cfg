\* One message, small or over the limit, two rows of it, two transfers in all, of
\* one attempt each, and two attempts of a parse.
CONSTANTS
    m1 = m1
    Messages = {m1}
    Rows = {1, 2}
    MessageOf <- AllOfOne
    TransferAttempts = 1
    ParseAttempts = 2
    MaxTransfers = 2

SPECIFICATION Spec
CHECK_DEADLOCK FALSE

INVARIANTS
    TypeOK
    MailKept
    ReceivedOnce
    FilesAccounted
