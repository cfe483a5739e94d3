\* Four requests under one key, one with another payload, over two days.
CONSTANTS
    r1 = r1
    r2 = r2
    r3 = r3
    r4 = r4
    NoRequest = NoRequest
    Requests = {r1, r2, r3, r4}
    Hash <- OneOther
    MaxWindows = 1

SPECIFICATION Spec
CHECK_DEADLOCK FALSE

INVARIANTS
    TypeOK
    OwnReply

PROPERTIES
    KeepsPromise
