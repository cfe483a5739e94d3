\* Two recipients and one retry.
CONSTANTS
    e1 = e1
    e2 = e2
    a1 = a1
    a2 = a2
    Emails = {e1}
    System = {}
    Copies = {}
    Topical = {}
    Addresses = {a1, a2}
    RetryLimit = 1
    SdkAttempts = 1
    MaxReschedules = 0

SPECIFICATION Spec
CHECK_DEADLOCK FALSE

INVARIANT DroppedNotSent
