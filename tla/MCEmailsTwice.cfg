\* One email whose send the SDK may repeat once.
CONSTANTS
    e1 = e1
    e2 = e2
    a1 = a1
    a2 = a2
    Emails = {e1}
    System = {}
    Copies = {}
    Topical = {}
    Addresses = {a1}
    RetryLimit = 0
    SdkAttempts = 2
    MaxReschedules = 0

SPECIFICATION Spec
CHECK_DEADLOCK FALSE

INVARIANT AtMostOnce
