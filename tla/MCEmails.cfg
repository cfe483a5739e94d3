\* One team email to two addresses, with a topic and a reservation, a retry, a
\* reschedule and crashes anywhere, under the fairness of the scheduler and the pool.
CONSTANTS
    e1 = e1
    e2 = e2
    a1 = a1
    a2 = a2
    Emails = {e1}
    System = {}
    Copies = {}
    Topical = {e1}
    Addresses = {a1, a2}
    RetryLimit = 1
    SdkAttempts = 1
    MaxReschedules = 1

SPECIFICATION FairSpec
CHECK_DEADLOCK FALSE

INVARIANTS
    TypeOK
    AcceptedOnce
    WithheldMeansUnsent
    OneCarrier
    ChargedOnce

PROPERTIES
    EmailsSettle
