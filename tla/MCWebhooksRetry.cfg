\* The attempts: retries, a replay, an action that dies anywhere, an endpoint
\* disabled by its user or by the clock and enabled again, a deleted team.
CONSTANTS
    h1 = h1
    h2 = h2
    m1 = m1
    Hooks = {h1}
    Events = {m1}
    PageSize = 2
    AttemptLimit = 2
    MaxPlaces = 3
    MaxReplays = 1
    MaxCrashes = 1
    MayRetire = TRUE

SPECIFICATION PoolSpec
CHECK_DEADLOCK FALSE

INVARIANTS
    EachAttemptOnce
    VerdictIsEarned
    ClockIsCurrent

PROPERTIES
    DeliveryEnds
