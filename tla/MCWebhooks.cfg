\* The fan-out: two endpoints on pages of one listener, edited, removed and
\* disabled between the pages.
CONSTANTS
    h1 = h1
    h2 = h2
    m1 = m1
    Hooks = {h1, h2}
    Events = {m1}
    PageSize = 1
    AttemptLimit = 1
    MaxPlaces = 3
    MaxReplays = 0
    MaxCrashes = 0
    MayRetire = FALSE

SPECIFICATION SchedulerSpec
CHECK_DEADLOCK FALSE

INVARIANTS
    TypeOK
    EachListenerOnce

PROPERTIES
    EventFannedOut
