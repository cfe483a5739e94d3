\* A broadcast to three addresses, one contact a page, two pages a workflow.
CONSTANTS
    a1 = a1
    a2 = a2
    a3 = a3
    Addresses = {a1, a2, a3}
    Oldest <- InOrder
    PageSize = 1
    Pages = 2
    MaxSends = 3
    MaxMoves = 2

SPECIFICATION FairSpec
CHECK_DEADLOCK FALSE

INVARIANTS
    TypeOK
    AudienceReached
    VerdictIsTrue
    CarriedOnce

PROPERTIES
    BroadcastEnds
