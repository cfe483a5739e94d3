CONSTANTS
    A = A
    B = B
    C = C
    Teams = {A, B, C}
    LastCheck = 1
    MaxDomains = 3
    MaxMoves = 2
    MaxWork = 2
    MaxChecks = 2
    MaxLookups = 2

SPECIFICATION Spec
SYMMETRY Symmetry
CHECK_DEADLOCK FALSE

INVARIANTS
    TypeOK
    OneOwner
    TransferIsProved
    LocksAreHeld
    ChecksGoOn
