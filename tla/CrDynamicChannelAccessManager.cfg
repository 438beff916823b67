SPECIFICATION Spec
CONSTANTS
    Sifs = 1
    Slot = 1
    BulkWindow = 2
    BeaconWindow = 1
    K = 2
    MaxDuration = 1
    Neighbors <- MCNeighbors
INVARIANTS
    TypeOK
    PendingAfterGrantStart
    QuietBeforeGrant
    RotationStaysInRange
PROPERTIES
    PendingKeepsPriority
