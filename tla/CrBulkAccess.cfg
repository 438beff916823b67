SPECIFICATION FairSpec
CONSTANTS
    Nodes <- MCTwoNodes
    Group = 9
    Sifs = 2
    Slot = 4
    DetectTx = 3
    HeadTx = 4
    MgtTx = 6
    DataTx = 6
    CountedTx <- MCExact
    MinBackoff = 4
    RxMargin = 1
    SeqModulus = 2
    MaxPackets <- MCTwoAndOne
    MaxBeacons <- MCOneOfSecond
    MaxExpired <- MCOneOfFirst
    MaxLosses = 1
INVARIANTS
    TypeOK
    WorkIsScheduled
    AckedWasReceived
    NothingVanishes
PROPERTIES
    AccessEnds
CHECK_DEADLOCK FALSE
