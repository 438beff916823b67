SPECIFICATION Spec
CONSTANTS
    Nodes <- MCTwoNodes
    Group = 9
    Sifs = 2
    Slot = 4
    DetectTx = 3
    HeadTx = 4
    MgtTx = 6
    DataTx = 6
    CountedTx <- MCGroupShort
    MinBackoff = 4
    RxMargin = 1
    SeqModulus = 2
    MaxPackets <- MCTwoEach
    MaxBeacons <- MCNone
    MaxExpired <- MCNone
    MaxLosses = 1
INVARIANTS
    NoAckOwedWhenAsked
CHECK_DEADLOCK FALSE
