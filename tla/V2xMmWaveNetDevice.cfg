SPECIFICATION FairSpec
CONSTANTS
    n1 = n1
    n2 = n2
    n3 = n3
    Nodes = {n1, n2, n3}
    Group = Group
    TxDuration = 7
    BeaconTx = 2
    BeaconAckTx = 1
    Sifs = 1
    Slot = 0
    HeadTx = 1
    DataTx = 2
    AckTx = 2
    Flows <- Half
    MaxPackets <- ThreeAndOne
    MaxLosses = 0
INVARIANTS
    TypeOK
    NoAssertionFails
    AgreementsApart
    AgreementsAreWatched
    ExchangeFitsPeriod
    SentInOrder
    AckedWasReceived
PROPERTY QueuesAreEmptied
