SPECIFICATION FairSpec
CONSTANTS
    Signals = {s1, s2, s3}
    NoSignal = NoSignal
    PreambleDetection = 2
    PreambleRest = 1
    HeaderDuration = 1
    CcaEdThreshold = 2
    Powers <- MCPowers
    FrameDurations <- MCFrameDurations
    NoiseDurations <- MCNoiseDurations
    TxDurations <- MCTxDurations
    ChannelSwitchDelay = 2
    CanSwitch = FALSE
    CanInterrupt = TRUE
    Reactions <- MCReactions
    ListenerInit = 0
    Told <- MCTold
INVARIANTS
    TypeOK
    NoAssertionFails
    OneReception
    BusyMeansReceiving
PROPERTIES
    EveryReceptionEnds

