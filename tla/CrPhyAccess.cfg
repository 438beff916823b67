SPECIFICATION Spec
CONSTANTS
    Signals = {s1, s2}
    NoSignal = NoSignal
    PreambleDetection = 2
    PreambleRest = 1
    HeaderDuration = 1
    CcaEdThreshold = 2
    Powers <- MCPowers
    FrameDurations <- MCFrameDurations
    NoiseDurations <- MCNoiseDurations
    TxDurations <- MCTxDurations
    ChannelSwitchDelay = 2
    CanSwitch = TRUE
    Sifs = 1
    Slot = 1
    BulkWindow = 1
    K = 1
    NavDurations <- MCNavDurations
INVARIANTS
    TypeOK
    ManagerKnowsPhy
    RequestWaitsForPhy
    ResponseIsSent
    CallsAreAccepted
PROPERTIES
    UsesPhyAsAllowed
CHECK_DEADLOCK FALSE
