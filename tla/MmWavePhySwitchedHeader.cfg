SPECIFICATION Spec
CONSTANTS
    Signals = {s1, s2}
    NoSignal = NoSignal
    PreambleDetection = 2
    PreambleRest = 1
    HeaderDuration = 1
    CcaEdThreshold = 2
    Powers <- MCPowers
    FrameDurations <- MCFrameDurations
    NoiseDurations <- MCNoiseDurations
    TxDurations <- MCTxDurations
    ChannelSwitchDelay = 2
    CanSwitch = TRUE
    CanInterrupt = FALSE
    Reactions <- MCReactions
    ListenerInit = 0
    Told <- MCTold
INVARIANTS
    NoAssertionFails
CHECK_DEADLOCK FALSE
