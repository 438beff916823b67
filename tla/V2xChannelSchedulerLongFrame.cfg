SPECIFICATION Spec
CONSTANTS
    cch = cch
    s1 = s1
    s2 = s2
    Cch = cch
    Services <- MCServices
    Extends = {1, 2}
    Cchi = 6
    Schi = 5
    Guard = 3
    SwitchDelay = 2
    TxTimes = {1, 4}
    MaxLate = 2
INVARIANTS
    NotSentIntoSwitch
CHECK_DEADLOCK FALSE
