SPECIFICATION FairSpec
CONSTANTS
    MaxEntries = 4
CHECK_DEADLOCK FALSE
INVARIANT
    TypeOK
PROPERTIES
    OnlyBrokenStreamsLose
    SignalStops
    KeepsReconnecting
