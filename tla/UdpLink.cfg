CONSTANTS
    NoReport = 256
    Timing <- MCTiming
    RecoveryWindow = 2
    Jitter = 1
    SentCap = 8
    WaitCap = 5
    MaxFlight = 2
SPECIFICATION Spec
CHECK_DEADLOCK FALSE
INVARIANT TypeOK
PROPERTY LossIsDeserved
PROPERTY SilentLinkIsLost
