CONSTANTS
    QueueCap = 2
    BlockThreshold = 2
SPECIFICATION PttFairSpec
CHECK_DEADLOCK FALSE
PROPERTY ExitIsNotBlocked
