CONSTANTS
    MaxSession = 2
    Slots = 2
SPECIFICATION FairSpec
CHECK_DEADLOCK FALSE
INVARIANT OnlyFatalEventsForget
PROPERTY LostIsReconnected
