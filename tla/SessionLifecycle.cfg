CONSTANTS
    Ws = ws
    IoWorker = {udp}
    App = app
    Callback = callback
    MaxAttempt = 2
SPECIFICATION FairSpec
CHECK_DEADLOCK FALSE
INVARIANT ThreadStartSafe
INVARIANT ConnectedIsServed
INVARIANT DisconnectedOnce
INVARIANT CleanupJoinsWorkers
PROPERTY ReleasedStaysDown
PROPERTY ClosedIsDestroyed
