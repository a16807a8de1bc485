CONSTANTS
    ui = ui
    mic = mic
    Caller = {ui, mic}
    UiOps = {"Open", "VoiceEnd", "Close", "Abort"}
    MicOps = {"Pcm"}
    Submits <- MCSubmits
    Waiters = {ui}
    Capacity = 1
    Backlog = 2
SPECIFICATION FairSpec
INVARIANT TypeOK
INVARIANT TxStateAgrees
INVARIANT VoiceIsClosed
CHECK_DEADLOCK FALSE
PROPERTY WorkNotStranded
PROPERTY SilenceEndsTx
PROPERTY TeardownOfRunningEnds
