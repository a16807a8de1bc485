CONSTANTS
    c1 = c1
    c2 = c2
    Client = {c1, c2}
    NoClient = NoClient
    BusyMode = TRUE
    ParallelUnlock = TRUE
    MayFail = TRUE
SPECIFICATION HFairSpec
INVARIANT TypeOK
INVARIANT LockAgreement
INVARIANT SessionAgreement
INVARIANT SessionReachesEveryone
PROPERTY LockedClientsAreReleased
