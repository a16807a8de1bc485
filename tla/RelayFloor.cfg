CONSTANTS
    s1 = s1
    s2 = s2
    Session <- TwoSessions
    NoSession = NoSession
    BusyMode = TRUE
    BusyTimeout = 3
    TransmitTimeout = 0
    CountdownLead = 0
    NoticeGap = 1
    Hangover = 2
    EofTimeout = 3
    InputCap = 1
    MaxBuffered = 0
SPECIFICATION HSpec
SYMMETRY Sym
INVARIANT TypeOK
PROPERTY FloorRefinement
PROPERTY RefusalJustified
