CONSTANTS
    speaker = speaker
    Session = {speaker}
    NoSession = NoSession
    BusyMode = FALSE
    BusyTimeout = 0
    TransmitTimeout = 5
    CountdownLead = 2
    NoticeGap = 3
    Hangover = 3
    EofTimeout = 4
    InputCap = 2
    MaxBuffered = 2
SPECIFICATION LimitSpec
PROPERTY AirtimeBounded
PROPERTY StopNoticesThrottled
