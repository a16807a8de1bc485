CONSTANTS
    ws = ws
    udp = udp
    dial = dial
    user = user
    exit = exit
    Ws = ws
    Udp = udp
    Dialler = dial
    Closer <- MCCloser
SPECIFICATION FairSpec
CHECK_DEADLOCK FALSE
INVARIANT CountedCallsFinish
PROPERTY BindingGoesWithSession
