CONSTANTS
    MinPackets = 1
    MaxPackets = 2
    KeepFloor = 3
    KeepPerStart = 2
    JitterAdapt = TRUE
    ConcealThreshold = 2
    StableTicks = 2
    BurstGap = 2
    SettleWindow = 2
    EofTimeout = 4
    MaxSeq = 4
    Reorder = 2
    Loss = 1
SPECIFICATION HFairSpec
INVARIANT TypeOK
INVARIANT DecoderFreshAfterEOF
PROPERTY PlayoutOrdered
PROPERTY LossNeverStalls
PROPERTY SilentSpeakerForgotten
