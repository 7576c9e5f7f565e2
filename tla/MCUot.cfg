CONSTANTS
    PADDING_FRAMES = 7
    MaxPackets = 2
    MaxDatagrams = 3
SPECIFICATION MCFairSpec
INVARIANTS
    DownloadExact
    FinEndsPacket
PROPERTY
    OneStopsBoth
