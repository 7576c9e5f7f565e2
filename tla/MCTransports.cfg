CONSTANTS
    BRIDGE_BUF = 2
    Capacity = 3
    MaxBytes = 5
    H3Bytes = 3
    MaxChunk = 2
    MaxFrames = 2
    MaxIdle = 1
SPECIFICATION MCFairSpec
INVARIANTS
    BridgeFaithful
PROPERTIES
    DownloadFlows
    BridgeEnds
    UploadIsStream
    DownloadIsStream
