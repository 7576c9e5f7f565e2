CONSTANTS
    PADDING_FRAMES = 3
    Radix = 2
    MaxBytes = 6
    MaxChunk = 4
SPECIFICATION MCFairSpec
INVARIANTS
    InStep
PROPERTY
    ByteStreamSpec
    AllDecoded
