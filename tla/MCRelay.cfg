CONSTANTS
    BufSize = 2
    MaxBytes = 3
    IdleWindow = 3
    TicksPerSec = 2
    SuppressUp = FALSE
SPECIFICATION MCFairSpec
INVARIANTS
    StreamIntact
    StatsExact
    IdleMeansSilent
PROPERTY
    SilentRelayEnds
