CONSTANTS
    u1 = u1
    u2 = u2
    k1 = k1
    s1 = s1
    s2 = s2
    v1 = v1
    v2 = v2
    NoUser = NoUser
    NoUuid = NoUuid
    Kickers <- OneKicker
    Streams <- TwoStreams
    Users <- OneUser
    Versions <- TwoVersions
    UserShard <- MCUserShard
    ConnShard <- MCConnShard
    Kinds <- TcpAndUotV2
    MaxConns = 2
    NumShards = 1
    MaxDiffs = 1
    MaxBytes = 1
SPECIFICATION MCFairSpec
INVARIANTS
    RegistryTracksTunnels
    StaleKicked
    UsageAccounted
PROPERTIES
    KickEnds
    RegisterReturns
