CONSTANTS
    u1 = u1
    k1 = k1
    NoUser = NoUser
    Users <- MCUsers
    Kickers <- MCKickers
    UserShard <- MCUserShard
    ConnShard <- MCConnShard
    MaxConns = 2
    NumShards = 2
    MaxU64 = 14
    PER_CORE_MBPS = 1
    PER_USER_KBPS = 1
    PER_SESSION_KB = 1
    MEM_BUDGET_PCT = 2
    FD_RESERVE_DEFAULT = 2
    FD_PER_SESSION = 2
    Kilo = 2
    Cent = 3
    CommandLines <- MCCommandLines
    Cpus <- MCCpus
    MemKb <- MCMemKb
    Nofile <- MCNofile
    Conns = {c1, c2, c3}
    MaxRequests = 1
SPECIFICATION MCFairSpec
INVARIANTS
    DrainedMeansGone
    NodeLeftUnasked
    ArgumentsFailFirst
    PermitsConserved
    FilesSuffice
PROPERTIES
    ShutdownEnds
    AcceptGoesOn
