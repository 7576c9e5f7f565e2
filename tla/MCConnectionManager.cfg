CONSTANTS
    u1 = u1
    u2 = u2
    k1 = k1
    NoUser = NoUser
    Users <- MCUsers
    Kickers <- MCKickers
    UserShard <- MCUserShard
    ConnShard <- MCConnShard
    MaxConns = 3
    NumShards = 2
SPECIFICATION MCSpec
INVARIANTS
    IndexAgrees
    KickReaches
    SweepReaches
    NoCollateral
PROPERTY
    ContractSpec
