CONSTANTS
    V4 = {a, b}
    V6 = {c}
    Private = {b}
    MaxAnswer = 2
    Files <- MCFiles
    ConnectTimeout = 5
SPECIFICATION MCFairSpec
INVARIANTS
    OnlyCheckedAddresses
    LiveAddressReached
    OptionsHonoured
PROPERTY
    ConnectEnds
