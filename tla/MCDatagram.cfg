CONSTANTS
    MAX_MMSG = 2
    MaxBatch = 5
    QueueCap = 3
    ByteVals = {1, 2}
    MaxWrite = 2
    WordBits = 4
    MaxLen = 5
SPECIFICATION MCSpec
INVARIANT
    ResultExact
PROPERTIES
    CallReturns
    PayloadKept
