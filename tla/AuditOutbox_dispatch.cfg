SPECIFICATION ChainFairSpec
CONSTANTS
    Rows <- MCRows
    Ticks = {t1, t2}
    Nobody = nobody
    BatchSize = 2
    MaxRetries = 3
    MaxFaults = 2
INVARIANTS
    ChainTypeOK
    CopiedOnce
    ChainVerifies
PROPERTIES
    EveryRowIsDecided
CHECK_DEADLOCK FALSE
