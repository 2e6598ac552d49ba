CONSTANTS
    Conns = {k1}
    Buffers = {b1, b2}
    PoolSize = 1
    CanExpire = TRUE
    Nobody = Nobody
SPECIFICATION ServerFairSpec
PROPERTIES ShutdownReturns OperationsEnd ClosedIsFreed
CHECK_DEADLOCK FALSE
