CONSTANTS
    Conns = {k1}
    Buffers = {b1, b2, b3}
    PoolSize = 1
    CanExpire = FALSE
SPECIFICATION Spec
CHECK_DEADLOCK FALSE
INVARIANT NoCrash
