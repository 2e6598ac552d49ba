CONSTANTS
    Conns = {k1}
    Buffers = {b1, b2}
    PoolSize = 1
    CanExpire = FALSE
    Nobody = Nobody
SPECIFICATION ServerFairSpec
PROPERTY SignalHonoured
CHECK_DEADLOCK FALSE
