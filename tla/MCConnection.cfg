CONSTANTS
    Conns = {k1, k2}
    Buffers = {b1, b2, b3}
    PoolSize = 1
    CanExpire = TRUE
SPECIFICATION Spec
INVARIANTS TypeOK SingleOp OpenIsWatched ManagedIffOpen BufferIffOpen
PROPERTY PoolConforms
SYMMETRY Symmetry
CHECK_DEADLOCK FALSE
