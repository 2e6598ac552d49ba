CONSTANTS
    Conns = {k1, k2}
    Buffers = {b1, b2, b3}
    PoolSize = 1
    CanExpire = FALSE
    Nobody = Nobody
SPECIFICATION ServerSpec
INVARIANTS  CleanReturn AlwaysAccepting ManagerAgrees
PROPERTIES ImplementsService
SYMMETRY Symmetry
CHECK_DEADLOCK FALSE
