CONSTANTS
    Buffers = {b1, b2, b3, b4}
    Clients = {c1, c2}
    BufferSize = 2
    PoolSize = 2
    InitialLimit = 6
    Limits = {0, 4, 6}
    MaxFailures = 2
SPECIFICATION Spec
INVARIANTS TypeOK ExclusiveOwnership QuiescentPoolFull Accounting
PROPERTY LimitRespected
SYMMETRY Symmetry
