CONSTANTS
    Workers = {w1, w2}
    Clients = {c1}
    t1 = t1
    t3 = t3
    Tasks = {t1, t2, t3}
    Spawns <- MCSpawns
    Throwing = {}
    NoTask = NoTask
    NoThread = NoThread
    CanMove = FALSE
    SpawnMayFail = FALSE
SPECIFICATION FairSpec
PROPERTY ShutdownJoins
CHECK_DEADLOCK FALSE
