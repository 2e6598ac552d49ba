CONSTANTS
    Workers = {w1, w2, w3}
    Clients = {c1, c2}
    t1 = t1
    t3 = t3
    Tasks = {t1, t2, t3, t4}
    Spawns <- MCSpawns
    Throwing = {t2}
    NoTask = NoTask
    NoThread = NoThread
    CanMove = TRUE
    SpawnMayFail = TRUE
SPECIFICATION FairSpec
INVARIANTS TypeOK TakeIsSafe TaskAccounted WorkConserving Drained
CHECK_DEADLOCK FALSE
PROPERTIES EnqueuedIsDone JoinUnlessMissed
