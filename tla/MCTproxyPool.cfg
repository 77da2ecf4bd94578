SPECIFICATION FairSpec
CONSTANTS
    Worker = {w1, w2, w3}
    Task = {t1, t2, t3}
INVARIANTS TypeOK NoLostWakeup NothingLeftBehind
PROPERTIES QueueSpec EveryTaskStarted DestructorReturns
