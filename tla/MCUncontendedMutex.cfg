SPECIFICATION FairMutexSpec
CONSTANTS
    Thread = {t1, t2, t3}
    Nobody = Nobody
    MaxFlag = 4
INVARIANTS
    SleeperIsNotified
PROPERTIES
    LockHandedOver
    ImplementsLock
