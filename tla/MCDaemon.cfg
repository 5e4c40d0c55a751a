\* Three changes, a queue of one, two timer callbacks.
SPECIFICATION FairSpec
CONSTANTS
    t1 = t1
    t2 = t2
    MaxChange = 3
    QueueCap = 1
    Timer = {t1, t2}
INVARIANTS
    TypeOK
    EventScansFollowStartup
    OwedIsUnderWay
PROPERTIES
    NotifiedChangesAreScanned
    ShutdownEnds
CHECK_DEADLOCK FALSE
