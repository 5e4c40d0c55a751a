\* Changes notified between the initial scan and NORMAL_RUNNING.
SPECIFICATION Spec
CONSTANTS
    t1 = t1
    t2 = t2
    MaxChange = 3
    QueueCap = 1
    Timer = {t1, t2}
INVARIANT PendingIsCovered
CHECK_DEADLOCK FALSE
