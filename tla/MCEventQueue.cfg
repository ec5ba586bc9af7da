CONSTANTS
    MaxEvent = 4
    Consumer = {c1, c2}
    Priority = {0, 1}
    Delay = {0, 4}
    Capacity = 2
    MaxTime = 6
SPECIFICATION FairSpec
CHECK_DEADLOCK FALSE
INVARIANTS TypeOK PendingAccurate
PROPERTIES NothingLost Delivered
