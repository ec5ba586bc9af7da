CONSTANTS
    MaxEvent = 1
    Consumer = {c1}
    Priority = {0}
    Delay = {0}
    Capacity = 1
    MaxTime = 2
SPECIFICATION Spec
CHECK_DEADLOCK FALSE
INVARIANT NackRequeues
