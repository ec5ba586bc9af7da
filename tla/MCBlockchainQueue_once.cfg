CONSTANTS
    Processor = {p1, p2}
    MaxLen = 2
    MaxDead = 1
    MaxOps = 2
    MaxFaults = 0
    MaxOverruns = 0
SPECIFICATION Spec
CHECK_DEADLOCK FALSE
PROPERTY CompletedOnce
