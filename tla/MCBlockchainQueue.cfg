CONSTANTS
    Processor = {p1, p2}
    MaxLen = 2
    MaxDead = 2
    MaxOps = 3
    MaxFaults = 1
    MaxOverruns = 1
SPECIFICATION FairSpec
CHECK_DEADLOCK FALSE
INVARIANTS TypeOK HoldersBounded NothingVanishes
PROPERTIES ImplementsQueue Drains
