CONSTANTS
    Request = {r1, r2, r3}
    NHandlers = 2
SPECIFICATION FairSpec
INVARIANTS TypeOK CleanupAfterDrain NoLostWakeup
PROPERTY ShutdownCompletes
CHECK_DEADLOCK FALSE
