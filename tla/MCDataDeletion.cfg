CONSTANTS
    Consent = {c1, c2}
    Request = {r1}
    Executor = {e1, e2}
    MaxTime = 2
    MaxFaults = 1
    AwareDates = TRUE
SPECIFICATION DeletionSpec
CHECK_DEADLOCK FALSE
SYMMETRY Symmetry
VIEW View
INVARIANTS DeletionTypeOK ErasedWhenCompleted AllOrNothing
PROPERTY NoResurrection
