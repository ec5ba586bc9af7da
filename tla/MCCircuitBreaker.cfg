CONSTANTS
    Call = {c1, c2, c3}
    FailureThreshold = 2
    SuccessThreshold = 2
SPECIFICATION FairSpec
INVARIANTS TypeOK ThresholdsAct
PROPERTIES OpenHolds Recovers
