CONSTANTS
    Consent = {c1}
    Request = {r1, r2}
    MaxTime = 2
    MaxFaults = 0
    AwareDates = TRUE
SPECIFICATION Spec
CHECK_DEADLOCK FALSE
PROPERTY RevokedIsFinal
