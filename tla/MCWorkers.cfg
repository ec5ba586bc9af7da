CONSTANTS
    Consent = {c1}
    Request = {r1, r2}
    MaxTime = 2
    MaxFaults = 1
    AwareDates = TRUE
    Erasure = {e1, e2}
    DeadlineDays = 1
    ReminderDays = {1}
    MaxDate = 3
    MaxJobFaults = 1
SPECIFICATION WorkersSpec
CHECK_DEADLOCK FALSE
INVARIANTS TypeOK ChainFirst ChainAnswered DeadlineSafe
PROPERTIES RevocationSettles GrantedExpires OverdueEscalated
