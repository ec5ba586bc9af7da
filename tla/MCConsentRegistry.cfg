CONSTANTS
    Hash = {h1, h2}
    Account = {admin, alice}
    Admin = admin
    MaxRound = 2
    MaxUint = 4
SPECIFICATION Spec
CHECK_DEADLOCK FALSE
INVARIANTS TypeOK ActiveCoversGranted StatsConsistent
PROPERTY ImplementsLifecycle
