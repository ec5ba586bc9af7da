CONSTANTS
    Officer = {o1, o2}
    Victim = {v1}
    Info = {i1, i2}
    Case = {g1}
    Clerk = {k1, k2}
    Resolution = 1
    MaxDay = 3
    Registration = {r1}
    Desk = {d1, d2}
    Grant = {n1, n2}
    ChildConsent = {x1, x2}
    Delivery = {d1}
    Replayer = {p1, p2}
    MaxRetries = 2
    MaxReplay = 2
    MaxAttempts = 2
    Reader = {f1, f2}
    MaxVersion = 2
    Socket = {s1, s2}
    Party = {q1, q2}
    Broadcast = {b1, b2}
    Device = {m1, m2}
    Owner = {u1, u2}
    Token = {t1}
    Listener = {h1, h2}
    Publication = {e1, e2}
    Middleware = {w1}
    App = {a1, a2}
    Caller = {c1, c2}
    MaxRound = 4
    MaxCalls = 1
    Event = {1, 2, 3, 4, 5}
    Size = {0, 3, 5, 6}
    Generator = {z1, z2}
    LogEntry = {11, 12}
    Record = {y1, y2}
    MaxLogs = 2
    Pairs = {{y1, y2}}
    MaxCrossed = 1
    Items = 3
    Creation = {j1}
    Check = {j2}
    RetryCount = 2
    PageLimit = 2
    MaxConsents = 2
    MaxSdkDay = 2
SPECIFICATION Spec
CHECK_DEADLOCK FALSE
INVARIANTS CaseworkSafe DeliverySafe RecordsSafe StructuresSafe
