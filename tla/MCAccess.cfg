CONSTANTS
    google = google
    microsoft = microsoft
    a1 = a1
    a2 = a2
    a3 = a3
    Worker = {w1, w2}
    State = {s1, s2, s3}
    Provider = {google, microsoft, auth0}
    Configured = {google, microsoft}
    Account = {a1, a2, a3}
    ProviderOf <- MCProviderOf
    WithEmail = {a1}
    Wallet = {p1, p2}
    MaxRow = 2
    User = {u1, u2}
    Credential = {c1, c2}
    MaxObject = 4
    MaxChallenge = 4
    MaxCount = 2
    t1 = t1
    c1 = c1
    c2 = c2
    BillingWorker = {b1, b2}
    Tenant = {t1}
    Customer = {c1, c2}
    StripeEvent = {e1, e2}
    Content <- MCContent
    Inviter = {i1, i2}
    Member = {u1, u2}
    Limits = {1, 2}
    MaxMember = 3
    Call = {r1, r2}
    Org = {o1, o2}
    Checker = {k1, k2}
    TierLimit = {1, 3}
    Cost = {1, 2}
    MaxCounter = 6
    Entity = {n1, n2}
    Slug = {g1, g2}
    ServicePlan = {"free", "starter"}
    MaxUsage = 2
SPECIFICATION Spec
SYMMETRY Symmetry
CHECK_DEADLOCK FALSE
INVARIANTS OAuthSafe CredentialSafe BillingSafe TenancySafe
