SPECIFICATION AllSpec
CONSTANTS
    t1 = t1  t2 = t2
    h1 = h1  h2 = h2  h3 = h3
    Tenants = {t1, t2}
    Handlers = {h1, h2, h3}
    Setters = {h1, h2}
    Exempt = {h3}
    Conns = {k1, k2}
    NoTenant = unset
    NoConn = none
    TenantOf <- TwoCompanies
    login = login  refresh = refresh  auth = auth
    Clients = {q1, q2}
    Routes = {login, refresh}
    Limit <- TwoLimits
    Bucket <- OneBucket
    Window = 2
    MaxReqs = 5
    MaxSeconds = 3
    MaxFailures = 1
    Companies = {c1, c2}
    Emails = {e1, e2}
    Passwords = {p1, p2}
    AccessLife = 1
    RefreshLife = 2
    ResetLife = 1
    MaxDays = 2
    MaxCalls = 4
    Scenes = {"alone", "open"}
CHECK_DEADLOCK FALSE
SYMMETRY Swaps
INVARIANT TypeOK
INVARIANT ScopedSeesOwn
INVARIANT PartsTyped
INVARIANT AccountsSound
PROPERTY IsolationHolds
PROPERTY LimiterSound
