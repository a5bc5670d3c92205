SPECIFICATION Spec
CONSTANTS
    t1 = t1  t2 = t2
    h1 = h1  h2 = h2  h3 = h3
    Tenants = {t1, t2}
    Handlers = {h1, h2, h3}
    Setters = {h1, h2}
    Exempt = {}
    Conns = {c1, c2}
    NoTenant = unset
    NoConn = none
    TenantOf <- TwoCompanies
CHECK_DEADLOCK FALSE
INVARIANT OwnRowsFound
