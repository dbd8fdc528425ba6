CONSTANTS
    t1 = t1
    t2 = t2
    c1 = c1
    c2 = c2
    c3 = c3
    Tenant = {t1, t2}
    Thread = {c1, c2, c3}
    TenantOf <- TwoTenants
    Key = {k1}
    Value = {v1}
    Lost = Lost
    None = None
    MaxTid = 5
SPECIFICATION Spec
INVARIANTS
    TypeOK
    TidsClean
    TenantIsolation
    OnlyPendingEraseBlocksSave
CHECK_DEADLOCK FALSE
