CONSTANTS
    t1 = t1
    t2 = t2
    c1 = c1
    c2 = c2
    c3 = c3
    Tenant = {t1}
    Thread = {c1, c2}
    TenantOf <- OneTenant
    Key = {k1}
    Value = {v1, v2}
    Lost = Lost
    None = None
    MaxTid = 3
SPECIFICATION Spec
PROPERTY ServesWhatWasSaved
CHECK_DEADLOCK FALSE
