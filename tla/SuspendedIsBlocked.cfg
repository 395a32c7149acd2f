SPECIFICATION FairSpec
CONSTANTS
    n1 = n1
    n2 = n2
    c1 = c1
    c2 = c2
    t1 = t1
    t2 = t2
    None = None
    Ids = {n1}
    Tenants = {t1, t2}
    Clients = {c1, c2}
    TenantOf <- MCOneTenant
    SenderDisabled = {}
    MaxRetries = 2
    Backoff <- MCBackoff
    Delays = {0, 1}
    MaxEdits = 2
    MaxFaults = 0
PROPERTIES SuspendedIsBlocked
