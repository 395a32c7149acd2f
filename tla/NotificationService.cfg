SPECIFICATION Spec
CONSTANTS
    n1 = n1
    n2 = n2
    c1 = c1
    c2 = c2
    t1 = t1
    t2 = t2
    None = None
    Ids = {n1, n2}
    Tenants = {t1, t2}
    Clients = {c1, c2}
    TenantOf <- MCTwoTenants
    SenderDisabled = {n2}
    MaxRetries = 2
    Backoff <- MCBackoff
    Delays = {0, 1}
    MaxEdits = 2
    MaxFaults = 1
SYMMETRY MCClientSymmetry
INVARIANTS
    SentMeansDelivered
    AttemptBudget
    DeliveriesAccounted
    WorkerServesActiveTenants
PROPERTIES
    DispatchOnlyPending
    SettledIsFinal
