SPECIFICATION MCSpec
CONSTANTS
    t1 = t1
    t2 = t2
    NoTenant = NoTenant
    NoCursor = NoCursor
    Ids = {1, 2}
    Tenants = {t1, t2}
    TenantOf <- MCOneTenantOf
    CreatedAt <- MCTwoCreated
    Texts <- MCTexts
    Limit = 1
    Filters = {"all", "queued"}
    Queries = {"", "x"}
    MaxChanges = 2
    MaxFaults = 1
    d1 = d1
    d2 = d2
    i1 = i1
    i2 = i2
    Nothing = Nothing
    Domains = {d1, d2}
    Identities = {i1, i2}
    DomainOf <- MCDomainOf
    Forwards = {1, 2}
    MaxSubmits = 3
    ProtectedPages = {"event-log", "smtp-relay"}
    MaxSessions = 3
    MaxUpsets = 3
INVARIANTS
    ShownIsSelected
    NoneSkipped
    
PROPERTIES
    LoadingEnds
    SessionFollowsHeader
    SignedInStays
    ImplementsPageSession
CHECK_DEADLOCK FALSE
