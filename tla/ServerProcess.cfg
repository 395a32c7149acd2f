SPECIFICATION ProcessSpec
CONSTANTS
    t1 = t1
    t2 = t2
    h1 = h1
    h2 = h2
    ann = ann
    bob = bob
    None = None
    c1 = c1
    rob = rob
    Tenants <- MCTenants
    Hosts <- MCHosts
    Emails <- MCUsers
    Users <- MCUsers
    AdminRole = {rob}
    EmailDomain <- MCEmailDomain
    Configs <- MCConfigs
    Files <- MCFiles
    Probed <- MCProbed
    Rebootstrapped <- MCRebootstrapped
    Calls = {c1}
    MaxBootstraps = 1
INVARIANTS
    TablesAreConfigured
    CacheIsCurrent
    ServedIsEntitled
    SubmissionStopsWhole
    OrderlyReturn
    
PROPERTY FailureEndsProcess
