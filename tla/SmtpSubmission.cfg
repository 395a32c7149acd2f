SPECIFICATION FairSpec
CONSTANTS
    s1 = s1
    s2 = s2
    None = None
    Sessions <- MCSessions
    Hosts = {h1, h2}
    Identities = {i1}
    MaxConcurrentSessions = 2
    MaxSessionsPerRemoteHost = 1
    AuthFailureLimit = 1
    AuthFailureWindow = 2
    MessageLimit = 2
    MessageWindow = 2
    MaxRecipients = 1
    AllowInsecureAuth = TRUE
    TLSAvailable = TRUE
INVARIANTS
    SessionsAccounted
    LimitsHold
    
PROPERTIES
    LimitsLifted
