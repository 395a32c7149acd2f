SPECIFICATION FairSpec
CONSTANTS
    m1 = m1
    m2 = m2
    s1 = s1
    s2 = s2
    None = None
    Hosts = {h1, h2}
    MaxConcurrentSessions = 2
    MaxSessionsPerRemoteHost = 1
    Sessions = {s1, s2}
    Addresses = {1, 2}
    Messages = {m1, m2}
    To <- MCTo
    Contents <- MCContents
    Authors = {x, y}
    NoValue = NoValue
    MaxRecipients = 2
    MaxFaults = 1
INVARIANTS
    ForwardingSessionsAccounted
    CopiesAccounted
    ForwardedInTheNameOfRoute
PROPERTIES
    MailSettled
