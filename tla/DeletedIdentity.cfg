SPECIFICATION FairSpec
CONSTANTS
    u1 = u1
    u2 = u2
    adm = adm
    d1 = d1
    a1 = a1
    a2 = a2
    m1 = m1
    m2 = m2
    c1 = c1
    c2 = c2
    l1 = l1
    q1 = q1
    None = None
    Users = {u1}
    Admins = {}
    Domains = {d1}
    Addresses = {a1}
    Mailboxes = {m1}
    DomainOf <- MCDomainOf
    Calls = {c1, c2}
    Logins = {l1}
    Lookups = {}
    MaxCredentials = 3
PROPERTIES
    DeletedCannotAuthenticate
