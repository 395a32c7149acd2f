SPECIFICATION DomainSpec
CONSTANTS
    u1 = u1
    u2 = u2
    adm = adm
    d1 = d1
    r1 = r1
    r2 = r2
    None = None
    Users = {u1, u2, adm}
    Admins = {adm}
    Domains = {d1}
    Requests = {r1, r2}
    MaxTokens = 2
SYMMETRY MCRequestSymmetry
INVARIANTS
    VerifiedWasPublished
PROPERTIES
    ImplementsRegistry
