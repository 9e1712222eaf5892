SPECIFICATION Spec
CONSTANTS
    a = a
    b = b
    c = c
    d = d
    t = t
    u = u
    p1 = p1
    p2 = p2
    lead = lead
    chief = chief
    Postings = {a, b, c, d, e}
    Open = {a, b, c, d}
    e = e
    Profiles = {p1, p2}
    Targets = {t, u}
    OnBoard <- MCOnBoard
    Role <- MCRole
    Owners <- MCOwners
    Rejects <- MCRejects
    Disabled = {}
    Flawed = {c}
    Sources <- MCSources
    PageSize = 2
    MaxPages = 2
    MaxQueries = 2
    MaxTries = 2
    MaxUpsets = 1
INVARIANTS OneRowPerRole PooledHasRow ReadingComplete
PROPERTIES ListedGetsRow
