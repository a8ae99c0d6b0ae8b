SPECIFICATION ClaimsCancelSpec
CONSTANTS
    b = b
    a = a
    f = f
    s1 = s1
    s2 = s2
    Null = Null
    Orgs = {b, a, f}
    OrgType <- MCOrgType
    Sites = {s1, s2}
    Listings = {l1}
    Items = {i1}
    MaxClaims = 2
    MaxPickups = 0
    Drivers = {}
    Days = {}
    Requests = {r1}
    Workers = {w1}
    Providers = {b}
    Callers <- MCCallers
    OfferedTypes = {"HUMAN"}
    MaxQty = 1
    MaxLines = 1
    ClaimColumns <- MCColumns
PROPERTY CancelTakesEffect
CHECK_DEADLOCK FALSE
