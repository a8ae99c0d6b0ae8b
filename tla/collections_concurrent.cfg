SPECIFICATION FairSpec
CONSTANTS
    b = b
    a = a
    s1 = s1
    Null = Null
    Orgs = {b, a}
    OrgType <- MCOrgType
    Sites = {s1}
    Listings = {l1}
    Items = {i1}
    MaxClaims = 1
    MaxPickups = 1
    Drivers = {d1}
    Days = {}
    Requests = {r1, r2}
    Workers = {}
    Providers = {b}
    Callers <- MCCallers
    OfferedTypes = {"HUMAN"}
    MaxQty = 1
    MaxLines = 1
    ClaimColumns <- MCColumns
    MaxInFlight = 2
PROPERTY AssignmentNeedsConsent
PROPERTY DeliveriesSettle
CHECK_DEADLOCK FALSE
