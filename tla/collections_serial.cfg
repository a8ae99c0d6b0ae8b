SPECIFICATION FairSpec
CONSTANTS
    b = b
    a = a
    s1 = s1
    Null = Null
    Orgs = {b, a}
    OrgType <- MCOrgType
    Sites = {s1}
    Listings = {l1}
    Items = {i1}
    MaxClaims = 1
    MaxPickups = 3
    Drivers = {d1, d2}
    Days = {}
    Requests = {r1}
    Workers = {r1}
    Providers = {b}
    Callers <- MCCallers
    OfferedTypes = {"HUMAN"}
    MaxQty = 2
    MaxLines = 1
    ClaimColumns <- MCMappedColumns
    MaxInFlight = 1
INVARIANT StockConserved
INVARIANT OneDriverPerClaim
INVARIANT CompletionSettlesClaim
PROPERTY CollectedIsFinal
PROPERTY DueListingsClose
CHECK_DEADLOCK FALSE
