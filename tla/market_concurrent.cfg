SPECIFICATION PromptedSpec
CONSTANTS
    b = b
    a1 = a1
    a2 = a2
    s1 = s1
    s2 = s2
    d1 = d1
    d2 = d2
    i1 = i1
    Kgs = 2
    Null = Null
    Orgs = {b, a1, a2}
    OrgType <- MCOrgType
    Sites = {s1, s2}
    Listings = {l1}
    Items = {i1}
    MaxClaims = 1
    MaxPickups = 0
    Drivers = {}
    Days = {d1, d2}
    Requests = {r1}
    Workers = {w1}
    Providers = {}
    Callers <- MCCallers
    OfferedTypes = {"HUMAN"}
    MaxQty = 1
    MaxLines = 1
    ClaimColumns <- MCColumns
    Donor = b
    Receiver <- MCReceiver
    Schedule <- MCSchedule
    Pausable = {}
    EndOfTime = 2
    Surplus <- MCSurplus
    PushFailures = {"before"}
    MaxPush = 1
    MaxBusy = 2
    MayDie = TRUE
    MaxInFlight = 2
PROPERTY ReservationRespected
PROPERTY CollectedMeansClaimed
CHECK_DEADLOCK FALSE
