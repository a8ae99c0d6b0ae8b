SPECIFICATION CrashSpec
CONSTANTS
    b = b
    a1 = a1
    a2 = a2
    d1 = d1
    d2 = d2
    i1 = i1
    Null = Null
    Orgs = {b, a1, a2}
    OrgType <- MCOrgType
    Sites = {}
    Listings = {l1}
    Items = {i1}
    MaxClaims = 0
    MaxPickups = 0
    Drivers = {}
    Days = {d1}
    Requests = {r1}
    Workers = {w1}
    Donor = b
    Receiver <- MCReceiver
    Schedule <- MCSchedule
    Pausable = {d1}
    EndOfTime = 4
    Surplus <- MCSurplus
    PushFailures = {"after"}
    MaxPush = 1
    MaxBusy = 2
    MayDie = TRUE
PROPERTY ReservedFoodIsFreed
PROPERTY AnswersStand
CHECK_DEADLOCK FALSE
