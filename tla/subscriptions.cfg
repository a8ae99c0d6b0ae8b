SPECIFICATION FairSpec
CONSTANTS
    Null = Null
    Plans = {1, 2}
    LegacyPlans = {1}
    MaxSites <- MCMaxSites
    Subs = {x1, x2}
    MaxSchedules = 1
    MaxEvents = 2
    Sitecap = 3
    MaxSteps = 5
    Slots = {h1}
    MaxBusy = 1
    InOrder = TRUE
    Mortal <- MCRequests
INVARIANT RowMirrorsStripe
PROPERTY StaleEventsIgnored
PROPERTY EndedLosesAccess
PROPERTY LocalTrialsEnd
PROPERTY ScheduledChangeLands
CHECK_DEADLOCK FALSE
