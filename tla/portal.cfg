SPECIFICATION PortalSpec
CONSTANTS
    Null = Null
    Platform = Platform
    a = a  b = b  c = c
    s1 = s1  s2 = s2
    g1 = g1
    i1 = i1  i2 = i2
    People <- MCPeople
    Sites <- MCSites
    Groups <- MCGroups
    Invites <- MCInvites
    InvitedRoles <- MCInvitedRoles
    Starts <- MCStarts
    InvitedSites <- MCInvitedSites
    MaxScopes = 1
    Frequencies <- MCFrequencies
    EndOfTime = 2
    Largest = 9999
    BackBilling = FALSE
    Slots = {h1}
    MaxBusy = 1
INVARIANT ScreensAgree
PROPERTY LinksWork
PROPERTY SuperAdminRemains
PROPERTY NoWidening
INVARIANT PeriodsInSequence
PROPERTY NotBilledEarly
CHECK_DEADLOCK FALSE
