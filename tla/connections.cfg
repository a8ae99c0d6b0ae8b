SPECIFICATION FairSpec
CONSTANTS
    Null = Null
    Connections = {c1, c2, c3}
    Charities = {ch1}
    Schedules <- MCSchedules
    Slots = {s1}
    MaxBusy = 1
PROPERTY FollowsContract
PROPERTY InvitationsEnd
CHECK_DEADLOCK FALSE
