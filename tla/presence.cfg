SPECIFICATION PresenceFairSpec
CONSTANTS
    Drivers = {d1, d2}
    Calls = {c1, c2, c3}
INVARIANT OfflineNotListed
PROPERTY StaleMembersPruned
CHECK_DEADLOCK FALSE
