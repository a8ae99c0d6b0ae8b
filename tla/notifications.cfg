SPECIFICATION NotificationsSpec
CONSTANTS
    Null = Null
    People = {u}
    Devices = {d1, d2}
    Expo = {d1}
    MaxNotes = 1
    Settings <- MCSettings
    MAX_TOKEN_RETRY_GENERATIONS = 2
    MAX_RECORDED_FAILURES_BEFORE_STOP = 1
    JOB_ATTEMPTS = 3
    RecoverLimit = 1
    LossPoints = {"queued"}
    MaxTroubles = 1
INVARIANT SettledHonestly
INVARIANT PushedOnce
PROPERTY RowsSettle
CHECK_DEADLOCK FALSE
