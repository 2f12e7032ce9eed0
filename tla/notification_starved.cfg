SPECIFICATION NotificationSpec
CONSTANTS
    Notice = {n1, n2}
    Tick = {t1}
    RetryCall = {}
    maxRetries = 1
    limit = 1
    MaxNoticeFaults = 0
PROPERTY FailedAreReprocessed
CHECK_DEADLOCK FALSE
