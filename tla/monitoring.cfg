SPECIFICATION MonitoringFairSpec
CONSTANTS
    Drives = {d1, d2}
    Starts = {0}
    HoursPerDay = 1
    WeekDays = 1
    RetentionDays = 1
    BatchSize = 1
    MaxTime = 2
    MaxTraffic = 2
    MaxMessages = 3
    MaxFaults = 1
INVARIANTS MonitoringTypeOK UsageFaithful UsbLogReplays
PROPERTIES RetentionHolds
CHECK_DEADLOCK FALSE
