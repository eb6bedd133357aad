SPECIFICATION WatchFairSpec
CONSTANTS
    Clients = {a1, a2}
    Admins = {m1}
    Conns = {c1, c2}
    None = None
    MaxClients = 2
    MaxAdmins = 1
    Bypass = TRUE
    DbFails = TRUE
    CloseFails = TRUE
    MaxInFlight = 2
PROPERTIES WatchedGoesFast UnwatchedSettles
CHECK_DEADLOCK FALSE
