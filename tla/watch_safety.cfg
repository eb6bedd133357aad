SPECIFICATION WatchSpec
CONSTANTS
    Clients = {a1}
    Admins = {m1, m2}
    Conns = {c1, c2, c3}
    None = None
    MaxClients = 1
    MaxAdmins = 2
    Bypass = TRUE
    DbFails = FALSE
    CloseFails = TRUE
    MaxInFlight = 1
SYMMETRY WatchSymmetry
INVARIANTS WatchTypeOK WatchBacked WatchedNotSlowed SoleSessionReachable
CHECK_DEADLOCK FALSE
