SPECIFICATION FairSpec
CONSTANTS
    Clients = {a1}
    Admins = {}
    Conns = {c1, c2, c3}
    None = None
    MaxClients = 1
    MaxAdmins = 1
    Bypass = FALSE
    DbFails = TRUE
    CloseFails = TRUE
INVARIANTS TypeOK NoPhantomActive
PROPERTIES DeadHandlersEnd DeadEntriesRemoved
CHECK_DEADLOCK FALSE
