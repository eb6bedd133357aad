SPECIFICATION Spec
CONSTANTS
    Clients = {a1}
    Admins = {m1}
    Conns = {c1, c2, c3}
    None = None
    MaxClients = 2
    MaxAdmins = 1
    Bypass = FALSE
    DbFails = FALSE
    CloseFails = FALSE
INVARIANTS LiveSessionRegistered
CHECK_DEADLOCK FALSE
