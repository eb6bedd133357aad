SPECIFICATION OutboxSpec
CONSTANTS
    Clients = {a1}
    Admins = {}
    Conns = {c1}
    None = None
    MaxClients = 1
    MaxAdmins = 1
    Bypass = TRUE
    DbFails = FALSE
    CloseFails = FALSE
    Durable = {d, e}
    Transient = {}
    Large = {d}
    RetentionFirst = FALSE
    MaxLog = 3
    MaxDamage = 0
    MaxRestarts = 0
PROPERTIES AppliedInOrder
CHECK_DEADLOCK FALSE
