SPECIFICATION OutboxSpec
CONSTANTS
    Clients = {a1}
    Admins = {}
    Conns = {c1, c2}
    None = None
    MaxClients = 1
    MaxAdmins = 1
    Bypass = TRUE
    DbFails = FALSE
    CloseFails = FALSE
    Durable = {d}
    Transient = {x}
    Large = {d}
    RetentionFirst = FALSE
    MaxLog = 2
    MaxDamage = 1
    MaxRestarts = 1
SYMMETRY ConnSymmetry
INVARIANTS OutboxTypeOK OneQueuedPerType QueuedReachesConnected
PROPERTIES QueuedAccountedFor ImplementsSlots
CHECK_DEADLOCK FALSE
