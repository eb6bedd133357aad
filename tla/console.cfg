SPECIFICATION ConsoleSpec
CONSTANTS
    Clients = {a1, a2}
    Consoles = {m1}
    Nobody = Nobody
    MaxPause = 2
    MaxTime = 3
    MaxCommands = 3
    MaxLosses = 1
    MaxRequests = 2
SYMMETRY ClientSymmetry
INVARIANTS ConsoleTypeOK SelectionDeclared PausesKnown LapseAnnounced
CHECK_DEADLOCK FALSE
