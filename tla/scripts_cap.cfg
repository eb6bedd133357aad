SPECIFICATION ScriptsFairSpec
CONSTANTS
    Ids = {s1}
    Conns = {c1, c2}
    None = None
    MaxPrints = 1
    MaxTerminates = 0
    MaxBreaks = 1
    MaxCrashes = 0
    MaxFaults = 0
PROPERTIES StoppedAtCap
CHECK_DEADLOCK FALSE
