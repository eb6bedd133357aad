SPECIFICATION PolicyFairSpec
CONSTANTS
    Sites = {d1, home}
    Allowed = {home}
    Hosts = {h1}
    Programs = {p1, p2}
    Protected = {p2}
    MaxUrls = 1
    MaxCommands = 3
    MaxFaults = 1
INVARIANTS PolicyTypeOK AdminLinesKept BlockedAsListed BlacklistStands
PROPERTIES ListedProgramsEnd
CHECK_DEADLOCK FALSE
