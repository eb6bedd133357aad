SPECIFICATION ScriptsFairSpec
CONSTANTS
    Ids = {s1}
    Conns = {c1, c2}
    None = None
    MaxPrints = 1
    MaxTerminates = 1
    MaxBreaks = 1
    MaxCrashes = 1
    MaxFaults = 1
INVARIANTS ScriptsTypeOK Terminable WordsInOrder Truthful
PROPERTIES FinalOnThisConnection RunEnds VerdictArrives
CHECK_DEADLOCK FALSE
