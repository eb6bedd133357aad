SPECIFICATION LockoutFairSpec
CONSTANTS
    Overlays = {o1, o2}
    None = None
    Ended = Ended
    Enforcers = {"worker", "task"}
    MaxBlock = 1
    MaxPause = 1
    MayTamper = TRUE
    MaxTime = 2
    MaxCommands = 1
    MaxFaults = 1
INVARIANTS LockoutTypeOK BlockBounded OverlayBounded
PROPERTIES FrozenIsCovered FreeIsReleased
