SPECIFICATION LoopSpec
CHECK_DEADLOCK FALSE
CONSTANTS
    Signals = {term, stop}
    None = None
    Keys = {"up", "slash"}
    MaxEvents = 3
INVARIANT CleanupRestoresScreen
