SPECIFICATION Spec
CONSTANTS
    Threads = {main, coroutine}
    NoThread = NoThread
    Functions = {first, second}
    None = None
    MaxFrames = 6
SYMMETRY Alike
CHECK_DEADLOCK FALSE
INVARIANT OriginalErrorRaised
