SPECIFICATION PagerSpec
CHECK_DEADLOCK FALSE
CONSTANTS
    Signals = {term, stop}
    None = None
    Keys = {"up", "slash"}
    MaxEvents = 3
    Units <- MCUnits
    Inputs <- MCInputs
    Rendered <- MCRendered
    Sizes <- MCSizes
    Typed = {"s", "W1", "W2"}
    MinRenderWidth = 3
    AnchorBytes = 3
    MaxQuery = 4
INVARIANTS
    ModesRestored
    SignalsReachCaller
    RowsFaithful
    MatchesFresh
PROPERTIES
    RestoredBeforeSignal
    TerminationReturns
    ResizeFollowed
    DisplayFollows
    PlaceKept
