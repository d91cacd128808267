SPECIFICATION TableSpec
CONSTANTS
    Tables <- MCTables
    Options <- MCOptions
    Widths = {9}
    MaxColumns = 2
    MaxResizes = 1
    Alphabets <- MCAlphabets
    MaxRow = 6
INVARIANT EscapedPipesKept
CHECK_DEADLOCK FALSE
