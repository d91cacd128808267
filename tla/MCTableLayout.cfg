SPECIFICATION TableSpec
CONSTANTS
    Tables <- MCTables
    Options <- MCOptions
    Widths = {3, 9, 13}
    MaxColumns = 2
    MaxResizes = 1
    Alphabets <- MCAlphabets
    MaxRow = 6
INVARIANTS
    CellTextKept
    RowsAlign
    FitsWidth
    StylesEnd
    CellsReadAlone
CHECK_DEADLOCK FALSE
