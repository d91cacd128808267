SPECIFICATION Spec
CHECK_DEADLOCK FALSE
CONSTANTS
    Options <- BothModes
    MaxConstructBytes = 8
    MaxRetainedRows = 2
    Marks = {"quote"}
    Texts = {"word", "bar", "row1", "row2", "delim", "loose"}
    MaxLines = 4
INVARIANTS
    Conservation
    RetainedIsHeld
